--------------------------- MODULE RegistryProofs ---------------------------
(***************************************************************************)
(* Registry and LoadTest for every number of replicas, requests, sessions   *)
(* and viewers, every file and under every fault: a session is created      *)
(* once and not forgotten, a stop stands, and only faults cost a viewer of  *)
(* the load test its connection.                                           *)
(***************************************************************************)
EXTENDS LoadTest, RankProofs

-----------------------------------------------------------------------------
(* SessionConfig.                                                          *)

\* No element twice.
Unrepeated(seq) == \A i, j \in DOMAIN seq : seq[i] = seq[j] => i = j

\* dict.fromkeys: every element is kept, once, in the order of the first of each.
THEOREM FirstOfEach ==
    ASSUME NEW S, NEW langs \in Seq(S)
    PROVE  /\ Distinct(langs) \in Seq(S)
           /\ Unrepeated(Distinct(langs))
           /\ \A x : Has(Distinct(langs), x) <=> Has(langs, x)
           /\ \A k, l \in DOMAIN Distinct(langs) : k < l =>
                 \E i \in DOMAIN langs : /\ langs[i] = Distinct(langs)[k]
                                        /\ \A j \in 1..i : langs[j] # Distinct(langs)[l]
<1> DEFINE n == Len(langs)
           R == {i \in DOMAIN langs : ~Has(SubSeq(langs, 1, i - 1), langs[i])}
           f == Ascending(R)
           d == Distinct(langs)
<1>1. n \in Nat /\ DOMAIN langs = 1..n /\ \A i \in 1..n : langs[i] \in S
  OBVIOUS
<1>2. \A i \in 1..n : i \in R <=> \A j \in 1..(i - 1) : langs[j] # langs[i]
  <2>1. ASSUME NEW i \in 1..n
        PROVE  /\ DOMAIN SubSeq(langs, 1, i - 1) = 1..(i - 1)
               /\ \A j \in 1..(i - 1) : SubSeq(langs, 1, i - 1)[j] = langs[j]
    BY <1>1
  <2> QED
    BY <1>1, <2>1 DEF Has
<1>3. R \in SUBSET (1..n)
  BY <1>1
<1>4. d = [k \in DOMAIN f |-> langs[f[k]]]
  BY DEF Distinct
<1> HIDE DEF n, R, f, d
<1>5. Cardinality(R) \in Nat /\ f \in [1..Cardinality(R) -> R]
  BY <1>1, <1>3, AscendingSorts DEF f
<1>6. \A k, l \in 1..Cardinality(R) : k < l => f[k] < f[l]
  BY <1>1, <1>3, AscendingSorts DEF f
<1>7. \A i \in R : \E k \in 1..Cardinality(R) : f[k] = i
  BY <1>1, <1>3, AscendingSorts DEF f
<1>8. /\ DOMAIN d = 1..Cardinality(R)
      /\ \A k \in 1..Cardinality(R) : d[k] = langs[f[k]] /\ f[k] \in R /\ f[k] \in 1..n
  BY <1>3, <1>4, <1>5
<1>9. d \in Seq(S)
  <2>1. d = [k \in 1..Cardinality(R) |-> d[k]]
    BY <1>4, <1>8
  <2>2. \A k \in 1..Cardinality(R) : d[k] \in S
    BY <1>1, <1>8
  <2> QED
    BY <1>5, <2>1, <2>2
<1>10. ASSUME NEW k \in 1..Cardinality(R), NEW l \in 1..Cardinality(R), k < l
       PROVE  d[k] # d[l]
  <2>1. f[k] < f[l] /\ f[k] \in 1..n /\ f[l] \in 1..n /\ f[l] \in R
    BY <1>6, <1>8, <1>10
  <2>2. f[k] \in 1..(f[l] - 1)
    BY <1>1, <2>1
  <2> QED
    BY <1>2, <1>8, <2>1, <2>2
<1>11. Unrepeated(d)
  <2>1. \A k, l \in 1..Cardinality(R) : k = l \/ k < l \/ l < k
    BY <1>5
  <2> QED
    BY <1>8, <1>10, <2>1 DEF Unrepeated
<1>12. ASSUME NEW i \in 1..n
       PROVE  \E k \in DOMAIN d : d[k] = langs[i]
  <2> DEFINE T == {j \in 1..n : langs[j] = langs[i]}
  <2>1. T \in SUBSET Nat /\ T # {}
    BY <1>1
  <2>2. PICK m \in T : \A y \in T : m <= y
    <3> HIDE DEF T
    <3> QED
      BY <2>1, LeastNumber
  <2>3. m \in 1..n /\ langs[m] = langs[i]
    OBVIOUS
  <2>4. \A j \in 1..(m - 1) : j \in 1..n /\ ~ (m <= j)
    BY <1>1, <2>3
  <2>5. m \in R
    BY <1>2, <2>2, <2>3, <2>4
  <2> QED
    BY <1>7, <1>8, <2>3, <2>5
<1>13. \A x : Has(d, x) <=> Has(langs, x)
  BY <1>1, <1>8, <1>12 DEF Has
<1>14. ASSUME NEW k \in DOMAIN d, NEW l \in DOMAIN d, k < l
       PROVE  \E i \in DOMAIN langs : langs[i] = d[k] /\ \A j \in 1..i : langs[j] # d[l]
  <2>1. f[k] < f[l] /\ f[k] \in 1..n /\ f[l] \in 1..n /\ f[l] \in R
    BY <1>6, <1>8, <1>14
  <2>2. \A j \in 1..f[k] : j \in 1..(f[l] - 1)
    BY <1>1, <2>1
  <2>3. \A j \in 1..f[k] : langs[j] # d[l]
    BY <1>2, <1>8, <2>1, <2>2
  <2>4. langs[f[k]] = d[k] /\ f[k] \in DOMAIN langs
    BY <1>1, <1>8, <2>1
  <2> QED
    BY <2>3, <2>4
<1> QED
  BY <1>9, <1>11, <1>13, <1>14 DEF d

\* The validators keep the fields of a configuration what they are.
LEMMA ValidatedType ==
    ASSUME NEW b \in Bodies
    PROVE  Validated(b) \in [source : STRING, targets : Seq(STRING)]
<1>1. b.source \in STRING /\ b.targets \in Seq(STRING)
  BY RegistryAssumption
<1>2. Distinct(b.targets) \in Seq(STRING)
  BY <1>1, FirstOfEach
<1> QED
  BY <1>1, <1>2 DEF Validated


-----------------------------------------------------------------------------
(* The invariant.                                                          *)

Configs == {Validated(b) : b \in {x \in Bodies : Valid(x)}}
Request == [id : Sids, config : Configs]

\* Between SET NX and the confirmation: t alone creates its session.
Owns(t) == at[t] \in {"list", "exists", "state"}

Types ==
    /\ config \in [Sids -> Configs \cup {Absent}]
    /\ listed \subseteq Sids
    /\ state \in [Sids -> Status \cup {Absent}]
    /\ at \in [Tasks -> Saving \cup {"off", "up"}]
    /\ pos \in [Replicas -> 0..Len(File)]
    /\ DOMAIN body = Posts /\ DOMAIN by = Posts
    /\ granted \in [Sids -> Seq(Configs)]

\* A task that saves has something to save.
Busy ==
    /\ \A r \in Replicas : at[r] \in Saving => pos[r] \in 1..Len(File)
    /\ \A p \in Posts : at[p] \in Saving => body[p] \in Request

OwnersWrote ==
    \A t \in Tasks : Owns(t) =>
        config[Sid(t)] = Saves(t).config /\ granted[Sid(t)] = <<>>

OneOwner == \A t, u \in Tasks : Owns(t) /\ Owns(u) /\ Sid(t) = Sid(u) => t = u

OwnersListed == \A t \in Tasks : at[t] \in {"exists", "state"} => Sid(t) \in listed

Confirmed == \A s \in Sids : granted[s] # <<>> =>
    /\ granted[s] = <<config[s]>> /\ config[s] # Absent
    /\ s \in listed /\ state[s] # Absent

Remembered == \A s \in Sids : config[s] # Absent => s \in listed \cup torn \/ BeingListed(s)

\* How much of the file a replica has seen to.
Seen(r, i) == at[r] = "up" \/ (at[r] \in Saving /\ i < pos[r]) \/ (Owns(r) /\ i = pos[r])

Seeded == \A r \in Replicas : \A i \in DOMAIN File : Seen(r, i) => config[File[i].id] # Absent

IInv ==
    /\ Types /\ Busy
    /\ OwnersWrote /\ OneOwner /\ OwnersListed
    /\ Confirmed /\ Remembered /\ Seeded

-----------------------------------------------------------------------------
(* What tasks do to themselves.                                            *)

LEMMA FileFacts ==
    /\ Len(File) \in Nat /\ DOMAIN File = 1..Len(File)
    /\ \A i \in DOMAIN File : File[i].id \in Sids /\ Entry(i) \in Request
<1> DEFINE Rows == [id : Sids, config : Bodies]
<1>1. File \in Seq(Rows)
  BY RegistryAssumption
<1> HIDE DEF Rows
<1>2. Len(File) \in Nat /\ DOMAIN File = 1..Len(File)
  BY <1>1
<1>3. ASSUME NEW i \in DOMAIN File
      PROVE  File[i].id \in Sids /\ File[i].config \in {x \in Bodies : Valid(x)}
  <2>1. File[i] \in Rows
    BY <1>1, <1>2
  <2>2. Valid(File[i].config)
    BY RegistryAssumption
  <2> QED
    BY <2>1, <2>2 DEF Rows
<1> QED
  BY <1>2, <1>3 DEF Entry, Request, Configs

LEMMA ConfigsAreThere == \A c \in Configs : c # Absent
BY RegistryAssumption DEF Configs

LEMMA StatusIsThere == \A st \in Status : st # Absent
BY RegistryAssumption DEF Status, Finished

\* What a task saves is a configuration with a session id.
LEMMA SavesRequests ==
    ASSUME Busy, NEW t \in Tasks, at[t] \in Saving
    PROVE  Saves(t) \in Request /\ Sid(t) \in Sids /\ Saves(t).config \in Configs
BY FileFacts DEF Busy, Tasks, Saves, Sid, Request

\* Every other task is where it was, with what it saves.
Alone(t) == \A u \in Tasks \ {t} : at'[u] = at[u] /\ Saves(u)' = Saves(u) /\ Sid(u)' = Sid(u)

LEMMA GoesOn ==
    ASSUME Types, NEW t \in Tasks, NEW step, Goes(t, step)
    PROVE  /\ at' = [at EXCEPT ![t] = step] /\ at'[t] = step
           /\ \A u \in Tasks : Saves(u)' = Saves(u) /\ Sid(u)' = Sid(u)
           /\ Alone(t)
BY DEF Types, Goes, Saves, Sid, Alone

LEMMA Returning ==
    ASSUME Types, Busy, NEW t \in Tasks, at[t] \in Saving, Returns(t)
    PROVE  /\ at' \in [Tasks -> Saving \cup {"off", "up"}]
           /\ pos' \in [Replicas -> 0..Len(File)]
           /\ DOMAIN body' = Posts /\ DOMAIN by' = Posts
           /\ Alone(t)
           /\ at'[t] \in {"off", "up", "config"}
           /\ t \in Posts => at'[t] = "off"
           /\ t \in Replicas =>
                \/ at'[t] = "up" /\ pos[t] = Len(File)
                \/ at'[t] = "config" /\ pos'[t] = pos[t] + 1 /\ pos'[t] \in 1..Len(File)
<1>1. Replicas \cap Posts = {} /\ Tasks = Replicas \cup Posts
  BY RegistryAssumption DEF Tasks
<1>2. CASE t \in Replicas /\ pos[t] < Len(File)
  <2>1. /\ pos' = [pos EXCEPT ![t] = @ + 1] /\ at' = [at EXCEPT ![t] = "config"]
        /\ UNCHANGED <<body, by>>
    BY <1>2 DEF Returns
  <2>2. pos[t] \in 1..Len(File) /\ pos'[t] \in 1..Len(File)
    BY <1>2, <2>1, FileFacts DEF Types, Busy
  <2> QED
    BY <1>1, <1>2, <2>1, <2>2, FileFacts DEF Types, Saving, Alone, Saves, Sid
<1>3. CASE ~(t \in Replicas /\ pos[t] < Len(File))
  <2>1. Done(t, IF t \in Replicas THEN "up" ELSE "off")
    BY <1>3 DEF Returns
  <2>2. t \in Replicas => pos[t] = Len(File)
    BY <1>3, FileFacts DEF Busy
  <2>3. at' = [at EXCEPT ![t] = IF t \in Replicas THEN "up" ELSE "off"]
    BY <2>1 DEF Done
  <2>4. pos' = [r \in Replicas |-> IF r = t THEN 0 ELSE pos[r]]
    BY <2>1 DEF Done
  <2>5. /\ body' = [p \in Posts |-> IF p = t THEN Absent ELSE body[p]]
        /\ by' = [p \in Posts |-> IF p = t THEN Absent ELSE by[p]]
    BY <2>1 DEF Done
  <2>6. Alone(t)
    BY <1>1, <2>3, <2>4, <2>5 DEF Types, Alone, Saves, Sid
  <2>7. pos' \in [Replicas -> 0..Len(File)]
    BY <2>4, FileFacts DEF Types
  <2> QED
    BY <1>1, <1>3, <2>2, <2>3, <2>5, <2>6, <2>7 DEF Types
<1> QED
  BY <1>2, <1>3

-----------------------------------------------------------------------------
(* The steps of save_session.                                              *)

LEMMA ClaimPreserves ==
    ASSUME IInv, NEW t \in Tasks, SetConfig(t)
    PROVE  IInv'
<1> DEFINE sid == Sid(t)
<1> USE DEF Owns, Saving
<1>1. /\ at[t] = "config" /\ config[sid] = Absent
      /\ config' = [config EXCEPT ![sid] = Saves(t).config]
      /\ Goes(t, "list")
      /\ UNCHANGED <<listed, state, granted, torn, pos, body, by>>
  BY DEF SetConfig, Free, history, Goes
<1>2. /\ at' = [at EXCEPT ![t] = "list"] /\ at'[t] = "list"
      /\ \A u \in Tasks : Saves(u)' = Saves(u) /\ Sid(u)' = Sid(u)
      /\ \A u \in Tasks \ {t} : at'[u] = at[u]
  BY <1>1, GoesOn DEF IInv, Alone
<1>3. Saves(t).config \in Configs /\ Saves(t).config # Absent /\ sid \in Sids
  BY <1>1, SavesRequests, ConfigsAreThere DEF IInv
<1>4. /\ config'[sid] = Saves(t).config
      /\ \A s \in Sids \ {sid} : config'[s] = config[s]
  BY <1>1, <1>3 DEF IInv, Types
<1>5. granted[sid] = <<>>
  BY <1>1, <1>3 DEF IInv, Confirmed
<1>6. \A u \in Tasks : Owns(u) => Sid(u) # sid
  <2> SUFFICES ASSUME NEW u \in Tasks, Owns(u), Sid(u) = sid PROVE FALSE
    OBVIOUS
  <2>1. config[sid] = Saves(u).config
    BY DEF IInv, OwnersWrote
  <2>2. Saves(u).config # Absent
    BY SavesRequests, ConfigsAreThere DEF IInv
  <2> QED
    BY <1>1, <2>1, <2>2
<1>7. Types'
  BY <1>1, <1>2, <1>3 DEF IInv, Types
<1>8. Busy'
  BY <1>1, <1>2 DEF IInv, Busy, Tasks
<1>9. OwnersWrote'
  <2> SUFFICES ASSUME NEW u \in Tasks, Owns(u)'
               PROVE  config'[Sid(u)] = Saves(u).config /\ granted[Sid(u)] = <<>>
    BY <1>1, <1>2 DEF OwnersWrote
  <2>1. CASE u = t
    BY <2>1, <1>4, <1>5
  <2>2. CASE u # t
    <3>1. Owns(u) /\ Sid(u) \in Sids
      BY <2>2, <1>2, SavesRequests DEF IInv
    <3> QED
      BY <3>1, <1>4, <1>6 DEF IInv, OwnersWrote
  <2> QED
    BY <2>1, <2>2
<1>10. OneOwner'
  BY <1>2, <1>6 DEF IInv, OneOwner
<1>11. OwnersListed'
  BY <1>1, <1>2 DEF IInv, OwnersListed
<1>12. Confirmed'
  BY <1>1, <1>4, <1>5 DEF IInv, Confirmed
<1>13. Remembered'
  <2> SUFFICES ASSUME NEW s \in Sids, config'[s] # Absent
               PROVE  s \in listed \cup torn \/ BeingListed(s)'
    BY <1>1 DEF Remembered
  <2>1. CASE s = sid
    BY <2>1, <1>2 DEF BeingListed
  <2>2. CASE s # sid
    BY <2>2, <1>1, <1>2, <1>4 DEF IInv, Remembered, BeingListed
  <2> QED
    BY <2>1, <2>2
<1>14. Seeded'
  <2> SUFFICES ASSUME NEW r \in Replicas, NEW i \in DOMAIN File, Seen(r, i)'
               PROVE  config'[File[i].id] # Absent
    BY DEF Seeded
  <2>1. File[i].id \in Sids
    BY FileFacts
  <2>2. CASE File[i].id = sid
    BY <2>2, <1>3, <1>4
  <2>3. CASE File[i].id # sid
    <3>1. r = t => i # pos[r]
      BY <2>3 DEF Sid, Saves, Entry
    <3>2. r \in Tasks
      BY DEF Tasks
    <3>3. Seen(r, i)
      BY <3>1, <3>2, <1>1, <1>2 DEF Seen
    <3> QED
      BY <2>1, <2>3, <3>3, <1>4 DEF IInv, Seeded
  <2> QED
    BY <2>2, <2>3
<1> QED
  BY <1>7, <1>8, <1>9, <1>10, <1>11, <1>12, <1>13, <1>14 DEF IInv

\* A task that does not own its session returns.
LEMMA TakenPreserves ==
    ASSUME IInv, NEW t \in Tasks, ConfigTaken(t)
    PROVE  IInv'
<1> DEFINE sid == Sid(t)
<1> USE DEF Owns, Saving
<1>1. /\ at[t] = "config" /\ config[sid] # Absent
      /\ Returns(t)
      /\ UNCHANGED <<config, listed, state, granted, torn>>
  BY DEF ConfigTaken, Free, history, keys
<1>2. /\ at' \in [Tasks -> Saving \cup {"off", "up"}]
      /\ pos' \in [Replicas -> 0..Len(File)]
      /\ DOMAIN body' = Posts /\ DOMAIN by' = Posts
      /\ Alone(t)
      /\ at'[t] \in {"off", "up", "config"}
      /\ t \in Posts => at'[t] = "off"
      /\ t \in Replicas =>
            \/ at'[t] = "up" /\ pos[t] = Len(File)
            \/ at'[t] = "config" /\ pos'[t] = pos[t] + 1 /\ pos'[t] \in 1..Len(File)
  BY <1>1, Returning DEF IInv
<1>3. \A u \in Tasks \ {t} : at'[u] = at[u] /\ Saves(u)' = Saves(u) /\ Sid(u)' = Sid(u)
  BY <1>2 DEF Alone
<1>4. \A u \in Tasks : at'[u] \in {"list", "exists", "state"} =>
        u # t /\ at'[u] = at[u] /\ Saves(u)' = Saves(u) /\ Sid(u)' = Sid(u)
  BY <1>2, <1>3
<1>5. Types'
  BY <1>1, <1>2 DEF IInv, Types
<1>6. Busy'
  <2>1. \A p \in Posts : at'[p] \in Saving => p # t /\ at'[p] = at[p] /\ body'[p] = body[p]
    BY <1>2, <1>3, RegistryAssumption DEF Saves, Tasks
  <2>2. \A r \in Replicas \ {t} : at'[r] = at[r]
    BY <1>3 DEF Tasks
  <2>3. \A r \in Replicas \ {t} : pos'[r] = pos[r]
    BY <1>1 DEF IInv, Types, Returns, Done
  <2> QED
    BY <1>2, <2>1, <2>2, <2>3 DEF IInv, Busy
<1>7. OwnersWrote'
  BY <1>1, <1>4 DEF IInv, OwnersWrote
<1>8. OneOwner'
  BY <1>4 DEF IInv, OneOwner
<1>9. OwnersListed'
  BY <1>1, <1>4 DEF IInv, OwnersListed
<1>10. Confirmed'
  BY <1>1 DEF IInv, Confirmed
<1>11. Remembered'
  BY <1>1, <1>3 DEF IInv, Remembered, BeingListed
<1>12. Seeded'
  <2> SUFFICES ASSUME NEW r \in Replicas, NEW i \in DOMAIN File, Seen(r, i)'
               PROVE  config[File[i].id] # Absent
    BY <1>1 DEF Seeded
  <2>1. r \in Tasks
    BY DEF Tasks
  <2>2. CASE r # t
    <3>1. pos'[r] = pos[r]
      BY <2>2, <1>1 DEF IInv, Types, Returns, Done
    <3>2. Seen(r, i)
      BY <2>1, <2>2, <3>1, <1>3 DEF Seen
    <3> QED
      BY <3>2 DEF IInv, Seeded
  <2>3. CASE r = t
    <3>1. i = pos[r] \/ i < pos[r]
      BY <2>3, <1>2, FileFacts DEF Seen, IInv, Types
    <3>2. i = pos[r] => File[i].id = sid
      BY <2>3 DEF Sid, Saves, Entry
    <3>3. i < pos[r] => Seen(r, i)
      BY <2>3, <1>1 DEF Seen
    <3> QED
      BY <3>1, <3>2, <3>3, <1>1 DEF IInv, Seeded
  <2> QED
    BY <2>2, <2>3
<1> QED
  BY <1>5, <1>6, <1>7, <1>8, <1>9, <1>10, <1>11, <1>12 DEF IInv

\* The owner of a session is confirmed: it has a state by then.
LEMMA ConfirmPreserves ==
    ASSUME IInv, NEW t \in Tasks, at[t] \in {"exists", "state"}, Confirm(t),
           UNCHANGED <<config, listed>>,
           state' \in [Sids -> Status \cup {Absent}], state'[Sid(t)] # Absent,
           \A s \in Sids \ {Sid(t)} : state'[s] = state[s]
    PROVE  IInv'
<1> DEFINE sid == Sid(t)
<1> USE DEF Owns, Saving
<1>1. /\ granted' = [granted EXCEPT ![sid] = Append(@, Saves(t).config)]
      /\ Returns(t) /\ torn' = torn
  BY DEF Confirm
<1>2. /\ at' \in [Tasks -> Saving \cup {"off", "up"}]
      /\ pos' \in [Replicas -> 0..Len(File)]
      /\ DOMAIN body' = Posts /\ DOMAIN by' = Posts
      /\ Alone(t)
      /\ at'[t] \in {"off", "up", "config"}
      /\ t \in Posts => at'[t] = "off"
      /\ t \in Replicas =>
            \/ at'[t] = "up" /\ pos[t] = Len(File)
            \/ at'[t] = "config" /\ pos'[t] = pos[t] + 1 /\ pos'[t] \in 1..Len(File)
  BY <1>1, Returning DEF IInv
<1>3. \A u \in Tasks \ {t} : at'[u] = at[u] /\ Saves(u)' = Saves(u) /\ Sid(u)' = Sid(u)
  BY <1>2 DEF Alone
<1>4. \A u \in Tasks : at'[u] \in {"list", "exists", "state"} =>
        u # t /\ at'[u] = at[u] /\ Saves(u)' = Saves(u) /\ Sid(u)' = Sid(u)
  BY <1>2, <1>3
<1>5. /\ sid \in Sids /\ Saves(t).config \in Configs /\ Saves(t).config # Absent
      /\ config[sid] = Saves(t).config /\ granted[sid] = <<>> /\ sid \in listed
  BY SavesRequests, ConfigsAreThere DEF IInv, OwnersWrote, OwnersListed
<1>6. granted' \in [Sids -> Seq(Configs)] /\ granted'[sid] = <<config[sid]>>
  BY <1>1, <1>5 DEF IInv, Types
<1>7. \A s \in Sids \ {sid} : granted'[s] = granted[s]
  BY <1>1 DEF IInv, Types
<1>8. Types'
  BY <1>2, <1>6 DEF IInv, Types
<1>9. Busy'
  <2>1. \A p \in Posts : at'[p] \in Saving => p # t /\ at'[p] = at[p] /\ body'[p] = body[p]
    BY <1>2, <1>3, RegistryAssumption DEF Saves, Tasks
  <2>2. \A r \in Replicas \ {t} : at'[r] = at[r]
    BY <1>3 DEF Tasks
  <2>3. \A r \in Replicas \ {t} : pos'[r] = pos[r]
    BY <1>1 DEF IInv, Types, Returns, Done
  <2> QED
    BY <1>2, <2>1, <2>2, <2>3 DEF IInv, Busy
<1>10. OwnersWrote'
  <2> SUFFICES ASSUME NEW u \in Tasks, Owns(u)'
               PROVE  (config[Sid(u)] = Saves(u).config /\ granted[Sid(u)] = <<>>)'
    BY DEF OwnersWrote
  <2>1. Owns(u) /\ u # t /\ Sid(u)' = Sid(u) /\ Saves(u)' = Saves(u)
    BY <1>4
  <2>2. Sid(u) # sid /\ Sid(u) \in Sids
    BY <2>1, SavesRequests DEF IInv, OneOwner
  <2> QED
    BY <2>1, <2>2, <1>7 DEF IInv, OwnersWrote
<1>11. OneOwner'
  BY <1>4 DEF IInv, OneOwner
<1>12. OwnersListed'
  BY <1>4 DEF IInv, OwnersListed
<1>13. Confirmed'
  BY <1>5, <1>6, <1>7 DEF IInv, Confirmed
<1>14. Remembered'
  BY <1>1, <1>3 DEF IInv, Remembered, BeingListed
<1>15. Seeded'
  <2> SUFFICES ASSUME NEW r \in Replicas, NEW i \in DOMAIN File, Seen(r, i)'
               PROVE  config[File[i].id] # Absent
    BY DEF Seeded
  <2>1. r \in Tasks
    BY DEF Tasks
  <2>2. CASE r # t
    <3>1. pos'[r] = pos[r]
      BY <2>2, <1>1 DEF IInv, Types, Returns, Done
    <3>2. Seen(r, i)
      BY <2>1, <2>2, <3>1, <1>3 DEF Seen
    <3> QED
      BY <3>2 DEF IInv, Seeded
  <2>3. CASE r = t
    <3>1. i = pos[r] \/ i < pos[r]
      BY <2>3, <1>2, FileFacts DEF Seen, IInv, Types
    <3>2. Seen(r, i)
      BY <2>3, <3>1 DEF Seen
    <3> QED
      BY <3>2 DEF IInv, Seeded
  <2> QED
    BY <2>2, <2>3
<1> QED
  BY <1>8, <1>9, <1>10, <1>11, <1>12, <1>13, <1>14, <1>15 DEF IInv

\* SET NX is applied, but who sent it does not know.
LEMMA LostReplyPreserves ==
    ASSUME IInv, NEW t \in Tasks, ConfigReplyLost(t)
    PROVE  IInv'
<1> DEFINE sid == Sid(t)
<1> USE DEF Owns, Saving
<1>1. /\ at[t] = "config" /\ config[sid] = Absent
      /\ config' = [config EXCEPT ![sid] = Saves(t).config]
      /\ torn' = torn \cup {sid}
      /\ Returns(t)
      /\ UNCHANGED <<listed, state, granted>>
  BY DEF ConfigReplyLost, Free
<1>2. /\ at' \in [Tasks -> Saving \cup {"off", "up"}]
      /\ pos' \in [Replicas -> 0..Len(File)]
      /\ DOMAIN body' = Posts /\ DOMAIN by' = Posts
      /\ Alone(t)
      /\ at'[t] \in {"off", "up", "config"}
      /\ t \in Posts => at'[t] = "off"
      /\ t \in Replicas =>
            \/ at'[t] = "up" /\ pos[t] = Len(File)
            \/ at'[t] = "config" /\ pos'[t] = pos[t] + 1 /\ pos'[t] \in 1..Len(File)
  BY <1>1, Returning DEF IInv
<1>3. \A u \in Tasks \ {t} : at'[u] = at[u] /\ Saves(u)' = Saves(u) /\ Sid(u)' = Sid(u)
  BY <1>2 DEF Alone
<1>4. \A u \in Tasks : at'[u] \in {"list", "exists", "state"} =>
        u # t /\ at'[u] = at[u] /\ Saves(u)' = Saves(u) /\ Sid(u)' = Sid(u)
  BY <1>2, <1>3
<1>5. Saves(t).config \in Configs /\ Saves(t).config # Absent /\ sid \in Sids
  BY <1>1, SavesRequests, ConfigsAreThere DEF IInv
<1>6. /\ config'[sid] = Saves(t).config
      /\ \A s \in Sids \ {sid} : config'[s] = config[s]
  BY <1>1, <1>5 DEF IInv, Types
<1>7. granted[sid] = <<>>
  BY <1>1, <1>5 DEF IInv, Confirmed
<1>8. \A u \in Tasks : Owns(u) => Sid(u) # sid /\ Sid(u) \in Sids
  <2> SUFFICES ASSUME NEW u \in Tasks, Owns(u) PROVE Sid(u) # sid /\ Sid(u) \in Sids
    OBVIOUS
  <2>1. config[Sid(u)] = Saves(u).config
    BY DEF IInv, OwnersWrote
  <2>2. Saves(u).config # Absent /\ Sid(u) \in Sids
    BY SavesRequests, ConfigsAreThere DEF IInv
  <2> QED
    BY <1>1, <2>1, <2>2
<1>9. Types'
  BY <1>1, <1>2, <1>5 DEF IInv, Types
<1>10. Busy'
  <2>1. \A p \in Posts : at'[p] \in Saving => p # t /\ at'[p] = at[p] /\ body'[p] = body[p]
    BY <1>2, <1>3, RegistryAssumption DEF Saves, Tasks
  <2>2. \A r \in Replicas \ {t} : at'[r] = at[r]
    BY <1>3 DEF Tasks
  <2>3. \A r \in Replicas \ {t} : pos'[r] = pos[r]
    BY <1>1 DEF IInv, Types, Returns, Done
  <2> QED
    BY <1>2, <2>1, <2>2, <2>3 DEF IInv, Busy
<1>11. OwnersWrote'
  BY <1>1, <1>4, <1>6, <1>8 DEF IInv, OwnersWrote
<1>12. OneOwner'
  BY <1>4 DEF IInv, OneOwner
<1>13. OwnersListed'
  BY <1>1, <1>4 DEF IInv, OwnersListed
<1>14. Confirmed'
  BY <1>1, <1>6, <1>7 DEF IInv, Confirmed
<1>15. Remembered'
  BY <1>1, <1>3, <1>6 DEF IInv, Remembered, BeingListed
<1>16. Seeded'
  <2> SUFFICES ASSUME NEW r \in Replicas, NEW i \in DOMAIN File, Seen(r, i)'
               PROVE  config'[File[i].id] # Absent
    BY DEF Seeded
  <2>1. r \in Tasks /\ File[i].id \in Sids
    BY FileFacts DEF Tasks
  <2>2. CASE r # t
    <3>1. pos'[r] = pos[r]
      BY <2>2, <1>1 DEF IInv, Types, Returns, Done
    <3>2. Seen(r, i)
      BY <2>1, <2>2, <3>1, <1>3 DEF Seen
    <3> QED
      BY <2>1, <3>2, <1>5, <1>6 DEF IInv, Seeded
  <2>3. CASE r = t
    <3>1. i = pos[r] \/ i < pos[r]
      BY <2>3, <1>2, FileFacts DEF Seen, IInv, Types
    <3>2. i = pos[r] => File[i].id = sid
      BY <2>3 DEF Sid, Saves, Entry
    <3>3. i < pos[r] => Seen(r, i)
      BY <2>3, <1>1 DEF Seen
    <3> QED
      BY <2>1, <3>1, <3>2, <3>3, <1>5, <1>6 DEF IInv, Seeded
  <2> QED
    BY <2>2, <2>3
<1> QED
  BY <1>9, <1>10, <1>11, <1>12, <1>13, <1>14, <1>15, <1>16 DEF IInv

LEMMA ListPreserves ==
    ASSUME IInv, NEW t \in Tasks, AddToSet(t)
    PROVE  IInv'
<1> USE DEF Owns, Saving
<1>1. /\ at[t] = "list" /\ listed' = listed \cup {Sid(t)}
      /\ Goes(t, "exists")
      /\ UNCHANGED <<config, state, granted, torn, pos, body, by>>
  BY DEF AddToSet, history, Goes
<1>2. /\ at' = [at EXCEPT ![t] = "exists"] /\ at'[t] = "exists"
      /\ \A u \in Tasks : Saves(u)' = Saves(u) /\ Sid(u)' = Sid(u)
      /\ \A u \in Tasks \ {t} : at'[u] = at[u]
  BY <1>1, GoesOn DEF IInv, Alone
<1>3. Sid(t) \in Sids
  BY <1>1, SavesRequests DEF IInv
<1>4. Types' /\ Busy'
  BY <1>1, <1>2, <1>3 DEF IInv, Types, Busy, Tasks
<1>5. OwnersWrote' /\ OneOwner'
  BY <1>1, <1>2 DEF IInv, OwnersWrote, OneOwner
<1>6. OwnersListed'
  BY <1>1, <1>2 DEF IInv, OwnersListed
<1>7. Confirmed'
  BY <1>1 DEF IInv, Confirmed
<1>8. Remembered'
  BY <1>1, <1>2 DEF IInv, Remembered, BeingListed
<1>9. Seeded'
  BY <1>1, <1>2 DEF IInv, Seeded, Seen, Tasks
<1> QED
  BY <1>4, <1>5, <1>6, <1>7, <1>8, <1>9 DEF IInv

LEMMA NoStatePreserves ==
    ASSUME IInv, NEW t \in Tasks, NoState(t)
    PROVE  IInv'
<1> USE DEF Owns, Saving
<1>1. /\ at[t] = "exists" /\ Goes(t, "state")
      /\ UNCHANGED <<config, listed, state, granted, torn, pos, body, by>>
  BY DEF NoState, history, keys, Goes
<1>2. /\ at' = [at EXCEPT ![t] = "state"] /\ at'[t] = "state"
      /\ \A u \in Tasks : Saves(u)' = Saves(u) /\ Sid(u)' = Sid(u)
      /\ \A u \in Tasks \ {t} : at'[u] = at[u]
  BY <1>1, GoesOn DEF IInv, Alone
<1>3. Types' /\ Busy'
  BY <1>1, <1>2 DEF IInv, Types, Busy, Tasks
<1>4. OwnersWrote' /\ OneOwner' /\ OwnersListed'
  BY <1>1, <1>2 DEF IInv, OwnersWrote, OneOwner, OwnersListed
<1>5. Confirmed' /\ Remembered'
  BY <1>1, <1>2 DEF IInv, Confirmed, Remembered, BeingListed
<1>6. Seeded'
  BY <1>1, <1>2 DEF IInv, Seeded, Seen, Tasks
<1> QED
  BY <1>3, <1>4, <1>5, <1>6 DEF IInv

LEMMA SavePreserves ==
    ASSUME IInv, NEW t \in Tasks, Save(t)
    PROVE  IInv'
<1>1. CASE SetConfig(t)
  BY <1>1, ClaimPreserves
<1>2. CASE ConfigTaken(t)
  BY <1>2, TakenPreserves
<1>3. CASE AddToSet(t)
  BY <1>3, ListPreserves
<1>4. CASE StateExists(t)
  BY <1>4, ConfirmPreserves DEF StateExists, keys, IInv, Types
<1>5. CASE NoState(t)
  BY <1>5, NoStatePreserves
<1>6. CASE WriteState(t)
  <2>1. at[t] = "state" /\ Sid(t) \in Sids
    BY <1>6, SavesRequests DEF WriteState, IInv, Saving
  <2>2. state' = [state EXCEPT ![Sid(t)] = "waiting"] /\ "waiting" # Absent
    BY <1>6, RegistryAssumption DEF WriteState
  <2>3. /\ state' \in [Sids -> Status \cup {Absent}]
        /\ state'[Sid(t)] # Absent
        /\ \A s \in Sids \ {Sid(t)} : state'[s] = state[s]
    BY <2>1, <2>2 DEF IInv, Types, Status
  <2> QED
    BY <1>6, <2>1, <2>3, ConfirmPreserves DEF WriteState
<1> QED
  BY <1>1, <1>2, <1>3, <1>4, <1>5, <1>6 DEF Save

-----------------------------------------------------------------------------
(* The API, the workers, and the faults.                                   *)

LEMMA BootPreserves ==
    ASSUME IInv, NEW r \in Replicas, Boot(r)
    PROVE  IInv'
<1> USE DEF Owns, Saving
<1>1. /\ at' = [at EXCEPT ![r] = IF File = <<>> THEN "up" ELSE "config"]
      /\ pos' = [pos EXCEPT ![r] = IF File = <<>> THEN 0 ELSE 1]
      /\ at[r] = "off"
      /\ UNCHANGED <<config, listed, state, granted, torn, body, by>>
  BY DEF Boot, keys, history
<1>2. r \in Tasks /\ r \notin Posts
  BY RegistryAssumption DEF Tasks
<1>3. \A u \in Tasks \ {r} : at'[u] = at[u] /\ Saves(u)' = Saves(u) /\ Sid(u)' = Sid(u)
  BY <1>1 DEF IInv, Types, Saves, Sid
<1>4. at'[r] = (IF File = <<>> THEN "up" ELSE "config")
  BY <1>1, <1>2 DEF IInv, Types
<1>5. pos'[r] = (IF File = <<>> THEN 0 ELSE 1) /\ (File # <<>> => 1 \in 1..Len(File))
  BY <1>1, FileFacts, RegistryAssumption DEF IInv, Types
<1>6. Types'
  BY <1>1, <1>2, <1>5, FileFacts DEF IInv, Types
<1>7. Busy'
  BY <1>1, <1>2, <1>3, <1>4, <1>5 DEF IInv, Types, Busy, Tasks
<1>8. OwnersWrote' /\ OneOwner' /\ OwnersListed'
  BY <1>1, <1>3, <1>4 DEF IInv, OwnersWrote, OneOwner, OwnersListed
<1>9. Confirmed' /\ Remembered'
  BY <1>1, <1>3 DEF IInv, Confirmed, Remembered, BeingListed
<1>10. Seeded'
  <2> SUFFICES ASSUME NEW q \in Replicas, NEW i \in DOMAIN File, Seen(q, i)'
               PROVE  config[File[i].id] # Absent
    BY <1>1 DEF Seeded
  <2>1. q # r
    BY <1>4, <1>5, FileFacts DEF Seen
  <2>2. Seen(q, i)
    BY <2>1, <1>1, <1>3 DEF Seen, IInv, Types, Tasks
  <2> QED
    BY <2>2 DEF IInv, Seeded
<1> QED
  BY <1>6, <1>7, <1>8, <1>9, <1>10 DEF IInv

LEMMA PostPreserves ==
    ASSUME IInv, NEW p \in Posts, NEW s \in Sids, NEW b \in Bodies, Post(p, s, b)
    PROVE  IInv'
<1> USE DEF Owns, Saving
<1>1. /\ at' = [at EXCEPT ![p] = "config"] /\ at[p] = "off"
      /\ body' = [body EXCEPT ![p] = [id |-> s, config |-> Validated(b)]]
      /\ DOMAIN by' = Posts
      /\ UNCHANGED <<config, listed, state, granted, torn, pos>>
  BY DEF Post, keys, history, IInv, Types
<1>2. p \in Tasks /\ p \notin Replicas
  BY RegistryAssumption DEF Tasks
<1>3. at'[p] = "config" /\ body'[p] \in Request
  <2>1. Valid(b)
    BY DEF Post
  <2> QED
    BY <1>1, <1>2, <2>1 DEF IInv, Types, Request, Configs
<1>4. \A u \in Tasks \ {p} : at'[u] = at[u] /\ Saves(u)' = Saves(u) /\ Sid(u)' = Sid(u)
  BY <1>1 DEF IInv, Types, Saves, Sid
<1>5. \A q \in Posts \ {p} : body'[q] = body[q]
  BY <1>1 DEF IInv, Types
<1>6. Types' /\ Busy'
  BY <1>1, <1>2, <1>3, <1>4, <1>5 DEF IInv, Types, Busy, Tasks
<1>7. OwnersWrote' /\ OneOwner' /\ OwnersListed'
  BY <1>1, <1>3, <1>4 DEF IInv, OwnersWrote, OneOwner, OwnersListed
<1>8. Confirmed' /\ Remembered'
  BY <1>1, <1>4 DEF IInv, Confirmed, Remembered, BeingListed
<1>9. Seeded'
  BY <1>1, <1>2, <1>4 DEF IInv, Seeded, Seen, Tasks
<1> QED
  BY <1>6, <1>7, <1>8, <1>9 DEF IInv

\* Whoever writes states leaves the rest alone, and no state becomes absent.
LEMMA StatePreserves ==
    ASSUME IInv, UNCHANGED <<config, listed, tasks, history>>,
           state' \in [Sids -> Status \cup {Absent}],
           \A s \in Sids : state[s] # Absent => state'[s] # Absent
    PROVE  IInv'
<1>1. UNCHANGED <<config, listed, at, pos, body, by, granted, torn>>
  BY DEF tasks, history
<1>2. \A t \in Tasks : Saves(t)' = Saves(t) /\ Sid(t)' = Sid(t)
  BY <1>1 DEF Saves, Sid
<1>3. Types' /\ Busy'
  BY <1>1 DEF IInv, Types, Busy
<1>4. OwnersWrote' /\ OneOwner' /\ OwnersListed'
  BY <1>1, <1>2 DEF IInv, OwnersWrote, OneOwner, OwnersListed, Owns
<1>5. Confirmed' /\ Remembered' /\ Seeded'
  BY <1>1, <1>2 DEF IInv, Confirmed, Remembered, BeingListed, Seeded, Seen, Owns
<1> QED
  BY <1>3, <1>4, <1>5 DEF IInv

LEMMA WritersPreserve ==
    ASSUME IInv, NEW s \in Sids, Stop(s) \/ StartReads(s) \/ StartWrites(s) \/ WorkerWrites(s)
    PROVE  IInv'
<1>1. UNCHANGED <<config, listed, tasks, history>>
  BY DEF Stop, StartReads, StartWrites, WorkerWrites, keys
<1>2. state' = state \/ \E st \in Status : state' = [state EXCEPT ![s] = st]
  <2>1. CASE WorkerWrites(s)
    <3>1. PICK new \in Status :
            state' = [state EXCEPT ![s] =
                        IF new \in Finished THEN new ELSE SetUnlessEnded(s, new)]
      BY <2>1 DEF WorkerWrites
    <3>2. (IF new \in Finished THEN new ELSE SetUnlessEnded(s, new)) \in Status
      BY DEF SetUnlessEnded, Status, Finished
    <3> QED
      BY <3>1, <3>2
  <2>2. CASE Stop(s) \/ StartWrites(s)
    BY <2>2 DEF Stop, StartWrites, Status, Finished
  <2>3. CASE StartReads(s)
    BY <2>3 DEF StartReads, keys
  <2> QED
    BY <2>1, <2>2, <2>3
<1>3. /\ state' \in [Sids -> Status \cup {Absent}]
      /\ \A x \in Sids : state[x] # Absent => state'[x] # Absent
  BY <1>2, StatusIsThere DEF IInv, Types
<1> QED
  BY <1>1, <1>3, StatePreserves

\* Tasks are cut off; what they had not listed is torn.
LEMMA CutPreserves ==
    ASSUME IInv, NEW cut \in SUBSET Tasks, Cut(cut)
    PROVE  IInv'
<1> USE DEF Owns, Saving
<1>1. /\ at' = [t \in Tasks |-> IF t \in cut THEN "off" ELSE at[t]]
      /\ torn' = torn \cup {Sid(t) : t \in {u \in cut : at[u] = "list"}}
      /\ UNCHANGED <<config, listed, state, pos, body, by, granted>>
  BY DEF Cut, keys
<1>2. \A t \in Tasks : Saves(t)' = Saves(t) /\ Sid(t)' = Sid(t)
  BY <1>1 DEF Saves, Sid
<1>3. \A t \in Tasks : at'[t] = "off" \/ (t \notin cut /\ at'[t] = at[t])
  BY <1>1
<1>4. Types' /\ Busy'
  BY <1>1, <1>3 DEF IInv, Types, Busy, Tasks
<1>5. OwnersWrote' /\ OneOwner' /\ OwnersListed'
  BY <1>1, <1>2, <1>3 DEF IInv, OwnersWrote, OneOwner, OwnersListed
<1>6. Confirmed'
  BY <1>1 DEF IInv, Confirmed
<1>7. Remembered'
  <2> SUFFICES ASSUME NEW s \in Sids, config[s] # Absent, ~BeingListed(s)'
               PROVE  s \in listed \cup torn'
    BY <1>1 DEF Remembered
  <2>1. CASE s \in listed \cup torn
    BY <2>1, <1>1
  <2>2. CASE BeingListed(s)
    <3>1. PICK t \in Tasks : at[t] = "list" /\ Sid(t) = s
      BY <2>2 DEF BeingListed
    <3>2. t \in cut
      BY <3>1, <1>1, <1>2 DEF BeingListed
    <3> QED
      BY <3>1, <3>2, <1>1
  <2> QED
    BY <2>1, <2>2 DEF IInv, Remembered
<1>8. Seeded'
  <2> SUFFICES ASSUME NEW r \in Replicas, NEW i \in DOMAIN File, Seen(r, i)'
               PROVE  Seen(r, i)
    BY <1>1 DEF IInv, Seeded
  <2> QED
    BY <1>1, <1>3 DEF Seen, Tasks
<1> QED
  BY <1>4, <1>5, <1>6, <1>7, <1>8 DEF IInv

-----------------------------------------------------------------------------
(* The invariant holds.                                                    *)

LEMMA InitInv ==
    ASSUME RegistryInit PROVE IInv
BY FileFacts, RegistryAssumption
   DEF RegistryInit, IInv, Types, Busy, OwnersWrote, OneOwner, OwnersListed, Confirmed,
       Remembered, Seeded, Seen, Owns, Saving, Tasks, history

LEMMA NextInv ==
    ASSUME IInv, RegistryNext PROVE IInv'
<1>1. ASSUME NEW t \in Tasks, Save(t) \/ CommandFails(t) \/ ConfigReplyLost(t)
      PROVE  IInv'
  BY <1>1, SavePreserves, LostReplyPreserves, CutPreserves DEF CommandFails
<1>2. ASSUME NEW r \in Replicas, Crash(r)
      PROVE  IInv'
  <2>1. {r} \cup {p \in Posts : by[p] = r /\ at[p] # "off"} \in SUBSET Tasks
    BY DEF Tasks
  <2> QED
    BY <1>2, <2>1, CutPreserves DEF Crash
<1> QED
  BY <1>1, <1>2, BootPreserves, PostPreserves, WritersPreserve DEF RegistryNext, Serves

\* Nothing but counters of faults and API calls, and what is no part of Registry.
LEMMA IdleInv ==
    ASSUME IInv, UNCHANGED <<keys, tasks, history>> PROVE IInv'
BY StatePreserves DEF keys, IInv, Types

\* The invariant of the registry, for any replicas, clients, sessions and faults.
THEOREM RegistryInvariant == RegistrySpec => []IInv
<1>1. RegistryInit => IInv
  BY InitInv
<1>2. IInv /\ [RegistryNext]_registry => IInv'
  BY NextInv, IdleInv DEF registry
<1> QED
  BY <1>1, <1>2, PTL DEF RegistrySpec

\* What a step of the load test is to the registry: one of its steps, or a fault
\* that leaves it alone.
LEMMA LoadSteps ==
    ASSUME [LoadNext]_all
    PROVE  RegistryNext \/ UNCHANGED <<keys, tasks, history, starts>>
<1>1. CASE ApiStep
  BY <1>1 DEF ApiStep, RegistryNext
<1>2. ASSUME NEW r \in Replicas, ReplicaDies(r)
      PROVE  RegistryNext
  BY <1>2 DEF ReplicaDies, RegistryNext
<1>3. CASE Lists \/ ReadsRow \/ Targeted \/ ListingFails \/ Stops \/ Reports
  BY <1>3 DEF Lists, ReadsRow, Targeted, ListingFails, Stops, Reports, registry
<1>4. ASSUME NEW i \in Viewers,
             \/ Spawn(i) \/ Rejected(i) \/ RequestFails(i) \/ \E r \in Replicas : Accepted(i, r)
             \/ Closes(i) \/ Breaks(i) \/ Cancelled(i)
      PROVE  UNCHANGED <<keys, tasks, history, starts>>
  BY <1>4 DEF Spawn, Rejected, RequestFails, Accepted, Closes, Breaks, Cancelled, registry
<1> QED
  BY <1>1, <1>2, <1>3, <1>4 DEF LoadNext, Test, all, registry

LEMMA LoadInvariant == LoadSpec => []IInv
<1>1. LoadInit => IInv
  BY InitInv DEF LoadInit
<1>2. IInv /\ [LoadNext]_all => IInv'
  BY LoadSteps, NextInv, IdleInv
<1> QED
  BY <1>1, <1>2, PTL DEF LoadSpec

\* However many replicas and clients create a session at once and whatever fails,
\* it is created once, with the configuration that was confirmed.
THEOREM Created == LoadSpec => []CreatedOnce
<1>1. IInv => CreatedOnce
  BY DEF IInv, Confirmed, CreatedOnce
<1> QED
  BY <1>1, LoadInvariant, PTL

\* A session is in the list, or being listed, or its creation was cut; and a
\* replica that is up has left out no session of its file.
THEOREM Kept == LoadSpec => []NoneForgotten
<1>1. IInv => NoneForgotten
  BY DEF IInv, Remembered, Seeded, Seen, NoneForgotten, Up
<1> QED
  BY <1>1, LoadInvariant, PTL

\* After its creation is confirmed, no other creation of a session, of whichever
\* replica or request, writes its state.
THEOREM StateIsLeft == LoadSpec => CreationIsOver
<1> DEFINE Untouched == \A s \in Sids, t \in Tasks :
             granted[s] # <<>> /\ Save(t) => state'[s] = state[s]
<1>1. IInv => Untouched
  <2> SUFFICES ASSUME IInv, NEW s \in Sids, NEW t \in Tasks, granted[s] # <<>>, Save(t)
               PROVE  state'[s] = state[s]
    OBVIOUS
  <2>1. CASE WriteState(t)
    <3>1. Sid(t) # s
      BY <2>1 DEF WriteState, IInv, OwnersWrote, Owns
    <3> QED
      BY <2>1, <3>1 DEF WriteState, IInv, Types
  <2>2. CASE ~WriteState(t)
    BY <2>2 DEF Save, SetConfig, ConfigTaken, AddToSet, StateExists, NoState, keys
  <2> QED
    BY <2>1, <2>2
<1>2. IInv /\ [LoadNext]_all => [Untouched]_registry
  BY <1>1
<1> QED
  BY <1>2, LoadInvariant, PTL DEF LoadSpec, CreationIsOver

-----------------------------------------------------------------------------
(* The load test.                                                          *)

ViewerStates == {"new", "asking", "open", "refused", "closed", "broken", "cancelled"}

Counters == [connected : Int, active : Int, failed : Int, dropped : Int]

TestTypes ==
    /\ main \in {"start", "rows", "ramp", "gather", "exit"}
    /\ rows \subseteq Sids
    /\ targets \in Seq(Sids \X STRING)
    /\ viewer \in [Viewers -> ViewerStates]
    /\ link \in [Viewers -> Replicas \cup {Absent}]
    /\ count \in Counters
    /\ faults \in Nat

\* What is to be watched is there, and stays so.
Offered == \A i \in DOMAIN targets : Streamed(targets[i][1], targets[i][2])

\* Without a fault there is a replica to ask, and no connection without one.
Faultless == faults = 0 =>
    /\ main \in {"rows", "ramp"} => Up # {}
    /\ \A i \in Viewers : viewer[i] = "open" => link[i] # Absent

Counting ==
    /\ CountersAgree
    /\ code = 0 => main = "exit"
    /\ main \in {"start", "rows"} => \A i \in Viewers : viewer[i] = "new"

TestInv ==
    /\ TestTypes
    /\ Offered /\ (main = "ramp" => targets # <<>>)
    /\ Faultless /\ OnlyFaultsFail
    /\ Counting

LEMMA EndedFinite ==
    ASSUME NEW how
    PROVE  IsFiniteSet(Ended(how)) /\ Cardinality(Ended(how)) \in Nat
<1>1. 0 \in Int /\ NumViewers - 1 \in Int
  BY LoadTestAssumption
<1>2. IsFiniteSet(0..(NumViewers - 1))
  BY <1>1, FS_Interval, Zenon
<1>3. Ended(how) \in SUBSET (0..(NumViewers - 1))
  BY DEF Ended, Viewers
<1>4. IsFiniteSet(Ended(how))
  BY <1>2, <1>3, FS_Subset, Zenon
<1> QED
  BY <1>4, FS_CardinalityType, Zenon

\* A viewer that goes from one state to another is counted in the new one.
LEMMA Counted ==
    ASSUME TestTypes, NEW i \in Viewers, NEW old, viewer[i] = old,
           NEW new \in ViewerStates \ {old}, Becomes(i, new)
    PROVE  /\ viewer' \in [Viewers -> ViewerStates]
           /\ Cardinality(Ended(new)') = Cardinality(Ended(new)) + 1
           /\ Cardinality(Ended(old)') = Cardinality(Ended(old)) - 1
           /\ \A how : how # new /\ how # old => Ended(how)' = Ended(how)
<1>1. viewer' = [viewer EXCEPT ![i] = new] /\ viewer'[i] = new
  BY DEF Becomes, TestTypes
<1>2. \A j \in Viewers \ {i} : viewer'[j] = viewer[j]
  BY <1>1 DEF TestTypes
<1>3. Ended(new)' = Ended(new) \cup {i} /\ i \notin Ended(new)
  BY <1>1, <1>2 DEF Ended
<1>4. Ended(old)' = Ended(old) \ {i} /\ i \in Ended(old)
  BY <1>1, <1>2 DEF Ended
<1>5. \A how : how # new /\ how # old => Ended(how)' = Ended(how)
  BY <1>1, <1>2 DEF Ended
<1>6. Cardinality(Ended(new) \cup {i}) = Cardinality(Ended(new)) + 1
  <2>1. IsFiniteSet(Ended(new))
    BY EndedFinite
  <2>2. Cardinality(Ended(new) \cup {i})
          = IF i \in Ended(new) THEN Cardinality(Ended(new)) ELSE Cardinality(Ended(new)) + 1
    BY <2>1, FS_AddElement, Zenon
  <2> QED
    BY <1>3, <2>2
<1>7. Cardinality(Ended(old) \ {i}) = Cardinality(Ended(old)) - 1
  <2>1. IsFiniteSet(Ended(old))
    BY EndedFinite
  <2>2. Cardinality(Ended(old) \ {i})
          = IF i \in Ended(old) THEN Cardinality(Ended(old)) - 1 ELSE Cardinality(Ended(old))
    BY <2>1, FS_RemoveElement, Zenon
  <2> QED
    BY <1>4, <2>2
<1>8. viewer' \in [Viewers -> ViewerStates]
  BY <1>1 DEF TestTypes
<1> QED
  BY <1>3, <1>4, <1>5, <1>6, <1>7, <1>8

\* The configuration of a session never changes, and its streams neither.
LEMMA ConfigsStay ==
    ASSUME IInv, RegistryNext \/ UNCHANGED <<keys, tasks, history, starts>>
    PROVE  \A s \in Sids : config[s] # Absent => config'[s] = config[s]
<1>1. ASSUME NEW t \in Tasks, SetConfig(t) \/ ConfigReplyLost(t), NEW s \in Sids, config[s] # Absent
      PROVE  config'[s] = config[s]
  <2>1. config[Sid(t)] = Absent /\ config' = [config EXCEPT ![Sid(t)] = Saves(t).config]
    BY <1>1 DEF SetConfig, ConfigReplyLost, Free
  <2> QED
    BY <1>1, <2>1 DEF IInv, Types
<1>2. ASSUME NEW t \in Tasks, Save(t) \/ CommandFails(t)
      PROVE  SetConfig(t) \/ config' = config
  BY <1>2 DEF Save, ConfigTaken, AddToSet, StateExists, NoState, WriteState, CommandFails, Cut, keys
<1>3. ASSUME NEW r \in Replicas, Boot(r) \/ Crash(r) PROVE config' = config
  BY <1>3 DEF Boot, Crash, Cut, keys
<1>4. ASSUME NEW p \in Posts, NEW x \in Sids, NEW b \in Bodies, Post(p, x, b) PROVE config' = config
  BY <1>4 DEF Post, keys
<1>5. ASSUME NEW x \in Sids, Stop(x) \/ StartReads(x) \/ StartWrites(x) \/ WorkerWrites(x)
      PROVE  config' = config
  BY <1>5 DEF Stop, StartReads, StartWrites, WorkerWrites, keys
<1> QED
  BY <1>1, <1>2, <1>3, <1>4, <1>5 DEF RegistryNext, Serves, keys

LEMMA StreamsStay ==
    ASSUME IInv, TestTypes, Offered,
           RegistryNext \/ UNCHANGED <<keys, tasks, history, starts>>
    PROVE  \A i \in DOMAIN targets : Streamed(targets[i][1], targets[i][2])'
                                       \/ targets' # targets
<1> SUFFICES ASSUME NEW i \in DOMAIN targets, targets' = targets
             PROVE  Streamed(targets[i][1], targets[i][2])'
  OBVIOUS
<1>1. targets[i] \in Sids \X STRING
  BY DEF TestTypes
<1>2. config'[targets[i][1]] = config[targets[i][1]]
  BY <1>1, ConfigsStay DEF Offered, Streamed
<1> QED
  BY <1>2 DEF Offered, Streamed

\* Only a fault takes a replica down, and every fault counts.
LEMMA UpStays ==
    ASSUME IInv, faults \in Nat, faults' = 0, RegistryNext
    PROVE  faults = 0 /\ Up \subseteq Up'
<1>1. \A kind : ~Fault(kind)
  BY DEF Fault
<1>2. ASSUME NEW t \in Tasks, Save(t)
      PROVE  faults' = faults /\ Up \subseteq Up'
  <2>1. faults' = faults /\ at[t] # "up"
    BY <1>2 DEF Save, SetConfig, ConfigTaken, AddToSet, StateExists, NoState, WriteState
  <2>2. \A u \in Tasks \ {t} : at'[u] = at[u]
    BY <1>2 DEF Save, SetConfig, ConfigTaken, AddToSet, StateExists, NoState, WriteState,
                Confirm, Goes, Returns, Done, IInv, Types
  <2> QED
    BY <2>1, <2>2 DEF Up, Tasks
<1>3. ASSUME NEW t \in Tasks, CommandFails(t) \/ ConfigReplyLost(t) PROVE FALSE
  BY <1>1, <1>3 DEF CommandFails, ConfigReplyLost
<1>4. ASSUME NEW r \in Replicas, Crash(r) PROVE FALSE
  BY <1>1, <1>4 DEF Crash
<1>5. ASSUME NEW r \in Replicas, Boot(r) PROVE faults' = faults /\ Up \subseteq Up'
  BY <1>5 DEF Boot, Up, IInv, Types
<1>6. ASSUME NEW p \in Posts, NEW s \in Sids, NEW b \in Bodies, Post(p, s, b)
      PROVE  faults' = faults /\ Up \subseteq Up'
  BY <1>6, RegistryAssumption DEF Post, Up, IInv, Types
<1>7. ASSUME NEW s \in Sids, Stop(s) \/ StartReads(s) \/ StartWrites(s) \/ WorkerWrites(s)
      PROVE  faults' = faults /\ Up \subseteq Up'
  BY <1>7 DEF Stop, StartReads, StartWrites, WorkerWrites, Up, tasks
<1> QED
  BY <1>2, <1>3, <1>4, <1>5, <1>6, <1>7 DEF RegistryNext, Serves

\* A session has its source language and its targets.
LEMMA LangsType ==
    ASSUME IInv, NEW s \in Sids, config[s] # Absent
    PROVE  /\ Langs(config[s]) \in Seq(STRING)
           /\ Streams(s) \in Seq(Sids \X STRING)
           /\ \A i \in DOMAIN Streams(s) : Streamed(Streams(s)[i][1], Streams(s)[i][2])
<1>1. config[s] \in [source : STRING, targets : Seq(STRING)]
  <2>1. config[s] \in Configs
    BY DEF IInv, Types
  <2> QED
    BY <2>1, ValidatedType DEF Configs
<1>2. Langs(config[s]) \in Seq(STRING)
  <2>1. config[s].source \in STRING /\ config[s].targets \in Seq(STRING)
    BY <1>1
  <2> QED
    BY <2>1 DEF Langs
<1>3. DOMAIN Langs(config[s]) = 1..Len(Langs(config[s])) /\ Len(Langs(config[s])) \in Nat
  BY <1>2
<1>4. \A i \in DOMAIN Langs(config[s]) : <<s, Langs(config[s])[i]>> \in Sids \X STRING
  BY <1>2
<1>5. Streams(s) \in Seq(Sids \X STRING)
  BY <1>3, <1>4 DEF Streams
<1>6. \A i \in DOMAIN Streams(s) : Streamed(Streams(s)[i][1], Streams(s)[i][2])
  BY DEF Streams, Streamed, Has
<1> QED
  BY <1>2, <1>5, <1>6

-----------------------------------------------------------------------------
(* The load test keeps its part of the invariant.                           *)

LEMMA TestInit ==
    ASSUME LoadInit PROVE TestInv
<1>1. viewer = [i \in Viewers |-> "new"] /\ code = Absent /\ main = "start"
  BY DEF LoadInit
<1>2. \A how : how # "new" => Ended(how) = {}
  BY <1>1 DEF Ended
<1>3. CountersAgree
  BY <1>1, <1>2, FS_EmptySet, LoadTestAssumption DEF LoadInit, CountersAgree
<1>4. TestTypes
  BY <1>1 DEF LoadInit, RegistryInit, TestTypes, Counters, ViewerStates
<1> QED
  BY <1>1, <1>3, <1>4, LoadTestAssumption
     DEF LoadInit, TestInv, Offered, Faultless, OnlyFaultsFail, Counting

\* The steps of the API, and the death of a replica.
LEMMA ApiKeeps ==
    ASSUME IInv, TestInv, ApiStep
    PROVE  TestInv'
<1>1. RegistryNext /\ UNCHANGED <<main, rows, targets, viewer, link, count, code>>
  BY DEF ApiStep, RegistryNext, test
<1>2. faults' \in Nat /\ (faults' = 0 => faults = 0)
  <2>1. ASSUME NEW t \in Tasks, Save(t)
        PROVE  faults' = faults
    BY <2>1 DEF Save, SetConfig, ConfigTaken, AddToSet, StateExists, NoState, WriteState
  <2>2. ASSUME NEW t \in Tasks, CommandFails(t) \/ ConfigReplyLost(t)
        PROVE  faults' = faults + 1
    BY <2>2 DEF CommandFails, ConfigReplyLost, Fault
  <2>3. ASSUME NEW s \in Sids, Stop(s) \/ StartReads(s) \/ StartWrites(s) \/ WorkerWrites(s)
        PROVE  faults' = faults
    BY <2>3 DEF Stop, StartReads, StartWrites, WorkerWrites
  <2>4. faults' = faults \/ faults' = faults + 1
    BY <2>1, <2>2, <2>3 DEF ApiStep, Serves, Boot, Post
  <2> QED
    BY <2>4 DEF TestInv, TestTypes
<1>3. TestTypes'
  BY <1>1, <1>2 DEF TestInv, TestTypes
<1>4. Offered' /\ (main' = "ramp" => targets' # <<>>)
  BY <1>1, StreamsStay DEF TestInv, Offered
<1>5. Faultless' /\ OnlyFaultsFail'
  BY <1>1, <1>2, UpStays DEF TestInv, TestTypes, Faultless, OnlyFaultsFail
<1>6. Counting'
  BY <1>1 DEF TestInv, Counting, CountersAgree, Ended
<1> QED
  BY <1>3, <1>4, <1>5, <1>6 DEF TestInv

LEMMA DeathKeeps ==
    ASSUME IInv, TestInv, NEW r \in Replicas, ReplicaDies(r)
    PROVE  TestInv'
<1>1. /\ RegistryNext /\ UNCHANGED <<rows, targets, viewer, count>>
      /\ link' = [i \in Viewers |-> IF link[i] = r THEN Absent ELSE link[i]]
      /\ main # "exit"
      /\ \/ main = "rows" /\ main' = "exit" /\ code' = 1
         \/ UNCHANGED <<main, code>>
  BY DEF ReplicaDies, RegistryNext, Exits
<1>2. faults' \in Nat /\ faults' # 0
  BY DEF ReplicaDies, Crash, Fault, TestInv, TestTypes
<1>3. TestTypes'
  BY <1>1, <1>2 DEF TestInv, TestTypes
<1>4. Offered' /\ (main' = "ramp" => targets' # <<>>)
  BY <1>1, StreamsStay DEF TestInv, Offered
<1>5. Faultless' /\ OnlyFaultsFail'
  BY <1>2 DEF Faultless, OnlyFaultsFail
<1>6. Counting'
  <2>1. CASE main = "rows" /\ main' = "exit" /\ code' = 1
    <3>1. \A how : how # "new" => Ended(how) = {}
      BY <2>1 DEF TestInv, Counting, Ended
    <3>2. \A how : Ended(how)' = Ended(how)
      BY <1>1 DEF Ended
    <3>3. count.active = 0
      BY <3>1, FS_EmptySet DEF TestInv, Counting, CountersAgree
    <3> QED
      BY <1>1, <2>1, <3>1, <3>2, <3>3 DEF TestInv, Counting, CountersAgree
  <2>2. CASE UNCHANGED <<main, code>>
    BY <1>1, <2>2 DEF TestInv, Counting, CountersAgree, Ended
  <2> QED
    BY <1>1, <2>1, <2>2
<1> QED
  BY <1>3, <1>4, <1>5, <1>6 DEF TestInv

\* main() and the listing.
LEMMA MainKeeps ==
    ASSUME IInv, TestInv,
           Lists \/ ReadsRow \/ Targeted \/ ListingFails \/ Stops \/ Reports
    PROVE  TestInv'
<1>1. /\ UNCHANGED <<keys, tasks, history, starts, viewer, link, count>>
      /\ faults' \in Nat /\ (faults' = 0 => faults = 0)
  BY DEF Lists, ReadsRow, Targeted, ListingFails, Stops, Reports, registry, Fault, TestInv, TestTypes
<1>2. Up' = Up
  BY <1>1 DEF Up, tasks
<1>3. targets' \in Seq(Sids \X STRING) /\ Offered'
  <2>1. CASE ReadsRow
    <3>1. PICK s \in rows : targets' = IF Watched(s) THEN targets \o Streams(s) ELSE targets
      BY <2>1 DEF ReadsRow
    <3>2. CASE Watched(s)
      <4>1. s \in Sids /\ config[s] # Absent
        BY <3>2 DEF Watched, TestInv, TestTypes
      <4>2. /\ Streams(s) \in Seq(Sids \X STRING) /\ targets \in Seq(Sids \X STRING)
            /\ \A i \in DOMAIN Streams(s) : Streamed(Streams(s)[i][1], Streams(s)[i][2])
            /\ \A i \in DOMAIN targets : Streamed(targets[i][1], targets[i][2])
        BY <4>1, LangsType DEF TestInv, TestTypes, Offered
      <4>3. targets' = targets \o Streams(s)
        BY <3>1, <3>2
      <4>4. ASSUME NEW i \in DOMAIN targets'
            PROVE  Streamed(targets'[i][1], targets'[i][2])
        <5>1. \/ i \in DOMAIN targets /\ targets'[i] = targets[i]
              \/ i - Len(targets) \in DOMAIN Streams(s) /\ targets'[i] = Streams(s)[i - Len(targets)]
          BY <4>2, <4>3
        <5> QED
          BY <4>2, <5>1
      <4>5. \A x, y : Streamed(x, y)' = Streamed(x, y)
        BY <1>1 DEF Streamed, keys
      <4> QED
        BY <4>2, <4>3, <4>4, <4>5 DEF Offered
    <3>3. CASE ~Watched(s)
      BY <1>1, <3>1, <3>3 DEF TestInv, TestTypes, Offered, Streamed, keys
    <3> QED
      BY <3>2, <3>3
  <2>2. CASE ~ReadsRow
    <3>1. targets' = targets
      BY <2>2 DEF Lists, Targeted, ListingFails, Stops, Reports
    <3> QED
      BY <1>1, <3>1 DEF TestInv, TestTypes, Offered, Streamed, keys
  <2> QED
    BY <2>1, <2>2
<1>4. TestTypes'
  BY <1>1, <1>3 DEF Lists, ReadsRow, Targeted, ListingFails, Stops, Reports, Exits,
                    TestInv, TestTypes, IInv, Types
<1>5. main' = "ramp" => targets' # <<>>
  BY DEF Lists, ReadsRow, Targeted, ListingFails, Stops, Reports, Exits, TestInv
<1>6. Faultless' /\ OnlyFaultsFail'
  BY <1>1, <1>2 DEF Lists, ReadsRow, Targeted, ListingFails, Stops, Reports, Exits,
                    TestInv, TestTypes, Faultless, OnlyFaultsFail
<1>7. Counting'
  <2>1. \A how : Ended(how)' = Ended(how)
    BY <1>1 DEF Ended
  <2>2. main \in {"start", "rows"} => \A how : how # "new" => Ended(how) = {}
    BY DEF TestInv, Counting, Ended
  <2>3. CASE Lists \/ ReadsRow \/ Stops
    BY <1>1, <2>1, <2>3 DEF Lists, ReadsRow, Stops, TestInv, Counting, CountersAgree
  <2>4. CASE Targeted \/ ListingFails
    <3>1. count.active = 0 /\ Ended("asking") = {}
      BY <2>2, <2>4, FS_EmptySet DEF Targeted, ListingFails, TestInv, Counting, CountersAgree
    <3> QED
      BY <1>1, <2>1, <2>4, <3>1 DEF Targeted, ListingFails, Exits, TestInv, Counting, CountersAgree
  <2>5. CASE Reports
    <3>1. Ended("asking") = {} /\ Ended("open") = {}
      BY <2>5 DEF Reports, Running, Ended
    <3>2. main' = "exit" /\ (code' = 0 => count.failed = 0 /\ count.dropped = 0)
      BY <2>5 DEF Reports, Exits
    <3>3. /\ count.active = 0
          /\ count.failed = 0 => Ended("refused") = {}
          /\ count.dropped = 0 => Ended("broken") = {}
      BY <3>1, FS_EmptySet, EndedFinite DEF TestInv, Counting, CountersAgree
    <3> QED
      BY <1>1, <2>1, <3>1, <3>2, <3>3 DEF TestInv, Counting, CountersAgree
  <2> QED
    BY <2>3, <2>4, <2>5
<1> QED
  BY <1>3, <1>4, <1>5, <1>6, <1>7 DEF TestInv

\* What the updates of the counters do.
LEMMA CountFailed ==
    ASSUME NEW c \in Counters, NEW d, d = [c EXCEPT !.failed = @ + 1]
    PROVE  d \in Counters /\ d.active = c.active /\ d.failed = c.failed + 1 /\ d.dropped = c.dropped
BY DEF Counters

LEMMA CountLeft ==
    ASSUME NEW c \in Counters, NEW d, d = [c EXCEPT !.active = @ - 1]
    PROVE  d \in Counters /\ d.active = c.active - 1 /\ d.failed = c.failed /\ d.dropped = c.dropped
BY DEF Counters

LEMMA CountDropped ==
    ASSUME NEW c \in Counters, NEW d, d = [[c EXCEPT !.dropped = @ + 1] EXCEPT !.active = @ - 1]
    PROVE  d \in Counters /\ d.active = c.active - 1 /\ d.failed = c.failed /\ d.dropped = c.dropped + 1
<1> DEFINE e == [c EXCEPT !.dropped = @ + 1]
<1>1. e \in Counters /\ e.active = c.active /\ e.failed = c.failed /\ e.dropped = c.dropped + 1
  BY DEF Counters
<1>2. d = [e EXCEPT !.active = @ - 1]
  BY <1>1
<1> HIDE DEF e
<1> QED
  BY <1>1, <1>2 DEF Counters

LEMMA CountOpened ==
    ASSUME NEW c \in Counters, NEW d, d = [c EXCEPT !.connected = @ + 1, !.active = @ + 1]
    PROVE  d \in Counters /\ d.active = c.active + 1 /\ d.failed = c.failed /\ d.dropped = c.dropped
<1> DEFINE e == [c EXCEPT !.connected = @ + 1]
<1>1. e \in Counters /\ e.active = c.active /\ e.failed = c.failed /\ e.dropped = c.dropped
  BY DEF Counters
<1>2. d = [e EXCEPT !.active = @ + 1]
  BY <1>1
<1> HIDE DEF e
<1> QED
  BY <1>1, <1>2 DEF Counters

\* Whatever a viewer does, its counters follow.
LEMMA ViewerKeeps ==
    ASSUME IInv, TestInv, NEW i \in Viewers,
           \/ Spawn(i) \/ Rejected(i) \/ RequestFails(i) \/ \E r \in Replicas : Accepted(i, r)
           \/ Closes(i) \/ Breaks(i) \/ Cancelled(i)
    PROVE  TestInv'
<1> USE DEF ViewerStates
<1>1. /\ UNCHANGED <<keys, tasks, history, starts, main, rows, targets, code>>
      /\ faults' \in Nat /\ (faults' = 0 => faults = 0 /\ ~RequestFails(i))
  <2>1. RequestFails(i) => faults' = faults + 1
    BY DEF RequestFails, Fault
  <2>2. ~RequestFails(i) => faults' = faults
    BY DEF Spawn, Rejected, Accepted, Closes, Breaks, Cancelled, registry
  <2>3. UNCHANGED <<keys, tasks, history, starts, main, rows, targets, code>>
    BY DEF Spawn, Rejected, RequestFails, Refused, Accepted, Closes, Breaks, Cancelled, registry
  <2> QED
    BY <2>1, <2>2, <2>3 DEF TestInv, TestTypes
<1>2. Offered' /\ (main' = "ramp" => targets' # <<>>) /\ Up' = Up
  BY <1>1 DEF TestInv, Offered, Streamed, keys, tasks, Up
\* The step as a move: from a state to another, with what becomes of the counters.
<1> DEFINE Move(old, new) == viewer[i] = old /\ Becomes(i, new)
           Plain == link' = link /\ count' = count
           Fails == link' = link /\ count' = [count EXCEPT !.failed = @ + 1]
           Opens == \E r \in Replicas :
                      /\ link' = [link EXCEPT ![i] = r]
                      /\ count' = [count EXCEPT !.connected = @ + 1, !.active = @ + 1]
           Ends(counted) ==
             /\ link' = [link EXCEPT ![i] = Absent]
             /\ count' = [counted EXCEPT !.active = @ - 1]
           Drops == Ends([count EXCEPT !.dropped = @ + 1])
<1>3. \/ Move("new", "asking") /\ Plain /\ main = "ramp"
      \/ Move("asking", "refused") /\ Fails /\ main = "ramp" /\ (Rejected(i) \/ RequestFails(i))
      \/ Move("asking", "open") /\ Opens /\ main = "ramp"
      \/ Move("open", "closed") /\ Ends(count) /\ main = "ramp"
      \/ Move("open", "broken") /\ Drops /\ main = "ramp" /\ Breaks(i)
      \/ Move("open", "cancelled") /\ Ends(count) /\ main = "gather"
      \/ Move("asking", "cancelled") /\ Plain /\ main = "gather"
  <2>1. CASE Spawn(i)
    BY <2>1 DEF Spawn
  <2>2. CASE Rejected(i) \/ RequestFails(i)
    BY <2>2 DEF Rejected, RequestFails, Refused, Asks
  <2>3. ASSUME NEW r \in Replicas, Accepted(i, r)
        PROVE  Move("asking", "open") /\ Opens /\ main = "ramp"
    BY <2>3 DEF Accepted, Asks
  <2>4. CASE Closes(i)
    BY <2>4 DEF Closes, Leaves
  <2>5. CASE Breaks(i)
    BY <2>5 DEF Breaks, Leaves
  <2>6. CASE Cancelled(i)
    BY <2>6 DEF Cancelled, Running, Leaves
  <2> QED
    BY <2>1, <2>2, <2>3, <2>4, <2>5, <2>6
<1> DEFINE Counts(active, failed, dropped) ==
             /\ count'.active = count.active + active
             /\ count'.failed = count.failed + failed
             /\ count'.dropped = count.dropped + dropped
<1>4. /\ count \in Counters /\ count.active \in Int /\ count.failed \in Int /\ count.dropped \in Int
  BY DEF TestInv, TestTypes, Counters
<1>5. Plain => count' \in Counters /\ Counts(0, 0, 0)
  BY <1>4
<1>6. Fails => count' \in Counters /\ Counts(0, 1, 0)
  <2> SUFFICES ASSUME Fails PROVE count' \in Counters /\ Counts(0, 1, 0)
    OBVIOUS
  <2>1. /\ count' \in Counters
        /\ count'.active = count.active /\ count'.failed = count.failed + 1
        /\ count'.dropped = count.dropped
    BY <1>4, CountFailed
  <2> QED
    BY <1>4, <2>1
<1>7. Opens => count' \in Counters /\ Counts(1, 0, 0)
  <2> SUFFICES ASSUME Opens PROVE count' \in Counters /\ Counts(1, 0, 0)
    OBVIOUS
  <2>1. count' = [count EXCEPT !.connected = @ + 1, !.active = @ + 1]
    OBVIOUS
  <2>2. /\ count' \in Counters
        /\ count'.active = count.active + 1 /\ count'.failed = count.failed
        /\ count'.dropped = count.dropped
    BY <1>4, <2>1, CountOpened
  <2> QED
    BY <1>4, <2>2
<1>8. Ends(count) => count' \in Counters /\ Counts(-1, 0, 0)
  BY <1>4, CountLeft
<1>9. Drops => count' \in Counters /\ Counts(-1, 0, 1)
  <2> SUFFICES ASSUME Drops PROVE count' \in Counters /\ Counts(-1, 0, 1)
    OBVIOUS
  <2>1. count' = [[count EXCEPT !.dropped = @ + 1] EXCEPT !.active = @ - 1]
    OBVIOUS
  <2>2. /\ count' \in Counters
        /\ count'.active = count.active - 1 /\ count'.failed = count.failed
        /\ count'.dropped = count.dropped + 1
    BY <1>4, <2>1, CountDropped
  <2> QED
    BY <1>4, <2>2
<1>10. TestTypes'
  <2>1. viewer' \in [Viewers -> ViewerStates]
    BY <1>3 DEF Becomes, TestInv, TestTypes
  <2>2. link' \in [Viewers -> Replicas \cup {Absent}]
    BY <1>3 DEF TestInv, TestTypes
  <2>3. count' \in Counters
    BY <1>3, <1>5, <1>6, <1>7, <1>8, <1>9
  <2> QED
    BY <1>1, <2>1, <2>2, <2>3 DEF TestInv, TestTypes
\* Without a fault nothing is refused and nothing breaks.
<1>11. ~(faults' = 0 /\ Move("asking", "refused") /\ main = "ramp" /\ Rejected(i))
  <2> SUFFICES ASSUME faults' = 0, main = "ramp", Rejected(i) PROVE FALSE
    OBVIOUS
  <2>1. Up # {}
    BY <1>1 DEF TestInv, Faultless
  <2>2. (i % Len(targets)) + 1 \in DOMAIN targets
    <3>1. targets \in Seq(Sids \X STRING) /\ targets # <<>> /\ i \in Nat
      BY DEF TestInv, TestTypes, Viewers
    <3>2. Len(targets) \in Nat \ {0} /\ DOMAIN targets = 1..Len(targets)
      BY <3>1
    <3>3. i % Len(targets) \in 0..(Len(targets) - 1)
      BY <3>1, <3>2
    <3> QED
      BY <3>2, <3>3
  <2>3. Streamed(Target(i)[1], Target(i)[2])
    BY <2>2 DEF Target, TestInv, Offered
  <2> QED
    BY <2>1, <2>3 DEF Rejected
<1>12. faults' = 0 => ~Breaks(i)
  BY <1>1 DEF Breaks, TestInv, Faultless
<1>13. Faultless'
  <2> SUFFICES ASSUME faults' = 0
               PROVE  /\ main' \in {"rows", "ramp"} => Up' # {}
                      /\ \A j \in Viewers : viewer'[j] = "open" => link'[j] # Absent
    BY DEF Faultless
  <2>1. main' \in {"rows", "ramp"} => Up' # {}
    BY <1>1, <1>2 DEF TestInv, Faultless
  <2>2. \A j \in Viewers \ {i} : viewer'[j] = viewer[j] /\ link'[j] = link[j]
    BY <1>3 DEF Becomes, TestInv, TestTypes
  <2>3. viewer'[i] = "open" => link'[i] # Absent
    BY <1>3, RegistryAssumption DEF Becomes, TestInv, TestTypes
  <2> QED
    BY <1>1, <2>1, <2>2, <2>3 DEF TestInv, Faultless
<1>14. OnlyFaultsFail'
  <2> SUFFICES ASSUME faults' = 0 PROVE count'.failed = 0 /\ count'.dropped = 0
    BY DEF OnlyFaultsFail
  <2>1. count.failed = 0 /\ count.dropped = 0
    BY <1>1 DEF TestInv, OnlyFaultsFail
  <2>2. Plain \/ Opens \/ Ends(count)
    BY <1>1, <1>3, <1>11, <1>12
  <2> HIDE DEF Plain, Opens, Ends
  <2> QED
    BY <2>1, <2>2, <1>5, <1>7, <1>8
<1>15. Counting'
  <2>1. main \in {"ramp", "gather"} /\ main' = main /\ code' = code
    BY <1>1, <1>3
  <2>2. code' # 0
    BY <2>1 DEF TestInv, Counting
  <2>3. /\ count.active = Cardinality(Ended("open"))
        /\ count.failed = Cardinality(Ended("refused"))
        /\ count.dropped = Cardinality(Ended("broken"))
        /\ Cardinality(Ended("open")) \in Nat
        /\ Cardinality(Ended("refused")) \in Nat
        /\ Cardinality(Ended("broken")) \in Nat
    BY EndedFinite DEF TestInv, Counting, CountersAgree
  <2>4. /\ count'.active = Cardinality(Ended("open")')
        /\ count'.failed = Cardinality(Ended("refused")')
        /\ count'.dropped = Cardinality(Ended("broken")')
    <3>1. ASSUME NEW old, NEW new \in ViewerStates \ {old}, Move(old, new)
          PROVE  /\ Cardinality(Ended(new)') = Cardinality(Ended(new)) + 1
                 /\ Cardinality(Ended(old)') = Cardinality(Ended(old)) - 1
                 /\ \A how : how # new /\ how # old => Ended(how)' = Ended(how)
      BY <3>1, Counted DEF TestInv
    <3>2. CASE (Move("new", "asking") \/ Move("asking", "cancelled")) /\ Counts(0, 0, 0)
      BY <3>1, <3>2, <2>3
    <3>3. CASE Move("asking", "refused") /\ Counts(0, 1, 0)
      BY <3>1, <3>3, <2>3
    <3>4. CASE Move("asking", "open") /\ Counts(1, 0, 0)
      BY <3>1, <3>4, <2>3
    <3>5. CASE (Move("open", "closed") \/ Move("open", "cancelled")) /\ Counts(-1, 0, 0)
      BY <3>1, <3>5, <2>3
    <3>6. CASE Move("open", "broken") /\ Counts(-1, 0, 1)
      BY <3>1, <3>6, <2>3
    <3> HIDE DEF Plain, Fails, Opens, Ends, Drops
    <3> QED
      BY <1>3, <1>5, <1>6, <1>7, <1>8, <1>9, <3>2, <3>3, <3>4, <3>5, <3>6
  <2>5. (count.active = Cardinality(Ended("open")))'
    BY <2>4
  <2> QED
    BY <2>1, <2>2, <2>4 DEF Counting, CountersAgree
<1> QED
  BY <1>2, <1>10, <1>13, <1>14, <1>15 DEF TestInv

LEMMA TestStutters ==
    ASSUME TestInv, UNCHANGED all PROVE TestInv'
BY DEF all, test, registry, keys, tasks, TestInv, TestTypes, Offered, Streamed, Faultless, Up,
       OnlyFaultsFail, Counting, CountersAgree, Ended

LEMMA TestInvariant == LoadSpec => []TestInv
<1>1. LoadInit => TestInv
  BY TestInit
<1>2. IInv /\ TestInv /\ [LoadNext]_all => TestInv'
  BY ApiKeeps, DeathKeeps, MainKeeps, ViewerKeeps, TestStutters DEF LoadNext, Test
<1> QED
  BY <1>1, <1>2, LoadInvariant, PTL DEF LoadSpec

\* Without a fault no viewer of the load test is refused or loses its connection,
\* whatever is created, stopped or started meanwhile.
THEOREM FaultsOnly == LoadSpec => []OnlyFaultsFail
<1>1. TestInv => OnlyFaultsFail
  BY DEF TestInv
<1> QED
  BY <1>1, TestInvariant, PTL

\* The counters of the load test are what became of its viewers, and 0 is its
\* exit code only if none was refused or broke.
THEOREM CountersRight == LoadSpec => []CountersAgree
<1>1. TestInv => CountersAgree
  BY DEF TestInv, Counting
<1> QED
  BY <1>1, TestInvariant, PTL

-----------------------------------------------------------------------------
(* What the load test watches.                                             *)

\* The languages of a configuration that passed the validators.
LEMMA LangsUnrepeated ==
    ASSUME NEW c \in Configs
    PROVE  Unrepeated(Langs(c))
<1>1. PICK b \in Bodies : Valid(b) /\ c = Validated(b)
  BY DEF Configs
<1>2. b.targets \in Seq(STRING)
  BY <1>1, RegistryAssumption
<1> DEFINE d == Distinct(b.targets)
<1>3. d \in Seq(STRING)
  BY <1>2, FirstOfEach
<1>4. Unrepeated(d)
  BY <1>2, FirstOfEach
<1>5. ~Has(d, b.source)
  BY <1>1, <1>2, FirstOfEach DEF Valid
<1>6. Langs(c) = <<b.source>> \o d
  BY <1>1 DEF Langs, Validated
<1> HIDE DEF d
<1>7. /\ DOMAIN Langs(c) = 1..(Len(d) + 1) /\ Len(d) \in Nat /\ DOMAIN d = 1..Len(d)
      /\ Langs(c)[1] = b.source
      /\ \A i \in 1..(Len(d) + 1) : i # 1 => i - 1 \in DOMAIN d /\ Langs(c)[i] = d[i - 1]
  BY <1>3, <1>6
<1>8. ASSUME NEW i \in DOMAIN Langs(c), NEW j \in DOMAIN Langs(c), Langs(c)[i] = Langs(c)[j]
      PROVE  i = j
  <2>1. CASE i = 1 \/ j = 1
    BY <1>5, <1>7, <1>8, <2>1 DEF Has
  <2>2. CASE i # 1 /\ j # 1
    <3>1. i - 1 = j - 1
      BY <1>4, <1>7, <1>8, <2>2 DEF Unrepeated
    <3> QED
      BY <1>7, <3>1
  <2> QED
    BY <2>1, <2>2
<1> QED
  BY <1>8 DEF Unrepeated

\* All languages of a session are targets.
Covered(s) == \A i \in DOMAIN Langs(config[s]) : Has(targets, <<s, Langs(config[s])[i]>>)

\* What is owed is still to be read or covered, and what is a target is read.
WatchInv ==
    /\ owed \subseteq Sids
    /\ main = "start" => targets = <<>>
    /\ \A s \in owed : config[s] # Absent /\ StateOf(s) \notin Finished
    /\ main = "rows" => \A s \in owed : s \in rows \/ Covered(s)
    /\ main = "rows" => \A i \in DOMAIN targets : targets[i][1] \notin rows
    /\ main = "ramp" => \A s \in owed : Covered(s)
    /\ Unrepeated(targets)

\* Nothing but the owed sessions changes, and there only what is over is left out.
LEMMA WatchStays ==
    ASSUME IInv, WatchInv, RegistryNext \/ UNCHANGED <<keys, tasks, history, starts>>,
           owed' \subseteq owed, \A s \in owed' : StateOf(s)' \notin Finished,
           targets' = targets, rows' = rows,
           \/ main' = main \/ main' \in {"gather", "exit"}
           \/ main = "rows" /\ rows = {} /\ main' = "ramp"
    PROVE  WatchInv'
<1>1. \A s \in owed' : s \in Sids /\ s \in owed /\ config[s] # Absent /\ config'[s] = config[s]
  BY ConfigsStay DEF WatchInv
<1>2. \A s \in owed' : Covered(s) => Covered(s)'
  BY <1>1 DEF Covered
<1>3. owed' \subseteq Sids /\ \A s \in owed' : config'[s] # Absent /\ StateOf(s)' \notin Finished
  BY <1>1 DEF WatchInv
<1>4. main' = "rows" => \A s \in owed' : s \in rows' \/ Covered(s)'
  BY <1>1, <1>2 DEF WatchInv
<1>5. main' = "ramp" => \A s \in owed' : Covered(s)'
  BY <1>1, <1>2 DEF WatchInv
<1>6. /\ main' = "start" => targets' = <<>>
      /\ main' = "rows" => \A i \in DOMAIN targets' : targets'[i][1] \notin rows'
      /\ Unrepeated(targets)'
  BY DEF WatchInv, Unrepeated
<1> QED
  BY <1>3, <1>4, <1>5, <1>6 DEF WatchInv

\* A row of the listing is read.
LEMMA RowKeeps ==
    ASSUME IInv, TestInv, WatchInv, ReadsRow
    PROVE  WatchInv'
<1>1. PICK s \in rows : /\ rows' = rows \ {s}
                        /\ targets' = IF Watched(s) THEN targets \o Streams(s) ELSE targets
  BY DEF ReadsRow
<1>2. /\ main = "rows" /\ main' = "rows" /\ owed' = owed
      /\ UNCHANGED <<config, state>> /\ s \in Sids
      /\ targets \in Seq(Sids \X STRING)
  BY DEF ReadsRow, registry, keys, TestInv, TestTypes
<1>3. \A x : StateOf(x)' = StateOf(x)
  BY <1>2 DEF StateOf
<1>4. CASE ~Watched(s)
  <2>1. s \notin owed
    <3>1. s \in owed => config[s] # Absent /\ StateOf(s) \notin Finished
      BY DEF WatchInv
    <3>2. StateOf(s) \in Status
      BY <1>2 DEF IInv, Types, StateOf, Status
    <3> QED
      BY <1>4, <3>1, <3>2 DEF Watched, Status
  <2>2. targets' = targets
    BY <1>1, <1>4
  <2>3. \A x : Covered(x)' = Covered(x)
    BY <1>2, <2>2 DEF Covered
  <2> QED
    BY <1>1, <1>2, <1>3, <2>1, <2>2, <2>3 DEF WatchInv, Unrepeated
<1>5. CASE Watched(s)
  <2> DEFINE new == Streams(s)
             langs == Langs(config[s])
  <2>1. config[s] # Absent /\ targets' = targets \o new
    BY <1>1, <1>5 DEF Watched
  <2>2. langs \in Seq(STRING) /\ new \in Seq(Sids \X STRING)
    BY <1>2, <2>1, LangsType
  <2>3. Unrepeated(langs)
    <3>1. config[s] \in Configs
      BY <1>2, <2>1 DEF IInv, Types
    <3> QED
      BY <3>1, LangsUnrepeated
  <2>4. DOMAIN new = DOMAIN langs /\ \A i \in DOMAIN new : new[i] = <<s, langs[i]>>
    BY DEF Streams
  <2> HIDE DEF new, langs
  <2>5. /\ Len(targets) \in Nat /\ Len(new) \in Nat
        /\ DOMAIN targets = 1..Len(targets) /\ DOMAIN new = 1..Len(new)
        /\ DOMAIN targets' = 1..(Len(targets) + Len(new))
        /\ \A i \in 1..Len(targets) : targets'[i] = targets[i]
        /\ \A i \in 1..Len(new) : targets'[Len(targets) + i] = new[i]
    BY <1>2, <2>1, <2>2
  <2>6. ASSUME NEW i \in DOMAIN targets'
        PROVE  \/ i \in DOMAIN targets /\ targets'[i] = targets[i] /\ targets'[i][1] \in Sids \ rows
               \/ i - Len(targets) \in DOMAIN new /\ targets'[i] = new[i - Len(targets)]
                  /\ targets'[i][1] = s
    <3>1. CASE i <= Len(targets)
      <4>1. i \in DOMAIN targets /\ targets'[i] = targets[i]
        BY <2>5, <2>6, <3>1
      <4>2. targets[i] \in Sids \X STRING
        BY <1>2, <4>1
      <4> QED
        BY <1>2, <4>1, <4>2 DEF WatchInv
    <3>2. CASE ~ (i <= Len(targets))
      <4>1. i - Len(targets) \in 1..Len(new) /\ i = Len(targets) + (i - Len(targets))
        BY <2>5, <2>6, <3>2
      <4>2. targets'[i] = new[i - Len(targets)]
        BY <2>5, <4>1
      <4> QED
        BY <2>4, <2>5, <4>1, <4>2
    <3> QED
      BY <3>1, <3>2
  <2>7. \A i \in DOMAIN targets' : targets'[i][1] \notin rows'
    BY <1>1, <2>6
  <2>8. Unrepeated(targets')
    <3> SUFFICES ASSUME NEW i \in DOMAIN targets', NEW j \in DOMAIN targets',
                        targets'[i] = targets'[j]
                 PROVE  i = j
      BY DEF Unrepeated
    <3>1. CASE i \in DOMAIN targets /\ j \in DOMAIN targets
      BY <2>5, <3>1 DEF WatchInv, Unrepeated
    <3>2. CASE i - Len(targets) \in DOMAIN new /\ j - Len(targets) \in DOMAIN new
               /\ targets'[i] = new[i - Len(targets)] /\ targets'[j] = new[j - Len(targets)]
      <4>1. langs[i - Len(targets)] = langs[j - Len(targets)]
        <5>1. /\ new[i - Len(targets)] = <<s, langs[i - Len(targets)]>>
              /\ new[j - Len(targets)] = <<s, langs[j - Len(targets)]>>
          BY ONLY <2>4, <3>2, ZenonT(30)
        <5>2. new[i - Len(targets)] = new[j - Len(targets)]
          BY ONLY <3>2, targets'[i] = targets'[j], ZenonT(30)
        <5> QED
          BY ONLY <5>1, <5>2
      <4>2. i - Len(targets) = j - Len(targets)
        BY <2>3, <2>4, <3>2, <4>1 DEF Unrepeated
      <4> QED
        BY <2>5, <4>2
    <3> QED
      BY <1>1, <2>6, <3>1, <3>2
  <2>9. \A x : Has(targets, x) => Has(targets', x)
    BY <2>5 DEF Has
  <2>10. Covered(s)'
    <3>1. ASSUME NEW i \in DOMAIN langs
          PROVE  Has(targets', <<s, langs[i]>>)
      BY <2>4, <2>5 DEF Has
    <3> QED
      BY <1>2, <3>1 DEF Covered, langs
  <2>11. \A x : Covered(x) => Covered(x)'
    BY <1>2, <2>9 DEF Covered
  <2> QED
    BY <1>1, <1>2, <1>3, <2>7, <2>8, <2>10, <2>11 DEF WatchInv, Unrepeated
<1> QED
  BY <1>4, <1>5

LEMMA WatchKeeps ==
    ASSUME IInv, TestInv, WatchInv, [LoadNext]_all
    PROVE  WatchInv'
<1>0. RegistryNext \/ UNCHANGED <<keys, tasks, history, starts>>
  BY LoadSteps
<1>1. CASE ApiStep
  BY <1>0, <1>1, WatchStays DEF ApiStep, test
<1>2. ASSUME NEW r \in Replicas, ReplicaDies(r)
      PROVE  WatchInv'
  <2>1. \A s \in owed : StateOf(s)' = StateOf(s)
    BY <1>2 DEF ReplicaDies, Crash, Cut, keys, StateOf
  <2>2. \A s \in owed : StateOf(s)' \notin Finished
    BY <2>1 DEF WatchInv
  <2> QED
    BY <1>0, <1>2, <2>2, WatchStays DEF ReplicaDies, Exits
<1>3. CASE Lists
  <2>1. /\ main = "start" /\ main' = "rows" /\ rows' = listed /\ targets' = targets
        /\ owed' = {s \in Sids : granted[s] # <<>> /\ StateOf(s) \notin Finished}
        /\ config' = config /\ state' = state
    BY <1>3 DEF Lists, registry, keys
  <2>2. targets' = <<>>
    BY <2>1 DEF WatchInv
  <2>3. \A s \in owed' : s \in Sids /\ config[s] # Absent /\ s \in listed /\ StateOf(s) \notin Finished
    BY <2>1 DEF IInv, Confirmed
  <2>4. \A s : StateOf(s)' = StateOf(s)
    BY <2>1 DEF StateOf
  <2> QED
    BY <2>1, <2>2, <2>3, <2>4 DEF WatchInv, Unrepeated
<1>4. CASE ReadsRow
  BY <1>4, RowKeeps
<1>5. CASE \/ Targeted \/ ListingFails \/ Stops \/ Reports \/ UNCHANGED all
           \/ \E i \in Viewers :
                \/ Spawn(i) \/ Rejected(i) \/ RequestFails(i) \/ \E r \in Replicas : Accepted(i, r)
                \/ Closes(i) \/ Breaks(i) \/ Cancelled(i)
  <2>1. /\ UNCHANGED <<keys, rows, targets, owed>>
        /\ \/ main' = main \/ main' \in {"gather", "exit"}
           \/ main = "rows" /\ rows = {} /\ main' = "ramp"
    BY <1>5 DEF Targeted, ListingFails, Stops, Reports, all, test, Exits, registry, Spawn, Rejected,
                RequestFails, Refused, Accepted, Closes, Breaks, Cancelled
  <2>2. \A s \in owed : StateOf(s)' \notin Finished
    BY <2>1 DEF keys, StateOf, WatchInv
  <2> QED
    BY <1>0, <2>1, <2>2, WatchStays
<1> QED
  BY <1>1, <1>2, <1>3, <1>4, <1>5 DEF LoadNext, Test

\* Whatever is created, stopped or started while the talks are listed, the load
\* test watches every confirmed talk that is not over in each of its languages,
\* and no stream twice.
THEOREM AllWatched == LoadSpec => []EveryTalkWatched
<1>1. LoadInit => WatchInv
  BY DEF LoadInit, WatchInv, Unrepeated
<1>2. IInv /\ TestInv /\ WatchInv /\ [LoadNext]_all => WatchInv'
  BY WatchKeeps
<1>3. WatchInv => EveryTalkWatched
  BY DEF WatchInv, EveryTalkWatched, Covered, Unrepeated
<1> QED
  BY <1>1, <1>2, <1>3, LoadInvariant, TestInvariant, PTL DEF LoadSpec

=============================================================================
