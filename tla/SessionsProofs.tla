---------------------------- MODULE SessionsProofs ----------------------------
(***************************************************************************)
(* Safety of Sessions for any number of workers and sessions and any       *)
(* bounds: well-formed state, one producer per session while no worker     *)
(* hangs, the numbering of the captions, and stops.                        *)
(***************************************************************************)
EXTENDS Sessions, TLAPS

-----------------------------------------------------------------------------
(* Caption streams: what an append does to the numbering.                  *)

\* Every seq below n is in the stream; every seq in the stream is below n, but
\* for those before a lull.
Covered(l, n) == \A m \in 0..(n - 1) : \E i \in Finals(l) : l[i].seq = m
Above(l, n) == \A i \in Finals(l) : l[i].seq < n \/ Interrupted(l, i, Len(l) + 1)

\* A stream with a FINAL has a last one.
HasLast(l) == Finals(l) # {} => \E i \in Finals(l) : \A j \in Finals(l) : j <= i

\* The stream after an append.
LEMMA AppendEntry ==
    ASSUME NEW l \in Seq(Entry), NEW e \in Entry
    PROVE  /\ Append(l, e) \in Seq(Entry)
           /\ Len(l) \in Nat /\ DOMAIN l = 1..Len(l)
           /\ DOMAIN Append(l, e) = 1..(Len(l) + 1)
           /\ \A i \in 1..Len(l) : Append(l, e)[i] = l[i]
           /\ Append(l, e)[Len(l) + 1] = e
OBVIOUS

\* The FINALs after an append, and where they are.
LEMMA AppendFinals ==
    ASSUME NEW l \in Seq(Entry), NEW e \in Entry
    PROVE  /\ Finals(l) \subseteq 1..Len(l) /\ Len(l) \in Nat
           /\ \A i \in Finals(l) : /\ i \in Finals(Append(l, e))
                                   /\ Append(l, e)[i] = l[i]
                                   /\ l[i].seq \in Nat
           /\ \A i \in Finals(Append(l, e)) :
                 \/ i \in Finals(l)
                 \/ i = Len(l) + 1 /\ e.kind = "final" /\ Append(l, e)[i] = e
           /\ e.kind = "final" => Len(l) + 1 \in Finals(Append(l, e))
           /\ Append(l, e)[Len(l) + 1] = e
<1>1. /\ Len(l) \in Nat /\ DOMAIN l = 1..Len(l)
      /\ DOMAIN Append(l, e) = 1..(Len(l) + 1)
      /\ \A i \in 1..Len(l) : Append(l, e)[i] = l[i] /\ l[i] \in Entry
      /\ Append(l, e)[Len(l) + 1] = e
  BY AppendEntry
<1>2. Finals(l) \subseteq 1..Len(l)
  BY <1>1 DEF Finals
<1>3. \A i \in Finals(l) : i \in Finals(Append(l, e)) /\ Append(l, e)[i] = l[i]
  BY <1>1, <1>2 DEF Finals, IsFinal
<1>4. \A i \in Finals(l) : l[i].seq \in Nat
  BY <1>1, <1>2 DEF Entry
<1>5. \A i \in Finals(Append(l, e)) :
         \/ i \in Finals(l)
         \/ i = Len(l) + 1 /\ e.kind = "final" /\ Append(l, e)[i] = e
  <2> SUFFICES ASSUME NEW i \in Finals(Append(l, e)), i \notin Finals(l)
               PROVE  i = Len(l) + 1 /\ e.kind = "final" /\ Append(l, e)[i] = e
    OBVIOUS
  <2>1. i \in 1..(Len(l) + 1) /\ Append(l, e)[i].kind = "final"
    BY <1>1 DEF Finals, IsFinal
  <2>2. i \notin 1..Len(l)
    BY <1>1, <2>1 DEF Finals, IsFinal
  <2>3. i = Len(l) + 1
    BY <1>1, <2>1, <2>2
  <2> QED BY <1>1, <2>1, <2>3
<1>6. e.kind = "final" => Len(l) + 1 \in Finals(Append(l, e))
  BY <1>1 DEF Finals, IsFinal
<1> QED BY <1>1, <1>2, <1>3, <1>4, <1>5, <1>6

LEMMA EntryTypes ==
    /\ \A n \in Nat : /\ FinalEntry(n) \in Entry
                      /\ FinalEntry(n).kind = "final" /\ FinalEntry(n).seq = n
    /\ PartialEntry \in Entry /\ PartialEntry.kind # "final"
    /\ \A k \in {"ended", "error"} : /\ EventEntry(k) \in Entry
                                     /\ EventEntry(k).kind # "final"
BY DEF FinalEntry, PartialEntry, EventEntry, Entry

\* What was in a stream stays in it.
LEMMA CoveredGrows ==
    ASSUME NEW l \in Seq(Entry), NEW e \in Entry, NEW n \in Nat, Covered(l, n)
    PROVE  Covered(Append(l, e), n)
BY AppendFinals DEF Covered

\* A stream always has a last FINAL once it has one.
LEMMA LastGrows ==
    ASSUME NEW l \in Seq(Entry), NEW e \in Entry, HasLast(l)
    PROVE  HasLast(Append(l, e))
<1>1. CASE e.kind = "final"
  <2>1. \A j \in Finals(Append(l, e)) : j <= Len(l) + 1
    BY AppendFinals
  <2> QED BY <1>1, <2>1, AppendFinals DEF HasLast
<1>2. CASE e.kind # "final"
  <2>1. Finals(Append(l, e)) = Finals(l)
    BY <1>2, AppendFinals
  <2> QED BY <2>1 DEF HasLast
<1> QED BY <1>1, <1>2

\* A lull stays one, and lies between all that it lay between.
LEMMA LullGrows ==
    ASSUME NEW l \in Seq(Entry), NEW e \in Entry
    PROVE  /\ \A i, j \in Nat : Interrupted(l, i, j) => Interrupted(Append(l, e), i, j)
           /\ \A i \in Nat : Interrupted(l, i, Len(l) + 1) =>
                 Interrupted(Append(l, e), i, Len(l) + 2)
           /\ Len(Append(l, e)) = Len(l) + 1
<1> DEFINE k == Append(l, e)
<1>1. /\ Len(l) \in Nat /\ \A i \in 1..Len(l) : k[i] = l[i]
      /\ Len(k) = Len(l) + 1
  BY AppendEntry
<1>2. Finals(l) \subseteq 1..Len(l) /\ \A i \in Finals(l) : i \in Finals(k)
  BY AppendFinals
<1> HIDE DEF k
<1>3. ASSUME NEW m \in Finals(l), Lull(l, m) PROVE Lull(k, m)
  <2>1. m \in 1..Len(l) /\ m + Scan <= Len(l) /\ Scan \in Nat
    BY <1>2, <1>3, ConstantsAssumption DEF Lull
  <2>2. \A j \in (m + 1)..(m + Scan) : j \in 1..Len(l) /\ k[j] = l[j]
    BY <1>1, <2>1
  <2> QED BY <1>1, <1>3, <2>1, <2>2 DEF Lull, IsFinal
<1>4. \A i, j \in Nat : Interrupted(l, i, j) => Interrupted(k, i, j)
  BY <1>2, <1>3 DEF Interrupted
<1>5. ASSUME NEW i \in Nat, Interrupted(l, i, Len(l) + 1) PROVE Interrupted(k, i, Len(l) + 2)
  <2>1. PICK m \in Finals(l) : i <= m /\ m < Len(l) + 1 /\ Lull(l, m)
    BY <1>5 DEF Interrupted
  <2>2. m \in Finals(k) /\ m < Len(l) + 2 /\ Lull(k, m)
    BY <1>1, <1>2, <1>3, <2>1
  <2> QED BY <2>1, <2>2 DEF Interrupted
<1> QED BY <1>1, <1>4, <1>5 DEF k

\* A partial or an event changes nothing in the numbering.
LEMMA EventKeeps ==
    ASSUME NEW l \in Seq(Entry), NEW e \in Entry, e.kind # "final"
    PROVE  /\ HoleFree(l) => HoleFree(Append(l, e))
           /\ Rising(l) => Rising(Append(l, e))
           /\ \A n \in Nat : Above(l, n) => Above(Append(l, e), n)
<1> DEFINE k == Append(l, e)
<1>1. Finals(k) = Finals(l) /\ \A i \in Finals(l) : k[i] = l[i]
  BY AppendFinals
<1>6. \A i \in Finals(l) : i \in Nat
  BY AppendFinals
<1>2. /\ \A i, j \in Nat : Interrupted(l, i, j) => Interrupted(k, i, j)
      /\ \A i \in Nat : Interrupted(l, i, Len(l) + 1) => Interrupted(k, i, Len(l) + 2)
      /\ Len(l) \in Nat /\ Len(k) = Len(l) + 1
  BY LullGrows
<1> HIDE DEF k
<1>3. HoleFree(l) => HoleFree(k)
  BY <1>1 DEF HoleFree
<1>4. Rising(l) => Rising(k)
  BY <1>1, <1>2, <1>6 DEF Rising
<1>5. ASSUME NEW n \in Nat, Above(l, n) PROVE Above(k, n)
  <2>1. Len(k) + 1 = Len(l) + 2
    BY <1>2
  <2> QED BY <1>1, <1>2, <1>5, <1>6, <2>1 DEF Above
<1> QED BY <1>3, <1>4, <1>5 DEF k

\* The next number, when all lower ones are there, makes no hole.
LEMMA FinalNoHole ==
    ASSUME NEW l \in Seq(Entry), NEW n \in Nat, HoleFree(l), Covered(l, n)
    PROVE  /\ HoleFree(Append(l, FinalEntry(n)))
           /\ Covered(Append(l, FinalEntry(n)), n + 1)
<1> DEFINE e == FinalEntry(n)
           k == Append(l, e)
<1>1. e \in Entry /\ e.kind = "final" /\ e.seq = n
  BY EntryTypes
<1> HIDE DEF e
<1>2. /\ Finals(l) \subseteq 1..Len(l) /\ Len(l) \in Nat
      /\ \A i \in Finals(l) : i \in Finals(k) /\ k[i] = l[i] /\ l[i].seq \in Nat
      /\ \A i \in Finals(k) : i \in Finals(l) \/ (i = Len(l) + 1 /\ k[i] = e)
      /\ Len(l) + 1 \in Finals(k) /\ k[Len(l) + 1] = e
  BY <1>1, AppendFinals
<1> HIDE DEF k
<1>3. HoleFree(k)
  <2> SUFFICES ASSUME NEW j \in Finals(k), NEW m \in 0..(k[j].seq - 1)
               PROVE  \E i \in Finals(k) : i < j /\ k[i].seq = m
    BY DEF HoleFree
  <2>1. CASE j \in Finals(l)
    <3>1. PICK i \in Finals(l) : i < j /\ l[i].seq = m
      BY <1>2, <2>1 DEF HoleFree
    <3> QED BY <1>2, <3>1
  <2>2. CASE j = Len(l) + 1 /\ k[j] = e
    <3>1. PICK i \in Finals(l) : l[i].seq = m
      BY <1>1, <2>2 DEF Covered
    <3>2. i < j
      BY <1>2, <2>2
    <3> QED BY <1>2, <3>1, <3>2
  <2> QED BY <1>2, <2>1, <2>2
<1>4. Covered(k, n + 1)
  <2> SUFFICES ASSUME NEW m \in 0..n
               PROVE  \E i \in Finals(k) : k[i].seq = m
    BY DEF Covered
  <2>1. CASE m = n
    BY <1>1, <1>2, <2>1
  <2>2. CASE m \in 0..(n - 1)
    BY <1>2, <2>2 DEF Covered
  <2> QED BY <2>1, <2>2
<1> QED BY <1>3, <1>4 DEF k, e

\* The next number, when all others since the last lull are lower, is a new one.
LEMMA FinalNoRepeat ==
    ASSUME NEW l \in Seq(Entry), NEW n \in Nat, Rising(l), Above(l, n)
    PROVE  /\ Rising(Append(l, FinalEntry(n)))
           /\ Above(Append(l, FinalEntry(n)), n + 1)
<1> DEFINE e == FinalEntry(n)
           k == Append(l, e)
<1>1. e \in Entry /\ e.kind = "final" /\ e.seq = n
  BY EntryTypes
<1> HIDE DEF e
<1>2. /\ Finals(l) \subseteq 1..Len(l) /\ Len(l) \in Nat
      /\ \A i \in Finals(l) : k[i] = l[i] /\ l[i].seq \in Nat
      /\ \A i \in Finals(k) : i \in Finals(l) \/ (i = Len(l) + 1 /\ k[i] = e)
  BY <1>1, AppendFinals
<1>3. /\ \A i, j \in Nat : Interrupted(l, i, j) => Interrupted(k, i, j)
      /\ \A i \in Nat : Interrupted(l, i, Len(l) + 1) => Interrupted(k, i, Len(l) + 2)
      /\ Len(k) + 1 = Len(l) + 2
  BY <1>1, <1>2, LullGrows
<1> HIDE DEF k
<1>4. Rising(k)
  <2> SUFFICES ASSUME NEW i \in Finals(k), NEW j \in Finals(k), i < j
               PROVE  k[i].seq < k[j].seq \/ Interrupted(k, i, j)
    BY DEF Rising
  <2>1. i \in Finals(l) /\ i \in Nat /\ j \in Nat
    BY <1>2
  <2>2. CASE j \in Finals(l)
    BY <1>2, <1>3, <2>1, <2>2 DEF Rising
  <2>3. CASE j = Len(l) + 1 /\ k[j] = e
    BY <1>1, <1>2, <1>3, <2>1, <2>3 DEF Above
  <2> QED BY <1>2, <2>2, <2>3
<1>5. Above(k, n + 1)
  <2> SUFFICES ASSUME NEW i \in Finals(k)
               PROVE  k[i].seq < n + 1 \/ Interrupted(k, i, Len(l) + 2)
    BY <1>3 DEF Above
  <2>1. CASE i \in Finals(l)
    BY <1>2, <1>3, <2>1 DEF Above
  <2>2. CASE k[i] = e
    BY <1>1, <2>2
  <2> QED BY <1>2, <2>1, <2>2
<1> QED BY <1>4, <1>5 DEF k, e

\* The look-up returns the last FINAL, or there is none near the end.
LEMMA NewestIsLast ==
    ASSUME NEW l \in Seq(Entry), HasLast(l)
    PROVE  /\ Recent(l) # {} =>
                 Newest(l) \in Finals(l) /\ \A j \in Finals(l) : j <= Newest(l)
           /\ Recent(l) = {} => \A i \in Finals(l) : Interrupted(l, i, Len(l) + 1)
<1>1. Len(l) \in Nat /\ DOMAIN l = 1..Len(l) /\ Finals(l) \subseteq 1..Len(l)
  BY DEF Finals
<1>2. Scan \in Nat \ {0}
  BY ConstantsAssumption
<1>3. CASE Finals(l) = {}
  BY <1>3 DEF Recent
<1>4. CASE Finals(l) # {}
  <2>1. PICK z \in Finals(l) : \A j \in Finals(l) : j <= z
    BY <1>4 DEF HasLast
  <2>2. z \in 1..Len(l)
    BY <1>1
  <2>3. ASSUME Recent(l) # {}
        PROVE  Newest(l) \in Finals(l) /\ \A j \in Finals(l) : j <= Newest(l)
    <3>1. PICK r \in Finals(l) : r > Len(l) - Scan
      BY <2>3 DEF Recent
    <3>2. z > Len(l) - Scan
      BY <1>1, <1>2, <2>1, <2>2, <3>1
    <3>3. z \in Recent(l) /\ \A j \in Recent(l) : j <= z /\ j \in Finals(l)
      BY <2>1, <3>2 DEF Recent
    <3>4. Newest(l) \in Recent(l) /\ \A j \in Recent(l) : j <= Newest(l)
      BY <3>3 DEF Newest
    <3>5. Newest(l) \in Finals(l) /\ Newest(l) <= z /\ z <= Newest(l)
      BY <3>3, <3>4
    <3>6. Newest(l) = z
      BY <1>1, <2>2, <3>5
    <3> QED BY <2>1, <3>6
  <2>4. ASSUME Recent(l) = {}, NEW i \in Finals(l) PROVE Interrupted(l, i, Len(l) + 1)
    <3>1. ~(z > Len(l) - Scan)
      BY <2>1, <2>4 DEF Recent
    <3>2. z + Scan <= Len(l)
      BY <1>1, <1>2, <2>2, <3>1
    <3>3. \A j \in (z + 1)..(z + Scan) : j \in DOMAIN l /\ ~(j <= z)
      BY <1>1, <1>2, <2>2, <3>2
    <3>4. \A j \in (z + 1)..(z + Scan) : ~IsFinal(l, j)
      BY <2>1, <3>3 DEF Finals
    <3>5. Lull(l, z) /\ i <= z /\ z < Len(l) + 1
      BY <1>1, <2>1, <2>2, <3>2, <3>4 DEF Lull
    <3> QED BY <3>5 DEF Interrupted
  <2> QED BY <2>3, <2>4
<1> QED BY <1>3, <1>4

\* Where a run begins: every lower seq is in the stream, and none above that a
\* lull does not hide.
LEMMA StartSeqBounds ==
    ASSUME NEW l \in Seq(Entry), HasLast(l)
    PROVE  /\ StartSeq(l) \in Nat
           /\ HoleFree(l) => Covered(l, StartSeq(l))
           /\ Rising(l) => Above(l, StartSeq(l))
<1>1. CASE Recent(l) = {}
  <2>1. StartSeq(l) = 0
    BY <1>1 DEF StartSeq
  <2>2. Above(l, 0)
    BY <1>1, NewestIsLast DEF Above
  <2> QED BY <2>1, <2>2 DEF Covered
<1>2. CASE Recent(l) # {}
  <2> DEFINE z == Newest(l)
  <2>1. z \in Finals(l) /\ \A j \in Finals(l) : j <= z
    BY <1>2, NewestIsLast
  <2>2. StartSeq(l) = l[z].seq + 1
    BY <1>2 DEF StartSeq
  <2> HIDE DEF z
  <2>3. /\ Len(l) \in Nat /\ Finals(l) \subseteq 1..Len(l)
        /\ \A i \in Finals(l) : l[i].seq \in Nat
    <3>1. FinalEntry(0) \in Entry
      BY EntryTypes
    <3> QED BY <3>1, AppendFinals
  <2>4. ASSUME HoleFree(l) PROVE Covered(l, StartSeq(l))
    <3> SUFFICES ASSUME NEW m \in 0..l[z].seq
                 PROVE  \E i \in Finals(l) : l[i].seq = m
      BY <2>1, <2>2, <2>3 DEF Covered
    <3>1. CASE m = l[z].seq
      BY <2>1, <3>1
    <3>2. CASE m \in 0..(l[z].seq - 1)
      BY <2>1, <2>4, <3>2 DEF HoleFree
    <3> QED BY <2>1, <2>3, <3>1, <3>2
  <2>5. ASSUME Rising(l), NEW i \in Finals(l)
        PROVE  l[i].seq < StartSeq(l) \/ Interrupted(l, i, Len(l) + 1)
    <3>1. CASE i = z
      BY <2>1, <2>2, <2>3, <3>1
    <3>2. CASE i < z /\ l[i].seq < l[z].seq
      BY <2>1, <2>2, <2>3, <3>2
    <3>3. CASE i < z /\ Interrupted(l, i, z)
      <4>1. PICK m \in Finals(l) : i <= m /\ m < z /\ Lull(l, m)
        BY <3>3 DEF Interrupted
      <4>2. m < Len(l) + 1
        BY <2>1, <2>3, <4>1
      <4> QED BY <4>1, <4>2 DEF Interrupted
    <3> QED BY <2>1, <2>3, <2>5, <3>1, <3>2, <3>3 DEF Rising
  <2> QED BY <2>1, <2>2, <2>3, <2>4, <2>5 DEF Above
<1> QED BY <1>1, <1>2

-----------------------------------------------------------------------------
(* Well-formed state.                                                      *)

\* A worker that asks for a lease or owns a session knows which one.
SidKnown ==
    \A w \in Workers : pc[w] \in Owning \cup {"acquire"} => sid[w] \in Sids

TypeInv == TypeOK /\ SidKnown

LEMMA StartSeqNat ==
    ASSUME NEW l \in Seq(Entry), HasLast(l)
    PROVE  StartSeq(l) \in Nat
BY StartSeqBounds

\* Every stream has a last FINAL or none.
LastKnown == \A s \in Sids : HasLast(log[s])

\* What a step does to the streams: nothing, or one worker appends.
LogStep ==
    \/ log' = log
    \/ \E s \in Sids : \E e \in Entry :
          log' = [log EXCEPT ![s] = Append(@, e)]
    \/ \E s \in Sids : \E e \in Entry :
          log' = [log EXCEPT ![s] = Append(Append(@, e), e)]

LEMMA LastKept ==
    ASSUME TypeOK, LastKnown, LogStep
    PROVE  LastKnown'
<1>1. \A s \in Sids : log[s] \in Seq(Entry) /\ HasLast(log[s])
  BY DEF TypeOK, LastKnown
<1>2. CASE log' = log
  BY <1>2 DEF LastKnown
<1>3. ASSUME NEW s \in Sids, NEW e \in Entry,
             log' = [log EXCEPT ![s] = Append(@, e)]
      PROVE  LastKnown'
  <2>1. HasLast(Append(log[s], e))
    BY <1>1, LastGrows
  <2>2. \A t \in Sids : log'[t] = IF t = s THEN Append(log[s], e) ELSE log[t]
    BY <1>3 DEF TypeOK
  <2> QED BY <1>1, <2>1, <2>2 DEF LastKnown
<1>4. ASSUME NEW s \in Sids, NEW e \in Entry,
             log' = [log EXCEPT ![s] = Append(Append(@, e), e)]
      PROVE  LastKnown'
  <2>1. Append(log[s], e) \in Seq(Entry) /\ HasLast(Append(log[s], e))
    BY <1>1, LastGrows, AppendEntry
  <2>2. HasLast(Append(Append(log[s], e), e))
    BY <2>1, LastGrows
  <2>3. \A t \in Sids :
           log'[t] = IF t = s THEN Append(Append(log[s], e), e) ELSE log[t]
    BY <1>4 DEF TypeOK
  <2> QED BY <1>1, <2>2, <2>3 DEF LastKnown
<1> QED BY <1>2, <1>3, <1>4 DEF LogStep

\* Every step keeps the state well formed; one case for each action.
LEMMA TypeStep ==
    ASSUME TypeInv, LastKnown, [Next]_vars
    PROVE  TypeInv'
<1> USE DEF TypeInv, TypeOK, SidKnown
<1>1. ASSUME NEW w \in Workers, BeginClaim(w) PROVE TypeInv'
  BY <1>1 DEF BeginClaim, Goto, shared, session, outside, Phases, Owning,
     Beating, Draining
<1>2. ASSUME NEW w \in Workers, SkipFinished(w) PROVE TypeInv'
  BY <1>2 DEF SkipFinished, shared, session, outside, Phases, Owning, Beating,
     Draining
<1>3. ASSUME NEW w \in Workers, PickSession(w) PROVE TypeInv'
  BY <1>3 DEF PickSession, Goto, shared, outside, Phases, Owning, Beating,
     Draining
<1>4. ASSUME NEW w \in Workers, Acquire(w) PROVE TypeInv'
  BY <1>4 DEF Acquire, Goto, session, outside, Phases, Owning, Beating,
     Draining
<1>5. ASSUME NEW w \in Workers, AcquireRefused(w) PROVE TypeInv'
  BY <1>5 DEF AcquireRefused, Goto, PassOver, outside, Phases, Owning,
     Beating, Draining
<1>6. ASSUME NEW w \in Workers, NothingToClaim(w) PROVE TypeInv'
  BY <1>6 DEF NothingToClaim, Goto, shared, session, outside, Phases, Owning,
     Beating, Draining
<1>7. ASSUME NEW w \in Workers, Exit(w) PROVE TypeInv'
  BY <1>7 DEF Exit, Goto, shared, session, outside, Phases, Owning, Beating,
     Draining
<1>8. ASSUME NEW w \in Workers, Resume(w) PROVE TypeInv'
  BY <1>8, StartSeqNat DEF Resume, Goto, shared, outside, LastKnown, Phases,
     Owning, Beating, Draining
<1>9. ASSUME NEW w \in Workers, ClaimCutShort(w) PROVE TypeInv'
  BY <1>9 DEF ClaimCutShort, Leave, shared, outside, Phases, Owning, Beating,
     Draining
<1>10. ASSUME NEW w \in Workers, GoLive(w) PROVE TypeInv'
  BY <1>10 DEF GoLive, Goto, SetUnlessEnded, outside, Status, Finished,
     Phases, Owning, Beating, Draining
<1>11. ASSUME NEW w \in Workers, Wake(w) PROVE TypeInv'
  BY <1>11 DEF Wake, Goto, OutcomeOf, shared, outside, Outcomes, Phases,
     Owning, Beating, Draining
<1>12. ASSUME NEW w \in Workers, TasksCancelled(w) PROVE TypeInv'
  BY <1>12 DEF TasksCancelled, Goto, shared, session, outside, Phases, Owning,
     Beating, Draining
<1>13. ASSUME NEW w \in Workers, Drained(w) PROVE TypeInv'
  BY <1>13 DEF Drained, Goto, shared, session, outside, Phases, Owning,
     Beating, Draining
<1>14. ASSUME NEW w \in Workers, DrainRaises(w) PROVE TypeInv'
  BY <1>14 DEF DrainRaises, Leave, shared, outside, Phases, Owning, Beating,
     Draining
<1>15. ASSUME NEW w \in Workers, FinishLost(w) PROVE TypeInv'
  BY <1>15 DEF FinishLost, Leave, shared, outside, Phases, Owning, Beating,
     Draining
<1>16. ASSUME NEW w \in Workers, FinishShutdown(w) PROVE TypeInv'
  BY <1>16 DEF FinishShutdown, Goto, SetUnlessEnded, session, outside, Status,
     Finished, Phases, Owning, Beating, Draining
<1>17. ASSUME NEW w \in Workers, FinishOver(w) PROVE TypeInv'
  BY <1>17 DEF FinishOver, Goto, session, Status, Finished, Outcomes, Stops,
     Phases, Owning, Beating, Draining
<1>18. ASSUME NEW w \in Workers, FinishStopped(w) PROVE TypeInv'
  BY <1>18 DEF FinishStopped, Goto, shared, session, outside, Phases, Owning,
     Beating, Draining
<1>19. ASSUME NEW w \in Workers, Announce(w) PROVE TypeInv'
  BY <1>19, EntryTypes DEF Announce, Goto, Announced, session, outside,
     Phases, Owning, Beating, Draining
<1>20. ASSUME NEW w \in Workers, Release(w) PROVE TypeInv'
  BY <1>20 DEF Release, Leave, outside, Phases, Owning, Beating, Draining
<1>21. ASSUME NEW w \in Workers, KeeperRenews(w) PROVE TypeInv'
  BY <1>21 DEF KeeperRenews, shared, outside, Phases, Owning, Beating,
     Draining
<1>22. ASSUME NEW w \in Workers, KeeperReports(w) PROVE TypeInv'
  BY <1>22 DEF KeeperReports, SetUnlessEnded, outside, Status, Finished,
     Phases, Owning, Beating, Draining
<1>23. ASSUME NEW w \in Workers, PublishFinal(w) PROVE TypeInv'
  BY <1>23, EntryTypes DEF PublishFinal, Publishing, Append1, outside, Phases,
     Owning, Beating, Draining
<1>24. ASSUME NEW w \in Workers, PublishLate(w) PROVE TypeInv'
  BY <1>24, EntryTypes DEF PublishLate, Append1, outside, Phases, Owning,
     Beating, Draining
<1>25. ASSUME NEW w \in Workers, SourceEnds(w) PROVE TypeInv'
  BY <1>25 DEF SourceEnds, SourceStops, shared, outside, Phases, Owning, Beating,
     Draining
<1>26. ASSUME NEW w \in Workers, SourceFails(w) PROVE TypeInv'
  BY <1>26 DEF SourceFails, SourceStops, shared, outside, Phases, Owning, Beating,
     Draining
<1>27. ASSUME NEW w \in Workers, AcquireReplyLost(w) PROVE TypeInv'
  BY <1>27 DEF AcquireReplyLost, Goto, Fault, Disturbing, PassOver, outside, Phases,
     Owning, Beating, Draining
<1>28. ASSUME NEW w \in Workers, PublishReplyLost(w) PROVE TypeInv'
  BY <1>28, EntryTypes DEF PublishReplyLost, Fault, Disturbing, Publishing, Append2,
     outside, Phases, Owning, Beating, Draining
<1>29. ASSUME NEW w \in Workers, SigtermWhileFree(w) PROVE TypeInv'
  BY <1>29 DEF SigtermWhileFree, StopEvent, Fault, Disturbing, shared, session, outside,
     Phases, Owning, Beating, Draining
<1>30. ASSUME NEW w \in Workers, SigtermWhileRunning(w) PROVE TypeInv'
  BY <1>30 DEF SigtermWhileRunning, StopEvent, Goto, Fault, Disturbing, shared, outside,
     Outcomes, Phases, Owning, Beating, Draining
<1>31. ASSUME NEW w \in Workers, SigtermWhileDraining(w) PROVE TypeInv'
  BY <1>31 DEF SigtermWhileDraining, StopEvent, Goto, Fault, Disturbing, shared, session,
     outside, Phases, Owning, Beating, Draining
<1>32. ASSUME NEW w \in Workers, SigtermElsewhere(w) PROVE TypeInv'
  BY <1>32 DEF SigtermElsewhere, StopEvent, Fault, Disturbing, Leave, shared, outside,
     Phases, Owning, Beating, Draining
<1>33. ASSUME NEW w \in Workers, Crash(w) PROVE TypeInv'
  BY <1>33 DEF Crash, Fault, Disturbing, Leave, shared, outside, Phases, Owning, Beating,
     Draining
<1>34. ASSUME NEW w \in Workers, ClaimFails(w) PROVE TypeInv'
  BY <1>34 DEF ClaimFails, Fault, Disturbing, Leave, shared, outside, Phases, Owning,
     Beating, Draining
<1>35. ASSUME NEW w \in Workers, SessionCallFails(w) PROVE TypeInv'
  BY <1>35 DEF SessionCallFails, Fault, Disturbing, Leave, shared, outside, Phases,
     Owning, Beating, Draining
<1>36. ASSUME NEW w \in Workers, PublishFails(w) PROVE TypeInv'
  BY <1>36 DEF PublishFails, Fault, Disturbing, shared, outside, Phases, Owning, Beating,
     Draining
<1>37. ASSUME NEW w \in Workers, KeeperFails(w) PROVE TypeInv'
  BY <1>37 DEF KeeperFails, Fault, Disturbing, shared, outside, Phases, Owning, Beating,
     Draining
<1>38. ASSUME NEW w \in Workers, TranslationFails(w) PROVE TypeInv'
  BY <1>38 DEF TranslationFails, Fault, Disturbing, shared, outside, Phases, Owning,
     Beating, Draining
<1>39. ASSUME NEW w \in Workers, Restart(w) PROVE TypeInv'
  BY <1>39 DEF Restart, Goto, shared, session, outside, Phases, Owning,
     Beating, Draining
<1>40. ASSUME NEW s \in Sids, LeaseExpires(s) PROVE TypeInv'
  BY <1>40 DEF LeaseExpires, session, outside
<1>41. ASSUME NEW s \in Sids, LeaseExpiresInStall(s) PROVE TypeInv'
  BY <1>41 DEF LeaseExpiresInStall, Fault, Disturbing, session, outside
<1>42. ASSUME NEW s \in Sids, Stop(s) PROVE TypeInv'
  BY <1>42 DEF Stop, ApiCall, session, Status, Stops
<1>43. ASSUME NEW s \in Sids, StartReads(s) PROVE TypeInv'
  BY <1>43 DEF StartReads, ApiCall, shared, session
<1>44. ASSUME NEW s \in Sids, StartWrites(s) PROVE TypeInv'
  BY <1>44 DEF StartWrites, session, Status, Stops
<1>45. CASE UNCHANGED vars
  BY <1>45 DEF vars, shared, session, outside
<1>47. ASSUME NEW w \in Workers, PublishPartial(w) PROVE TypeInv'
  BY <1>47, EntryTypes DEF PublishPartial, outside, Phases, Owning, Beating, Draining
<1>46. ASSUME NEW w \in Workers, SetupFails(w) PROVE TypeInv'
  BY <1>46 DEF SetupFails, Fault, Leave, SetUnlessEnded, outside, Disturbing, Status,
     Finished, Phases, Owning, Beating, Draining
<1> QED
  BY <1>1, <1>2, <1>3, <1>4, <1>5, <1>6, <1>7, <1>8, <1>9, <1>10, <1>11,
     <1>12, <1>13, <1>14, <1>15, <1>16, <1>17, <1>18, <1>19, <1>20, <1>21,
     <1>22, <1>23, <1>24, <1>25, <1>26, <1>27, <1>28, <1>29, <1>30, <1>31,
     <1>32, <1>33, <1>34, <1>35, <1>36, <1>37, <1>38, <1>39, <1>40, <1>41,
     <1>42, <1>43, <1>44, <1>45, <1>46, <1>47
     DEF Next, MainStep, KeeperStep, PipeStep, FaultStep, Sigterm

-----------------------------------------------------------------------------
(* Which steps touch the streams, and which the leases.                    *)

\* A worker that has read where the numbering goes on, and may still append.
Pub == {"golive", "run", "stopping"}

\* A step after which the streams are the same, and so is the next number of
\* every worker that may append.
Quiet ==
    /\ log' = log
    /\ \A v \in Workers : pc'[v] \in Pub =>
          pc[v] \in Pub /\ sid'[v] = sid[v] /\ next'[v] = next[v]

Numbers(w) == \/ Resume(w) \/ PublishFinal(w) \/ PublishLate(w)
              \/ PublishReplyLost(w) \/ PublishPartial(w) \/ Announce(w)

QuietOrNumbers == Quiet \/ \E w \in Workers : Numbers(w)

\* Only six actions are not quiet.
LEMMA StreamCases ==
    ASSUME TypeInv, [Next]_vars
    PROVE  QuietOrNumbers
<1> USE DEF TypeInv, TypeOK, SidKnown, Quiet, Pub, QuietOrNumbers, Numbers
<1>1. ASSUME NEW w \in Workers, BeginClaim(w) PROVE QuietOrNumbers
  BY <1>1 DEF BeginClaim, Goto, shared, session, outside
<1>2. ASSUME NEW w \in Workers, SkipFinished(w) PROVE QuietOrNumbers
  BY <1>2 DEF SkipFinished, shared, session, outside
<1>3. ASSUME NEW w \in Workers, PickSession(w) PROVE QuietOrNumbers
  BY <1>3 DEF PickSession, Goto, shared, outside
<1>4. ASSUME NEW w \in Workers, Acquire(w) PROVE QuietOrNumbers
  BY <1>4 DEF Acquire, Goto, session, outside
<1>5. ASSUME NEW w \in Workers, AcquireRefused(w) PROVE QuietOrNumbers
  BY <1>5 DEF AcquireRefused, Goto, PassOver, outside
<1>6. ASSUME NEW w \in Workers, NothingToClaim(w) PROVE QuietOrNumbers
  BY <1>6 DEF NothingToClaim, Goto, shared, session, outside
<1>7. ASSUME NEW w \in Workers, Exit(w) PROVE QuietOrNumbers
  BY <1>7 DEF Exit, Goto, shared, session, outside
<1>8. ASSUME NEW w \in Workers, Resume(w) PROVE QuietOrNumbers
  BY <1>8
<1>9. ASSUME NEW w \in Workers, ClaimCutShort(w) PROVE QuietOrNumbers
  BY <1>9 DEF ClaimCutShort, Leave, shared, outside
<1>10. ASSUME NEW w \in Workers, GoLive(w) PROVE QuietOrNumbers
  BY <1>10 DEF GoLive, Goto, SetUnlessEnded, outside
<1>11. ASSUME NEW w \in Workers, Wake(w) PROVE QuietOrNumbers
  BY <1>11 DEF Wake, Goto, OutcomeOf, shared, outside
<1>12. ASSUME NEW w \in Workers, TasksCancelled(w) PROVE QuietOrNumbers
  BY <1>12 DEF TasksCancelled, Goto, shared, session, outside
<1>13. ASSUME NEW w \in Workers, Drained(w) PROVE QuietOrNumbers
  BY <1>13 DEF Drained, Goto, shared, session, outside
<1>14. ASSUME NEW w \in Workers, DrainRaises(w) PROVE QuietOrNumbers
  BY <1>14 DEF DrainRaises, Leave, shared, outside
<1>15. ASSUME NEW w \in Workers, FinishLost(w) PROVE QuietOrNumbers
  BY <1>15 DEF FinishLost, Leave, shared, outside
<1>16. ASSUME NEW w \in Workers, FinishShutdown(w) PROVE QuietOrNumbers
  BY <1>16 DEF FinishShutdown, Goto, SetUnlessEnded, session, outside
<1>17. ASSUME NEW w \in Workers, FinishOver(w) PROVE QuietOrNumbers
  BY <1>17 DEF FinishOver, Goto, session, outside
<1>18. ASSUME NEW w \in Workers, FinishStopped(w) PROVE QuietOrNumbers
  BY <1>18 DEF FinishStopped, Goto, shared, session, outside
<1>19. ASSUME NEW w \in Workers, Announce(w) PROVE QuietOrNumbers
  BY <1>19
<1>20. ASSUME NEW w \in Workers, Release(w) PROVE QuietOrNumbers
  BY <1>20 DEF Release, Leave, outside
<1>21. ASSUME NEW w \in Workers, KeeperRenews(w) PROVE QuietOrNumbers
  BY <1>21 DEF KeeperRenews, shared, outside
<1>22. ASSUME NEW w \in Workers, KeeperReports(w) PROVE QuietOrNumbers
  BY <1>22 DEF KeeperReports, SetUnlessEnded, outside
<1>23. ASSUME NEW w \in Workers, PublishFinal(w) PROVE QuietOrNumbers
  BY <1>23
<1>24. ASSUME NEW w \in Workers, PublishLate(w) PROVE QuietOrNumbers
  BY <1>24
<1>25. ASSUME NEW w \in Workers, SourceEnds(w) PROVE QuietOrNumbers
  BY <1>25 DEF SourceEnds, SourceStops, shared, outside
<1>26. ASSUME NEW w \in Workers, SourceFails(w) PROVE QuietOrNumbers
  BY <1>26 DEF SourceFails, SourceStops, shared, outside
<1>27. ASSUME NEW w \in Workers, AcquireReplyLost(w) PROVE QuietOrNumbers
  BY <1>27 DEF AcquireReplyLost, Goto, Fault, PassOver, outside
<1>28. ASSUME NEW w \in Workers, PublishReplyLost(w) PROVE QuietOrNumbers
  BY <1>28
<1>29. ASSUME NEW w \in Workers, SigtermWhileFree(w) PROVE QuietOrNumbers
  BY <1>29 DEF SigtermWhileFree, StopEvent, Fault, shared, session, outside
<1>30. ASSUME NEW w \in Workers, SigtermWhileRunning(w) PROVE QuietOrNumbers
  BY <1>30 DEF SigtermWhileRunning, StopEvent, Goto, Fault, shared, outside
<1>31. ASSUME NEW w \in Workers, SigtermWhileDraining(w) PROVE QuietOrNumbers
  BY <1>31 DEF SigtermWhileDraining, StopEvent, Goto, Fault, shared, session,
     outside
<1>32. ASSUME NEW w \in Workers, SigtermElsewhere(w) PROVE QuietOrNumbers
  BY <1>32 DEF SigtermElsewhere, StopEvent, Fault, Leave, shared, outside
<1>33. ASSUME NEW w \in Workers, Crash(w) PROVE QuietOrNumbers
  BY <1>33 DEF Crash, Fault, Leave, shared, outside
<1>34. ASSUME NEW w \in Workers, ClaimFails(w) PROVE QuietOrNumbers
  BY <1>34 DEF ClaimFails, Fault, Leave, shared, outside
<1>35. ASSUME NEW w \in Workers, SessionCallFails(w) PROVE QuietOrNumbers
  BY <1>35 DEF SessionCallFails, Fault, Leave, shared, outside
<1>36. ASSUME NEW w \in Workers, PublishFails(w) PROVE QuietOrNumbers
  BY <1>36 DEF PublishFails, Fault, shared, outside
<1>37. ASSUME NEW w \in Workers, KeeperFails(w) PROVE QuietOrNumbers
  BY <1>37 DEF KeeperFails, Fault, shared, outside
<1>38. ASSUME NEW w \in Workers, TranslationFails(w) PROVE QuietOrNumbers
  BY <1>38 DEF TranslationFails, Fault, shared, outside
<1>39. ASSUME NEW w \in Workers, Restart(w) PROVE QuietOrNumbers
  BY <1>39 DEF Restart, Goto, shared, session, outside
<1>40. ASSUME NEW s \in Sids, LeaseExpires(s) PROVE QuietOrNumbers
  BY <1>40 DEF LeaseExpires, session, outside
<1>41. ASSUME NEW s \in Sids, LeaseExpiresInStall(s) PROVE QuietOrNumbers
  BY <1>41 DEF LeaseExpiresInStall, Fault, session, outside
<1>42. ASSUME NEW s \in Sids, Stop(s) PROVE QuietOrNumbers
  BY <1>42 DEF Stop, session
<1>43. ASSUME NEW s \in Sids, StartReads(s) PROVE QuietOrNumbers
  BY <1>43 DEF StartReads, shared, session
<1>44. ASSUME NEW s \in Sids, StartWrites(s) PROVE QuietOrNumbers
  BY <1>44 DEF StartWrites, session
<1>45. CASE UNCHANGED vars
  BY <1>45 DEF vars, shared, session, outside
<1>47. ASSUME NEW w \in Workers, PublishPartial(w) PROVE QuietOrNumbers
  BY <1>47
<1>46. ASSUME NEW w \in Workers, SetupFails(w) PROVE QuietOrNumbers
  BY <1>46 DEF SetupFails, Fault, Leave, SetUnlessEnded, outside
<1> QED
  BY <1>1, <1>2, <1>3, <1>4, <1>5, <1>6, <1>7, <1>8, <1>9, <1>10, <1>11,
     <1>12, <1>13, <1>14, <1>15, <1>16, <1>17, <1>18, <1>19, <1>20, <1>21,
     <1>22, <1>23, <1>24, <1>25, <1>26, <1>27, <1>28, <1>29, <1>30, <1>31,
     <1>32, <1>33, <1>34, <1>35, <1>36, <1>37, <1>38, <1>39, <1>40, <1>41,
     <1>42, <1>43, <1>44, <1>45, <1>46, <1>47
     DEF Next, MainStep, KeeperStep, PipeStep, FaultStep, Sigterm

\* A step after which the leases are the same and nobody newly counts on one.
Settled(phases) ==
    /\ lease' = lease
    /\ \A v \in Workers : pc'[v] \in phases =>
          pc[v] \in phases /\ sid'[v] = sid[v]

LeaseStep ==
    \/ \E w \in Workers : Acquire(w) \/ AcquireReplyLost(w) \/ Release(w)
    \/ \E s \in Sids : LeaseExpires(s) \/ LeaseExpiresInStall(s)

\* A step with no fault that weakens the promise.
Calm == faults'.kinds = faults.kinds

SettledOrLeaseStep ==
    \/ /\ Settled(Beating)
       /\ Calm \/ \E w \in Workers : PublishReplyLost(w)
    \/ LeaseStep

\* Only five actions touch a lease, and only three are disturbing faults.
LEMMA LeaseCases ==
    ASSUME TypeInv, [Next]_vars
    PROVE  SettledOrLeaseStep
<1> USE DEF TypeInv, TypeOK, SidKnown, Calm, Settled, SettledOrLeaseStep, LeaseStep, Beating
<1>1. ASSUME NEW w \in Workers, BeginClaim(w) PROVE SettledOrLeaseStep
  BY <1>1 DEF BeginClaim, Goto, shared, session, outside
<1>2. ASSUME NEW w \in Workers, SkipFinished(w) PROVE SettledOrLeaseStep
  BY <1>2 DEF SkipFinished, shared, session, outside
<1>3. ASSUME NEW w \in Workers, PickSession(w) PROVE SettledOrLeaseStep
  BY <1>3 DEF PickSession, Goto, shared, outside
<1>4. ASSUME NEW w \in Workers, Acquire(w) PROVE SettledOrLeaseStep
  BY <1>4
<1>5. ASSUME NEW w \in Workers, AcquireRefused(w) PROVE SettledOrLeaseStep
  BY <1>5 DEF AcquireRefused, Goto, PassOver, outside
<1>6. ASSUME NEW w \in Workers, NothingToClaim(w) PROVE SettledOrLeaseStep
  BY <1>6 DEF NothingToClaim, Goto, shared, session, outside
<1>7. ASSUME NEW w \in Workers, Exit(w) PROVE SettledOrLeaseStep
  BY <1>7 DEF Exit, Goto, shared, session, outside
<1>8. ASSUME NEW w \in Workers, Resume(w) PROVE SettledOrLeaseStep
  BY <1>8 DEF Resume, Goto, shared, outside
<1>9. ASSUME NEW w \in Workers, ClaimCutShort(w) PROVE SettledOrLeaseStep
  BY <1>9 DEF ClaimCutShort, Leave, shared, outside
<1>10. ASSUME NEW w \in Workers, GoLive(w) PROVE SettledOrLeaseStep
  BY <1>10 DEF GoLive, Goto, SetUnlessEnded, outside
<1>11. ASSUME NEW w \in Workers, Wake(w) PROVE SettledOrLeaseStep
  BY <1>11 DEF Wake, Goto, OutcomeOf, shared, outside
<1>12. ASSUME NEW w \in Workers, TasksCancelled(w) PROVE SettledOrLeaseStep
  BY <1>12 DEF TasksCancelled, Goto, shared, session, outside
<1>13. ASSUME NEW w \in Workers, Drained(w) PROVE SettledOrLeaseStep
  BY <1>13 DEF Drained, Goto, shared, session, outside
<1>14. ASSUME NEW w \in Workers, DrainRaises(w) PROVE SettledOrLeaseStep
  BY <1>14 DEF DrainRaises, Leave, shared, outside
<1>15. ASSUME NEW w \in Workers, FinishLost(w) PROVE SettledOrLeaseStep
  BY <1>15 DEF FinishLost, Leave, shared, outside
<1>16. ASSUME NEW w \in Workers, FinishShutdown(w) PROVE SettledOrLeaseStep
  BY <1>16 DEF FinishShutdown, Goto, SetUnlessEnded, session, outside
<1>17. ASSUME NEW w \in Workers, FinishOver(w) PROVE SettledOrLeaseStep
  BY <1>17 DEF FinishOver, Goto, session, outside
<1>18. ASSUME NEW w \in Workers, FinishStopped(w) PROVE SettledOrLeaseStep
  BY <1>18 DEF FinishStopped, Goto, shared, session, outside
<1>19. ASSUME NEW w \in Workers, Announce(w) PROVE SettledOrLeaseStep
  BY <1>19 DEF Announce, Goto, Announced, session, outside, EventEntry
<1>20. ASSUME NEW w \in Workers, Release(w) PROVE SettledOrLeaseStep
  BY <1>20
<1>21. ASSUME NEW w \in Workers, KeeperRenews(w) PROVE SettledOrLeaseStep
  BY <1>21 DEF KeeperRenews, shared, outside
<1>22. ASSUME NEW w \in Workers, KeeperReports(w) PROVE SettledOrLeaseStep
  BY <1>22 DEF KeeperReports, SetUnlessEnded, outside
<1>23. ASSUME NEW w \in Workers, PublishFinal(w) PROVE SettledOrLeaseStep
  BY <1>23 DEF PublishFinal, Publishing, Append1, outside, FinalEntry
<1>24. ASSUME NEW w \in Workers, PublishLate(w) PROVE SettledOrLeaseStep
  BY <1>24 DEF PublishLate, Append1, outside, FinalEntry
<1>25. ASSUME NEW w \in Workers, SourceEnds(w) PROVE SettledOrLeaseStep
  BY <1>25 DEF SourceEnds, SourceStops, shared, outside
<1>26. ASSUME NEW w \in Workers, SourceFails(w) PROVE SettledOrLeaseStep
  BY <1>26 DEF SourceFails, SourceStops, shared, outside
<1>27. ASSUME NEW w \in Workers, AcquireReplyLost(w) PROVE SettledOrLeaseStep
  BY <1>27
<1>28. ASSUME NEW w \in Workers, PublishReplyLost(w) PROVE SettledOrLeaseStep
  BY <1>28 DEF PublishReplyLost, Fault, Disturbing, Publishing, Append2, outside,
     FinalEntry
<1>29. ASSUME NEW w \in Workers, SigtermWhileFree(w) PROVE SettledOrLeaseStep
  BY <1>29 DEF SigtermWhileFree, StopEvent, Fault, Disturbing, shared, session, outside
<1>30. ASSUME NEW w \in Workers, SigtermWhileRunning(w) PROVE SettledOrLeaseStep
  BY <1>30 DEF SigtermWhileRunning, StopEvent, Goto, Fault, Disturbing, shared, outside
<1>31. ASSUME NEW w \in Workers, SigtermWhileDraining(w) PROVE SettledOrLeaseStep
  BY <1>31 DEF SigtermWhileDraining, StopEvent, Goto, Fault, Disturbing, shared, session,
     outside
<1>32. ASSUME NEW w \in Workers, SigtermElsewhere(w) PROVE SettledOrLeaseStep
  BY <1>32 DEF SigtermElsewhere, StopEvent, Fault, Disturbing, Leave, shared, outside
<1>33. ASSUME NEW w \in Workers, Crash(w) PROVE SettledOrLeaseStep
  BY <1>33 DEF Crash, Fault, Disturbing, Leave, shared, outside
<1>34. ASSUME NEW w \in Workers, ClaimFails(w) PROVE SettledOrLeaseStep
  BY <1>34 DEF ClaimFails, Fault, Disturbing, Leave, shared, outside
<1>35. ASSUME NEW w \in Workers, SessionCallFails(w) PROVE SettledOrLeaseStep
  BY <1>35 DEF SessionCallFails, Fault, Disturbing, Leave, shared, outside
<1>36. ASSUME NEW w \in Workers, PublishFails(w) PROVE SettledOrLeaseStep
  BY <1>36 DEF PublishFails, Fault, Disturbing, shared, outside
<1>37. ASSUME NEW w \in Workers, KeeperFails(w) PROVE SettledOrLeaseStep
  BY <1>37 DEF KeeperFails, Fault, Disturbing, shared, outside
<1>38. ASSUME NEW w \in Workers, TranslationFails(w) PROVE SettledOrLeaseStep
  BY <1>38 DEF TranslationFails, Fault, Disturbing, shared, outside
<1>39. ASSUME NEW w \in Workers, Restart(w) PROVE SettledOrLeaseStep
  BY <1>39 DEF Restart, Goto, shared, session, outside
<1>40. ASSUME NEW s \in Sids, LeaseExpires(s) PROVE SettledOrLeaseStep
  BY <1>40
<1>41. ASSUME NEW s \in Sids, LeaseExpiresInStall(s) PROVE SettledOrLeaseStep
  BY <1>41
<1>42. ASSUME NEW s \in Sids, Stop(s) PROVE SettledOrLeaseStep
  BY <1>42 DEF Stop, session
<1>43. ASSUME NEW s \in Sids, StartReads(s) PROVE SettledOrLeaseStep
  BY <1>43 DEF StartReads, shared, session
<1>44. ASSUME NEW s \in Sids, StartWrites(s) PROVE SettledOrLeaseStep
  BY <1>44 DEF StartWrites, session
<1>45. CASE UNCHANGED vars
  BY <1>45 DEF vars, shared, session, outside
<1>47. ASSUME NEW w \in Workers, PublishPartial(w) PROVE SettledOrLeaseStep
  BY <1>47 DEF PublishPartial, outside
<1>46. ASSUME NEW w \in Workers, SetupFails(w) PROVE SettledOrLeaseStep
  BY <1>46 DEF SetupFails, Fault, Disturbing, Leave, SetUnlessEnded, outside
<1> QED
  BY <1>1, <1>2, <1>3, <1>4, <1>5, <1>6, <1>7, <1>8, <1>9, <1>10, <1>11,
     <1>12, <1>13, <1>14, <1>15, <1>16, <1>17, <1>18, <1>19, <1>20, <1>21,
     <1>22, <1>23, <1>24, <1>25, <1>26, <1>27, <1>28, <1>29, <1>30, <1>31,
     <1>32, <1>33, <1>34, <1>35, <1>36, <1>37, <1>38, <1>39, <1>40, <1>41,
     <1>42, <1>43, <1>44, <1>45, <1>46, <1>47
     DEF Next, MainStep, KeeperStep, PipeStep, FaultStep, Sigterm

-----------------------------------------------------------------------------
(* The leases.                                                             *)

\* A worker in one of these phases holds the lease of its session.
Holds(phases) == \A w \in Workers : pc[w] \in phases => lease[sid[w]] = w

\* No step takes the lease from a worker that beats.
LEMMA HoldsStep ==
    ASSUME TypeInv, Next, ~Hung', Holds(Beating), Settled(Beating) \/ LeaseStep
    PROVE  Holds(Beating)'
<1> USE DEF TypeInv, TypeOK, SidKnown
<1>1. /\ Beating \subseteq Owning
      /\ "acquire" \notin Beating /\ "claim" \notin Beating /\ "idle" \notin Beating
  BY DEF Owning, Beating, Draining
<1>2. CASE Settled(Beating)
  BY <1>2 DEF Settled, Holds
\* A worker that beats knows its session and holds its lease.
<1>10. \A v \in Workers : pc[v] \in Beating => sid[v] \in Sids /\ lease[sid[v]] = v
  BY <1>1 DEF Holds
<1>3. ASSUME NEW w \in Workers, Acquire(w) PROVE Holds(Beating)'
  <2>1. lease[sid[w]] = NoOwner /\ sid[w] \in Sids /\ sid' = sid
        /\ lease' = [lease EXCEPT ![sid[w]] = w] /\ pc' = [pc EXCEPT ![w] = "resume"]
    BY <1>3 DEF Acquire, Goto, LeaseFree, session
  <2>2. /\ lease'[sid[w]] = w
        /\ \A t \in Sids \ {sid[w]} : lease'[t] = lease[t]
        /\ \A v \in Workers \ {w} : pc'[v] = pc[v]
    BY <2>1
  <2> SUFFICES ASSUME NEW v \in Workers, pc'[v] \in Beating
               PROVE  lease'[sid[v]] = v
    BY <2>1 DEF Holds
  <2>3. CASE v = w
    BY <2>2, <2>3
  <2>4. CASE v # w
    <3>1. sid[v] \in Sids /\ lease[sid[v]] = v
      BY <1>10, <2>2, <2>4
    <3>2. sid[v] # sid[w]
      BY <2>1, <3>1, ConstantsAssumption
    <3> QED BY <2>2, <3>1, <3>2
  <2> QED BY <2>3, <2>4
<1>4. ASSUME NEW w \in Workers, AcquireReplyLost(w) PROVE Holds(Beating)'
  <2>1. lease[sid[w]] = NoOwner /\ sid[w] \in Sids
        /\ lease' = [lease EXCEPT ![sid[w]] = w] /\ pc' = [pc EXCEPT ![w] = "claim"]
        /\ sid' = [sid EXCEPT ![w] = NoSid]
    BY <1>4 DEF AcquireReplyLost, PassOver, Goto, LeaseFree
  <2>2. /\ \A t \in Sids \ {sid[w]} : lease'[t] = lease[t]
        /\ \A v \in Workers \ {w} : pc'[v] = pc[v] /\ sid'[v] = sid[v]
        /\ pc'[w] = "claim"
    BY <2>1
  <2> SUFFICES ASSUME NEW v \in Workers, pc'[v] \in Beating
               PROVE  lease'[sid'[v]] = v
    BY DEF Holds
  <2>3. v # w /\ sid[v] \in Sids /\ lease[sid[v]] = v /\ sid'[v] = sid[v]
    BY <1>1, <1>10, <2>2
  <2>4. sid[v] # sid[w]
    BY <2>1, <2>3, ConstantsAssumption
  <2> QED BY <2>2, <2>3, <2>4
<1>5. ASSUME NEW w \in Workers, Release(w) PROVE Holds(Beating)'
  <2>1. sid[w] \in Sids /\ pc' = [pc EXCEPT ![w] = "idle"]
        /\ sid' = [sid EXCEPT ![w] = NoSid]
        /\ lease' = [lease EXCEPT ![sid[w]] = IF lease[sid[w]] = w THEN NoOwner ELSE @]
    BY <1>5 DEF Release, Leave, ReleaseAllowed, Owning, Draining
  <2>2. /\ \A t \in Sids \ {sid[w]} : lease'[t] = lease[t]
        /\ lease[sid[w]] # w => lease'[sid[w]] = lease[sid[w]]
        /\ \A v \in Workers \ {w} : pc'[v] = pc[v] /\ sid'[v] = sid[v]
        /\ pc'[w] = "idle"
    BY <2>1
  <2> SUFFICES ASSUME NEW v \in Workers, pc'[v] \in Beating
               PROVE  lease'[sid'[v]] = v
    BY DEF Holds
  <2>3. v # w /\ sid[v] \in Sids /\ lease[sid[v]] = v /\ sid'[v] = sid[v]
    BY <1>1, <1>10, <2>2
  <2>4. sid[v] = sid[w] => lease[sid[w]] # w
    BY <2>3
  <2> QED BY <2>2, <2>3, <2>4
<1>6. ASSUME NEW s \in Sids, LeaseExpires(s) PROVE Holds(Beating)'
  <2>1. /\ lease[s] # NoOwner /\ pc' = pc /\ sid' = sid
        /\ lease' = [lease EXCEPT ![s] = NoOwner]
        /\ sid[lease[s]] = s => /\ pc[lease[s]] \notin Beating
                                /\ pc[lease[s]] \in Draining => DrainOutlivesLease
    BY <1>6 DEF LeaseExpires, session
  <2> SUFFICES ASSUME NEW v \in Workers, pc[v] \in Beating
               PROVE  lease'[sid[v]] = v
    BY <2>1 DEF Holds
  <2>2. lease[sid[v]] = v /\ sid[v] \in Sids
    BY <1>1 DEF Holds
  <2>3. sid[v] # s
    <3> SUFFICES ASSUME sid[v] = s
                 PROVE  FALSE
      OBVIOUS
    <3> QED BY <2>1, <2>2
  <2> QED BY <2>1, <2>2, <2>3
<1>7. ASSUME NEW s \in Sids, LeaseExpiresInStall(s) PROVE Holds(Beating)'
  BY <1>7 DEF LeaseExpiresInStall, Fault, Disturbing, Hung
<1> QED BY <1>2, <1>3, <1>4, <1>5, <1>6, <1>7 DEF LeaseStep

-----------------------------------------------------------------------------
(* The numbering.                                                          *)

\* A worker that may append knows a number below which nothing is missing ...
NextCovered == \A w \in Workers : pc[w] \in Pub => Covered(log[sid[w]], next[w])

\* ... and, as long as it is the only one, a number that is still free, or was
\* last used before a lull.
NextAbove == \A w \in Workers : pc[w] \in Pub => Above(log[sid[w]], next[w])

\* What a worker that numbers does to the streams.
LEMMA NumbersEffect ==
    ASSUME TypeInv, NEW w \in Workers, Numbers(w)
    PROVE  /\ sid' = sid /\ sid[w] \in Sids
           /\ \A v \in Workers \ {w} : pc'[v] = pc[v] /\ next'[v] = next[v]
           /\ log[sid[w]] \in Seq(Entry) /\ next[w] \in Nat
           /\ \A s \in Sids \ {sid[w]} : log'[s] = log[s]
           /\ \/ /\ Resume(w) /\ log' = log
                 /\ next'[w] = StartSeq(log[sid[w]])
              \/ /\ pc[w] \in Pub /\ pc'[w] \in Pub /\ next'[w] = next[w] + 1
                 /\ PublishFinal(w) \/ PublishLate(w)
                 /\ log'[sid[w]] = Append(log[sid[w]], FinalEntry(next[w]))
              \/ /\ pc[w] \in Pub /\ pc'[w] \in Pub /\ next'[w] = next[w] + 1
                 /\ PublishReplyLost(w)
                 /\ log'[sid[w]] = Append(Append(log[sid[w]], FinalEntry(next[w])),
                                          FinalEntry(next[w]))
              \/ /\ pc[w] \in Pub /\ pc'[w] \in Pub /\ next'[w] = next[w]
                 /\ PublishPartial(w)
                 /\ log'[sid[w]] = Append(log[sid[w]], PartialEntry)
              \/ /\ pc'[w] \notin Pub
                 /\ \E k \in {"ended", "error"} :
                       log'[sid[w]] = Append(log[sid[w]], EventEntry(k))
<1> USE DEF TypeInv, TypeOK, SidKnown, Pub, Owning, Beating, Draining
<1>1. CASE Resume(w)
  BY <1>1 DEF Resume, Goto, shared, outside
<1>2. CASE PublishFinal(w)
  BY <1>2 DEF PublishFinal, Publishing, Append1, outside
<1>3. CASE PublishLate(w)
  BY <1>3 DEF PublishLate, Append1, outside
<1>4. CASE PublishReplyLost(w)
  BY <1>4 DEF PublishReplyLost, Publishing, Append2, outside
<1>5. CASE Announce(w)
  <2>1. Announced(w) \in {"ended", "error"}
    BY DEF Announced
  <2> QED BY <1>5, <2>1 DEF Announce, Goto, session, outside
<1>6. CASE PublishPartial(w)
  BY <1>6 DEF PublishPartial, outside
<1> QED BY <1>1, <1>2, <1>3, <1>4, <1>5, <1>6 DEF Numbers

LEMMA NumbersLogStep ==
    ASSUME TypeInv, [Next]_vars
    PROVE  LogStep
<1>1. CASE Quiet
  BY <1>1 DEF Quiet, LogStep
<1>2. ASSUME NEW w \in Workers, Numbers(w) PROVE LogStep
  <2>1. sid[w] \in Sids /\ next[w] \in Nat
    BY <1>2, NumbersEffect
  <2>2. FinalEntry(next[w]) \in Entry
        /\ \A k \in {"ended", "error"} : EventEntry(k) \in Entry
    BY <2>1, EntryTypes
  <2>3. Announced(w) \in {"ended", "error"}
    BY DEF Announced
  <2>4. CASE Resume(w)
    BY <2>4 DEF Resume, shared, LogStep
  <2>5. CASE PublishFinal(w)
    BY <2>1, <2>2, <2>5 DEF PublishFinal, Append1, LogStep
  <2>6. CASE PublishLate(w)
    BY <2>1, <2>2, <2>6 DEF PublishLate, Append1, LogStep
  <2>7. CASE PublishReplyLost(w)
    BY <2>1, <2>2, <2>7 DEF PublishReplyLost, Append2, LogStep
  <2>8. CASE Announce(w)
    BY <2>1, <2>2, <2>3, <2>8 DEF Announce, LogStep
  <2>9. CASE PublishPartial(w)
    BY <2>1, <2>9, EntryTypes DEF PublishPartial, LogStep
  <2> QED BY <1>2, <2>4, <2>5, <2>6, <2>7, <2>8, <2>9 DEF Numbers
<1> QED BY <1>1, <1>2, StreamCases DEF QuietOrNumbers

LEMMA NoHoleStep ==
    ASSUME TypeInv, LastKnown, NoHole, NextCovered, [Next]_vars
    PROVE  NoHole' /\ NextCovered'
<1>1. CASE Quiet
  BY <1>1 DEF Quiet, NoHole, NextCovered
<1>2. ASSUME NEW w \in Workers, Numbers(w) PROVE NoHole' /\ NextCovered'
  <2> DEFINE s == sid[w]
             l == log[s]
             n == next[w]
  <2>1. /\ sid' = sid /\ s \in Sids /\ l \in Seq(Entry) /\ n \in Nat
        /\ \A v \in Workers \ {w} : pc'[v] = pc[v] /\ next'[v] = next[v]
        /\ \A t \in Sids \ {s} : log'[t] = log[t]
    BY <1>2, NumbersEffect
  <2>2. /\ HoleFree(l) /\ HasLast(l)
        /\ \A v \in Workers : next[v] \in Nat
        /\ \A v \in Workers : pc[v] \in Pub => sid[v] \in Sids
    BY <2>1 DEF NoHole, LastKnown, TypeInv, TypeOK, SidKnown, Pub, Owning, Beating
  <2>3. FinalEntry(n) \in Entry /\ \A k \in {"ended", "error"} :
            EventEntry(k) \in Entry /\ EventEntry(k).kind # "final"
    BY <2>1, EntryTypes
  \* It is enough that the stream it touched stays free of holes, that the other
  \* workers on it lose nothing, and that its own next number is covered.
  <2>4. ASSUME HoleFree(log'[s]),
               \A m \in Nat : Covered(l, m) => Covered(log'[s], m),
               pc'[w] \in Pub => Covered(log'[s], next'[w])
        PROVE  NoHole' /\ NextCovered'
    <3>1. NoHole'
      BY <2>1, <2>4 DEF NoHole
    <3>2. ASSUME NEW v \in Workers, pc'[v] \in Pub
          PROVE  Covered(log'[sid'[v]], next'[v])
      <4>1. CASE v = w
        BY <2>1, <2>4, <3>2, <4>1
      <4>2. CASE v # w
        <5>1. pc[v] \in Pub /\ next'[v] = next[v] /\ sid'[v] = sid[v]
              /\ Covered(log[sid[v]], next[v]) /\ next[v] \in Nat /\ sid[v] \in Sids
          BY <2>1, <2>2, <3>2, <4>2 DEF NextCovered
        <5>2. CASE sid[v] = s
          BY <2>4, <5>1, <5>2
        <5>3. CASE sid[v] # s
          BY <2>1, <5>1, <5>3
        <5> QED BY <5>2, <5>3
      <4> QED BY <4>1, <4>2
    <3> QED BY <3>1, <3>2 DEF NextCovered
  <2>5. CASE Resume(w) /\ log' = log /\ next'[w] = StartSeq(l)
    <3>1. Covered(l, StartSeq(l))
      BY <2>1, <2>2, StartSeqBounds
    <3> QED BY <2>2, <2>4, <2>5, <3>1
  <2>6. CASE pc[w] \in Pub /\ next'[w] = n + 1 /\ log'[s] = Append(l, FinalEntry(n))
    <3>1. Covered(l, n)
      BY <2>6 DEF NextCovered
    <3>2. HoleFree(log'[s]) /\ Covered(log'[s], n + 1)
      BY <2>1, <2>2, <2>6, <3>1, FinalNoHole
    <3>3. \A m \in Nat : Covered(l, m) => Covered(log'[s], m)
      BY <2>1, <2>3, <2>6, CoveredGrows
    <3> QED BY <2>4, <2>6, <3>2, <3>3
  <2>7. CASE pc[w] \in Pub /\ next'[w] = n + 1
             /\ log'[s] = Append(Append(l, FinalEntry(n)), FinalEntry(n))
    <3> DEFINE k == Append(l, FinalEntry(n))
    <3>1. Covered(l, n)
      BY <2>7 DEF NextCovered
    <3>2. k \in Seq(Entry) /\ HoleFree(k) /\ Covered(k, n + 1)
          /\ \A m \in Nat : Covered(l, m) => Covered(k, m)
      BY <2>1, <2>2, <2>3, <3>1, FinalNoHole, CoveredGrows, AppendEntry
    <3>3. Covered(k, n)
      BY <2>1, <3>1, <3>2
    <3> HIDE DEF k
    <3>4. HoleFree(Append(k, FinalEntry(n)))
      BY <2>1, <3>2, <3>3, FinalNoHole
    <3>5. n + 1 \in Nat /\ \A m \in Nat : Covered(k, m) => Covered(Append(k, FinalEntry(n)), m)
      BY <2>1, <2>3, <3>2, CoveredGrows
    <3>6. log'[s] = Append(k, FinalEntry(n))
      BY <2>7 DEF k
    <3> QED BY <2>4, <2>7, <3>2, <3>4, <3>5, <3>6
  <2>8. CASE pc'[w] \notin Pub /\ \E k \in {"ended", "error"} :
                 log'[s] = Append(l, EventEntry(k))
    <3>1. PICK k \in {"ended", "error"} : log'[s] = Append(l, EventEntry(k))
      BY <2>8
    <3>2. HoleFree(log'[s])
      BY <2>1, <2>2, <2>3, <3>1, EventKeeps
    <3>3. \A m \in Nat : Covered(l, m) => Covered(log'[s], m)
      BY <2>1, <2>3, <3>1, CoveredGrows
    <3> QED BY <2>4, <2>8, <3>2, <3>3
  <2>9. CASE pc[w] \in Pub /\ next'[w] = n /\ log'[s] = Append(l, PartialEntry)
    <3>1. PartialEntry \in Entry /\ PartialEntry.kind # "final"
      BY EntryTypes
    <3>2. HoleFree(log'[s])
      BY <2>1, <2>2, <2>9, <3>1, EventKeeps
    <3>3. \A m \in Nat : Covered(l, m) => Covered(log'[s], m)
      BY <2>1, <2>9, <3>1, CoveredGrows
    <3>4. Covered(log'[s], n)
      BY <2>1, <2>9, <3>3 DEF NextCovered
    <3> QED BY <2>4, <2>9, <3>2, <3>3, <3>4
  <2> QED BY <1>2, <2>5, <2>6, <2>7, <2>8, <2>9, NumbersEffect
<1> QED BY <1>1, <1>2, StreamCases DEF QuietOrNumbers

\* Strict numbering of every stream, but for lulls.
Strict == \A s \in Sids : Rising(log[s])

LEMMA NoRepeatStep ==
    ASSUME TypeInv, LastKnown, Strict, NextAbove, Holds(Beating), [Next]_vars,
           ~Disturbed'
    PROVE  Strict' /\ NextAbove'
<1>1. CASE Quiet
  BY <1>1 DEF Quiet, Strict, NextAbove
<1>2. ASSUME NEW w \in Workers, Numbers(w) PROVE Strict' /\ NextAbove'
  <2> DEFINE s == sid[w]
             l == log[s]
             n == next[w]
  <2>1. /\ sid' = sid /\ s \in Sids /\ l \in Seq(Entry) /\ n \in Nat
        /\ \A v \in Workers \ {w} : pc'[v] = pc[v] /\ next'[v] = next[v]
        /\ \A t \in Sids \ {s} : log'[t] = log[t]
    BY <1>2, NumbersEffect
  <2>2. /\ Rising(l) /\ HasLast(l)
        /\ \A v \in Workers : next[v] \in Nat
        /\ \A v \in Workers : pc[v] \in Pub => sid[v] \in Sids
    BY <2>1 DEF Strict, LastKnown, TypeInv, TypeOK, SidKnown, Pub, Owning, Beating
  <2>3. \A k \in {"ended", "error"} : EventEntry(k) \in Entry /\ EventEntry(k).kind # "final"
    BY EntryTypes
  \* Nobody else may append to its stream: only one worker holds the lease.
  <2>4. ASSUME pc[w] \in Beating, NEW v \in Workers \ {w}, pc[v] \in Pub
        PROVE  sid[v] # s
    BY <2>4 DEF Holds, Pub, Beating
  <2>5. ASSUME Rising(log'[s]),
               \A v \in Workers \ {w} : pc[v] \in Pub /\ sid[v] = s =>
                   Above(log'[s], next[v]),
               pc'[w] \in Pub => Above(log'[s], next'[w])
        PROVE  Strict' /\ NextAbove'
    <3>1. Strict'
      BY <2>1, <2>5 DEF Strict
    <3>2. ASSUME NEW v \in Workers, pc'[v] \in Pub
          PROVE  Above(log'[sid'[v]], next'[v])
      <4>1. CASE v = w
        BY <2>1, <2>5, <3>2, <4>1
      <4>2. CASE v # w
        <5>1. pc[v] \in Pub /\ next'[v] = next[v] /\ sid'[v] = sid[v]
              /\ Above(log[sid[v]], next[v]) /\ sid[v] \in Sids
          BY <2>1, <2>2, <3>2, <4>2 DEF NextAbove
        <5>2. CASE sid[v] = s
          BY <2>5, <4>2, <5>1, <5>2
        <5>3. CASE sid[v] # s
          BY <2>1, <5>1, <5>3
        <5> QED BY <5>2, <5>3
      <4> QED BY <4>1, <4>2
    <3> QED BY <3>1, <3>2 DEF NextAbove
  <2>6. CASE Resume(w) /\ log' = log /\ next'[w] = StartSeq(l)
    <3>1. Above(l, StartSeq(l))
      BY <2>1, <2>2, StartSeqBounds
    <3>2. \A v \in Workers : pc[v] \in Pub => Above(log[sid[v]], next[v])
      BY DEF NextAbove
    <3> QED BY <2>2, <2>5, <2>6, <3>1, <3>2
  <2>7. CASE pc[w] \in Pub /\ next'[w] = n + 1 /\ log'[s] = Append(l, FinalEntry(n))
    <3>1. Above(l, n) /\ pc[w] \in Beating
      BY <2>7 DEF NextAbove, Pub, Beating
    <3>2. Rising(log'[s]) /\ Above(log'[s], n + 1)
      BY <2>1, <2>2, <2>7, <3>1, FinalNoRepeat
    <3> QED BY <2>4, <2>5, <2>7, <3>1, <3>2
  <2>8. CASE PublishReplyLost(w)
    BY <2>8 DEF PublishReplyLost, Fault, Disturbing, Disturbed
  <2>9. CASE pc'[w] \notin Pub /\ \E k \in {"ended", "error"} :
                 log'[s] = Append(l, EventEntry(k))
    <3>1. PICK k \in {"ended", "error"} : log'[s] = Append(l, EventEntry(k))
      BY <2>9
    <3>2. Rising(log'[s]) /\ \A m \in Nat : Above(l, m) => Above(log'[s], m)
      BY <2>1, <2>2, <2>3, <3>1, EventKeeps
    <3>3. \A v \in Workers : pc[v] \in Pub /\ sid[v] = s => Above(l, next[v])
      BY DEF NextAbove
    <3> QED BY <2>2, <2>5, <2>9, <3>2, <3>3
  <2>10. CASE pc[w] \in Pub /\ next'[w] = n /\ log'[s] = Append(l, PartialEntry)
    <3>1. PartialEntry \in Entry /\ PartialEntry.kind # "final"
      BY EntryTypes
    <3>2. Rising(log'[s]) /\ \A m \in Nat : Above(l, m) => Above(log'[s], m)
      BY <2>1, <2>2, <2>10, <3>1, EventKeeps
    <3>3. \A v \in Workers : pc[v] \in Pub /\ sid[v] = s => Above(l, next[v])
      BY DEF NextAbove
    <3> QED BY <2>1, <2>2, <2>5, <2>10, <3>2, <3>3
  <2> QED BY <1>2, <2>6, <2>7, <2>8, <2>9, <2>10, NumbersEffect
<1> QED BY <1>1, <1>2, StreamCases DEF QuietOrNumbers

-----------------------------------------------------------------------------
(* The states.                                                             *)

\* A stop that stands is in the state; or the error of a late run is, and whoever
\* still has the session writes its state no more.
StopKept ==
    \A s \in Sids : stops[s] = "stands" =>
        \/ status[s] = "ended"
        \/ /\ status[s] = "error"
           /\ \A w \in Workers : sid[w] = s => pc[w] \in {"announce", "release"}

\* A guarded write of a worker that has still a state to write undoes no stop: the
\* state is "ended" then, or the stop stands no more.
LEMMA GuardedKeeps ==
    ASSUME TypeInv, StopKept, NEW w \in Workers, NEW x,
           pc[w] \in Owning \ {"announce", "release"},
           status' = [status EXCEPT ![sid[w]] = SetUnlessEnded(sid[w], x)], stops' = stops,
           \A v \in Workers \ {w} : sid'[v] = sid[v] /\ pc'[v] = pc[v],
           sid'[w] \in {sid[w], NoSid}
    PROVE  StopKept'
<1>1. sid[w] \in Sids /\ NoSid \notin Sids
  BY ConstantsAssumption DEF TypeInv, SidKnown
<1>2. /\ \A t \in Sids \ {sid[w]} : status'[t] = status[t]
      /\ status[sid[w]] = "ended" => status'[sid[w]] = "ended"
  BY <1>1 DEF TypeInv, TypeOK, SetUnlessEnded
<1> SUFFICES ASSUME NEW s \in Sids, stops[s] = "stands"
             PROVE  \/ status'[s] = "ended"
                    \/ /\ status'[s] = "error"
                       /\ \A v \in Workers : sid'[v] = s => pc'[v] \in {"announce", "release"}
  BY DEF StopKept
<1>3. CASE s = sid[w]
  BY <1>2, <1>3 DEF StopKept
<1>4. CASE s # sid[w]
  <2>1. sid'[w] # s
    BY <1>1, <1>4
  <2> QED BY <1>2, <1>4, <2>1 DEF StopKept
<1> QED BY <1>3, <1>4

LEMMA StopStep ==
    ASSUME TypeInv, StopKept, [Next]_vars
    PROVE  StopKept'
<1> USE DEF TypeInv, TypeOK, SidKnown, StopKept
<1>48. NoSid \notin Sids
  BY ConstantsAssumption
<1>1. ASSUME NEW w \in Workers, BeginClaim(w) PROVE StopKept'
  BY <1>1 DEF BeginClaim, Goto, shared, session, outside
<1>2. ASSUME NEW w \in Workers, SkipFinished(w) PROVE StopKept'
  BY <1>2 DEF SkipFinished, shared, session, outside
<1>3. ASSUME NEW w \in Workers, PickSession(w) PROVE StopKept'
  BY <1>3 DEF PickSession, Goto, Claimable, Finished, shared, outside
<1>4. ASSUME NEW w \in Workers, Acquire(w) PROVE StopKept'
  BY <1>4 DEF Acquire, Goto, session, outside
<1>5. ASSUME NEW w \in Workers, AcquireRefused(w) PROVE StopKept'
  BY <1>5, <1>48 DEF AcquireRefused, Goto, PassOver, outside
<1>6. ASSUME NEW w \in Workers, NothingToClaim(w) PROVE StopKept'
  BY <1>6 DEF NothingToClaim, Goto, shared, session, outside
<1>7. ASSUME NEW w \in Workers, Exit(w) PROVE StopKept'
  BY <1>7 DEF Exit, Goto, shared, session, outside
<1>8. ASSUME NEW w \in Workers, Resume(w) PROVE StopKept'
  BY <1>8 DEF Resume, Goto, shared, outside
<1>9. ASSUME NEW w \in Workers, ClaimCutShort(w) PROVE StopKept'
  BY <1>9, <1>48 DEF ClaimCutShort, Leave, shared, outside
<1>10. ASSUME NEW w \in Workers, GoLive(w) PROVE StopKept'
  <2>1. /\ pc[w] = "golive" /\ stops' = stops
        /\ status' = [status EXCEPT ![sid[w]] = SetUnlessEnded(sid[w], "live")]
        /\ \A v \in Workers \ {w} : sid'[v] = sid[v] /\ pc'[v] = pc[v]
        /\ sid'[w] \in {sid[w], NoSid}
    BY <1>10 DEF GoLive, Goto, outside
  <2>2. pc[w] \in Owning \ {"announce", "release"}
    BY <2>1 DEF Owning, Beating, Draining
  <2> HIDE DEF TypeInv, StopKept
  <2> QED BY <2>1, <2>2, GuardedKeeps
<1>11. ASSUME NEW w \in Workers, Wake(w) PROVE StopKept'
  BY <1>11 DEF Wake, Goto, OutcomeOf, shared, outside
<1>12. ASSUME NEW w \in Workers, TasksCancelled(w) PROVE StopKept'
  BY <1>12 DEF TasksCancelled, Goto, shared, session, outside
<1>13. ASSUME NEW w \in Workers, Drained(w) PROVE StopKept'
  BY <1>13 DEF Drained, Goto, shared, session, outside
<1>14. ASSUME NEW w \in Workers, DrainRaises(w) PROVE StopKept'
  BY <1>14, <1>48 DEF DrainRaises, Leave, shared, outside
<1>15. ASSUME NEW w \in Workers, FinishLost(w) PROVE StopKept'
  BY <1>15, <1>48 DEF FinishLost, Leave, shared, outside
<1>16. ASSUME NEW w \in Workers, FinishShutdown(w) PROVE StopKept'
  <2>1. /\ pc[w] = "finish" /\ stops' = stops
        /\ status' = [status EXCEPT ![sid[w]] = SetUnlessEnded(sid[w], "waiting")]
        /\ \A v \in Workers \ {w} : sid'[v] = sid[v] /\ pc'[v] = pc[v]
        /\ sid'[w] \in {sid[w], NoSid}
    BY <1>16 DEF FinishShutdown, Goto, session, outside
  <2>2. pc[w] \in Owning \ {"announce", "release"}
    BY <2>1 DEF Owning, Beating, Draining
  <2> HIDE DEF TypeInv, StopKept
  <2> QED BY <2>1, <2>2, GuardedKeeps
<1>17. ASSUME NEW w \in Workers, FinishOver(w) PROVE StopKept'
  BY <1>17 DEF FinishOver, Goto, Overrules, session, Finished
<1>18. ASSUME NEW w \in Workers, FinishStopped(w) PROVE StopKept'
  BY <1>18 DEF FinishStopped, Goto, shared, session, outside
<1>19. ASSUME NEW w \in Workers, Announce(w) PROVE StopKept'
  BY <1>19 DEF Announce, Goto, Announced, session, outside, EventEntry
<1>20. ASSUME NEW w \in Workers, Release(w) PROVE StopKept'
  BY <1>20, <1>48 DEF Release, Leave, outside
<1>21. ASSUME NEW w \in Workers, KeeperRenews(w) PROVE StopKept'
  BY <1>21 DEF KeeperRenews, shared, outside
<1>22. ASSUME NEW w \in Workers, KeeperReports(w) PROVE StopKept'
  BY <1>22, GuardedKeeps DEF KeeperReports, outside, Owning, Beating
<1>23. ASSUME NEW w \in Workers, PublishFinal(w) PROVE StopKept'
  BY <1>23 DEF PublishFinal, Publishing, Append1, outside, FinalEntry
<1>24. ASSUME NEW w \in Workers, PublishLate(w) PROVE StopKept'
  BY <1>24 DEF PublishLate, Append1, outside, FinalEntry
<1>25. ASSUME NEW w \in Workers, SourceEnds(w) PROVE StopKept'
  BY <1>25 DEF SourceEnds, SourceStops, shared, outside
<1>26. ASSUME NEW w \in Workers, SourceFails(w) PROVE StopKept'
  BY <1>26 DEF SourceFails, SourceStops, shared, outside
<1>27. ASSUME NEW w \in Workers, AcquireReplyLost(w) PROVE StopKept'
  BY <1>27, <1>48 DEF AcquireReplyLost, Goto, Fault, PassOver, outside
<1>28. ASSUME NEW w \in Workers, PublishReplyLost(w) PROVE StopKept'
  BY <1>28 DEF PublishReplyLost, Fault, Publishing, Append2, outside,
     FinalEntry
<1>29. ASSUME NEW w \in Workers, SigtermWhileFree(w) PROVE StopKept'
  BY <1>29 DEF SigtermWhileFree, StopEvent, Fault, shared, session, outside
<1>30. ASSUME NEW w \in Workers, SigtermWhileRunning(w) PROVE StopKept'
  BY <1>30 DEF SigtermWhileRunning, StopEvent, Goto, Fault, shared, outside
<1>31. ASSUME NEW w \in Workers, SigtermWhileDraining(w) PROVE StopKept'
  BY <1>31 DEF SigtermWhileDraining, StopEvent, Goto, Fault, shared, session,
     outside
<1>32. ASSUME NEW w \in Workers, SigtermElsewhere(w) PROVE StopKept'
  BY <1>32, <1>48 DEF SigtermElsewhere, StopEvent, Fault, Leave, shared, outside
<1>33. ASSUME NEW w \in Workers, Crash(w) PROVE StopKept'
  BY <1>33, <1>48 DEF Crash, Fault, Leave, shared, outside
<1>34. ASSUME NEW w \in Workers, ClaimFails(w) PROVE StopKept'
  BY <1>34, <1>48 DEF ClaimFails, Fault, Leave, shared, outside
<1>35. ASSUME NEW w \in Workers, SessionCallFails(w) PROVE StopKept'
  BY <1>35, <1>48 DEF SessionCallFails, Fault, Leave, shared, outside
<1>36. ASSUME NEW w \in Workers, PublishFails(w) PROVE StopKept'
  BY <1>36 DEF PublishFails, Fault, shared, outside
<1>37. ASSUME NEW w \in Workers, KeeperFails(w) PROVE StopKept'
  BY <1>37 DEF KeeperFails, Fault, shared, outside
<1>38. ASSUME NEW w \in Workers, TranslationFails(w) PROVE StopKept'
  BY <1>38 DEF TranslationFails, Fault, shared, outside
<1>39. ASSUME NEW w \in Workers, Restart(w) PROVE StopKept'
  BY <1>39 DEF Restart, Goto, shared, session, outside
<1>40. ASSUME NEW s \in Sids, LeaseExpires(s) PROVE StopKept'
  BY <1>40 DEF LeaseExpires, session, outside
<1>41. ASSUME NEW s \in Sids, LeaseExpiresInStall(s) PROVE StopKept'
  BY <1>41 DEF LeaseExpiresInStall, Fault, session, outside
<1>42. ASSUME NEW s \in Sids, Stop(s) PROVE StopKept'
  BY <1>42 DEF Stop, session
<1>43. ASSUME NEW s \in Sids, StartReads(s) PROVE StopKept'
  BY <1>43 DEF StartReads, shared, session
<1>44. ASSUME NEW s \in Sids, StartWrites(s) PROVE StopKept'
  BY <1>44 DEF StartWrites, session
<1>45. CASE UNCHANGED vars
  BY <1>45 DEF vars, shared, session, outside
<1>47. ASSUME NEW w \in Workers, PublishPartial(w) PROVE StopKept'
  BY <1>47 DEF PublishPartial, outside
<1>46. ASSUME NEW w \in Workers, SetupFails(w) PROVE StopKept'
  <2>1. /\ pc[w] = "golive" /\ stops' = stops
        /\ status' = [status EXCEPT ![sid[w]] = SetUnlessEnded(sid[w], "live")]
        /\ \A v \in Workers \ {w} : sid'[v] = sid[v] /\ pc'[v] = pc[v]
        /\ sid'[w] \in {sid[w], NoSid}
    BY <1>46 DEF SetupFails, Leave, outside
  <2>2. pc[w] \in Owning \ {"announce", "release"}
    BY <2>1 DEF Owning, Beating, Draining
  <2> HIDE DEF TypeInv, StopKept
  <2> QED BY <2>1, <2>2, GuardedKeeps
<1> QED
  BY <1>1, <1>2, <1>3, <1>4, <1>5, <1>6, <1>7, <1>8, <1>9, <1>10, <1>11,
     <1>12, <1>13, <1>14, <1>15, <1>16, <1>17, <1>18, <1>19, <1>20, <1>21,
     <1>22, <1>23, <1>24, <1>25, <1>26, <1>27, <1>28, <1>29, <1>30, <1>31,
     <1>32, <1>33, <1>34, <1>35, <1>36, <1>37, <1>38, <1>39, <1>40, <1>41,
     <1>42, <1>43, <1>44, <1>45, <1>46, <1>47
     DEF Next, MainStep, KeeperStep, PipeStep, FaultStep, Sigterm

-----------------------------------------------------------------------------
(* The theorems.                                                           *)

\* What is true of every behaviour, whatever the faults.
CoreInv == TypeInv /\ LastKnown /\ NoHole /\ NextCovered

LEMMA InitCore ==
    ASSUME Init
    PROVE  /\ CoreInv /\ Strict /\ NextAbove
           /\ Holds(Beating) /\ StopKept
<1>1. TypeInv
  BY DEF Init, TypeInv, TypeOK, SidKnown, Status, Stops, Phases, Owning, Beating, Draining
<1>2. \A s \in Sids : Finals(log[s]) = {}
  BY DEF Init, Finals
<1>3. \A w \in Workers : pc[w] \notin Owning /\ pc[w] \notin Beating /\ pc[w] \notin Pub
  BY DEF Init, Owning, Beating, Draining, Pub
<1>4. LastKnown /\ NoHole /\ Strict
  BY <1>2 DEF LastKnown, HasLast, NoHole, HoleFree, Strict, Rising
<1>5. StopKept
  BY DEF Init, StopKept
<1> QED BY <1>1, <1>3, <1>4, <1>5 DEF CoreInv, NextCovered, NextAbove, Holds

\* The state is well formed and no stream has a hole: for any number of workers
\* and sessions, with any faults.
THEOREM Core == Spec => []CoreInv
<1>1. Init => CoreInv
  BY InitCore
<1>2. CoreInv /\ [Next]_vars => CoreInv'
  BY TypeStep, NumbersLogStep, LastKept, NoHoleStep DEF CoreInv, TypeInv
<1> QED BY <1>1, <1>2, PTL DEF Spec

\* Every variable stays in its set.
THEOREM TypeCorrect == Spec => []TypeOK
BY Core, PTL DEF CoreInv, TypeInv

\* No crash, hang, lost reply or restart ever makes a hole in the numbering.
THEOREM NeverAHole == Spec => []NoHole
BY Core, PTL DEF CoreInv

\* Faults are not forgotten.
LEMMA DisturbedStays ==
    ASSUME TypeInv, [Next]_vars
    PROVE  (Hung => Hung') /\ (Disturbed => Disturbed')
<1>1. CASE UNCHANGED vars
  BY <1>1 DEF vars, Hung, Disturbed
<1>2. CASE Calm
  BY <1>2 DEF Calm, Hung, Disturbed
<1>3. ASSUME NEW w \in Workers,
             PublishReplyLost(w) \/ Acquire(w) \/ AcquireReplyLost(w) \/ Release(w)
      PROVE  (Hung => Hung') /\ (Disturbed => Disturbed')
  BY <1>3 DEF PublishReplyLost, Acquire, AcquireReplyLost, Release, Fault, Hung, Disturbed,
     Disturbing
<1>4. ASSUME NEW s \in Sids, LeaseExpires(s) \/ LeaseExpiresInStall(s)
      PROVE  (Hung => Hung') /\ (Disturbed => Disturbed')
  BY <1>4 DEF LeaseExpires, LeaseExpiresInStall, Fault, Hung, Disturbed, Disturbing
<1> QED BY <1>1, <1>2, <1>3, <1>4, LeaseCases DEF SettledOrLeaseStep, LeaseStep

\* Until a worker hangs for longer than its lease, every worker between its
\* claim and the end of its pipeline holds the lease of its session; until a
\* command is applied twice as well, it knows a number that is free.
OrderlyInv ==
    /\ CoreInv
    /\ ~Hung => Holds(Beating)
    /\ ~Disturbed => Strict /\ NextAbove

LEMMA HungDisturbs == Hung => Disturbed
BY DEF Hung, Disturbed

LEMMA OrderlyStep ==
    ASSUME OrderlyInv, CoreInv', [Next]_vars
    PROVE  OrderlyInv'
<1>1. ASSUME ~Hung' PROVE Holds(Beating)'
  <2>1. Holds(Beating)
    BY <1>1, DisturbedStays DEF OrderlyInv, CoreInv
  <2>2. CASE UNCHANGED vars
    BY <2>1, <2>2 DEF vars, shared, session, Holds
  <2>3. CASE Next
    <3>1. TypeInv /\ (Settled(Beating) \/ LeaseStep)
      BY LeaseCases DEF OrderlyInv, CoreInv, SettledOrLeaseStep
    <3> QED BY <1>1, <2>1, <2>3, <3>1, HoldsStep
  <2> QED BY <2>2, <2>3
<1>2. ASSUME ~Disturbed' PROVE Strict' /\ NextAbove'
  <2>1. ~Disturbed /\ ~Hung
    BY <1>2, DisturbedStays, HungDisturbs DEF OrderlyInv, CoreInv
  <2> QED BY <1>2, <2>1, NoRepeatStep DEF OrderlyInv, CoreInv
<1> QED BY <1>1, <1>2 DEF OrderlyInv

LEMMA Orderly == Spec => []OrderlyInv
<1>1. Init => OrderlyInv
  BY InitCore DEF OrderlyInv
<1>2. OrderlyInv /\ CoreInv' /\ [Next]_vars => OrderlyInv'
  BY OrderlyStep
<1> QED BY <1>1, <1>2, Core, PTL DEF Spec

\* Until a worker hangs, a session has at most one producer of captions.
THEOREM Exclusive == Spec => []SingleProducer
<1>1. OrderlyInv => SingleProducer
  BY DEF OrderlyInv, Holds, SingleProducer, Runs
<1> QED BY Orderly, <1>1, PTL

\* Until a worker hangs or a command is applied twice, no number appears twice on
\* the same side of a lull: crashes, shutdowns, failed commands, stops and
\* restarts keep the numbering strict, as far as a new run can see it.
THEOREM NeverTwice == Spec => []NoRepeat
<1>1. OrderlyInv => NoRepeat
  BY DEF OrderlyInv, Strict, NoRepeat
<1> QED BY Orderly, <1>1, PTL

\* A stop stands until a start handler revives the session, whatever the workers
\* write one after another; only an error that is written over it while another
\* worker has the session in its hands overrules it.
THEOREM StopsHold == Spec => []StopHolds
<1>1. Init => StopKept
  BY InitCore
<1>2. TypeInv /\ StopKept /\ [Next]_vars => StopKept'
  BY StopStep
<1>3. StopKept => StopHolds
  BY DEF StopKept, StopHolds, Finished
<1> QED BY <1>1, <1>2, <1>3, Core, PTL DEF Spec, CoreInv

-----------------------------------------------------------------------------
(* The contract of the caption streams.                                    *)

\* What a step is for the contract of session s.
Obeys(s) == [Contract(s)!Next]_(Contract(s)!vars)

LEMMA ContractVars ==
    ASSUME NEW s \in Sids,
           Speakers(s)' = Speakers(s), Disturbed' = Disturbed, log'[s] = log[s]
    PROVE  Obeys(s)
BY DEF Obeys, Contract!vars

\* The names of the contract are those of Sessions.
LEMMA ContractNames ==
    ASSUME NEW l, NEW n
    PROVE  /\ \A s : Contract(s)!Final(n) = FinalEntry(n)
           /\ \A s : Contract(s)!Numbers(l) = {l[i].seq : i \in Finals(l)}
           /\ \A s, k : Contract(s)!Event(k) = EventEntry(k)
           /\ \A s : Contract(s)!Partial = PartialEntry
           /\ \A s : Contract(s)!Lulled(l) = Lulled(l)
BY DEF Contract!Final, Contract!Numbers, Contract!Event, Contract!Partial, FinalEntry, EventEntry,
       PartialEntry, Contract!Finals, Contract!IsFinal, Finals, IsFinal,
       Contract!Lulled, Contract!Lull, Lulled, Lull

\* The kinds of step of the contract, as Sessions takes them.
LEMMA ContractStepDown ==
    ASSUME NEW s \in Sids, Speakers(s)' \in SUBSET Speakers(s),
           Disturbed' = Disturbed, log'[s] = log[s]
    PROVE  Obeys(s)
BY DEF Obeys, Contract!Next, Contract!StepDown

LEMMA ContractTake ==
    ASSUME NEW s \in Sids, NEW w \in Workers, Speakers(s) = {} \/ Disturbed,
           Speakers(s)' = Speakers(s) \cup {w},
           Disturbed' = Disturbed, log'[s] = log[s]
    PROVE  Obeys(s)
BY DEF Obeys, Contract!Next, Contract!Take

LEMMA ContractDisturb ==
    ASSUME NEW s \in Sids, Speakers(s)' = Speakers(s),
           Disturbed' = TRUE, log'[s] = log[s]
    PROVE  Obeys(s)
BY DEF Obeys, Contract!Next, Contract!Disturb

LEMMA ContractEvent ==
    ASSUME NEW s \in Sids, NEW k \in {"ended", "error"},
           Speakers(s)' = Speakers(s), Disturbed' = Disturbed,
           log'[s] = Append(log[s], EventEntry(k))
    PROVE  Obeys(s)
<1>1. EventEntry(k) \in Contract(s)!Events
  BY DEF Contract!Events, Contract!Event, EventEntry
<1>2. Contract(s)!AnnounceSource
  BY <1>1 DEF Contract!AnnounceSource
<1> QED BY <1>2 DEF Obeys, Contract!Next

LEMMA ContractPartial ==
    ASSUME NEW s \in Sids, Speakers(s) # {},
           Speakers(s)' = Speakers(s), Disturbed' = Disturbed,
           log'[s] = Append(log[s], PartialEntry)
    PROVE  Obeys(s)
<1>1. Contract(s)!SayPartial
  BY ContractNames DEF Contract!SayPartial
<1> QED BY <1>1 DEF Obeys, Contract!Next

\* The next number of a worker may follow in the contract.
LEMMA NextFollows ==
    ASSUME NEW s \in Sids, NEW n \in Nat, log[s] \in Seq(Entry), Covered(log[s], n)
    PROVE  /\ n \in Contract(s)!Following
           /\ n \in Contract(s)!Numbers(log[s]) /\ Above(log[s], n) => Lulled(log[s])
<1> DEFINE l == log[s]
           N == Contract(s)!Numbers(l)
<1>1. N = {l[i].seq : i \in Finals(l)}
  BY ContractNames
<1>2. \A m \in 0..(n - 1) : m \in N
  BY <1>1 DEF Covered
<1> HIDE DEF N
<1>3. n \in {0} \cup {m + 1 : m \in N}
  <2>1. CASE n = 0
    BY <2>1
  <2>2. CASE n # 0
    <3>1. n - 1 \in N /\ n = (n - 1) + 1
      BY <1>2, <2>2
    <3> QED BY <3>1
  <2> QED BY <2>1, <2>2
<1>4. n \in Contract(s)!Following
  BY <1>2, <1>3 DEF Contract!Following, N
<1>5. ASSUME n \in N, Above(l, n) PROVE Lulled(l)
  <2>1. PICK i \in Finals(l) : l[i].seq = n
    BY <1>1, <1>5
  <2>2. Interrupted(l, i, Len(l) + 1)
    BY <1>5, <2>1 DEF Above
  <2> QED BY <2>2 DEF Interrupted, Lulled
<1> QED BY <1>4, <1>5 DEF N

\* A worker that appends its next number says it.
LEMMA SaysNext ==
    ASSUME OrderlyInv, NEW w \in Workers, NEW s \in Sids, s = sid[w], pc[w] \in Pub,
           next[w] \in Nat, Speakers(s)' = Speakers(s),
           \/ Disturbed' = Disturbed /\ log'[s] = Append(log[s], FinalEntry(next[w]))
           \/ Disturbed' = TRUE
              /\ log'[s] = Append(Append(log[s], FinalEntry(next[w])), FinalEntry(next[w]))
    PROVE  Obeys(s)
<1> DEFINE n == next[w]
<1>1. log[s] \in Seq(Entry) /\ Covered(log[s], n)
  BY DEF OrderlyInv, CoreInv, TypeInv, TypeOK, NextCovered
<1>2. w \in Speakers(s)
  BY DEF Speakers, Runs, Pub, Beating
<1>3. n \in Contract(s)!Following
  BY <1>1, NextFollows
<1>4. n \in Contract(s)!Numbers(log[s]) => Disturbed \/ Contract(s)!Lulled(log[s])
  BY <1>1, NextFollows, ContractNames DEF OrderlyInv, NextAbove
<1>5. Contract(s)!Final(n) = FinalEntry(n)
  BY ContractNames
<1> HIDE DEF n
<1>6. CASE Disturbed' = Disturbed /\ log'[s] = Append(log[s], FinalEntry(n))
  <2>1. Contract(s)!Say(n)
    BY <1>2, <1>4, <1>5, <1>6 DEF Contract!Say
  <2> QED BY <1>3, <2>1 DEF Obeys, Contract!Next
<1>7. CASE /\ Disturbed' = TRUE
           /\ log'[s] = Append(Append(log[s], FinalEntry(n)), FinalEntry(n))
  <2>1. Contract(s)!SayTwice(n)
    BY <1>2, <1>5, <1>7 DEF Contract!SayTwice
  <2> QED BY <1>3, <2>1 DEF Obeys, Contract!Next
<1> QED BY <1>6, <1>7 DEF n

\* Speakers depend on where the workers are and on their sessions only.
LEMMA SameSpeakers ==
    ASSUME NEW s \in Sids,
           \A v \in Workers : (pc'[v] \in Beating /\ sid'[v] = s)
                                <=> (pc[v] \in Beating /\ sid[v] = s)
    PROVE  Speakers(s)' = Speakers(s)
BY DEF Speakers, Runs

\* Every step of Sessions is a step of the contract of every session, or none.
LEMMA ContractStep ==
    ASSUME OrderlyInv, [Next]_vars, NEW s \in Sids
    PROVE  Obeys(s)
<1> USE DEF OrderlyInv, CoreInv
<1>1. TypeInv /\ \A v \in Workers : pc[v] \in Owning => sid[v] \in Sids
  BY DEF TypeInv, SidKnown
<1>2. ASSUME NEW w \in Workers, PublishReplyLost(w) PROVE Obeys(s)
  <2>1. /\ Disturbed' = TRUE /\ pc' = pc /\ sid' = sid /\ pc[w] \in Pub
        /\ sid[w] \in Sids /\ next[w] \in Nat
        /\ \A t \in Sids \ {sid[w]} : log'[t] = log[t]
        /\ log'[sid[w]] = Append(Append(log[sid[w]], FinalEntry(next[w])), FinalEntry(next[w]))
    BY <1>1, <1>2 DEF PublishReplyLost, Publishing, Append2, Fault, Disturbing, Disturbed, Pub,
       TypeInv, TypeOK, Owning, Beating
  <2>2. Speakers(s)' = Speakers(s)
    BY <2>1, SameSpeakers
  <2>3. CASE s = sid[w]
    BY <2>1, <2>2, <2>3, SaysNext
  <2>4. CASE s # sid[w]
    BY <2>1, <2>2, <2>4, ContractDisturb
  <2> QED BY <2>3, <2>4
<1>3. ASSUME Calm, Settled(Beating), Quiet PROVE Obeys(s)
  <2>1. Disturbed' = Disturbed /\ log' = log
    BY <1>3 DEF Calm, Disturbed, Quiet
  <2>2. Speakers(s)' \in SUBSET Speakers(s)
    BY <1>3 DEF Settled, Speakers, Runs
  <2> QED BY <2>1, <2>2, ContractStepDown
<1>4. ASSUME Calm, NEW w \in Workers, Numbers(w), ~PublishReplyLost(w) PROVE Obeys(s)
  <2>1. Disturbed' = Disturbed
    BY <1>4 DEF Calm, Disturbed
  <2>2. /\ sid' = sid /\ sid[w] \in Sids
        /\ \A v \in Workers \ {w} : pc'[v] = pc[v]
        /\ next[w] \in Nat
        /\ \A t \in Sids \ {sid[w]} : log'[t] = log[t]
    BY <1>1, <1>4, NumbersEffect
  <2>3. /\ pc'[w] \in Beating <=> pc[w] \in Beating
        /\ \/ log' = log
           \/ pc[w] \in Pub /\ log'[sid[w]] = Append(log[sid[w]], FinalEntry(next[w]))
           \/ pc[w] \in Pub /\ log'[sid[w]] = Append(log[sid[w]], PartialEntry)
           \/ \E k \in {"ended", "error"} : log'[sid[w]] = Append(log[sid[w]], EventEntry(k))
    <3> USE DEF TypeInv, TypeOK, Pub, Beating
    <3>1. CASE Resume(w)
      BY <1>1, <3>1 DEF Resume, Goto, shared
    <3>2. CASE PublishFinal(w)
      BY <1>1, <2>2, <3>2 DEF PublishFinal, Publishing, Append1
    <3>3. CASE PublishLate(w)
      BY <1>1, <2>2, <3>3 DEF PublishLate, Append1
    <3>4. CASE Announce(w)
      <4>1. Announced(w) \in {"ended", "error"}
        BY DEF Announced
      <4> QED BY <1>1, <2>2, <3>4, <4>1 DEF Announce, Goto
    <3>5. CASE PublishPartial(w)
      BY <1>1, <2>2, <3>5 DEF PublishPartial
    <3> QED BY <1>4, <3>1, <3>2, <3>3, <3>4, <3>5 DEF Numbers
  <2>4. Speakers(s)' = Speakers(s)
    BY <2>2, <2>3, SameSpeakers
  <2>5. CASE s # sid[w] \/ log' = log
    BY <2>1, <2>2, <2>4, <2>5, ContractVars
  <2>6. CASE s = sid[w] /\ log' # log
    <3>1. pc[w] \in Pub => Speakers(s) # {}
      BY <2>6 DEF Speakers, Runs, Pub, Beating
    <3> QED BY <2>1, <2>2, <2>3, <2>4, <2>6, <3>1, SaysNext, ContractEvent, ContractPartial
  <2> QED BY <2>5, <2>6
<1>5. ASSUME NEW w \in Workers, Acquire(w) PROVE Obeys(s)
  <2>1. /\ log' = log /\ Disturbed' = Disturbed /\ sid' = sid /\ sid[w] \in Sids
        /\ pc[w] = "acquire" /\ pc'[w] = "resume" /\ lease[sid[w]] = NoOwner
        /\ \A v \in Workers \ {w} : pc'[v] = pc[v]
    BY <1>5 DEF Acquire, Goto, LeaseFree, session, Disturbed, TypeInv, TypeOK, SidKnown
  <2>2. CASE s # sid[w]
    <3>1. Speakers(s)' = Speakers(s)
      BY <2>1, <2>2, SameSpeakers
    <3> QED BY <2>1, <3>1, ContractVars
  <2>3. CASE s = sid[w]
    <3>1. Speakers(s)' = Speakers(s) \cup {w}
      BY <2>1, <2>3 DEF Speakers, Runs, Beating
    <3>2. ASSUME ~Disturbed PROVE Speakers(s) = {}
      <4>1. Holds(Beating)
        BY <3>2, HungDisturbs
      <4> QED BY <2>1, <2>3, <4>1, ConstantsAssumption DEF Holds, Speakers, Runs
    <3> QED BY <2>1, <3>1, <3>2, ContractTake
  <2> QED BY <2>2, <2>3
<1>6. ASSUME NEW w \in Workers, AcquireReplyLost(w) PROVE Obeys(s)
  <2>1. /\ log' = log /\ Disturbed' = TRUE
        /\ pc[w] = "acquire" /\ pc'[w] = "claim"
        /\ \A v \in Workers \ {w} : pc'[v] = pc[v] /\ sid'[v] = sid[v]
    BY <1>6 DEF AcquireReplyLost, PassOver, Goto, Fault, Disturbing, Disturbed, TypeInv, TypeOK
  <2>2. Speakers(s)' = Speakers(s)
    BY <2>1, SameSpeakers DEF Beating
  <2> QED BY <2>1, <2>2, ContractDisturb
<1>7. ASSUME NEW w \in Workers, Release(w) PROVE Obeys(s)
  <2>1. /\ log' = log /\ Disturbed' = Disturbed
        /\ pc[w] = "release" /\ pc'[w] = "idle"
        /\ \A v \in Workers \ {w} : pc'[v] = pc[v] /\ sid'[v] = sid[v]
    BY <1>7 DEF Release, Leave, Disturbed, TypeInv, TypeOK
  <2>2. Speakers(s)' = Speakers(s)
    BY <2>1, SameSpeakers DEF Beating
  <2> QED BY <2>1, <2>2, ContractVars
<1>8. ASSUME NEW t \in Sids, LeaseExpires(t) PROVE Obeys(s)
  <2>1. log' = log /\ Disturbed' = Disturbed /\ Speakers(s)' = Speakers(s)
    BY <1>8 DEF LeaseExpires, session, Disturbed, Speakers, Runs
  <2> QED BY <2>1, ContractVars
<1>9. ASSUME NEW t \in Sids, LeaseExpiresInStall(t) PROVE Obeys(s)
  <2>1. log' = log /\ Disturbed' = TRUE /\ Speakers(s)' = Speakers(s)
    BY <1>9 DEF LeaseExpiresInStall, Fault, Disturbing, session, Disturbed, Speakers, Runs
  <2> QED BY <2>1, ContractDisturb
<1> QED
  BY <1>1, <1>2, <1>3, <1>4, <1>5, <1>6, <1>7, <1>8, <1>9, StreamCases, LeaseCases
     DEF SettledOrLeaseStep, LeaseStep, QuietOrNumbers

\* Workers, leases and the API implement the contract of the caption streams,
\* for any number of workers and sessions, with every fault: a number is said
\* only after all lower ones and by a worker that speaks, one worker speaks at
\* a time and no number is said twice until somebody hangs or a reply is lost, or
\* a lull has hidden the last FINAL from a new run.
THEOREM CaptionsImplemented == Spec => ImplementsCaptions
<1> DEFINE Steps == \A s \in Sids : [Contract(s)!Next]_(Contract(s)!vars)
           Starts == \A s \in Sids : Contract(s)!Init
<1>1. Init => Starts
  <2> SUFFICES ASSUME Init, NEW s \in Sids
               PROVE  Contract(s)!Init
    OBVIOUS
  <2>1. Speakers(s) = {} /\ log[s] = <<>>
    BY DEF Init, Speakers, Runs, Beating
  <2>2. Disturbed = FALSE
    BY DEF Init, Disturbed
  <2>3. <<>> = [l \in {} |-> <<>>]
    OBVIOUS
  <2> QED BY <2>1, <2>2, <2>3 DEF Contract!Init
<1>2. OrderlyInv /\ [Next]_vars => [Steps]_vars
  BY ContractStep DEF Obeys
<1> HIDE DEF Steps, Starts
<1>3. Spec => Starts /\ [][Steps]_vars
  BY <1>1, <1>2, Orderly, PTL DEF Spec
<1> QED BY <1>3 DEF ImplementsCaptions, Steps, Starts

=============================================================================
