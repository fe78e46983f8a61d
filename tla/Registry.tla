------------------------------- MODULE Registry -------------------------------
(***************************************************************************)
(* How sessions come into being: the replicas of the API seed those of a    *)
(* file when they start, and POST /api/sessions creates others              *)
(* (src/conffy/api/main.py); both call save_session (src/conffy/bus.py),    *)
(* which takes several commands of Valkey.  Stops, starts and the worker of *)
(* a session write its state meanwhile.                                     *)
(***************************************************************************)
EXTENDS Integers, Sequences, Ranks

CONSTANTS
    Replicas,    \* processes of the API
    Posts,       \* requests POST /api/sessions being served at a time
    Sids,        \* session ids, as numbers: the API lists them in order
    Bodies,      \* configurations as written: [source, targets]
    File,        \* the sessions file: a sequence of [id, config]
    Absent,      \* an absent key of Valkey
    Faults,      \* which of FaultKinds may happen
    MaxFaults,   \* bound of the model: faults in a behaviour
    MaxEvents    \* bound of the model: faults, API calls and state writes of workers

\* "crash": a replica dies.  "valkey": a command fails.  "lostreply": a command
\* is applied, its reply is lost and the client library sends it again.
FaultKinds == {"crash", "valkey", "lostreply"}

-----------------------------------------------------------------------------
(* SessionConfig.                                                          *)

Has(seq, e) == \E i \in DOMAIN seq : seq[i] = e

\* dict.fromkeys: the first of each.
Distinct(langs) ==
    LET first == Ascending({i \in DOMAIN langs : ~Has(SubSeq(langs, 1, i - 1), langs[i])})
    IN  [k \in DOMAIN first |-> langs[first[k]]]

\* The validators; any other body is answered with 422.
Valid(b) == ~Has(b.targets, b.source)
Validated(b) == [source |-> b.source, targets |-> Distinct(b.targets)]

Langs(c) == <<c.source>> \o c.targets

\* With an invalid entry in the file the API would not start.
ASSUME RegistryAssumption ==
    /\ Sids \subseteq Nat
    /\ Replicas \cap Posts = {}
    /\ Absent \notin Replicas \cup {"waiting", "live", "ended", "error"}
    /\ Bodies \subseteq [source : STRING, targets : Seq(STRING)]
    /\ \A b \in Bodies : Validated(b) # Absent
    /\ File \in Seq([id : Sids, config : Bodies])
    /\ \A i \in DOMAIN File : Valid(File[i].config)
    /\ Faults \subseteq FaultKinds
    /\ MaxFaults \in Nat /\ MaxEvents \in Nat

-----------------------------------------------------------------------------
VARIABLES
    config,    \* Valkey: the configuration of each session
    listed,    \* Valkey: the set of session ids
    state,     \* Valkey: the status in the state key of each session
    at,        \* each task: its next command in save_session
    pos,       \* each replica: how far it is in the file
    body,      \* each POST: the session it creates
    by,        \* each POST: the replica that serves it
    starts,    \* sessions whose start handler is between its read and its write
    granted,   \* history: the configurations whose creation was confirmed
    torn,      \* history: sessions whose creation was cut before they were listed
    faults,    \* faults so far
    calls      \* API calls and state writes of workers so far

keys    == <<config, listed, state>>
tasks   == <<at, pos, body, by>>
history == <<granted, torn>>
registry == <<keys, tasks, starts, history, faults, calls>>

Tasks == Replicas \cup Posts
Finished == {"ended", "error"}
Status == {"waiting", "live"} \cup Finished

\* save_session is at one of these; a replica is up once its file is done.
Saving == {"config", "list", "exists", "state"}

RegistryInit ==
    /\ config = [s \in Sids |-> Absent]
    /\ listed = {}
    /\ state = [s \in Sids |-> Absent]
    /\ at = [t \in Tasks |-> "off"]
    /\ pos = [r \in Replicas |-> 0]
    /\ body = [p \in Posts |-> Absent]
    /\ by = [p \in Posts |-> Absent]
    /\ starts = {}
    /\ granted = [s \in Sids |-> <<>>]
    /\ torn = {}
    /\ faults = 0 /\ calls = 0

-----------------------------------------------------------------------------
(* save_session(), for a POST or for a replica that seeds.                 *)

\* What a task saves.
Entry(i) == [id |-> File[i].id, config |-> Validated(File[i].config)]
Saves(t) == IF t \in Replicas THEN Entry(pos[t]) ELSE body[t]
Sid(t) == Saves(t).id

Goes(t, step) == at' = [at EXCEPT ![t] = step] /\ UNCHANGED <<pos, body, by>>

\* A task is over.
Done(t, step) ==
    /\ at' = [at EXCEPT ![t] = step]
    /\ pos' = [r \in Replicas |-> IF r = t THEN 0 ELSE pos[r]]
    /\ body' = [p \in Posts |-> IF p = t THEN Absent ELSE body[p]]
    /\ by' = [p \in Posts |-> IF p = t THEN Absent ELSE by[p]]

\* Mutant of Returns: lifespan stops at the first session it has not created.
ReturnsAtOnce(t) ==
    IF t \in Replicas /\ pos[t] < Len(File) /\ granted' # granted
    THEN pos' = [pos EXCEPT ![t] = @ + 1] /\ at' = [at EXCEPT ![t] = "config"] /\ UNCHANGED <<body, by>>
    ELSE Done(t, IF t \in Replicas THEN "up" ELSE "off")

\* save_session returns: lifespan goes on with the file, the handler replies
\* 201 or 409.
Returns(t) ==
    IF t \in Replicas /\ pos[t] < Len(File)
    THEN pos' = [pos EXCEPT ![t] = @ + 1] /\ at' = [at EXCEPT ![t] = "config"] /\ UNCHANGED <<body, by>>
    ELSE Done(t, IF t \in Replicas THEN "up" ELSE "off")

Confirm(t) ==
    /\ granted' = [granted EXCEPT ![Sid(t)] = Append(@, Saves(t).config)]
    /\ Returns(t)
    /\ UNCHANGED torn

\* Mutant of Free: SET without NX.
FreeAlways(t) == TRUE

\* SET NX finds no configuration.
Free(t) == config[Sid(t)] = Absent

SetConfig(t) ==
    /\ at[t] = "config" /\ Free(t)
    /\ config' = [config EXCEPT ![Sid(t)] = Saves(t).config]
    /\ Goes(t, "list")
    /\ UNCHANGED <<listed, state, starts, history, faults, calls>>

\* The session exists: False.
ConfigTaken(t) ==
    /\ at[t] = "config" /\ ~Free(t)
    /\ UNCHANGED history /\ Returns(t)
    /\ UNCHANGED <<keys, starts, faults, calls>>

AddToSet(t) ==
    /\ at[t] = "list"
    /\ listed' = listed \cup {Sid(t)}
    /\ Goes(t, "exists")
    /\ UNCHANGED <<config, state, starts, history, faults, calls>>

StateExists(t) ==
    /\ at[t] = "exists" /\ state[Sid(t)] # Absent
    /\ Confirm(t)
    /\ UNCHANGED <<keys, starts, faults, calls>>

NoState(t) ==
    /\ at[t] = "exists" /\ state[Sid(t)] = Absent
    /\ Goes(t, "state")
    /\ UNCHANGED <<keys, starts, history, faults, calls>>

\* EXISTS was an earlier command: this may overwrite what came in between.
WriteState(t) ==
    /\ at[t] = "state"
    /\ state' = [state EXCEPT ![Sid(t)] = "waiting"]
    /\ Confirm(t)
    /\ UNCHANGED <<config, listed, starts, faults, calls>>

Save(t) ==
    \/ SetConfig(t) \/ ConfigTaken(t) \/ AddToSet(t)
    \/ StateExists(t) \/ NoState(t) \/ WriteState(t)

-----------------------------------------------------------------------------
(* The API and the worker of a session.                                    *)

\* A replica starts, or is started again.
Boot(r) ==
    /\ at[r] = "off"
    /\ at' = [at EXCEPT ![r] = IF File = <<>> THEN "up" ELSE "config"]
    /\ pos' = [pos EXCEPT ![r] = IF File = <<>> THEN 0 ELSE 1]
    /\ UNCHANGED <<keys, body, by, starts, history, faults, calls>>

Up == {r \in Replicas : at[r] = "up"}

Call == faults + calls < MaxEvents /\ calls' = calls + 1
ApiCall == Up # {} /\ Call

Post(p, s, b) ==
    /\ at[p] = "off" /\ Valid(b)
    /\ ApiCall
    /\ at' = [at EXCEPT ![p] = "config"]
    /\ body' = [body EXCEPT ![p] = [id |-> s, config |-> Validated(b)]]
    /\ \E r \in Up : by' = [by EXCEPT ![p] = r]
    /\ UNCHANGED <<keys, pos, starts, history, faults>>

\* A session without a state key is waiting.
StateOf(s) == IF state[s] = Absent THEN "waiting" ELSE state[s]

Stop(s) ==
    /\ ApiCall
    /\ config[s] # Absent
    /\ state' = [state EXCEPT ![s] = "ended"]
    /\ UNCHANGED <<config, listed, tasks, starts, history, faults>>

StartReads(s) ==
    /\ ApiCall
    /\ config[s] # Absent /\ s \notin starts
    /\ StateOf(s) # "live"
    /\ starts' = starts \cup {s}
    /\ UNCHANGED <<keys, tasks, history, faults>>

StartWrites(s) ==
    /\ s \in starts
    /\ starts' = starts \ {s}
    /\ state' = [state EXCEPT ![s] = "waiting"]
    /\ UNCHANGED <<config, listed, tasks, history, faults, calls>>

\* Mutant of SetUnlessEnded: a plain SET.
SetAlways(s, new) == new

SetUnlessEnded(s, new) == IF state[s] = "ended" THEN "ended" ELSE new

\* Sessions says when a worker writes which state: LIVE and WAITING with the
\* guard, ENDED and ERROR without.  It finds a session in the set of ids.
WorkerWrites(s) ==
    /\ Call
    /\ s \in listed /\ config[s] # Absent
    /\ \E new \in Status :
         state' = [state EXCEPT ![s] =
                      IF new \in Finished THEN new ELSE SetUnlessEnded(s, new)]
    /\ UNCHANGED <<config, listed, tasks, starts, history, faults>>

-----------------------------------------------------------------------------
(* Faults.                                                                 *)

Fault(kind) ==
    /\ kind \in Faults
    /\ faults < MaxFaults /\ faults + calls < MaxEvents
    /\ faults' = faults + 1

\* The tasks in cut are gone; a session they had not listed yet stays so.
Cut(cut) ==
    /\ at' = [t \in Tasks |-> IF t \in cut THEN "off" ELSE at[t]]
    /\ torn' = torn \cup {Sid(t) : t \in {u \in cut : at[u] = "list"}}
    /\ UNCHANGED <<keys, pos, body, by, granted, calls>>

\* With the process its requests are gone, and any start handlers it served.
Crash(r) ==
    /\ at[r] # "off" /\ Fault("crash")
    /\ Cut({r} \cup {p \in Posts : by[p] = r /\ at[p] # "off"})
    /\ starts' \in SUBSET starts

\* The request is answered with 500; a replica that seeds does not start.
CommandFails(t) ==
    /\ at[t] \in Saving /\ Fault("valkey")
    /\ Cut({t})
    /\ UNCHANGED starts

\* SET NX is applied, its reply is lost, and the repeated one finds the key.
ConfigReplyLost(t) ==
    /\ at[t] = "config" /\ Free(t) /\ Fault("lostreply")
    /\ config' = [config EXCEPT ![Sid(t)] = Saves(t).config]
    /\ torn' = torn \cup {Sid(t)}
    /\ UNCHANGED granted /\ Returns(t)
    /\ UNCHANGED <<listed, state, starts, calls>>

-----------------------------------------------------------------------------
\* Every step but the crash of a replica, which its connections feel.
Serves ==
    \/ \E t \in Tasks : Save(t) \/ CommandFails(t) \/ ConfigReplyLost(t)
    \/ \E r \in Replicas : Boot(r)
    \/ \E p \in Posts, s \in Sids, b \in Bodies : Post(p, s, b)
    \/ \E s \in Sids : Stop(s) \/ StartReads(s) \/ StartWrites(s) \/ WorkerWrites(s)

RegistryNext == Serves \/ \E r \in Replicas : Crash(r)

RegistrySpec == RegistryInit /\ [][RegistryNext]_registry

-----------------------------------------------------------------------------
\* A session is created once, however many replicas and clients try at once and
\* whatever fails, and once its creation is confirmed it is there for everybody:
\* with that configuration, in the list, and with a state.
CreatedOnce ==
    \A s \in Sids : granted[s] # <<>> =>
        /\ granted[s] = <<config[s]>>
        /\ s \in listed /\ state[s] # Absent

\* No session is forgotten: one that has a configuration but is in no list is
\* just being created, or its creation was cut between the two commands; and a
\* replica that is up has left no session of the file out, whoever else was
\* creating it.
BeingListed(s) == \E t \in Tasks : at[t] = "list" /\ Sid(t) = s

NoneForgotten ==
    /\ \A s \in Sids : config[s] # Absent => s \in listed \cup torn \/ BeingListed(s)
    /\ Up # {} => \A i \in DOMAIN File : config[File[i].id] # Absent

\* Once the creation of a session is confirmed, no creation still under way touches
\* its state, though EXISTS and SET are two commands: what the API or a worker has
\* written, a stop above all, is not lost to it.  (What start handlers and workers
\* may do to a stop is in Sessions.)
CreationIsOver ==
    [][\A s \in Sids, t \in Tasks :
         granted[s] # <<>> /\ Save(t) => state'[s] = state[s]]_registry

=============================================================================
