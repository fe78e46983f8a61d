------------------------------- MODULE LoadTest -------------------------------
(***************************************************************************)
(* The load test (loadtest/sse_clients.py) against the API of Registry: it  *)
(* lists the talks, opens its viewers over them and counts what becomes of  *)
(* their connections.                                                      *)
(***************************************************************************)
EXTENDS Registry, FiniteSets

CONSTANT NumViewers    \* --viewers

ASSUME LoadTestAssumption == NumViewers \in Nat /\ Absent # 0

VARIABLES
    main,      \* main()
    rows,      \* ids of the listing that list_sessions has not read yet
    targets,   \* the streams to watch: <<session, language>>
    viewer,    \* each viewer(): where it is, or how it ended
    link,      \* each viewer: the replica its stream comes from
    count,     \* the counters of Stats
    code,      \* the exit code
    owed       \* history: sessions confirmed when the listing began, not finished since

test == <<main, rows, targets, viewer, link, count, code>>
all == <<registry, test, owed>>

Viewers == 0..(NumViewers - 1)

TypeOK ==
    /\ listed \in SUBSET Sids
    /\ state \in [Sids -> Status \cup {Absent}]
    /\ at \in [Tasks -> Saving \cup {"off", "up"}]
    /\ pos \in [Replicas -> 0..Len(File)]
    /\ by \in [Posts -> Replicas \cup {Absent}]
    /\ starts \in SUBSET Sids /\ torn \in SUBSET Sids
    /\ main \in {"start", "rows", "ramp", "gather", "exit"}
    /\ rows \in SUBSET Sids /\ owed \in SUBSET Sids
    /\ viewer \in [Viewers -> {"new", "asking", "open", "refused", "closed", "broken", "cancelled"}]
    /\ link \in [Viewers -> Replicas \cup {Absent}]
    /\ LET N == 0..NumViewers
       IN  count \in [connected : N, active : N, failed : N, dropped : N]
    /\ code \in {Absent, 0, 1, 2}

LoadInit ==
    /\ RegistryInit
    /\ main = "start"
    /\ rows = {} /\ targets = <<>>
    /\ viewer = [i \in Viewers |-> "new"]
    /\ link = [i \in Viewers |-> Absent]
    /\ count = [connected |-> 0, active |-> 0, failed |-> 0, dropped |-> 0]
    /\ code = Absent
    /\ owed = {}

-----------------------------------------------------------------------------
(* main() up to the ramp, and the handler list_sessions.                    *)

Exits(with) == main' = "exit" /\ code' = with

Lists ==
    /\ main = "start" /\ Up # {}
    /\ main' = "rows" /\ rows' = listed
    /\ owed' = {s \in Sids : granted[s] # <<>> /\ StateOf(s) \notin Finished}
    /\ UNCHANGED <<registry, targets, viewer, link, count, code>>

\* Mutant of Watched: a talk that waits is left out.
WatchedLive(s) == config[s] # Absent /\ StateOf(s) = "live"

Watched(s) == config[s] # Absent /\ StateOf(s) \in {"live", "waiting"}

Streams(s) == [i \in DOMAIN Langs(config[s]) |-> <<s, Langs(config[s])[i]>>]

\* A configuration never changes: its read and that of the state are one step.
ReadsRow ==
    /\ main = "rows"
    /\ \E s \in rows :
         /\ \A other \in rows : s <= other
         /\ rows' = rows \ {s}
         /\ targets' = IF Watched(s) THEN targets \o Streams(s) ELSE targets
    /\ UNCHANGED <<registry, main, viewer, link, count, code, owed>>

\* Without a talk there is nothing to test.
Targeted ==
    /\ main = "rows" /\ rows = {}
    /\ IF targets = <<>> THEN Exits(1) ELSE main' = "ramp" /\ UNCHANGED code
    /\ UNCHANGED <<registry, rows, targets, viewer, link, count, owed>>

\* 500, or 502 from nginx: the answer is no JSON.
ListingFails ==
    /\ main = "rows"
    /\ Fault("valkey")
    /\ Exits(1)
    /\ UNCHANGED <<keys, tasks, starts, history, calls>>
    /\ UNCHANGED <<rows, targets, viewer, link, count, owed>>

-----------------------------------------------------------------------------
(* viewer(), and the handler caption_stream.                                *)

Becomes(i, new) == viewer' = [viewer EXCEPT ![i] = new]

Spawn(i) ==
    /\ main = "ramp" /\ viewer[i] = "new"
    /\ \A j \in Viewers : j < i => viewer[j] # "new"
    /\ Becomes(i, "asking")
    /\ UNCHANGED <<registry, main, rows, targets, link, count, code, owed>>

Target(i) == targets[(i % Len(targets)) + 1]

\* Mutant of Streamed: the source language is forgotten.
StreamedTargets(s, lang) == config[s] # Absent /\ Has(config[s].targets, lang)

\* 404 for an unknown session, or a language it has not.
Streamed(s, lang) == config[s] # Absent /\ Has(Langs(config[s]), lang)

Asks(i) == viewer[i] = "asking" /\ main = "ramp"

Accepted(i, r) ==
    /\ Asks(i) /\ r \in Up
    /\ Streamed(Target(i)[1], Target(i)[2])
    /\ Becomes(i, "open")
    /\ link' = [link EXCEPT ![i] = r]
    /\ count' = [count EXCEPT !.connected = @ + 1, !.active = @ + 1]
    /\ UNCHANGED <<registry, main, rows, targets, code, owed>>

\* Mutant of Refused: finally counts down whether it was connected or not.
RefusedLeaves(i) ==
    /\ Becomes(i, "refused")
    /\ count' = [count EXCEPT !.failed = @ + 1, !.active = @ - 1]
    /\ UNCHANGED <<main, rows, targets, link, code, owed>>

Refused(i) ==
    /\ Becomes(i, "refused")
    /\ count' = [count EXCEPT !.failed = @ + 1]
    /\ UNCHANGED <<main, rows, targets, link, code, owed>>

\* The stream is not there, or no replica is.
Rejected(i) ==
    /\ Asks(i)
    /\ Up = {} \/ ~Streamed(Target(i)[1], Target(i)[2])
    /\ Refused(i)
    /\ UNCHANGED registry

RequestFails(i) ==
    /\ Asks(i) /\ Up # {}
    /\ Fault("valkey")
    /\ Refused(i)
    /\ UNCHANGED <<keys, tasks, starts, history, calls>>

\* finally: of a viewer that was connected; counted says what else is counted.
Leaves(i, how, counted) ==
    /\ Becomes(i, how)
    /\ link' = [link EXCEPT ![i] = Absent]
    /\ count' = [counted EXCEPT !.active = @ - 1]

\* The API ends the response, as it does with a slow viewer or when its hub
\* fails: the loop over the lines is over, and no counter tells.
Closes(i) ==
    /\ viewer[i] = "open" /\ main = "ramp"
    /\ Leaves(i, "closed", count)
    /\ UNCHANGED <<registry, main, rows, targets, code, owed>>

\* Its replica has died: an httpx.HTTPError before stop is set.
Breaks(i) ==
    /\ viewer[i] = "open" /\ main = "ramp"
    /\ link[i] = Absent
    /\ Leaves(i, "broken", [count EXCEPT !.dropped = @ + 1])
    /\ UNCHANGED <<registry, main, rows, targets, code, owed>>

-----------------------------------------------------------------------------
(* main() from the ramp to the end.                                         *)

\* All are spawned and the time is over: stop.set(), and every task is cancelled.
Stops ==
    /\ main = "ramp" /\ \A i \in Viewers : viewer[i] # "new"
    /\ main' = "gather"
    /\ UNCHANGED <<registry, rows, targets, viewer, link, count, code, owed>>

\* Mutant of Running: only connected viewers are cancelled.
RunningOpen == {i \in Viewers : viewer[i] = "open"}

Running == {i \in Viewers : viewer[i] \in {"asking", "open"}}

Cancelled(i) ==
    /\ main = "gather" /\ i \in Running
    /\ IF viewer[i] = "open" THEN Leaves(i, "cancelled", count)
                             ELSE Becomes(i, "cancelled") /\ UNCHANGED <<link, count>>
    /\ UNCHANGED <<registry, main, rows, targets, code, owed>>

Reports ==
    /\ main = "gather" /\ Running = {}
    /\ Exits(IF count.failed = 0 /\ count.dropped = 0 THEN 0 ELSE 2)
    /\ UNCHANGED <<registry, rows, targets, viewer, link, count, owed>>

-----------------------------------------------------------------------------
\* Bound of the model: nothing is followed after the exit; what the API can do
\* by itself it can do before the start.
ApiStep ==
    /\ main # "exit"
    /\ Serves
    /\ owed' = {s \in owed : StateOf(s)' \notin Finished}
    /\ UNCHANGED test

\* The connections of its viewers break; a listing it serves fails.
ReplicaDies(r) ==
    /\ main # "exit"
    /\ Crash(r)
    /\ link' = [i \in Viewers |-> IF link[i] = r THEN Absent ELSE link[i]]
    /\ \/ main = "rows" /\ Exits(1)
       \/ UNCHANGED <<main, code>>
    /\ UNCHANGED <<rows, targets, viewer, count, owed>>

Test ==
    \/ Lists \/ ReadsRow \/ Targeted \/ ListingFails
    \/ \E i \in Viewers :
         \/ Spawn(i) \/ Rejected(i) \/ RequestFails(i) \/ \E r \in Replicas : Accepted(i, r)
         \/ Closes(i) \/ Breaks(i) \/ Cancelled(i)
    \/ Stops \/ Reports

LoadNext == ApiStep \/ Test \/ \E r \in Replicas : ReplicaDies(r)

LoadSpec == LoadInit /\ [][LoadNext]_all

-----------------------------------------------------------------------------
\* "Every live talk and language": what was confirmed before the listing began,
\* by whichever replica, and is not over is watched in each of its languages,
\* and no stream twice.
EveryTalkWatched ==
    main = "ramp" =>
        /\ \A s \in owed : \A i \in DOMAIN Langs(config[s]) :
             Has(targets, <<s, Langs(config[s])[i]>>)
        /\ \A i, j \in DOMAIN targets : targets[i] = targets[j] => i = j

\* Without a fault no viewer is refused or broken off: no stream of the listing
\* is gone later, whatever is created, stopped or started meanwhile.  (A stream
\* that the API ends is in neither counter, see Closes.)
OnlyFaultsFail == faults = 0 => count.failed = 0 /\ count.dropped = 0

Ended(how) == {i \in Viewers : viewer[i] = how}

\* The counters agree with what happened to the viewers, in whatever order, and
\* the test is passed only if no connection was refused or broke.
CountersAgree ==
    /\ count.active = Cardinality(Ended("open"))
    /\ count.failed = Cardinality(Ended("refused"))
    /\ count.dropped = Cardinality(Ended("broken"))
    /\ main = "exit" => count.active = 0 /\ Ended("asking") = {}
    /\ code = 0 => Ended("refused") \cup Ended("broken") = {}

=============================================================================
