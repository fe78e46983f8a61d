------------------------------- MODULE Sessions -------------------------------
(***************************************************************************)
(* Who transcribes a talk: the workers (src/conffy/worker/service.py), the *)
(* leases, states and caption streams they share in Valkey                 *)
(* (src/conffy/bus.py) and the stop and start handlers of the API          *)
(* (src/conffy/api/main.py).                                               *)
(*                                                                         *)
(* One action is the code of one coroutine between two awaits on Valkey.   *)
(* Of a caption stream only the source language is kept, for the others    *)
(* copy its numbers, and of a partial only that it is there: it may hide   *)
(* the last FINAL from the look-up of the next run (Lookup).  Time is kept *)
(* only as far as it decides whether a lease can expire.                   *)
(***************************************************************************)
EXTENDS Lookup, FiniteSets

CONSTANTS
    Workers,       \* worker ids (settings.worker_id)
    Sids,          \* session ids, as numbers: claim_next visits them in order
    NoOwner,       \* an absent lease key
    Faults,        \* which of FaultKinds may happen
    LeaseTtl,      \* LEASE_TTL_MS, in seconds
    RenewEvery,    \* LEASE_RENEW_EVERY_S
    DrainTimeout,  \* how long a drain may take: DRAIN_TIMEOUT_S, or less
    MaxLog,        \* bound of the model: FINALs and events after which the source of
                   \* a session yields no caption and no end any more
    MaxFaults,     \* bound of the model: faults in a behaviour
    MaxOps,        \* bound of the model: API calls in a behaviour
    MaxEvents      \* bound of the model: faults and API calls together

\* "crash": a process dies.  "sigterm": a process is asked to stop.  "valkey":
\* a command fails.  "stall": a worker or its connection hangs for longer than
\* the lease lasts.  "lostreply": a command is applied, its reply is lost and
\* the client library sends it again.  "setup": a model client cannot be made.
FaultKinds == {"crash", "sigterm", "valkey", "stall", "lostreply", "setup"}

\* Those that weaken what the caption streams promise.
Disturbing == {"stall", "lostreply"}

NoSid == 0

ASSUME ConstantsAssumption ==
    /\ Sids \subseteq Nat \ {NoSid}
    /\ NoOwner \notin Workers
    /\ Faults \subseteq FaultKinds
    /\ LeaseTtl \in Nat /\ RenewEvery \in Nat /\ DrainTimeout \in Nat
    /\ RenewEvery < LeaseTtl
    /\ Scan \in Nat \ {0}
    /\ MaxLog \in Nat /\ MaxFaults \in Nat /\ MaxOps \in Nat /\ MaxEvents \in Nat

VARIABLES
    status,    \* Valkey: status in the state key of each session
    lease,     \* Valkey: the lease key of each session
    log,       \* Valkey: the source-language caption stream of each session
    pc,        \* each worker: where serve() and run_session() are
    term,      \* the workers whose stop event is set
    sid,       \* each worker: the session it looks at or runs
    scan,      \* each worker: session ids claim_next has not visited yet
    next,      \* each worker: _next_seq of its pipeline
    pipe,      \* each worker: its pipeline task
    keeper,    \* each worker: its lease keeper task
    mt,        \* each worker: its translation task
    outcome,   \* each worker: outcome in run_session
    starts,    \* sessions whose start handler is between its read and its write
    stops,     \* history: what became of the last stop of each session
    faults,    \* faults so far: how many, and which disturbing kinds
    ops        \* API calls so far

shared   == <<status, lease, log>>
session  == <<sid, next, pipe, keeper, mt, outcome>>
outside  == <<starts, stops, ops>>
vars == <<shared, pc, term, scan, session, outside, faults>>

Status   == {"waiting", "live", "ended", "error"}
Finished == {"ended", "error"}
Outcomes == {"ended", "error", "stopped", "lost", "shutdown"}
Entry == [kind : {"final", "partial", "ended", "error"}, seq : Nat]

\* A session was not stopped since it was last started; the stop of the API
\* stands; or the error of another run was written over it.
Stops == {"none", "stands", "overruled"}

\* Where a worker is.  It owns a session, as far as it knows, from the moment
\* its claim succeeds until run_session returns.
Beating  == {"resume", "golive", "run", "stopping"}
Draining == {"drain", "finish", "announce", "release"}
Owning   == Beating \cup Draining
Phases   == {"idle", "claim", "acquire", "down"} \cup Owning

TypeOK ==
    /\ status \in [Sids -> Status]
    /\ lease \in [Sids -> Workers \cup {NoOwner}]
    /\ log \in [Sids -> Seq(Entry)]
    /\ pc \in [Workers -> Phases]
    /\ term \in SUBSET Workers
    /\ sid \in [Workers -> Sids \cup {NoSid}]
    /\ scan \in [Workers -> SUBSET Sids]
    /\ next \in [Workers -> Nat]
    /\ pipe \in [Workers -> {"off", "running", "done", "failed"}]
    /\ keeper \in [Workers -> {"off", "sleep", "renewed", "lost", "stopped", "failed"}]
    /\ mt \in [Workers -> {"off", "running", "failed"}]
    /\ outcome \in [Workers -> Outcomes \cup {"none"}]
    /\ starts \in SUBSET Sids
    /\ stops \in [Sids -> Stops]
    /\ faults \in [n : Nat, kinds : SUBSET Disturbing]
    /\ ops \in Nat

Init ==
    /\ status = [s \in Sids |-> "waiting"]
    /\ lease = [s \in Sids |-> NoOwner]
    /\ log = [s \in Sids |-> <<>>]
    /\ pc = [w \in Workers |-> "idle"]
    /\ term = {}
    /\ sid = [w \in Workers |-> NoSid]
    /\ scan = [w \in Workers |-> {}]
    /\ next = [w \in Workers |-> 0]
    /\ pipe = [w \in Workers |-> "off"]
    /\ keeper = [w \in Workers |-> "off"]
    /\ mt = [w \in Workers |-> "off"]
    /\ outcome = [w \in Workers |-> "none"]
    /\ starts = {}
    /\ stops = [s \in Sids |-> "none"]
    /\ faults = [n |-> 0, kinds |-> {}]
    /\ ops = 0

-----------------------------------------------------------------------------
(* The Valkey commands and scripts of bus.py.                              *)

\* Mutant of LeaseFree: SET without NX.
LeaseTaken(s) == TRUE

\* SET NX PX: succeeds only on an absent key.
LeaseFree(s) == lease[s] = NoOwner

\* Mutant of RenewAllowed: PEXPIRE without the owner test.
RenewAlways(w) == TRUE

\* Mutant of ReleaseAllowed: a plain DEL.
ReleaseAlways(w) == TRUE

\* _RENEW and _RELEASE act only for the owner of the key.
RenewAllowed(w) == lease[sid[w]] = w
ReleaseAllowed(w) == lease[sid[w]] = w

\* Mutant of SetUnlessEnded: a plain SET.
SetAlways(s, new) == new

\* _SET_IF_NOT_ENDED: the state after a guarded write.
SetUnlessEnded(s, new) == IF status[s] = "ended" THEN "ended" ELSE new

\* Mutants of StartSeq: the seq of the last FINAL again; the length of the stream.
StartSeqAgain(l) == IF Recent(l) = {} THEN 0 ELSE l[Newest(l)].seq
StartSeqLength(l) == Len(l)

\* One more than the seq of what last_finals(.., 1) finds.
StartSeq(l) == IF Recent(l) = {} THEN 0 ELSE l[Newest(l)].seq + 1

FinalEntry(n) == [kind |-> "final", seq |-> n]
PartialEntry == [kind |-> "partial", seq |-> 0]
EventEntry(kind) == [kind |-> kind, seq |-> 0]

\* The end of run_session for a worker, however it ends: its tasks are gone.
Leave(w, phase) ==
    /\ pc' = [pc EXCEPT ![w] = phase]
    /\ sid' = [sid EXCEPT ![w] = NoSid]
    /\ next' = [next EXCEPT ![w] = 0]
    /\ pipe' = [pipe EXCEPT ![w] = "off"]
    /\ keeper' = [keeper EXCEPT ![w] = "off"]
    /\ mt' = [mt EXCEPT ![w] = "off"]
    /\ outcome' = [outcome EXCEPT ![w] = "none"]

Goto(w, from, to) == pc[w] = from /\ pc' = [pc EXCEPT ![w] = to]

Fault(kind) ==
    /\ kind \in Faults
    /\ faults.n < MaxFaults /\ faults.n + ops < MaxEvents
    /\ faults' = [n |-> faults.n + 1, kinds |-> faults.kinds \cup ({kind} \cap Disturbing)]

-----------------------------------------------------------------------------
(* serve() and claim_next().                                               *)

\* Mutant of BeginClaim: the loop of serve() does not test its stop event.
BeginClaimAnyway(w) ==
    /\ Goto(w, "idle", "claim")
    /\ scan' = [scan EXCEPT ![w] = Sids]
    /\ UNCHANGED <<shared, term, session, outside, faults>>

BeginClaim(w) ==
    /\ Goto(w, "idle", "claim")
    /\ w \notin term
    /\ scan' = [scan EXCEPT ![w] = Sids]
    /\ UNCHANGED <<shared, term, session, outside, faults>>

\* The id claim_next visits now: session_ids() sorts them.
Visits(w, s) == s \in scan[w] /\ \A t \in scan[w] : s <= t

\* Mutant of Claimable: only waiting sessions are claimed.
ClaimableWaiting(s) == status[s] = "waiting"

Claimable(s) == status[s] \notin Finished

SkipFinished(w) == \E s \in Sids :
    /\ pc[w] = "claim" /\ Visits(w, s)
    /\ ~Claimable(s)
    /\ scan' = [scan EXCEPT ![w] = @ \ {s}]
    /\ UNCHANGED <<shared, pc, term, session, outside, faults>>

\* The state is read here, the lease is asked for in a later command.  (A session
\* without a configuration or with a browser source is passed over as well: the
\* sessions of this module have a configuration, and a source to pull from.)
PickSession(w) == \E s \in Sids :
    /\ Goto(w, "claim", "acquire") /\ Visits(w, s)
    /\ Claimable(s)
    /\ sid' = [sid EXCEPT ![w] = s]
    /\ UNCHANGED <<shared, term, scan, next, pipe, keeper, mt, outcome, outside, faults>>

Acquire(w) ==
    /\ Goto(w, "acquire", "resume")
    /\ LeaseFree(sid[w])
    /\ lease' = [lease EXCEPT ![sid[w]] = w]
    /\ scan' = [scan EXCEPT ![w] = {}]
    /\ UNCHANGED <<status, log, term, session, outside, faults>>

\* claim_next goes on to the next id.
PassOver(w) ==
    /\ Goto(w, "acquire", "claim")
    /\ scan' = [scan EXCEPT ![w] = @ \ {sid[w]}]
    /\ sid' = [sid EXCEPT ![w] = NoSid]
    /\ UNCHANGED <<status, log, term, next, pipe, keeper, mt, outcome, outside>>

AcquireRefused(w) ==
    /\ PassOver(w)
    /\ ~LeaseFree(sid[w])
    /\ UNCHANGED <<lease, faults>>

\* The lease is taken, the reply is lost, and the retried SET NX finds the key.
AcquireReplyLost(w) ==
    /\ PassOver(w)
    /\ LeaseFree(sid[w])
    /\ lease' = [lease EXCEPT ![sid[w]] = w]
    /\ Fault("lostreply")

NothingToClaim(w) ==
    /\ Goto(w, "claim", "idle")
    /\ scan[w] = {}
    /\ UNCHANGED <<shared, term, scan, session, outside, faults>>

\* serve() returns once its stop event is set.
Exit(w) ==
    /\ Goto(w, "idle", "down")
    /\ w \in term
    /\ term' = term \ {w}
    /\ UNCHANGED <<shared, scan, session, outside, faults>>

-----------------------------------------------------------------------------
(* run_session(), its pipeline and its keeper.                             *)

Resume(w) ==
    /\ Goto(w, "resume", "golive")
    /\ w \notin term
    /\ next' = [next EXCEPT ![w] = StartSeq(log[sid[w]])]
    /\ UNCHANGED <<shared, term, scan, sid, pipe, keeper, mt, outcome, outside, faults>>

\* A stop event set during claim_next cancels the session at its first await.
ClaimCutShort(w) ==
    /\ pc[w] = "resume" /\ w \in term
    /\ Leave(w, "idle")
    /\ UNCHANGED <<shared, term, scan, outside, faults>>

\* The result of the guarded write is ignored: the tasks start anyway.
GoLive(w) ==
    /\ Goto(w, "golive", "run")
    /\ status' = [status EXCEPT ![sid[w]] = SetUnlessEnded(sid[w], "live")]
    /\ pipe' = [pipe EXCEPT ![w] = "running"]
    /\ keeper' = [keeper EXCEPT ![w] = "sleep"]
    /\ mt' = [mt EXCEPT ![w] = "running"]
    /\ UNCHANGED <<lease, log, term, scan, sid, next, outcome, outside, faults>>

\* make_transcriber or make_translator raises: no task was created and nothing
\* is undone, the lease is left to expire.
SetupFails(w) ==
    /\ pc[w] = "golive"
    /\ Fault("setup")
    /\ status' = [status EXCEPT ![sid[w]] = SetUnlessEnded(sid[w], "live")]
    /\ Leave(w, "idle")
    /\ UNCHANGED <<lease, log, term, scan, outside>>

Room(l) == Cardinality({i \in DOMAIN l : l[i].kind # "partial"}) < MaxLog

Append1(w) == log' = [log EXCEPT ![sid[w]] = Append(@, FinalEntry(next[w]))]
Append2(w) == log' = [log EXCEPT ![sid[w]] =
                         Append(Append(@, FinalEntry(next[w])), FinalEntry(next[w]))]

\* _final() takes a seq and appends the caption.
Publishing(w) ==
    /\ pc[w] = "run" /\ pipe[w] = "running"
    /\ Room(log[sid[w]])
    /\ next' = [next EXCEPT ![w] = @ + 1]
    /\ UNCHANGED <<status, lease, pc, term, scan, sid, pipe, keeper, mt, outcome, outside>>

PublishFinal(w) == Publishing(w) /\ Append1(w) /\ UNCHANGED faults

\* The XADD is applied twice: its first reply was lost.
PublishReplyLost(w) == Publishing(w) /\ Append2(w) /\ Fault("lostreply")

\* An XADD already sent when the pipeline is cancelled still lands.
PublishLate(w) ==
    /\ pc[w] = "stopping" /\ pipe[w] = "running"
    /\ Room(log[sid[w]])
    /\ Append1(w)
    /\ next' = [next EXCEPT ![w] = @ + 1]
    /\ pipe' = [pipe EXCEPT ![w] = "done"]
    /\ UNCHANGED <<status, lease, pc, term, scan, sid, keeper, mt, outcome, outside, faults>>

\* A partial; one that was sent when the pipeline is cancelled still lands.  Of
\* those no look-up tells from the ones before, none is kept.
PublishPartial(w) ==
    /\ pc[w] \in {"run", "stopping"} /\ pipe[w] = "running"
    /\ Room(log[sid[w]])
    /\ Recent(log[sid[w]]) # {}
    /\ log' = [log EXCEPT ![sid[w]] = Append(@, PartialEntry)]
    /\ pipe' = [pipe EXCEPT ![w] = IF pc[w] = "stopping" THEN "done" ELSE @]
    /\ UNCHANGED <<status, lease, pc, term, scan, sid, next, keeper, mt, outcome, outside, faults>>

SourceStops(w, result) ==
    /\ pc[w] = "run" /\ pipe[w] = "running"
    /\ Room(log[sid[w]])
    /\ pipe' = [pipe EXCEPT ![w] = result]
    /\ UNCHANGED <<shared, pc, term, scan, sid, next, keeper, mt, outcome, outside, faults>>

SourceEnds(w)  == SourceStops(w, "done")
SourceFails(w) == SourceStops(w, "failed")

KeeperRenews(w) ==
    /\ pc[w] = "run" /\ keeper[w] = "sleep"
    /\ keeper' = [keeper EXCEPT ![w] = IF RenewAllowed(w) THEN "renewed" ELSE "lost"]
    /\ UNCHANGED <<shared, pc, term, scan, sid, next, pipe, mt, outcome, outside, faults>>

KeeperReports(w) ==
    /\ pc[w] = "run" /\ keeper[w] = "renewed"
    /\ status' = [status EXCEPT ![sid[w]] = SetUnlessEnded(sid[w], "live")]
    /\ keeper' = [keeper EXCEPT ![w] =
                     IF status[sid[w]] = "ended" THEN "stopped" ELSE "sleep"]
    /\ UNCHANGED <<lease, log, pc, term, scan, sid, next, pipe, mt, outcome, outside, faults>>

\* Mutant of TaskDone: only the pipeline is awaited.
TaskDonePipeline(w) == pipe[w] # "running"

\* asyncio.wait(FIRST_COMPLETED) returns.
TaskDone(w) == pipe[w] # "running" \/ keeper[w] \notin {"sleep", "renewed"}

OutcomeOf(w) ==
    IF keeper[w] = "failed" \/ pipe[w] = "failed" THEN "error"
    ELSE IF keeper[w] \in {"lost", "stopped"} THEN keeper[w]
    ELSE "ended"

Wake(w) ==
    /\ Goto(w, "run", "stopping")
    /\ TaskDone(w)
    /\ outcome' = [outcome EXCEPT ![w] = OutcomeOf(w)]
    /\ UNCHANGED <<shared, term, scan, sid, next, pipe, keeper, mt, outside, faults>>

\* Both tasks are cancelled and gathered; translations start to drain.
TasksCancelled(w) ==
    /\ Goto(w, "stopping", "drain")
    /\ UNCHANGED <<shared, term, scan, session, outside, faults>>

\* The queue is drained, or the translation task is cancelled after the timeout
\* or at once when the lease was lost.
Drained(w) ==
    /\ Goto(w, "drain", "finish")
    /\ mt[w] # "failed"
    /\ UNCHANGED <<shared, term, scan, session, outside, faults>>

\* Awaiting a translation task that failed raises: _finish is never called.
DrainRaises(w) ==
    /\ pc[w] = "drain" /\ mt[w] = "failed"
    /\ Leave(w, "idle")
    /\ UNCHANGED <<shared, term, scan, outside, faults>>

-----------------------------------------------------------------------------
(* _finish().                                                              *)

FinishLost(w) ==
    /\ pc[w] = "finish" /\ outcome[w] = "lost"
    /\ Leave(w, "idle")
    /\ UNCHANGED <<shared, term, scan, outside, faults>>

FinishShutdown(w) ==
    /\ Goto(w, "finish", "release") /\ outcome[w] = "shutdown"
    /\ status' = [status EXCEPT ![sid[w]] = SetUnlessEnded(sid[w], "waiting")]
    /\ UNCHANGED <<lease, log, term, scan, session, outside, faults>>

\* An error written over a stop while another worker, whose guarded writes only
\* "ended" holds back, has the session in its hands.
Overrules(w) ==
    /\ outcome[w] = "error" /\ stops[sid[w]] = "stands"
    /\ \E v \in Workers \ {w} : sid[v] = sid[w] /\ pc[v] \notin {"announce", "release"}

\* "ended" and "error" are written whatever the state is now.
FinishOver(w) ==
    /\ Goto(w, "finish", "announce") /\ outcome[w] \in Finished
    /\ status' = [status EXCEPT ![sid[w]] = outcome[w]]
    /\ stops' = [stops EXCEPT ![sid[w]] = IF Overrules(w) THEN "overruled" ELSE @]
    /\ UNCHANGED <<lease, log, term, scan, session, starts, ops, faults>>

FinishStopped(w) ==
    /\ Goto(w, "finish", "announce") /\ outcome[w] = "stopped"
    /\ UNCHANGED <<shared, term, scan, session, outside, faults>>

Announced(w) == IF outcome[w] = "error" THEN "error" ELSE "ended"

Announce(w) ==
    /\ Goto(w, "announce", "release")
    /\ log' = [log EXCEPT ![sid[w]] = Append(@, EventEntry(Announced(w)))]
    /\ UNCHANGED <<status, lease, term, scan, session, outside, faults>>

Release(w) ==
    /\ pc[w] = "release"
    /\ lease' = [lease EXCEPT ![sid[w]] = IF ReleaseAllowed(w) THEN NoOwner ELSE @]
    /\ Leave(w, "idle")
    /\ UNCHANGED <<status, log, term, scan, outside, faults>>

-----------------------------------------------------------------------------
(* Faults.                                                                 *)

\* The stop event of a process is set, once.
StopEvent(w) ==
    /\ w \notin term
    /\ Fault("sigterm")
    /\ term' = term \cup {w}
    /\ UNCHANGED <<shared, scan, outside>>

\* claim_next goes on; an idle serve() ends in its own step.
SigtermWhileFree(w) ==
    /\ pc[w] \in {"idle", "claim", "acquire"}
    /\ StopEvent(w)
    /\ UNCHANGED <<pc, session>>

\* The wait for the tasks is cancelled: the session is to be handed back.
SigtermWhileRunning(w) ==
    /\ Goto(w, "run", "stopping")
    /\ StopEvent(w)
    /\ outcome' = [outcome EXCEPT ![w] = "shutdown"]
    /\ UNCHANGED <<sid, next, pipe, keeper, mt>>

\* The cancellation is swallowed: it only cuts the drain short.
SigtermWhileDraining(w) ==
    /\ Goto(w, "drain", "finish")
    /\ StopEvent(w)
    /\ UNCHANGED session

\* Anywhere else the cancellation ends run_session where it stands.
SigtermElsewhere(w) ==
    /\ pc[w] \in Owning \ {"run", "drain"}
    /\ StopEvent(w)
    /\ Leave(w, "idle")

Sigterm(w) ==
    \/ SigtermWhileFree(w) \/ SigtermWhileRunning(w)
    \/ SigtermWhileDraining(w) \/ SigtermElsewhere(w)

Crash(w) ==
    /\ pc[w] # "down"
    /\ Fault("crash")
    /\ Leave(w, "down")
    /\ term' = term \ {w}
    /\ scan' = [scan EXCEPT ![w] = {}]
    /\ UNCHANGED <<shared, outside>>

\* The container is started again, with the same id.
Restart(w) ==
    /\ Goto(w, "down", "idle")
    /\ UNCHANGED <<shared, term, scan, session, outside, faults>>

\* A Valkey command of claim_next fails: serve() ends with the exception.
ClaimFails(w) ==
    /\ pc[w] \in {"claim", "acquire"}
    /\ Fault("valkey")
    /\ Leave(w, "down")
    /\ term' = term \ {w}
    /\ scan' = [scan EXCEPT ![w] = {}]
    /\ UNCHANGED <<shared, outside>>

\* A command outside the tasks of run_session fails: the exception ends the
\* session task, serve() logs it and goes on.
SessionCallFails(w) ==
    /\ pc[w] \in {"resume", "golive", "finish", "announce", "release"}
    /\ Fault("valkey")
    /\ Leave(w, "idle")
    /\ UNCHANGED <<shared, term, scan, outside>>

PublishFails(w) ==
    /\ pc[w] = "run" /\ pipe[w] = "running"
    /\ Fault("valkey")
    /\ pipe' = [pipe EXCEPT ![w] = "failed"]
    /\ UNCHANGED <<shared, pc, term, scan, sid, next, keeper, mt, outcome, outside>>

KeeperFails(w) ==
    /\ pc[w] = "run" /\ keeper[w] \in {"sleep", "renewed"}
    /\ Fault("valkey")
    /\ keeper' = [keeper EXCEPT ![w] = "failed"]
    /\ UNCHANGED <<shared, pc, term, scan, sid, next, pipe, mt, outcome, outside>>

\* Nobody watches the translation task: the session goes on without it.
TranslationFails(w) ==
    /\ pc[w] \in {"run", "stopping", "drain"} /\ mt[w] = "running"
    /\ Fault("valkey")
    /\ mt' = [mt EXCEPT ![w] = "failed"]
    /\ UNCHANGED <<shared, pc, term, scan, sid, next, pipe, keeper, outcome, outside>>

\* Nobody renews a lease while its holder is elsewhere or, since the keeper is
\* cancelled first, while the holder drains and finishes.  The drain is long
\* enough for that when the time since the last renewal and the timeout
\* together reach the time to live.
DrainOutlivesLease == RenewEvery + DrainTimeout >= LeaseTtl

LeaseExpires(s) ==
    /\ lease[s] # NoOwner
    /\ sid[lease[s]] = s =>
          /\ pc[lease[s]] \notin Beating
          /\ pc[lease[s]] \in Draining => DrainOutlivesLease
    /\ lease' = [lease EXCEPT ![s] = NoOwner]
    /\ UNCHANGED <<status, log, pc, term, scan, session, outside, faults>>

\* The holder is alive but hangs for longer than the lease.
LeaseExpiresInStall(s) ==
    /\ lease[s] # NoOwner
    /\ Fault("stall")
    /\ lease' = [lease EXCEPT ![s] = NoOwner]
    /\ UNCHANGED <<status, log, pc, term, scan, session, outside>>

-----------------------------------------------------------------------------
(* The API.                                                                *)

ApiCall == ops < MaxOps /\ faults.n + ops < MaxEvents /\ ops' = ops + 1

\* stop_session writes ENDED over whatever it has read.
Stop(s) ==
    /\ ApiCall
    /\ status' = [status EXCEPT ![s] = "ended"]
    /\ stops' = [stops EXCEPT ![s] = "stands"]
    /\ UNCHANGED <<lease, log, pc, term, scan, session, starts, faults>>

\* start_session reads the state ...
StartReads(s) ==
    /\ ApiCall
    /\ status[s] # "live"
    /\ s \notin starts
    /\ starts' = starts \cup {s}
    /\ UNCHANGED <<shared, pc, term, scan, session, stops, faults>>

\* ... and writes WAITING in a later command.
StartWrites(s) ==
    /\ s \in starts
    /\ starts' = starts \ {s}
    /\ status' = [status EXCEPT ![s] = "waiting"]
    /\ stops' = [stops EXCEPT ![s] = "none"]
    /\ UNCHANGED <<lease, log, pc, term, scan, session, ops, faults>>

-----------------------------------------------------------------------------
\* serve(), claim_next, run_session and _finish of one worker.
MainStep(w) ==
    \/ BeginClaim(w) \/ SkipFinished(w) \/ PickSession(w) \/ Acquire(w)
    \/ AcquireRefused(w) \/ NothingToClaim(w) \/ Exit(w)
    \/ Resume(w) \/ ClaimCutShort(w) \/ GoLive(w)
    \/ Wake(w) \/ TasksCancelled(w) \/ Drained(w) \/ DrainRaises(w)
    \/ FinishLost(w) \/ FinishShutdown(w) \/ FinishOver(w) \/ FinishStopped(w)
    \/ Announce(w) \/ Release(w)

KeeperStep(w) == KeeperRenews(w) \/ KeeperReports(w)

PipeStep(w) ==
    \/ PublishFinal(w) \/ PublishLate(w) \/ PublishPartial(w)
    \/ SourceEnds(w) \/ SourceFails(w)

FaultStep(w) ==
    \/ AcquireReplyLost(w) \/ PublishReplyLost(w)
    \/ Sigterm(w) \/ Crash(w)
    \/ ClaimFails(w) \/ SessionCallFails(w)
    \/ SetupFails(w) \/ PublishFails(w) \/ KeeperFails(w) \/ TranslationFails(w)

Next ==
    \/ \E w \in Workers : MainStep(w) \/ KeeperStep(w) \/ PipeStep(w) \/ FaultStep(w)
    \/ \E w \in Workers : Restart(w)
    \/ \E s \in Sids : LeaseExpires(s) \/ LeaseExpiresInStall(s)
    \/ \E s \in Sids : Stop(s) \/ StartReads(s) \/ StartWrites(s)

Spec == Init /\ [][Next]_vars

\* The event loop of a worker runs every coroutine that can go on; the keeper
\* wakes every RenewEvery seconds; an unrenewed lease expires; the orchestrator
\* starts a process again; a handler that began its write ends it.  Nothing
\* obliges a source to end or a caption to be produced.
Fairness ==
    /\ \A w \in Workers : /\ WF_vars(MainStep(w))
                          /\ WF_vars(KeeperStep(w))
                          /\ WF_vars(Restart(w))
    /\ \A s \in Sids : WF_vars(LeaseExpires(s)) /\ WF_vars(StartWrites(s))

FairSpec == Spec /\ Fairness

-----------------------------------------------------------------------------
(* Safety.                                                                 *)

Runs(w, s, phases) == sid[w] = s /\ pc[w] \in phases

Hung == "stall" \in faults.kinds
Disturbed == faults.kinds # {}

\* Until a worker hangs for longer than its lease, at most one numbers and
\* publishes the captions of a session, from its claim until its pipeline is
\* gone: no crash, shutdown, failed command or API call makes two.
SingleProducer ==
    ~Hung => \A s \in Sids : \A v, w \in Workers :
        Runs(v, s, Beating) /\ Runs(w, s, Beating) => v = w

\* At most one worker has a session in its hands, from its claim to the release
\* of the lease: what it still writes at the end is about its own run.
OneOwner ==
    \A s \in Sids : \A v, w \in Workers :
        Runs(v, s, Owning) /\ Runs(w, s, Owning) => v = w

\* Every seq below that of a FINAL was published before it.
HoleFree(l) ==
    \A j \in Finals(l) : \A n \in 0..(l[j].seq - 1) :
        \E i \in Finals(l) : i < j /\ l[i].seq = n

\* The seqs rise, but for a new start behind a lull.
Rising(l) ==
    \A i, j \in Finals(l) : i < j => l[i].seq < l[j].seq \/ Interrupted(l, i, j)

\* A FINAL is never published before every lower seq: whatever hangs, dies or is
\* repeated, the numbering of a stream has no hole.
NoHole == \A s \in Sids : HoleFree(log[s])

\* Until then, and until a command is applied twice, no restart, failover or stop
\* makes a number appear twice: the seqs of a stream are strictly increasing, but
\* where no FINAL was among the last Scan entries that a new run could see, so
\* that it began again at 0.
NoRepeat == ~Disturbed => \A s \in Sids : Rising(log[s])

\* The streams of one session as the contract sees them.
Speakers(s) == {w \in Workers : Runs(w, s, Beating)}

Contract(s) ==
    INSTANCE Captions WITH Langs <- {}, speakers <- Speakers(s), disturbed <- Disturbed,
                           source <- log[s], told <- <<>>

\* Workers, leases and the API together implement the contract of the caption
\* streams, with every fault: what a step does to the stream of a session and
\* to its producers is a step of the contract or none.
ImplementsCaptions ==
    /\ \A s \in Sids : Contract(s)!Init
    /\ [][\A s \in Sids : [Contract(s)!Next]_(Contract(s)!vars)]_vars

\* A stop requested through the API stands until somebody starts the session
\* again: whatever the workers write in the meantime, one after another, the
\* session stays finished.  The exception is an error that a run, being late,
\* writes over the stop while another worker has the session (StopIsFinal).
StopHolds == \A s \in Sids : stops[s] = "stands" => status[s] \in Finished

-----------------------------------------------------------------------------
(* Liveness.                                                               *)

\* A session that waits or whose worker is gone is taken up by a worker that
\* holds its lease, or it is over.
Failover ==
    \A s \in Sids : status[s] \notin Finished ~>
        \/ status[s] \in Finished
        \/ \E w \in Workers : Runs(w, s, {"run"}) /\ lease[s] = w

\* A stop ends the runs of the session, unless it is started again meanwhile, or
\* the error of another run is written over the stop.
StopTakesEffect ==
    \A s \in Sids : \A w \in Workers :
        stops[s] = "stands" /\ Runs(w, s, {"run"}) ~>
            stops[s] # "stands" \/ ~Runs(w, s, {"run"})

\* A worker whose session was taken over stops running it.
ZombieEvicted ==
    \A s \in Sids : \A w \in Workers :
        Runs(w, s, {"run"}) /\ lease[s] # w ~> ~Runs(w, s, {"run"})

\* A worker that is asked to stop leaves, wherever the request finds it.
ShutdownCompletes == \A w \in Workers : w \in term ~> w \notin term

-----------------------------------------------------------------------------
(* What the documentation or a comment says, and the code does not keep:   *)
(* each is refuted by a run of its own.                                    *)

\* bus.py:31, "Worker state writes must never undo a stop requested through the
\* API": a session stays finished after a stop until it is started again.
StopIsFinal == \A s \in Sids : stops[s] # "none" => status[s] \in Finished

\* service.py:8, "LIVE --source ends--> ENDED": once the source of a session has
\* ended, the worker goes on to mark it, unless something fails at that point.
EndIsMarked ==
    [][\A w \in Workers :
         pc[w] = "drain" /\ outcome[w] = "ended" /\ faults' = faults =>
             pc'[w] \in {"drain", "finish"}]_vars

=============================================================================
