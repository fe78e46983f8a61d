--------------------------------- MODULE Talk ---------------------------------
(***************************************************************************)
(* A talk in all its languages, run after run: run_session and _finish      *)
(* (src/conffy/worker/service.py) around the stage of Translation, with the *)
(* streams they write, or the one run of the terminal tool                  *)
(* (src/conffy/worker/cli.py).                                             *)
(*                                                                         *)
(* One run at a time: Sessions says when this is so.  Caption n of          *)
(* Translation has seq n - 1.                                              *)
(***************************************************************************)
EXTENDS Translation, Lookup

CONSTANTS
    MaxRuns,     \* bound of the model: runs of the talk
    Murmuring,   \* bound of the model: how far partials come in the source
    MaxFaults    \* bound of the model: faults in a behaviour

ASSUME TalkAssumption ==
    MaxRuns \in Nat /\ MaxFaults \in Nat /\ Murmuring \in Nat /\ Scan \in Nat \ {0}

VARIABLES
    kind,        \* "service", or "terminal"
    phase,       \* where run_session, or main() of the tool, is
    outcome,     \* outcome of the run
    found,       \* captions of the talk the run has found in the stream
    source,      \* the stream of the source language: captions, partials, events
    told,        \* the stream of each target language
    emitting,    \* a caption is in its stream, but not yet submitted
    left,        \* the streams _finish has still to write its event to
    stray,       \* each language: captions whose coroutines outlived a stage
    disturbed,   \* history: a publication has failed, or was applied twice
    runs, faults

run == <<kind, phase, outcome, found, emitting, left, runs>>
talk == <<vars, run, source, told, stray, disturbed, faults>>

Streams == {"source"} \cup Langs
Announced == {"ended", "error", "stopped"}
Outcomes == Announced \cup {"lost", "shutdown"}

Final(n) == [kind |-> "final", seq |-> n - 1]
Partial == [kind |-> "partial", seq |-> 0]
Event == [kind |-> IF outcome = "error" THEN "error" ELSE "ended", seq |-> 0]
IsEvent(entry) == entry.kind \in {"ended", "error"}

TalkTypeOK ==
    /\ TypeOK
    /\ phase \in {"idle", "run", "drain", "announce"}
    /\ outcome \in Outcomes \cup {"none"} /\ found \in 0..MaxSeq
    /\ emitting \in BOOLEAN /\ disturbed \in BOOLEAN
    /\ left \in SUBSET Streams
    /\ stray \in [Langs -> SUBSET (1..MaxSeq)]

TalkInit ==
    /\ Init
    /\ kind \in {"service", "terminal"}
    /\ phase = "idle" /\ outcome = "none" /\ found = 0
    /\ source = <<>> /\ told = [l \in Langs |-> <<>>]
    /\ emitting = FALSE /\ left = {}
    /\ stray = [l \in Langs |-> {}]
    /\ disturbed = FALSE
    /\ runs = 0 /\ faults = 0

Fault == faults < MaxFaults /\ faults' = faults + 1

Seqs(stream) == {stream[i].seq + 1 : i \in Finals(stream)}

\* The FINALs of the source language that its stream holds.
Spoken == Seqs(source)

\* Mutant of Found: the number of the last one is given again.
FoundLess == IF Recent(source) = {} THEN 0 ELSE source[Newest(source)].seq

\* last_finals(.., 1): the caption behind which a run goes on; 0 if none is found.
Found == IF Recent(source) = {} THEN 0 ELSE source[Newest(source)].seq + 1

-----------------------------------------------------------------------------
(* The run.                                                                *)

\* A new stage, with a history of its own; coroutines of one that failed go on.
Begins ==
    /\ phase = "idle"
    /\ runs' = runs + 1
    /\ phase' = "run" /\ outcome' = "none"
    /\ found' = Found /\ submitted' = Found
    /\ queue' = <<>> /\ closed' = FALSE
    /\ stage' = "waiting" /\ item' = 0
    /\ stray' = [l \in Langs |-> IF one[l] \in {"translating", "publishing"}
                                 THEN stray[l] \cup {item} ELSE stray[l]]
    /\ one' = [l \in Langs |-> "done"]
    /\ attempt' = [l \in Langs |-> 0]
    /\ out' = [l \in Langs |-> <<>>] /\ errors' = [l \in Langs |-> {}]
    /\ UNCHANGED <<kind, source, told, emitting, left, disturbed, faults>>

StartRun == kind = "service" /\ runs < MaxRuns /\ Begins

\* main() of the tool, up to the start of its tasks.
StartTool == kind = "terminal" /\ runs = 0 /\ Begins

\* publish_source, or emit: a FINAL is published, the coroutine awaits the reply ...
Speaks ==
    /\ phase = "run" /\ ~emitting /\ submitted < MaxSeq
    /\ emitting' = TRUE
    /\ source' = Append(source, Final(submitted + 1))
    /\ UNCHANGED <<vars, kind, phase, outcome, found, left, runs, told, stray, disturbed, faults>>

\* The same, with an answer that was lost: the client library sends it again.
SpeaksTwice ==
    /\ kind = "service" /\ phase = "run" /\ ~emitting /\ submitted < MaxSeq
    /\ Fault
    /\ emitting' = TRUE /\ disturbed' = TRUE
    /\ source' = Append(Append(source, Final(submitted + 1)), Final(submitted + 1))
    /\ UNCHANGED <<vars, kind, phase, outcome, found, left, runs, told, stray>>

\* A partial of what is being said: publish_source, where submit() ignores it.
\* Bound of the model: they come in the first Murmuring entries of the stream, and
\* no more than until a run would not find the last FINAL behind them.
Murmurs ==
    /\ kind = "service" /\ phase = "run" /\ ~emitting
    /\ Recent(source) # {} /\ Len(source) < Murmuring
    /\ source' = Append(source, Partial)
    /\ UNCHANGED <<vars, run, told, stray, disturbed, faults>>

\* A FINAL that is published is submitted.
Submits ==
    /\ phase = "run" /\ emitting
    /\ emitting' = FALSE
    /\ Submit
    /\ UNCHANGED <<kind, phase, outcome, found, left, runs, source, told, stray, disturbed, faults>>

\* Mutant of MayEnd: the stage is closed before the pipeline is done.
MayEndAnyway(how) == TRUE

\* A pipeline that ends has submitted its captions; any other end cancels it
\* wherever it is.
MayEnd(how) == ~emitting \/ how # "ended"

Closes(how) ==
    /\ phase = "run"
    /\ phase' = "drain" /\ outcome' = how /\ emitting' = FALSE
    /\ CloseStage
    /\ UNCHANGED <<kind, found, left, runs, source, told, stray, disturbed, faults>>

\* The pipeline and the keeper are gone, and the stage is closed.
EndRun(how) == kind = "service" /\ MayEnd(how) /\ Closes(how)

\* The same for the tool, which shows a caption and submits it without a pause.
EndTool == kind = "terminal" /\ ~emitting /\ \E how \in {"ended", "error"} : Closes(how)

-----------------------------------------------------------------------------
(* The stage in its run.                                                   *)

\* A stage whose lease is lost is cancelled at once.
Stopping == phase = "drain" /\ outcome = "lost"

\* What has been appended to out is in the stream.
Copied == told' = [l \in Langs |->
    IF Len(out'[l]) > Len(out[l]) THEN Append(told[l], Final(item)) ELSE told[l]]

RunSteps ==
    /\ ~Stopping
    /\ Run
    /\ UNCHANGED <<run, source, told, stray, disturbed, faults>>

OneSteps(l) ==
    /\ ~Stopping
    /\ Translated(l) \/ Retry(l) \/ GiveUp(l) \/ Publish(l)
    /\ Copied
    /\ UNCHANGED <<run, source, stray, disturbed, faults>>

TellingFails(l) ==
    /\ ~Stopping
    /\ Fault
    /\ PublishFails(l)
    /\ Copied
    /\ disturbed' = TRUE
    /\ UNCHANGED <<run, source, stray>>

\* A translation whose answer was lost, and that was sent again.
TellsTwice(l) ==
    /\ kind = "service" /\ ~Stopping
    /\ Fault
    /\ Publish(l)
    /\ told' = [told EXCEPT ![l] = Append(Append(@, Final(item)), Final(item))]
    /\ disturbed' = TRUE
    /\ UNCHANGED <<run, source, stray>>

\* A coroutine of an earlier stage publishes its caption, or gives it up.
StrayEnds(l, n) ==
    /\ n \in stray[l]
    /\ stray' = [stray EXCEPT ![l] = @ \ {n}]
    /\ told' \in {told, [told EXCEPT ![l] = Append(@, Final(n))]}
    /\ UNCHANGED <<vars, run, source, disturbed, faults>>

-----------------------------------------------------------------------------
(* The cleanup.                                                            *)

\* After the drain timeout, or when the lease is lost.  The tool just waits.
CutShort ==
    /\ phase = "drain" /\ kind = "service"
    /\ CancelStage
    /\ Copied
    /\ UNCHANGED <<run, source, stray, disturbed, faults>>

\* Mutant of Drained: mt_task is not awaited.
DrainedAtOnce == TRUE

Drained == stage \in {"ended", "cancelled"}

Idles ==
    /\ phase = "drain"
    /\ phase' = "idle"
    /\ UNCHANGED <<kind, outcome, found, emitting, left, runs>>
    /\ UNCHANGED <<source, told, stray, disturbed, faults>>

\* _finish: of a lost session nothing is touched, one that is handed back waits.
FinishQuiet ==
    /\ kind = "service" /\ Drained /\ outcome \notin Announced
    /\ Idles
    /\ UNCHANGED vars

FinishOver ==
    /\ kind = "service" /\ Drained /\ outcome \in Announced
    /\ phase = "drain"
    /\ phase' = "announce" /\ left' = Streams
    /\ UNCHANGED <<vars, kind, outcome, found, emitting, runs>>
    /\ UNCHANGED <<source, told, stray, disturbed, faults>>

\* Awaiting a stage that failed raises: _finish is not called, and the other
\* coroutines go on.
FinishSkipped ==
    /\ kind = "service" /\ stage = "failed"
    /\ Idles
    /\ UNCHANGED vars

\* The tool awaits its stage without a limit, and exits with what was not done.
ToolExits ==
    /\ kind = "terminal" /\ stage \in {"ended", "failed"}
    /\ Idles
    /\ one' = [l \in Langs |-> "done"]
    /\ UNCHANGED <<submitted, queue, closed, stage, item, attempt, history>>

\* The source language first, then the others.
Announcing(s) ==
    /\ phase = "announce" /\ s \in left
    /\ s = "source" \/ "source" \notin left
    /\ left' = left \ {s}
    /\ phase' = IF left' = {} THEN "idle" ELSE "announce"
    /\ UNCHANGED <<vars, kind, outcome, found, emitting, runs, stray>>

Announces(s) ==
    /\ Announcing(s)
    /\ IF s = "source" THEN source' = Append(source, Event) /\ UNCHANGED told
       ELSE told' = [told EXCEPT ![s] = Append(@, Event)] /\ UNCHANGED source
    /\ UNCHANGED <<disturbed, faults>>

\* The same, sent again.
AnnouncesTwice(s) ==
    /\ Announcing(s)
    /\ Fault
    /\ IF s = "source" THEN source' = Append(Append(source, Event), Event) /\ UNCHANGED told
       ELSE told' = [told EXCEPT ![s] = Append(Append(@, Event), Event)] /\ UNCHANGED source
    /\ disturbed' = TRUE

\* The process dies, an earlier stage of another process does not; or its
\* cleanup is cancelled; or a command of _finish fails, and the events that are
\* left are never written.
Dies ==
    /\ phase # "idle" /\ Fault
    /\ phase' = "idle" /\ emitting' = FALSE /\ left' = {}
    /\ one' = [l \in Langs |-> "done"]
    /\ stray' \in {stray, [l \in Langs |-> {}]}
    /\ stage' = IF stage \in Over THEN stage ELSE "cancelled"
    /\ UNCHANGED <<submitted, queue, closed, item, attempt, history>>
    /\ UNCHANGED <<kind, outcome, found, runs, source, told, disturbed>>

-----------------------------------------------------------------------------
\* What neither begins a run nor says a caption.
Goes ==
    \/ Submits \/ Murmurs
    \/ EndTool \/ \E how \in Outcomes : EndRun(how)
    \/ RunSteps \/ \E l \in Langs : OneSteps(l) \/ TellingFails(l) \/ TellsTwice(l)
    \/ \E l \in Langs : \E n \in stray[l] : StrayEnds(l, n)
    \/ CutShort \/ FinishQuiet \/ FinishOver \/ FinishSkipped \/ ToolExits
    \/ \E s \in Streams : Announces(s) \/ AnnouncesTwice(s)
    \/ Dies

TalkNext == StartRun \/ StartTool \/ Speaks \/ SpeaksTwice \/ Goes

TalkSpec == TalkInit /\ [][TalkNext]_talk

-----------------------------------------------------------------------------
\* When the stage of a run has been drained, every caption of the run has been
\* published or given up in each language, by this run itself; if the pipeline was
\* cancelled, its last one may have got no further than the source stream.  After
\* a lull the numbers above what the run has submitted are those of earlier runs.
DrainedIsTold ==
    stage = "ended" => \A l \in Langs : \A n \in Spoken :
        \/ n <= found
        \/ Accounted(l, n)
        \/ n > submitted /\ (outcome # "ended" \/ Lulled(source))

Stream(s) == IF s = "source" THEN source ELSE told[s]
Concluded(s) == Stream(s) # <<>> /\ IsEvent(Stream(s)[Len(Stream(s))])

\* In each of its streams nothing follows the end of a run but a new run: no
\* caption that was still being translated, and no second end.  Only the siblings
\* of a publication that failed may be heard later; a command that is applied
\* twice is excepted with them.
EndIsLast ==
    [][\A s \in Streams : Concluded(s) /\ Stream(s)' # Stream(s) =>
         phase \in {"run", "drain"} \/ (phase = "announce" /\ s \in left) \/ disturbed]_talk

\* The streams as the contract sees them.
Contract ==
    INSTANCE Captions WITH Workers <- {"worker"},
                           speakers <- IF phase = "run" THEN {"worker"} ELSE {}

\* Run after run, whatever dies, fails, is cut short or applied twice, the streams
\* of a talk follow the contract.  The source has no holes; no number is given
\* twice but after a lull, or where a command was applied twice; a language has
\* only numbers of the source, and without one of these or a failed publication it
\* has them in their order and none of them twice.
FollowsContract == Contract!Spec

=============================================================================
