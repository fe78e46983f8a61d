------------------------------ MODULE Translation ------------------------------
(***************************************************************************)
(* The translation stage of a talk (src/conffy/worker/translate.py) and the *)
(* way run_session closes and drains it (src/conffy/worker/service.py).     *)
(*                                                                         *)
(* A caption is its number.  gather() makes one coroutine per target       *)
(* language for each caption; a coroutine that is left when another has    *)
(* raised goes on by itself.                                               *)
(***************************************************************************)
EXTENDS Integers, Sequences

CONSTANTS
    Langs,       \* target_langs
    Retries,     \* retries
    MaxSeq       \* bound of the model: captions submitted

ASSUME TranslationAssumption ==
    /\ Langs # {} /\ Retries \in Nat /\ MaxSeq \in Nat

CloseMark == 0   \* _CLOSE in the queue; captions start at 1

VARIABLES
    submitted,   \* FINALs of the source language submitted so far
    queue,       \* _queue
    closed,      \* _closed
    stage,       \* run()
    item,        \* the caption run() is at
    one,         \* each language: its coroutine
    attempt,     \* each language: the attempt it is at
    out,         \* history: the FINALs published in each language
    errors       \* history: the captions each language gave up

coroutines == <<one, attempt>>
history    == <<out, errors>>
vars == <<submitted, queue, closed, stage, item, coroutines, history>>

TypeOK ==
    /\ submitted \in 0..MaxSeq
    /\ queue \in Seq(0..MaxSeq)
    /\ closed \in BOOLEAN
    /\ stage \in {"waiting", "busy", "ended", "failed", "cancelled"}
    /\ item \in 0..MaxSeq
    /\ one \in [Langs -> {"done", "translating", "publishing", "cancelled"}]
    /\ attempt \in [Langs -> 0..Retries]
    /\ out \in [Langs -> Seq(1..MaxSeq)]
    /\ errors \in [Langs -> SUBSET (1..MaxSeq)]

Init ==
    /\ submitted = 0
    /\ queue = <<>>
    /\ closed = FALSE
    /\ stage = "waiting" /\ item = 0
    /\ one = [l \in Langs |-> "done"]
    /\ attempt = [l \in Langs |-> 0]
    /\ out = [l \in Langs |-> <<>>]
    /\ errors = [l \in Langs |-> {}]

Over == {"ended", "failed", "cancelled"}

-----------------------------------------------------------------------------
(* What run_session does with the stage.                                   *)

\* A FINAL of the pipeline; submit() ignores partials.
Submit ==
    /\ ~closed /\ submitted < MaxSeq
    /\ submitted' = submitted + 1
    /\ queue' = Append(queue, submitted + 1)
    /\ UNCHANGED <<closed, stage, item, coroutines, history>>

\* Mutant of CloseMarks: the flag alone.
CloseMarksNothing == <<>>

CloseMarks == <<CloseMark>>

\* The pipeline or the keeper is over.
CloseStage ==
    /\ ~closed
    /\ closed' = TRUE
    /\ queue' = queue \o CloseMarks
    /\ UNCHANGED <<submitted, stage, item, coroutines, history>>

\* Cancelling run() cancels gather(), and gather() its coroutines.
Cancelled == [l \in Langs |-> IF one[l] = "done" THEN "done" ELSE "cancelled"]

\* The captions of the languages in reached have got to the stream.
Reaching(reached) ==
    out' = [l \in Langs |-> IF l \in reached THEN Append(out[l], item) ELSE out[l]]

\* The lease is lost, the drain takes too long or the worker is shut down.  What
\* was being published may reach the stream nevertheless.
CancelStage ==
    /\ closed /\ stage \in {"waiting", "busy"}
    /\ stage' = "cancelled"
    /\ one' = Cancelled
    /\ \E reached \in SUBSET {l \in Langs : one[l] = "publishing"} : Reaching(reached)
    /\ UNCHANGED <<submitted, queue, closed, item, attempt, errors>>

-----------------------------------------------------------------------------
(* run().                                                                  *)

TakeCaption ==
    /\ stage = "waiting" /\ queue # <<>> /\ Head(queue) # CloseMark
    /\ stage' = "busy"
    /\ item' = Head(queue)
    /\ queue' = Tail(queue)
    /\ one' = [l \in Langs |-> "translating"]
    /\ attempt' = [l \in Langs |-> 0]
    /\ UNCHANGED <<submitted, closed, history>>

AtClose == queue # <<>> /\ Head(queue) = CloseMark

RunEnds ==
    /\ stage = "waiting" /\ AtClose
    /\ stage' = "ended"
    /\ queue' = Tail(queue)
    /\ UNCHANGED <<submitted, closed, item, coroutines, history>>

\* Mutant of AllDone: one language is enough.
AllDoneOne == \E l \in Langs : one[l] = "done"

AllDone == \A l \in Langs : one[l] = "done"

Gathered ==
    /\ stage = "busy" /\ AllDone
    /\ stage' = "waiting"
    /\ UNCHANGED <<submitted, queue, closed, item, coroutines, history>>

-----------------------------------------------------------------------------
(* _one(), for each language.                                              *)

Translated(l) ==
    /\ one[l] = "translating"
    /\ one' = [one EXCEPT ![l] = "publishing"]
    /\ UNCHANGED <<submitted, queue, closed, stage, item, attempt, history>>

MayRetry(l) == attempt[l] < Retries

\* A retryable error, at the first attempts.
Retry(l) ==
    /\ one[l] = "translating" /\ MayRetry(l)
    /\ attempt' = [attempt EXCEPT ![l] = @ + 1]
    /\ UNCHANGED <<submitted, queue, closed, stage, item, one, history>>

\* Any other error at any attempt, or the last retryable one.
GiveUp(l) ==
    /\ one[l] = "translating"
    /\ one' = [one EXCEPT ![l] = "done"]
    /\ errors' = [errors EXCEPT ![l] = @ \cup {item}]
    /\ UNCHANGED <<submitted, queue, closed, stage, item, attempt, out>>

Publish(l) ==
    /\ one[l] = "publishing"
    /\ one' = [one EXCEPT ![l] = "done"]
    /\ Reaching({l})
    /\ UNCHANGED <<submitted, queue, closed, stage, item, attempt, errors>>

\* gather() raises, and so does run(), unless it is over already: the stage is
\* dead, the other coroutines go on.
PublishFails(l) ==
    /\ one[l] = "publishing"
    /\ one' = [one EXCEPT ![l] = "done"]
    /\ stage' = IF stage = "busy" THEN "failed" ELSE stage
    /\ \E reached \in SUBSET {l} : Reaching(reached)
    /\ UNCHANGED <<submitted, queue, closed, item, attempt, errors>>

-----------------------------------------------------------------------------
Run == TakeCaption \/ RunEnds \/ Gathered
One(l) == Translated(l) \/ Retry(l) \/ GiveUp(l) \/ Publish(l) \/ PublishFails(l)

Next ==
    \/ Submit \/ CloseStage \/ CancelStage
    \/ Run
    \/ \E l \in Langs : One(l)

Spec == Init /\ [][Next]_vars

\* A request of the translator has a timeout, a command of Valkey is answered or
\* its connection breaks.  Nobody has to submit a caption, or to end the talk.
FairSpec == Spec /\ WF_vars(Run) /\ \A l \in Langs : WF_vars(One(l))

-----------------------------------------------------------------------------
\* Each language has the captions in the order of the talk, none of them twice,
\* whatever fails, is tried again or is cancelled.
InOrder ==
    \A l \in Langs : \A i, j \in DOMAIN out[l] : i < j => out[l][i] < out[l][j]

Published(l) == {out[l][i] : i \in DOMAIN out[l]}
Accounted(l, n) == n \in Published(l) \cup errors[l]

\* A caption that run() has left behind, or any when the queue has been drained,
\* is in each language or is counted as an error there: one language never costs
\* another one a caption.
NoneSkipped ==
    \A l \in Langs : \A n \in 1..submitted :
        n < item \/ stage = "ended" => Accounted(l, n)

\* After the drain of the stage, complete or cut short, no translation appears:
\* run_session announces the end of the talk behind it.
QuietAfterEnd == [][(stage \in {"ended", "cancelled"}) => out' = out]_vars

\* A stage that is closed comes to an end, however much is on its queue.
Drains == closed ~> stage \in Over

=============================================================================
