------------------------------- MODULE Pipeline -------------------------------
(***************************************************************************)
(* The two tasks of an ASR pipeline (src/conffy/worker/pipeline.py) and the *)
(* page that shows its captions (web/index.html).                          *)
(*                                                                         *)
(* The reader feeds the segmenter one chunk of audio per step of the event *)
(* loop and queues finished utterances.  The ASR loop turns them into      *)
(* FINALs and, when no utterance has come for a while, the one in progress *)
(* into a PARTIAL.  Utterances are numbered in the order they begin; their *)
(* length is counted in chunks, the pre-roll included.                     *)
(***************************************************************************)
EXTENDS Integers, Sequences

CONSTANTS
    StartSeq,    \* PipelineConfig.start_seq
    PreRoll,     \* longest utterance a chunk of onset can begin with
    MinPartial,  \* min_partial_audio_s
    HardMax,     \* hard_max_s of the segmenter
    MaxUtts      \* bound of the model: utterances

ASSUME PipelineAssumption ==
    /\ StartSeq \in Nat /\ MaxUtts \in Nat
    /\ PreRoll \in Nat \ {0} /\ MinPartial \in Nat /\ HardMax \in Nat
    /\ MinPartial > 1          \* a chunk is shorter than the audio of a PARTIAL

Eof == 0         \* _EOF in the queue; utterances start at 1
NoPartial == [utt |-> 0, seq |-> 0]

VARIABLES
    reader,      \* the reader task
    current,     \* the utterance in progress, or the next one
    size,        \* its length, 0 if none is in progress
    queue,       \* _queue
    nextSeq,     \* _next_seq
    lastSize,    \* last_partial_bytes
    at,          \* where the ASR loop is
    work,        \* the utterance it is at and the number it will have
    shown,       \* the page: its partial
    queued,      \* history: the utterances put on the queue
    dropped,     \* history: those that gave no text
    finals,      \* history: the FINALs published
    partials     \* history: the PARTIALs published

source == <<reader, current, size>>
asr    == <<nextSeq, lastSize, at, work>>
page   == <<shown, finals, partials>>
history == <<queued, dropped>>
vars == <<source, queue, asr, page, history>>

Captions == [utt : Nat, seq : Nat]

\* "expired": get() has timed out and the loop has not resumed; "raced": the
\* reader has run in between.
TypeOK ==
    /\ reader \in {"reading", "ended", "failed", "cancelled"}
    /\ current \in 1..(MaxUtts + 1)
    /\ size \in 0..HardMax
    /\ queue \in Seq(0..MaxUtts)
    /\ nextSeq \in Nat
    /\ lastSize \in 0..HardMax
    /\ at \in {"waiting", "expired", "raced", "final", "publishFinal",
               "partial", "publishPartial", "ended", "failed", "cancelled"}
    /\ work \in Captions /\ shown \in Captions
    /\ queued \in Seq(1..MaxUtts)
    /\ dropped \subseteq 1..MaxUtts
    /\ finals \in Seq(Captions)
    /\ partials \subseteq Captions

Init ==
    /\ reader = "reading" /\ current = 1 /\ size = 0
    /\ queue = <<>>
    /\ nextSeq = StartSeq /\ lastSize = 0
    /\ at = "waiting" /\ work = NoPartial
    /\ shown = NoPartial
    /\ queued = <<>> /\ dropped = {}
    /\ finals = <<>> /\ partials = {}

-----------------------------------------------------------------------------
(* The reader: what a chunk does to the segmenter, and the end of audio.   *)

\* The reader runs between any two steps of the loop, but at most once between
\* the timeout of get() and the moment the loop resumes.
ReaderStep ==
    /\ reader = "reading" /\ at # "raced"
    /\ at' = IF at = "expired" THEN "raced" ELSE at
    /\ UNCHANGED <<nextSeq, lastSize, work, page, dropped>>

Onset ==
    /\ ReaderStep
    /\ size = 0 /\ current <= MaxUtts
    /\ \E n \in 1..PreRoll : n <= HardMax /\ size' = n
    /\ UNCHANGED <<reader, current, queue, queued>>

Grow ==
    /\ ReaderStep
    /\ size > 0 /\ size < HardMax
    /\ size' = size + 1
    /\ UNCHANGED <<reader, current, queue, queued>>

\* The segmenter closes the utterance and keeps it unless it has too little
\* speech; the chunk may go on with the beginning of the next one.
Close ==
    /\ ReaderStep
    /\ size > 0
    /\ current' = current + 1
    /\ \/ queue' = Append(queue, current) /\ queued' = Append(queued, current)
       \/ UNCHANGED <<queue, queued>>
    /\ size' \in {0} \cup {n \in {1} : current < MaxUtts}
    /\ UNCHANGED reader

\* Mutants of LastItems: the end marker before the flush; no end marker after a
\* failure.
LastItemsEofFirst(flushed, failed) == <<Eof>> \o flushed
LastItemsNoFinally(flushed, failed) == IF failed THEN flushed ELSE flushed \o <<Eof>>

\* The queue is closed by the finally clause, after the flush if there is one.
LastItems(flushed, failed) == flushed \o <<Eof>>

ReadEnds ==
    /\ ReaderStep
    /\ reader' = "ended"
    /\ size' = 0
    /\ \/ /\ size > 0
          /\ queue' = queue \o LastItems(<<current>>, FALSE)
          /\ queued' = Append(queued, current)
       \/ /\ queue' = queue \o LastItems(<<>>, FALSE)
          /\ UNCHANGED queued
    /\ UNCHANGED current

\* The source fails: nothing is flushed.
ReadFails ==
    /\ ReaderStep
    /\ reader' = "failed"
    /\ queue' = queue \o LastItems(<<>>, TRUE)
    /\ UNCHANGED <<current, size, queued>>

-----------------------------------------------------------------------------
(* The ASR loop.                                                           *)

Over == {"ended", "failed", "cancelled"}
Idle == at \in {"expired", "raced"}

TakeUtterance ==
    /\ at = "waiting" /\ queue # <<>> /\ Head(queue) # Eof
    /\ queue' = Tail(queue)
    /\ work' = [utt |-> Head(queue), seq |-> 0]
    /\ at' = "final"
    /\ UNCHANGED <<source, nextSeq, lastSize, page, history>>

\* run() then raises what the reader raised.
TakeEof ==
    /\ at = "waiting" /\ queue # <<>> /\ Head(queue) = Eof
    /\ queue' = Tail(queue)
    /\ at' = IF reader = "failed" THEN "failed" ELSE "ended"
    /\ UNCHANGED <<source, nextSeq, lastSize, work, page, history>>

GetTimesOut ==
    /\ at = "waiting" /\ queue = <<>>
    /\ at' = "expired"
    /\ UNCHANGED <<source, queue, nextSeq, lastSize, work, page, history>>

\* Mutant of LongEnough: a PARTIAL of any audio.
LongEnoughAlways(n) == n > 0

LongEnough(n) == n > 0 /\ n >= MinPartial

\* The end marker is counted as well.
PartialSeq == nextSeq + Len(queue)

BeginPartial ==
    /\ Idle /\ LongEnough(size) /\ size # lastSize
    /\ lastSize' = size
    /\ work' = [utt |-> current, seq |-> PartialSeq]
    /\ at' = "partial"
    /\ UNCHANGED <<source, queue, nextSeq, page, history>>

\* No audio in progress, too little of it, none since the last PARTIAL, or too
\* early after it.
NoPartialNow ==
    /\ Idle
    /\ at' = "waiting"
    /\ UNCHANGED <<source, queue, nextSeq, lastSize, work, page, history>>

\* The transcriber fails, or its text is empty, a marker or a hallucination.
PartialIsEmpty ==
    /\ at = "partial"
    /\ at' = "waiting"
    /\ UNCHANGED <<source, queue, nextSeq, lastSize, work, page, history>>

PartialHasText ==
    /\ at = "partial"
    /\ at' = "publishPartial"
    /\ UNCHANGED <<source, queue, nextSeq, lastSize, work, page, history>>

\* Mutant of SeqAfterEmpty: the number is taken before the text is looked at.
SeqAfterEmptyTaken == nextSeq + 1

SeqAfterEmpty == nextSeq

FinalIsEmpty ==
    /\ at = "final"
    /\ at' = "waiting"
    /\ nextSeq' = SeqAfterEmpty
    /\ lastSize' = 0
    /\ dropped' = dropped \cup {work.utt}
    /\ UNCHANGED <<source, queue, work, page, queued>>

FinalHasText ==
    /\ at = "final"
    /\ at' = "publishFinal"
    /\ work' = [work EXCEPT !.seq = nextSeq]
    /\ nextSeq' = nextSeq + 1
    /\ UNCHANGED <<source, queue, lastSize, page, history>>

\* Mutant of AfterFinal: only a PARTIAL of an earlier number goes.
AfterFinalStrict(n) == IF shown.seq < n THEN NoPartial ELSE shown

\* The page drops its partial when a FINAL of its number or a later one comes.
AfterFinal(n) == IF shown.seq <= n THEN NoPartial ELSE shown

Appear ==
    IF at = "publishFinal"
    THEN /\ finals' = Append(finals, work)
         /\ shown' = AfterFinal(work.seq)
         /\ UNCHANGED partials
    ELSE /\ partials' = partials \cup {work}
         /\ shown' = work
         /\ UNCHANGED finals

Publish ==
    /\ at \in {"publishFinal", "publishPartial"}
    /\ Appear
    /\ at' = "waiting"
    /\ lastSize' = IF at = "publishFinal" THEN 0 ELSE lastSize
    /\ UNCHANGED <<source, queue, nextSeq, work, history>>

\* run() is left by an exception of the loop: the reader is cancelled.  A caption
\* on its way may have reached the stream.
LeaveAs(how) ==
    /\ at' = how
    /\ reader' = IF reader = "reading" THEN "cancelled" ELSE reader
    /\ UNCHANGED <<current, size, queue, nextSeq, lastSize, work, history>>

PublishFails ==
    /\ at \in {"publishFinal", "publishPartial"}
    /\ LeaveAs("failed")
    /\ Appear \/ UNCHANGED page

\* run_session cancels the pipeline: a stop, a lost lease, a shutdown.
Cancel ==
    /\ at \notin Over
    /\ LeaveAs("cancelled")
    /\ \/ UNCHANGED page
       \/ at \in {"publishFinal", "publishPartial"} /\ Appear

-----------------------------------------------------------------------------
Reader == Onset \/ Grow \/ Close \/ ReadEnds \/ ReadFails
Loop ==
    \/ TakeUtterance \/ TakeEof
    \/ GetTimesOut \/ BeginPartial \/ NoPartialNow
    \/ PartialIsEmpty \/ PartialHasText
    \/ FinalIsEmpty \/ FinalHasText
    \/ Publish

Next == Reader \/ Loop \/ PublishFails \/ Cancel

Spec == Init /\ [][Next]_vars

\* The loop resumes from every wait: get() has a timeout, so has a request of the
\* transcriber, and a command of Valkey is answered or its connection breaks.
\* Audio may stop coming.
FairSpec == Spec /\ WF_vars(Loop \/ PublishFails)

-----------------------------------------------------------------------------
\* FINALs come in the order of the speech, numbered without a hole, whatever
\* partials and empty texts come between them.
FinalsConsecutive ==
    /\ \A i \in DOMAIN finals : finals[i].seq = StartSeq + i - 1
    /\ \A i, j \in DOMAIN finals : i < j => finals[i].utt < finals[j].utt

\* pipeline.py:15: PARTIAL N is replaced by FINAL N.  The number guessed for the
\* utterance in progress, from the length of the queue, is the one its FINAL
\* gets, although utterances before it may give no text.
FinalReplacesPartial ==
    \A p \in partials : \A i \in DOMAIN finals :
        p.utt = finals[i].utt => p.seq = finals[i].seq

\* The page never shows a partial of speech whose FINAL, or a later one, is out.
PageIsCurrent ==
    shown # NoPartial => \A i \in DOMAIN finals : finals[i].utt < shown.utt

\* When the audio ends, every utterance, the flushed one included, has been
\* published or has been found to have no text.
NothingLost ==
    at = "ended" =>
        \A i \in DOMAIN queued :
            \/ queued[i] \in dropped
            \/ \E j \in DOMAIN finals : finals[j].utt = queued[i]

\* No PARTIAL is begun while a finished utterance waits, although the queue may
\* have grown since get() timed out.
FinalsFirst ==
    [][at' = "partial" /\ at # "partial" => \A i \in DOMAIN queue : queue[i] = Eof]_vars

\* When the audio ends or fails, the pipeline ends.
Drains == reader # "reading" ~> at \in Over

=============================================================================
