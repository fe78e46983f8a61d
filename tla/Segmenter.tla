------------------------------ MODULE Segmenter ------------------------------
(***************************************************************************)
(* The voice-activity segmenter of a worker                                *)
(* (src/conffy/worker/segmenter.py): 32 ms frames in, utterances out.      *)
(*                                                                         *)
(* Audio is abstracted to frame numbers: a buffer is the number of frames  *)
(* in it, an utterance is the interval t0 .. t1-1 of frames it holds.  The *)
(* probability the VAD returns is abstracted to the three classes the code *)
(* tells apart: "speech" (p >= threshold), "silence" (p < neg_threshold)   *)
(* and "unsure" (in between, which keeps the state).                       *)
(***************************************************************************)
EXTENDS Integers, Sequences, FiniteSets

CONSTANTS
    FrameMs,      \* FRAME_S, in milliseconds
    MinSilence,   \* min_silence_s, in frames
    SoftPause,    \* soft_pause_s, in frames
    KeepTail,     \* keep_tail_s, in frames
    MinSpeech,    \* min_speech_s, in frames
    PreRoll,      \* pre_roll_s, in frames: the maxlen of the pre-roll deque
    SoftMaxMs,    \* soft_max_s
    HardMaxMs,    \* hard_max_s
    MaxFrames     \* bound of the model: frames fed before the stream ends

\* _frames() never returns less than one frame, and the pre-roll is far
\* shorter than the hard limit (0.3 s against 15 s).
ASSUME ConfigAssumption ==
    /\ {FrameMs, MinSilence, SoftPause, KeepTail, MinSpeech, PreRoll}
          \subseteq Nat \ {0}
    /\ SoftMaxMs \in Nat /\ HardMaxMs \in Nat /\ MaxFrames \in Nat
    /\ PreRoll * FrameMs < HardMaxMs

VARIABLES
    idx,       \* _frame_idx: frames seen since the session started
    mode,      \* "active" or "idle": _active; "ended" after flush()
    start,     \* _start_idx: first frame of the utterance in progress
    buf,       \* len(_buf), in frames
    silence,   \* _silence
    speech,    \* _speech
    preroll,   \* len(_pre_roll)
    utts,      \* history: every utterance _close made, in order
    voiced     \* history: the frames the VAD called speech

vars == <<idx, mode, start, buf, silence, speech, preroll, utts, voiced>>

FrameClass == {"speech", "unsure", "silence"}

\* An utterance: its first frame, the frame after its last one, the clock when
\* it was closed, and whether it was returned or dropped as too short.
Utterance == [t0 : Nat, t1 : Nat, end : Nat, emitted : BOOLEAN]

Ms(frames) == frames * FrameMs

TypeOK ==
    /\ idx \in Nat /\ start \in Nat /\ buf \in Nat
    /\ silence \in Nat /\ speech \in Nat /\ preroll \in Nat
    /\ mode \in {"idle", "active", "ended"}
    /\ utts \in Seq(Utterance)
    /\ voiced \in SUBSET Nat

Init ==
    /\ idx = 0 /\ start = 0 /\ buf = 0 /\ silence = 0 /\ speech = 0
    /\ preroll = 0 /\ mode = "idle"
    /\ utts = <<>> /\ voiced = {}

-----------------------------------------------------------------------------
\* deque(maxlen=PreRoll).append: the oldest frame falls off a full deque.
PreRollAfterAppend == IF preroll < PreRoll THEN preroll + 1 ELSE PreRoll

\* The first frame of an utterance whose onset is the current frame.
OnsetStart == (idx + 1) - PreRollAfterAppend

\* Mutant of PreRollAfterOnset: the pre-roll is not cleared.
PreRollKept == PreRollAfterAppend

\* What the onset leaves in _pre_roll.
PreRollAfterOnset == 0

\* Mutant of SilenceAfter: speech does not reset the counter.
SilenceNotReset(p) == IF p = "silence" THEN silence + 1 ELSE silence

\* The counters after frame class p while an utterance is in progress.
SilenceAfter(p) ==
    IF p = "speech" THEN 0 ELSE IF p = "silence" THEN silence + 1 ELSE silence

\* Mutant of SpeechAfter: every frame counts.
SpeechOfEveryFrame(p) == IF p \in FrameClass THEN speech + 1 ELSE speech

SpeechAfter(p) == IF p = "speech" THEN speech + 1 ELSE speech

\* The three reasons to cut, in the order the code tests them.
NaturalEnd(sil) == sil >= MinSilence
SoftEnd(len, sil) == Ms(len) >= SoftMaxMs /\ sil >= SoftPause
HardEnd(len) == Ms(len) >= HardMaxMs

\* Trailing silent frames removed from an utterance that ends with a pause
\* (no frame when the pause is not longer than the tail to keep).
TrimmedSilence(sil) == IF sil > KeepTail THEN sil - KeepTail ELSE 0

\* A natural end trims the pause, a soft or hard cut keeps every frame.
Trim(sil) == IF NaturalEnd(sil) THEN TrimmedSilence(sil) ELSE 0

EnoughSpeech(sp) == sp >= MinSpeech

\* _close(trim): the utterance goes out and the state is reset (mode, that is
\* _active, by the caller: flush() is the end of the stream).
Close(len, sp, trim) ==
    /\ utts' = Append(utts, [t0 |-> start, t1 |-> (start + len) - trim,
                             end |-> start + len, emitted |-> EnoughSpeech(sp)])
    /\ start' = 0 /\ buf' = 0 /\ silence' = 0 /\ speech' = 0

\* feed() takes the next frame of the stream; p is what the VAD says of it.
NextFrame(p) ==
    /\ idx < MaxFrames
    /\ idx' = idx + 1
    /\ voiced' = IF p = "speech" THEN voiced \cup {idx} ELSE voiced

\* feed() while no utterance is in progress: the frame joins the pre-roll.
IdleFrame(p) ==
    /\ mode = "idle"
    /\ p # "speech"
    /\ NextFrame(p)
    /\ preroll' = PreRollAfterAppend
    /\ UNCHANGED <<mode, start, buf, silence, speech, utts>>

\* feed() on the first speech frame: the pre-roll, this frame included,
\* becomes the beginning of a new utterance.
Onset ==
    /\ mode = "idle"
    /\ NextFrame("speech")
    /\ mode' = "active"
    /\ start' = OnsetStart
    /\ buf' = PreRollAfterAppend
    /\ preroll' = PreRollAfterOnset
    /\ speech' = 1
    /\ UNCHANGED <<silence, utts>>

CutNow(len, sil) == NaturalEnd(sil) \/ SoftEnd(len, sil) \/ HardEnd(len)

\* feed() while an utterance is in progress and this frame does not end it.
ExtendFrame(p) ==
    /\ mode = "active"
    /\ NextFrame(p)
    /\ ~CutNow(buf + 1, SilenceAfter(p))
    /\ buf' = buf + 1
    /\ silence' = SilenceAfter(p)
    /\ speech' = SpeechAfter(p)
    /\ UNCHANGED <<mode, start, preroll, utts>>

\* feed() while an utterance is in progress and this frame ends it.
CutFrame(p) ==
    /\ mode = "active"
    /\ NextFrame(p)
    /\ CutNow(buf + 1, SilenceAfter(p))
    /\ Close(buf + 1, SpeechAfter(p), Trim(SilenceAfter(p)))
    /\ mode' = "idle"
    /\ UNCHANGED preroll

\* flush() at the end of the stream closes whatever is in progress.
FlushActive ==
    /\ mode = "active"
    /\ Close(buf, speech, TrimmedSilence(silence))
    /\ mode' = "ended"
    /\ UNCHANGED <<idx, preroll, voiced>>

FlushIdle ==
    /\ mode = "idle"
    /\ mode' = "ended"
    /\ UNCHANGED <<idx, start, buf, silence, speech, preroll, utts, voiced>>

Next ==
    \/ \E p \in FrameClass : IdleFrame(p) \/ ExtendFrame(p) \/ CutFrame(p)
    \/ Onset
    \/ FlushActive
    \/ FlushIdle

Spec == Init /\ [][Next]_vars

-----------------------------------------------------------------------------
\* Utterances come out in order and never share a frame, although the
\* pre-roll of one reaches back towards the trimmed end of the one before.
UtterancesDisjoint ==
    /\ \A i, j \in 1..Len(utts) : i < j => utts[i].t1 <= utts[j].t0
    /\ mode = "active" => \A i \in 1..Len(utts) : utts[i].t1 <= start

\* The frames an utterance (or the one in progress) holds.
Holds(u, f) == u.t0 <= f /\ f < u.t1
HeldByActive(f) == mode = "active" /\ start <= f /\ f < start + buf

\* No speech frame is ever lost: each is in the utterance in progress or in a
\* closed one.  Neither the pre-roll arithmetic, nor a cut, nor the trimming of
\* trailing silence (unsure frames do not reset its counter) drops one.
SpeechCovered ==
    \A f \in voiced :
        HeldByActive(f) \/ \E i \in 1..Len(utts) : Holds(utts[i], f)

\* No utterance is longer than hard_max_s plus the frame that reached it, and
\* none is empty (the test of pcm in _close never decides).
LengthBounded ==
    /\ \A i \in 1..Len(utts) :
          utts[i].t0 < utts[i].t1 /\ Ms(utts[i].t1 - utts[i].t0) < HardMaxMs + FrameMs
    /\ mode = "active" => Ms(buf) < HardMaxMs

\* Trimming keeps the tail: an utterance that lost trailing frames still has
\* more than KeepTail frames from each of its speech frames to its end, however
\* unsure frames were mixed with the silent ones the counter saw.
TailKept ==
    \A i \in 1..Len(utts) :
        \/ utts[i].t1 = utts[i].end
        \/ \A f \in voiced : Holds(utts[i], f) => f + KeepTail < utts[i].t1

\* An utterance is dropped exactly when it really holds fewer than MinSpeech
\* speech frames: the counter starts afresh with every utterance and counts
\* each speech frame in it once, the onset included.
DroppedOnlyBlips ==
    \A i \in 1..Len(utts) :
        utts[i].emitted <=> Cardinality({f \in voiced : Holds(utts[i], f)}) >= MinSpeech

=============================================================================
