----------------------------- MODULE AudioProofs -----------------------------
(***************************************************************************)
(* The audio source for every configuration of the segmenter, every stream  *)
(* of frames, any chunks and length of the audio: the safety properties of *)
(* Segmenter, that it behaves in Reader as Segmenter says, and that an end *)
(* is a complete one.                                                      *)
(***************************************************************************)
EXTENDS Reader, FiniteSetTheorems, TLAPS

\* The frames an utterance may reach back to: none of them belongs to one
\* that was closed before.
Floor == IF mode = "active" THEN start ELSE idx - preroll

\* While an utterance is in progress its buffer ends at the frame just fed, it
\* began with a speech frame, and it is below the hard limit.
ActiveShape ==
    mode = "active" =>
        /\ start + buf = idx
        /\ preroll = 0
        /\ silence < buf
        /\ Ms(buf) < HardMaxMs

\* Between utterances the pre-roll holds the last frames of the stream.
IdleShape ==
    mode # "active" =>
        /\ silence = 0
        /\ speech = 0
        /\ preroll <= idx
        /\ preroll <= PreRoll

\* The trailing silent frames counted come after every speech frame.
SilenceTrails ==
    \A f \in voiced : f < idx /\ (mode = "active" => f + silence < idx)

AboveFloor == \A i \in 1..Len(utts) : utts[i].t1 <= Floor

InOrder == \A i, j \in 1..Len(utts) : i < j => utts[i].t1 <= utts[j].t0

ClosedBounded ==
    \A i \in 1..Len(utts) :
        utts[i].t0 < utts[i].t1 /\ Ms(utts[i].t1 - utts[i].t0) < HardMaxMs + FrameMs

\* A frame fed from now on is in no utterance that was closed.
ClosedPast == \A i \in 1..Len(utts) : utts[i].t1 <= idx

IInv ==
    /\ TypeOK
    /\ ActiveShape
    /\ IdleShape
    /\ SilenceTrails
    /\ AboveFloor
    /\ ClosedPast
    /\ InOrder
    /\ ClosedBounded
    /\ SpeechCovered
    /\ TailKept

-----------------------------------------------------------------------------
\* The assumption, one parameter at a time; its bound on the pre-roll is cited
\* only where it is needed.
LEMMA Parameters ==
    /\ FrameMs \in Nat /\ MinSilence \in Nat /\ SoftPause \in Nat
    /\ KeepTail \in Nat /\ MinSpeech \in Nat /\ PreRoll \in Nat
    /\ FrameMs > 0 /\ MinSilence > 0 /\ PreRoll > 0 /\ KeepTail > 0
    /\ SoftMaxMs \in Nat /\ HardMaxMs \in Nat /\ MaxFrames \in Nat
BY ConfigAssumption

LEMMA PreRollShort == Ms(PreRoll) < HardMaxMs
BY ConfigAssumption DEF Ms

\* More frames last at least as long.
LEMMA MsMonotone ==
    ASSUME NEW a \in Nat, NEW b \in Nat, a <= b
    PROVE  Ms(a) \in Nat /\ Ms(a) <= Ms(b)
<1>1. FrameMs \in Nat
  BY Parameters
<1>2. PICK k \in Nat : b = a + k
  <2>1. b - a \in Nat /\ b = a + (b - a)
    OBVIOUS
  <2> QED BY <2>1
<1>3. b * FrameMs = a * FrameMs + k * FrameMs
  BY <1>1, <1>2
<1>4. a * FrameMs \in Nat /\ k * FrameMs \in Nat
  BY <1>1, <1>2
<1> QED BY <1>3, <1>4 DEF Ms

LEMMA MsSucc ==
    ASSUME NEW a \in Nat
    PROVE  Ms(a + 1) = Ms(a) + FrameMs
BY Parameters DEF Ms

\* Trimming takes no more than the silent frames counted, keeps KeepTail of
\* them when it takes any, and never takes any of an unbroken utterance.
LEMMA TrimBounds ==
    ASSUME NEW sil \in Nat
    PROVE  /\ TrimmedSilence(sil) \in Nat
           /\ Trim(sil) \in Nat
           /\ TrimmedSilence(sil) = 0 \/ TrimmedSilence(sil) + KeepTail = sil
           /\ Trim(sil) = 0 \/ Trim(sil) + KeepTail = sil
BY Parameters DEF TrimmedSilence, Trim

\* What an append does to the utterances closed so far.
LEMMA AppendUtts ==
    ASSUME NEW u \in Utterance, utts \in Seq(Utterance), utts' = Append(utts, u)
    PROVE  /\ utts' \in Seq(Utterance)
           /\ Len(utts) \in Nat
           /\ Len(utts') = Len(utts) + 1
           /\ \A i \in 1..Len(utts) : utts'[i] = utts[i] /\ utts[i] \in Utterance
           /\ utts'[Len(utts')] = u
           /\ \A i \in 1..Len(utts') : i \in 1..Len(utts) \/ i = Len(utts')
OBVIOUS

\* The bounds of an utterance are frame numbers.
LEMMA UttBounds ==
    ASSUME TypeOK, NEW i \in 1..Len(utts)
    PROVE  utts[i].t0 \in Nat /\ utts[i].t1 \in Nat /\ utts[i].end \in Nat
<1>1. utts[i] \in Utterance
  BY DEF TypeOK
<1> QED BY <1>1 DEF Utterance

LEMMA InitIInv == Init => IInv
<1> SUFFICES ASSUME Init
             PROVE  IInv
  OBVIOUS
<1>1. TypeOK
  BY DEF Init, TypeOK
<1>2. ActiveShape /\ IdleShape /\ SilenceTrails
  BY Parameters DEF Init, ActiveShape, IdleShape, SilenceTrails
<1>3. 1..Len(utts) = {}
  BY DEF Init
<1>4. AboveFloor /\ ClosedPast /\ InOrder /\ ClosedBounded /\ TailKept
  BY <1>3 DEF AboveFloor, ClosedPast, InOrder, ClosedBounded, TailKept
<1>5. SpeechCovered
  BY DEF Init, SpeechCovered
<1> QED BY <1>1, <1>2, <1>3, <1>4, <1>5 DEF IInv

-----------------------------------------------------------------------------
\* The steps that close nothing.
LEMMA IdleStep ==
    ASSUME IInv, NEW p \in FrameClass, IdleFrame(p)
    PROVE  IInv'
<1> USE Parameters
<1>0. \A i \in 1..Len(utts) :
        utts[i].t0 \in Nat /\ utts[i].t1 \in Nat /\ utts[i].end \in Nat
  BY UttBounds DEF IInv
<1>1. TypeOK'
  BY DEF IInv, TypeOK, IdleFrame, NextFrame, PreRollAfterAppend
<1>2. ActiveShape' /\ IdleShape' /\ SilenceTrails'
  BY DEF IInv, TypeOK, IdleFrame, NextFrame, PreRollAfterAppend, ActiveShape,
         IdleShape, SilenceTrails
<1>3. AboveFloor' /\ ClosedPast'
  BY <1>0 DEF IInv, TypeOK, IdleFrame, NextFrame, PreRollAfterAppend, AboveFloor, ClosedPast, Floor, IdleShape
<1>4. InOrder' /\ ClosedBounded' /\ TailKept'
  BY DEF IInv, IdleFrame, NextFrame, InOrder, ClosedBounded, TailKept, Holds
<1>5. SpeechCovered'
  BY DEF IInv, IdleFrame, NextFrame, SpeechCovered, HeldByActive, Holds
<1> QED BY <1>1, <1>2, <1>3, <1>4, <1>5 DEF IInv

LEMMA OnsetStep ==
    ASSUME IInv, Onset
    PROVE  IInv'
<1> USE Parameters
<1>0. \A i \in 1..Len(utts) :
        utts[i].t0 \in Nat /\ utts[i].t1 \in Nat /\ utts[i].end \in Nat
  BY UttBounds DEF IInv
<1>1. /\ PreRollAfterAppend \in Nat /\ PreRollAfterAppend > 0
      /\ PreRollAfterAppend <= PreRoll /\ PreRollAfterAppend <= preroll + 1
  BY DEF IInv, TypeOK, PreRollAfterAppend
<1>2. TypeOK'
  BY <1>1 DEF IInv, TypeOK, Onset, NextFrame, OnsetStart, PreRollAfterOnset, IdleShape
<1>3. Ms(PreRollAfterAppend) < HardMaxMs
  <2>1. Ms(PreRollAfterAppend) <= Ms(PreRoll) /\ Ms(PreRollAfterAppend) \in Nat
    BY <1>1, MsMonotone
  <2> QED BY <2>1, PreRollShort DEF Ms
<1>4. ActiveShape' /\ IdleShape' /\ SilenceTrails'
  BY <1>1, <1>3 DEF IInv, TypeOK, Onset, NextFrame, OnsetStart, PreRollAfterOnset,
     ActiveShape, IdleShape, SilenceTrails, Ms
<1>5. AboveFloor' /\ ClosedPast'
  BY <1>1, <1>0 DEF IInv, TypeOK, Onset, NextFrame, OnsetStart, AboveFloor, ClosedPast, Floor
<1>6. InOrder' /\ ClosedBounded'
  BY DEF IInv, Onset, InOrder, ClosedBounded
<1>7. TailKept'
  BY <1>0 DEF IInv, TypeOK, Onset, NextFrame, TailKept, ClosedPast, Holds
<1>8. SpeechCovered'
  <2>1. \A f \in voiced : \E i \in 1..Len(utts) : Holds(utts[i], f)
    BY DEF IInv, Onset, SpeechCovered, HeldByActive
  <2>2. mode' = "active" /\ start' <= idx /\ idx < start' + buf'
    BY <1>1 DEF IInv, TypeOK, Onset, NextFrame, OnsetStart, HeldByActive
  <2> QED BY <2>1, <2>2 DEF Onset, NextFrame, SpeechCovered, Holds, HeldByActive
<1> QED BY <1>2, <1>4, <1>5, <1>6, <1>7, <1>8 DEF IInv

LEMMA ExtendStep ==
    ASSUME IInv, NEW p \in FrameClass, ExtendFrame(p)
    PROVE  IInv'
<1> USE Parameters
<1>0. \A i \in 1..Len(utts) :
        utts[i].t0 \in Nat /\ utts[i].t1 \in Nat /\ utts[i].end \in Nat
  BY UttBounds DEF IInv
<1>1. /\ SilenceAfter(p) \in Nat /\ SpeechAfter(p) \in Nat
      /\ SilenceAfter(p) <= silence + 1
      /\ p = "speech" => SilenceAfter(p) = 0
  BY DEF IInv, TypeOK, SilenceAfter, SpeechAfter, FrameClass
<1>2. TypeOK'
  BY <1>1 DEF IInv, TypeOK, ExtendFrame, NextFrame
<1>3. ActiveShape'
  <2>1. Ms(buf + 1) < HardMaxMs
    <3>1. ~(Ms(buf + 1) >= HardMaxMs)
      BY DEF ExtendFrame, CutNow, HardEnd
    <3>2. Ms(buf + 1) \in Nat
      BY MsMonotone DEF IInv, TypeOK
    <3> QED BY <3>1, <3>2
  <2> QED BY <1>1, <2>1 DEF IInv, TypeOK, ExtendFrame, NextFrame, ActiveShape, Ms
<1>4. IdleShape' /\ SilenceTrails'
  BY <1>1 DEF IInv, TypeOK, ExtendFrame, NextFrame, IdleShape, SilenceTrails, ActiveShape
<1>5. AboveFloor' /\ ClosedPast' /\ InOrder' /\ ClosedBounded'
  BY <1>0 DEF IInv, TypeOK, ExtendFrame, NextFrame, AboveFloor, ClosedPast, InOrder, ClosedBounded, Floor
<1>6. TailKept'
  BY <1>0 DEF IInv, TypeOK, ExtendFrame, NextFrame, TailKept, ClosedPast, Holds
<1>7. SpeechCovered'
  <2>1. \A f \in Nat : HeldByActive(f) => HeldByActive(f)'
    BY DEF IInv, TypeOK, ExtendFrame, HeldByActive
  <2>2. mode' = "active" /\ start' <= idx /\ idx < start' + buf'
    BY DEF IInv, TypeOK, ExtendFrame, ActiveShape, HeldByActive
  <2> QED BY <2>1, <2>2 DEF IInv, TypeOK, ExtendFrame, NextFrame, SpeechCovered, Holds,
                         HeldByActive
<1> QED BY <1>2, <1>3, <1>4, <1>5, <1>6, <1>7 DEF IInv

-----------------------------------------------------------------------------
\* Closing: what _close does to the invariant, for a cut and for flush().  The
\* utterance ends at the clock after the step, and trimming spares the speech.
LEMMA CloseStep ==
    ASSUME IInv, mode = "active",
           NEW len \in Nat, NEW sp \in Nat, NEW sil \in Nat, NEW trim \in Nat,
           Close(len, sp, trim),
           idx' \in Nat, idx <= idx', start + len = idx', preroll' = preroll,
           mode' \in {"idle", "ended"},
           voiced' \in SUBSET Nat, voiced \subseteq voiced',
           sil < len, Ms(len) < HardMaxMs + FrameMs,
           trim = 0 \/ trim + KeepTail = sil,
           \A f \in voiced' : f + sil < idx',
           \A f \in voiced' : f \in voiced \/ f = idx
    PROVE  IInv'
<1> USE Parameters
<1>0. \A i \in 1..Len(utts) :
        utts[i].t0 \in Nat /\ utts[i].t1 \in Nat /\ utts[i].end \in Nat
  BY UttBounds DEF IInv
<1> DEFINE u == [t0 |-> start, t1 |-> (start + len) - trim,
                 end |-> start + len, emitted |-> EnoughSpeech(sp)]
<1>1. trim <= sil /\ start < u.t1 /\ u.t1 <= idx'
  BY DEF IInv, TypeOK
<1>2. u \in Utterance
  BY <1>1 DEF IInv, TypeOK, Utterance, EnoughSpeech
<1>3. /\ utts' \in Seq(Utterance)
      /\ Len(utts) \in Nat
      /\ Len(utts') = Len(utts) + 1
      /\ \A i \in 1..Len(utts) : utts'[i] = utts[i] /\ utts[i] \in Utterance
      /\ utts'[Len(utts')] = u
      /\ \A i \in 1..Len(utts') : i \in 1..Len(utts) \/ i = Len(utts')
  BY <1>2, AppendUtts DEF IInv, TypeOK, Close
<1> HIDE DEF u
<1>4. u.t0 = start /\ u.t1 = (start + len) - trim /\ u.end = start + len
  BY DEF u
<1>5. TypeOK'
  BY <1>3 DEF IInv, TypeOK, Close
<1>6. ActiveShape' /\ IdleShape' /\ SilenceTrails'
  BY DEF IInv, TypeOK, Close, ActiveShape, IdleShape, SilenceTrails
<1>7. AboveFloor' /\ ClosedPast'
  <2>1. \A i \in 1..Len(utts') : utts'[i].t1 <= idx'
    <3>1. \A i \in 1..Len(utts) : utts[i].t1 <= idx'
      BY <1>0 DEF IInv, TypeOK, ClosedPast
    <3> QED BY <1>1, <1>3, <3>1
  <2>2. Floor' = idx'
    <3>1. preroll' = 0 /\ mode' # "active"
      BY DEF IInv, ActiveShape
    <3>2. \A n \in Nat : n - 0 = n
      OBVIOUS
    <3>3. idx' - preroll' = idx'
      BY <3>1, <3>2, Zenon
    <3> QED BY <3>1, <3>3, Zenon DEF Floor
  <2> QED BY <2>1, <2>2 DEF AboveFloor, ClosedPast
<1>8. InOrder'
  <2>1. \A i \in 1..Len(utts) : utts[i].t1 <= u.t0
    BY <1>4 DEF IInv, AboveFloor, Floor
  <2> SUFFICES ASSUME NEW i \in 1..Len(utts'), NEW j \in 1..Len(utts'), i < j
               PROVE  utts'[i].t1 <= utts'[j].t0
    BY DEF InOrder
  <2>2. i \in 1..Len(utts)
    BY <1>3
  <2>3. CASE j \in 1..Len(utts)
    BY <1>3, <2>2, <2>3 DEF IInv, InOrder
  <2>4. CASE j = Len(utts')
    BY <1>3, <2>1, <2>2, <2>4
  <2> QED BY <1>3, <2>3, <2>4
<1>9. ClosedBounded'
  <2>1. Ms(u.t1 - u.t0) <= Ms(len) /\ Ms(u.t1 - u.t0) \in Nat
    <3>1. u.t1 - u.t0 \in Nat /\ u.t1 - u.t0 <= len
      BY <1>1, <1>4 DEF IInv, TypeOK
    <3> QED BY <3>1, MsMonotone
  <2>2. u.t0 < u.t1 /\ Ms(u.t1 - u.t0) < HardMaxMs + FrameMs
    <3>1. Ms(len) \in Nat
      BY MsMonotone
    <3> QED BY <1>1, <1>4, <2>1, <3>1
  <2> QED BY <1>3, <2>2 DEF IInv, ClosedBounded, Ms
<1>10. TailKept'
  <2>1. u.t1 = u.end \/ \A f \in voiced' : f + KeepTail < u.t1
    BY <1>4 DEF IInv, TypeOK
  <2>2. \A i \in 1..Len(utts) : ~ Holds(utts[i], idx)
    BY <1>3, <1>0 DEF IInv, TypeOK, ClosedPast, Holds
  <2> QED BY <1>3, <2>1, <2>2 DEF IInv, TailKept, Holds
<1>11. SpeechCovered'
  <2>1. \A f \in voiced' : start <= f => Holds(u, f)
    <3> SUFFICES ASSUME NEW f \in voiced', start <= f
                 PROVE  Holds(u, f)
      OBVIOUS
    <3>1. f \in Nat /\ f + sil < start + len
      OBVIOUS
    <3> QED BY <1>1, <1>4, <3>1 DEF Holds, IInv, TypeOK
  <2>2. \A f \in voiced' : start <= f \/ \E i \in 1..Len(utts) : Holds(utts[i], f)
    <3>1. start <= idx
      BY DEF IInv, TypeOK, ActiveShape
    <3> QED BY <3>1 DEF IInv, SpeechCovered, HeldByActive
  <2> QED BY <1>3, <2>1, <2>2 DEF SpeechCovered, Holds
<1> QED BY <1>5, <1>6, <1>7, <1>8, <1>9, <1>10, <1>11 DEF IInv

LEMMA CutStep ==
    ASSUME IInv, NEW p \in FrameClass, CutFrame(p)
    PROVE  IInv'
<1> USE Parameters
<1>0. \A i \in 1..Len(utts) :
        utts[i].t0 \in Nat /\ utts[i].t1 \in Nat /\ utts[i].end \in Nat
  BY UttBounds DEF IInv
<1>1. /\ SilenceAfter(p) \in Nat /\ SpeechAfter(p) \in Nat
      /\ SilenceAfter(p) < buf + 1
      /\ p = "speech" => SilenceAfter(p) = 0
      /\ p # "speech" => SilenceAfter(p) <= silence + 1
  BY DEF IInv, TypeOK, CutFrame, ActiveShape, SilenceAfter, SpeechAfter, FrameClass
<1>2. Trim(SilenceAfter(p)) \in Nat
      /\ (Trim(SilenceAfter(p)) = 0 \/ Trim(SilenceAfter(p)) + KeepTail = SilenceAfter(p))
  BY <1>1, TrimBounds
<1>3. Ms(buf + 1) < HardMaxMs + FrameMs
  <2>1. Ms(buf) \in Nat /\ Ms(buf + 1) = Ms(buf) + FrameMs
    <3>1. buf \in Nat /\ buf <= buf
      BY DEF IInv, TypeOK
    <3> QED BY <3>1, MsMonotone, MsSucc
  <2> QED BY <2>1 DEF IInv, CutFrame, ActiveShape
<1>4. /\ idx' \in Nat /\ idx <= idx' /\ start + (buf + 1) = idx'
      /\ buf + 1 \in Nat /\ mode' \in {"idle", "ended"}
  BY DEF IInv, TypeOK, CutFrame, NextFrame, ActiveShape
<1>5. /\ voiced' \in SUBSET Nat /\ voiced \subseteq voiced'
      /\ \A f \in voiced' : f \in voiced \/ f = idx
  BY DEF IInv, TypeOK, CutFrame, NextFrame
<1>6. \A f \in voiced' : f + SilenceAfter(p) < idx'
  BY <1>1 DEF IInv, TypeOK, CutFrame, NextFrame, SilenceTrails
<1>7. mode = "active" /\ preroll' = preroll
      /\ Close(buf + 1, SpeechAfter(p), Trim(SilenceAfter(p)))
  BY DEF CutFrame
<1> QED BY <1>1, <1>2, <1>3, <1>4, <1>5, <1>6, <1>7, CloseStep

LEMMA FlushStep ==
    ASSUME IInv, FlushActive
    PROVE  IInv'
<1> USE Parameters
<1>0. \A i \in 1..Len(utts) :
        utts[i].t0 \in Nat /\ utts[i].t1 \in Nat /\ utts[i].end \in Nat
  BY UttBounds DEF IInv
<1>1. /\ silence \in Nat /\ speech \in Nat /\ buf \in Nat /\ silence < buf
      /\ start + buf = idx' /\ idx' \in Nat /\ idx <= idx' /\ mode' \in {"idle", "ended"}
  BY DEF IInv, TypeOK, FlushActive, ActiveShape
<1>2. TrimmedSilence(silence) \in Nat
      /\ (TrimmedSilence(silence) = 0 \/ TrimmedSilence(silence) + KeepTail = silence)
  BY <1>1, TrimBounds
<1>3. Ms(buf) < HardMaxMs + FrameMs
  <2>1. Ms(buf) \in Nat
    BY <1>1, MsMonotone
  <2> QED BY <2>1 DEF IInv, FlushActive, ActiveShape
<1>4. /\ voiced' = voiced /\ voiced' \in SUBSET Nat
      /\ \A f \in voiced' : f + silence < idx'
  BY DEF IInv, TypeOK, FlushActive, SilenceTrails
<1>5. mode = "active" /\ preroll' = preroll /\ Close(buf, speech, TrimmedSilence(silence))
  BY DEF FlushActive
<1> QED BY <1>1, <1>2, <1>3, <1>4, <1>5, CloseStep

LEMMA OtherSteps ==
    ASSUME IInv, FlushIdle \/ UNCHANGED vars
    PROVE  IInv'
BY DEF FlushIdle, vars, IInv, TypeOK, ActiveShape, IdleShape, SilenceTrails, AboveFloor,
   ClosedPast, InOrder, ClosedBounded, SpeechCovered, TailKept, Floor, Holds, HeldByActive

\* The invariant of the segmenter, for every configuration.
THEOREM Inductive == Spec => []IInv
<1>1. Init => IInv
  BY InitIInv
<1>2. IInv /\ [Next]_vars => IInv'
  <2> SUFFICES ASSUME IInv, [Next]_vars
               PROVE  IInv'
    OBVIOUS
  <2>1. ASSUME NEW p \in FrameClass, IdleFrame(p) PROVE IInv'
    BY <2>1, IdleStep
  <2>2. CASE Onset
    BY <2>2, OnsetStep
  <2>3. ASSUME NEW p \in FrameClass, ExtendFrame(p) PROVE IInv'
    BY <2>3, ExtendStep
  <2>4. ASSUME NEW p \in FrameClass, CutFrame(p) PROVE IInv'
    BY <2>4, CutStep
  <2>5. CASE FlushActive
    BY <2>5, FlushStep
  <2>6. CASE FlushIdle \/ UNCHANGED vars
    BY <2>6, OtherSteps
  <2> QED BY <2>1, <2>2, <2>3, <2>4, <2>5, <2>6 DEF Next
<1> QED BY <1>1, <1>2, PTL DEF Spec

\* The state of feed() and flush() is well formed, whatever the stream.
THEOREM TypeCorrect == Spec => []TypeOK
BY Inductive, PTL DEF IInv

\* Two utterances never share a frame and come out in stream order.
THEOREM Disjoint == Spec => []UtterancesDisjoint
<1>1. IInv => UtterancesDisjoint
  BY DEF IInv, UtterancesDisjoint, InOrder, AboveFloor, Floor
<1> QED BY Inductive, <1>1, PTL

\* No frame the VAD called speech is lost, by any cut, trim or pre-roll.
THEOREM NoSpeechLost == Spec => []SpeechCovered
BY Inductive, PTL DEF IInv

\* No utterance exceeds the hard limit by a whole frame, and none is empty.
THEOREM Bounded == Spec => []LengthBounded
<1>1. IInv => LengthBounded
  BY DEF IInv, LengthBounded, ClosedBounded, ActiveShape
<1> QED BY Inductive, <1>1, PTL

\* Trimming a pause always leaves its tail in the utterance.
THEOREM TailSurvives == Spec => []TailKept
BY Inductive, PTL DEF IInv

-----------------------------------------------------------------------------
(* Which utterances are dropped.                                           *)

\* The speech frames from a on.
Since(V, a) == {f \in V : a <= f}

\* The counter is the number of speech frames in the utterance in progress.
Counted == mode = "active" => speech = Cardinality(Since(voiced, start))

\* The pre-roll holds no speech frame: an onset counts as the first one.
SilentPreRoll == mode # "active" => \A f \in voiced : f < idx - preroll

BlipInv == IInv /\ Counted /\ SilentPreRoll /\ DroppedOnlyBlips

LEMMA SinceFinite ==
    ASSUME IInv, NEW a
    PROVE  IsFiniteSet(Since(voiced, a)) /\ Cardinality(Since(voiced, a)) \in Nat
<1>1. idx \in Nat /\ \A f \in voiced : f \in Nat /\ f < idx
  BY DEF IInv, TypeOK, SilenceTrails
<1>2. Since(voiced, a) \in SUBSET (0..idx)
  BY <1>1 DEF Since
<1>3. IsFiniteSet(0..idx)
  BY <1>1, FS_Interval
<1> QED BY <1>2, <1>3, FS_Subset, FS_CardinalityType

\* A frame fed now adds to the count exactly if it is speech.
LEMMA CountStep ==
    ASSUME IInv, Counted, mode = "active", NEW p \in FrameClass, NextFrame(p)
    PROVE  SpeechAfter(p) = Cardinality(Since(voiced', start))
<1>1. /\ idx \in Nat /\ start \in Nat /\ start <= idx
      /\ \A f \in voiced : f \in Nat /\ f < idx
  BY DEF IInv, TypeOK, SilenceTrails, ActiveShape
<1>2. speech = Cardinality(Since(voiced, start))
  BY DEF Counted
<1>3. CASE p = "speech"
  <2>1. voiced' = voiced \cup {idx} /\ SpeechAfter(p) = speech + 1
    BY <1>3 DEF NextFrame, SpeechAfter
  <2>2. Since(voiced', start) = Since(voiced, start) \cup {idx}
    BY <1>1, <2>1 DEF Since
  <2>3. idx \notin Since(voiced, start)
    BY <1>1 DEF Since
  <2>4. Cardinality(Since(voiced, start) \cup {idx}) = Cardinality(Since(voiced, start)) + 1
    BY <2>3, SinceFinite, FS_AddElement
  <2> QED BY <1>2, <2>1, <2>2, <2>4
<1>4. CASE p # "speech"
  BY <1>2, <1>4 DEF NextFrame, SpeechAfter
<1> QED BY <1>3, <1>4

\* Frames fed from now on are in none of the closed utterances.
LEMMA ClosedKept ==
    ASSUME IInv, DroppedOnlyBlips, voiced \subseteq voiced',
           \A f \in voiced' : f \in voiced \/ f = idx,
           NEW i \in 1..Len(utts), utts'[i] = utts[i]
    PROVE  utts'[i].emitted <=> Cardinality({f \in voiced' : Holds(utts'[i], f)}) >= MinSpeech
<1>1. ~ Holds(utts[i], idx)
  <2>1. utts[i].t1 \in Nat /\ utts[i].t1 <= idx /\ idx \in Nat
    BY UttBounds DEF IInv, TypeOK, ClosedPast
  <2> QED BY <2>1 DEF Holds
<1>2. {f \in voiced' : Holds(utts'[i], f)} = {f \in voiced : Holds(utts[i], f)}
  BY <1>1
<1> QED BY <1>2 DEF DroppedOnlyBlips

\* The utterance that is closed holds the frames that were counted: what is
\* trimmed comes after them.
LEMMA BlipsClose ==
    ASSUME IInv, DroppedOnlyBlips, voiced \subseteq voiced', voiced' \subseteq Nat,
           \A f \in voiced' : f \in voiced \/ f = idx,
           NEW sp \in Nat, sp = Cardinality(Since(voiced', start)),
           NEW len \in Nat, NEW trim \in Nat, trim < len, Close(len, sp, trim),
           \A f \in voiced' : f < (start + len) - trim
    PROVE  DroppedOnlyBlips'
<1> DEFINE u == [t0 |-> start, t1 |-> (start + len) - trim,
                 end |-> start + len, emitted |-> EnoughSpeech(sp)]
<1>1. start \in Nat /\ utts \in Seq(Utterance) /\ utts' = Append(utts, u)
  BY DEF IInv, TypeOK, Close
<1>2. u \in Utterance
  BY <1>1 DEF Utterance, EnoughSpeech
<1>3. {f \in voiced' : Holds(u, f)} = Since(voiced', start)
  BY <1>1 DEF Holds, Since
<1>4. u.emitted <=> Cardinality({f \in voiced' : Holds(u, f)}) >= MinSpeech
  BY <1>3 DEF EnoughSpeech
<1> HIDE DEF u
<1>5. /\ \A i \in 1..Len(utts) : utts'[i] = utts[i]
      /\ utts'[Len(utts')] = u
      /\ \A i \in 1..Len(utts') : i \in 1..Len(utts) \/ i = Len(utts')
  BY <1>1, <1>2, AppendUtts
<1>6. \A i \in 1..Len(utts) :
        utts'[i].emitted <=> Cardinality({f \in voiced' : Holds(utts'[i], f)}) >= MinSpeech
  BY <1>5, ClosedKept
<1>7. utts'[Len(utts')].emitted <=>
        Cardinality({f \in voiced' : Holds(utts'[Len(utts')], f)}) >= MinSpeech
  BY <1>4, <1>5
<1> QED BY <1>5, <1>6, <1>7 DEF DroppedOnlyBlips

LEMMA BlipStep ==
    ASSUME BlipInv, IInv', [Next]_vars
    PROVE  BlipInv'
<1> USE Parameters
<1>0. /\ IInv /\ Counted /\ SilentPreRoll /\ DroppedOnlyBlips
      /\ TypeOK /\ TypeOK' /\ ActiveShape /\ IdleShape /\ SilenceTrails /\ SilenceTrails'
  BY DEF BlipInv, IInv
<1>1. ASSUME utts' = utts, voiced \subseteq voiced',
             \A f \in voiced' : f \in voiced \/ f = idx
      PROVE  DroppedOnlyBlips'
  <2>1. \A i \in 1..Len(utts) :
          utts'[i].emitted <=> Cardinality({f \in voiced' : Holds(utts'[i], f)}) >= MinSpeech
    BY <1>0, <1>1, ClosedKept
  <2> QED BY <1>1, <2>1 DEF DroppedOnlyBlips
<1>2. ASSUME NEW p \in FrameClass, NextFrame(p)
      PROVE  voiced \subseteq voiced' /\ \A f \in voiced' : f \in voiced \/ f = idx
  BY <1>2 DEF NextFrame
<1>3. ASSUME NEW p \in FrameClass, IdleFrame(p)
      PROVE  BlipInv'
  <2>1. voiced' = voiced /\ mode' # "active" /\ utts' = utts /\ idx' = idx + 1
        /\ preroll' = PreRollAfterAppend
    BY <1>3 DEF IdleFrame, NextFrame
  <2>2. PreRollAfterAppend <= preroll + 1
    BY <1>0 DEF TypeOK, PreRollAfterAppend, IdleShape
  <2>3. SilentPreRoll'
    BY <1>0, <1>3, <2>1, <2>2 DEF SilentPreRoll, TypeOK, IdleFrame
  <2> QED BY <1>1, <2>1, <2>3 DEF BlipInv, Counted
<1>4. CASE Onset
  <2>1. voiced' = voiced \cup {idx} /\ mode' = "active" /\ utts' = utts /\ speech' = 1
        /\ start' = OnsetStart /\ mode = "idle"
    BY <1>4 DEF Onset, NextFrame
  <2>2. PreRollAfterAppend <= preroll + 1 /\ PreRollAfterAppend > 0 /\ PreRollAfterAppend \in Nat
        /\ preroll \in Nat /\ idx \in Nat
    BY <1>0 DEF TypeOK, PreRollAfterAppend
  <2>3. \A f \in voiced : f \in Nat /\ f < OnsetStart
    BY <1>0, <2>1, <2>2 DEF TypeOK, SilentPreRoll, OnsetStart
  <2>4. OnsetStart <= idx
    BY <2>2 DEF OnsetStart
  <2>5. OnsetStart \in Int
    BY <2>2 DEF OnsetStart
  <2>6. Since(voiced', start') = {idx}
    BY <2>1, <2>2, <2>3, <2>4, <2>5 DEF Since
  <2>7. Counted'
    BY <2>1, <2>6, FS_Singleton DEF Counted
  <2> QED BY <1>0, <1>1, <2>1, <2>7 DEF BlipInv, SilentPreRoll
<1>5. ASSUME NEW p \in FrameClass, ExtendFrame(p)
      PROVE  BlipInv'
  <2>1. NextFrame(p) /\ mode = "active" /\ mode' = "active" /\ utts' = utts /\ start' = start
        /\ speech' = SpeechAfter(p)
    BY <1>5 DEF ExtendFrame
  <2>2. Counted'
    BY <1>0, <2>1, CountStep DEF Counted
  <2> QED BY <1>1, <1>2, <2>1, <2>2 DEF BlipInv, SilentPreRoll
<1>6. ASSUME NEW p \in FrameClass, CutFrame(p)
      PROVE  BlipInv'
  <2> DEFINE sil == SilenceAfter(p)
             sp == SpeechAfter(p)
  <2>1. NextFrame(p) /\ mode = "active" /\ mode' = "idle" /\ preroll' = preroll
        /\ Close(buf + 1, sp, Trim(sil)) /\ idx' = idx + 1
    BY <1>6 DEF CutFrame, NextFrame
  <2>2. sp = Cardinality(Since(voiced', start)) /\ sp \in Nat
    BY <1>0, <2>1, CountStep DEF SpeechAfter, TypeOK
  <2>3. sil \in Nat /\ sil <= silence + 1 /\ start + (buf + 1) = idx' /\ silence < buf
        /\ buf \in Nat /\ start \in Nat /\ idx \in Nat
    BY <1>0, <2>1 DEF TypeOK, SilenceAfter, ActiveShape
  <2>4. Trim(sil) \in Nat /\ (Trim(sil) = 0 \/ Trim(sil) + KeepTail = sil)
    BY <2>3, TrimBounds
  <2>5. \A f \in voiced' : f \in Nat /\ f + sil < idx'
    BY <1>0, <2>1 DEF TypeOK, NextFrame, SilenceTrails, SilenceAfter
  <2> HIDE DEF sil, sp
  <2>6. \A f \in voiced' : f < (start + (buf + 1)) - Trim(sil)
    BY <2>3, <2>4, <2>5
  <2>t. silence \in Nat /\ buf + 1 \in Nat
    BY <1>0, <2>3 DEF TypeOK
  <2>7. voiced' \subseteq Nat /\ buf + 1 \in Nat /\ Trim(sil) < buf + 1
    <3>1. Trim(sil) < buf + 1
      BY <2>3, <2>4, <2>t
    <3> QED BY <2>5, <2>t, <3>1
  <2>8. DroppedOnlyBlips'
    BY <1>0, <1>2, <2>1, <2>2, <2>4, <2>6, <2>7, BlipsClose
  <2>9. SilentPreRoll'
    BY <1>0, <2>1, <2>3, <2>5 DEF SilentPreRoll, SilenceTrails, ActiveShape
  <2> QED BY <2>1, <2>8, <2>9 DEF BlipInv, Counted
<1>7. CASE FlushActive
  <2>1. mode = "active" /\ mode' = "ended" /\ preroll' = preroll /\ voiced' = voiced /\ idx' = idx
        /\ Close(buf, speech, TrimmedSilence(silence))
    BY <1>7 DEF FlushActive
  <2>2. speech = Cardinality(Since(voiced', start)) /\ speech \in Nat
    BY <1>0, <2>1 DEF Counted, TypeOK
  <2>3. silence \in Nat /\ start + buf = idx /\ silence < buf /\ buf \in Nat /\ start \in Nat
    BY <1>0, <2>1 DEF TypeOK, ActiveShape
  <2>4. /\ TrimmedSilence(silence) \in Nat
        /\ TrimmedSilence(silence) = 0 \/ TrimmedSilence(silence) + KeepTail = silence
    BY <2>3, TrimBounds
  <2>5. \A f \in voiced' : f \in Nat /\ f + silence < idx
    BY <1>0, <2>1 DEF TypeOK, SilenceTrails
  <2>6. \A f \in voiced' : f < (start + buf) - TrimmedSilence(silence)
    BY <2>3, <2>4, <2>5
  <2>7. voiced' \subseteq Nat /\ TrimmedSilence(silence) < buf
    BY <2>3, <2>4, <2>5
  <2>8. DroppedOnlyBlips'
    BY <1>0, <2>1, <2>2, <2>3, <2>4, <2>6, <2>7, BlipsClose
  <2>9. SilentPreRoll'
    BY <1>0, <2>1, <2>3, <2>5 DEF SilentPreRoll, SilenceTrails, ActiveShape, TypeOK
  <2> QED BY <2>1, <2>8, <2>9 DEF BlipInv, Counted
<1>8. CASE FlushIdle \/ UNCHANGED vars
  BY <1>0, <1>8 DEF FlushIdle, vars, BlipInv, Counted, SilentPreRoll, DroppedOnlyBlips, Holds
<1> QED BY <1>3, <1>4, <1>5, <1>6, <1>7, <1>8 DEF Next

\* An utterance is dropped exactly when it holds too few speech frames: the
\* counter is neither carried over nor misses a frame, for any configuration.
THEOREM BlipsDropped == Spec => []DroppedOnlyBlips
<1>1. Init => BlipInv
  <2> SUFFICES ASSUME Init PROVE BlipInv
    OBVIOUS
  <2>1. IInv
    BY InitIInv
  <2>2. Counted /\ SilentPreRoll /\ DroppedOnlyBlips
    BY DEF Init, Counted, SilentPreRoll, DroppedOnlyBlips
  <2> QED BY <2>1, <2>2 DEF BlipInv
<1>2. BlipInv /\ IInv' /\ [Next]_vars => BlipInv'
  BY BlipStep
<1>3. BlipInv => DroppedOnlyBlips
  BY DEF BlipInv
<1> QED BY <1>1, <1>2, <1>3, Inductive, PTL DEF Spec

-----------------------------------------------------------------------------
(* The reader.                                                             *)

\* Less than a frame is left wherever the reader waits for something.
LeftOver ==
    /\ pending \in Nat
    /\ reader # "framing" => pending < FrameUnits

EndInv == EndIsComplete /\ LeftOver

-----------------------------------------------------------------------------
\* A step of the reader is a step of the segmenter, or none of it.
LEMMA ReaderStepRefines == ASSUME ReaderNext PROVE [Next]_vars
<1>1. CASE Feed
  BY <1>1 DEF Feed, Next
<1>2. CASE ReadEnds
  BY <1>2 DEF ReadEnds, Next
<1>3. CASE FfmpegExits \/ FfmpegBlocks \/ Cancel
  BY <1>3 DEF FfmpegExits, FfmpegBlocks, Cancel, CancelInGenerator, CancelAtStart,
              CancelBetween
<1>4. CASE Start \/ StartFails \/ Sleep \/ Resume \/ StdoutEnds \/ ReadFails
             \/ Closed \/ Collect
  BY <1>4 DEF Start, StartFails, Sleep, Resume, StdoutEnds, ReadFails, Closed, Collect
<1>5. ASSUME NEW n \in 1..ChunkUnits, ReadChunk(n)
      PROVE  [Next]_vars
  BY <1>5 DEF ReadChunk
<1> QED BY <1>1, <1>2, <1>3, <1>4, <1>5 DEF ReaderNext, ReaderStep

\* Whatever the chunks, the failures and the cancellations, the segmenter takes
\* only the steps that Segmenter describes.
THEOREM Refines == ReaderSpec => Spec
<1>1. ReaderInit => Init
  BY DEF ReaderInit
<1>2. [ReaderNext]_<<vars, task>> => [Next]_vars
  <2>1. CASE ReaderNext
    BY <2>1, ReaderStepRefines
  <2>2. CASE UNCHANGED <<vars, task>>
    BY <2>2
  <2> QED BY <2>1, <2>2
<1> QED BY <1>1, <1>2, PTL DEF ReaderSpec, Spec

\* No speech is lost between ffmpeg and the utterances.
COROLLARY ReaderCovered == ReaderSpec => []SpeechCovered
BY Refines, NoSpeechLost

\* Nor is an utterance with enough speech ever dropped there.
COROLLARY ReaderDropsBlips == ReaderSpec => []DroppedOnlyBlips
BY Refines, BlipsDropped

-----------------------------------------------------------------------------
\* Only ReadEnds leads to the end, with a process that returned 0 and less than
\* a frame left; nothing changes after it.
LEMMA EndStep ==
    ASSUME EndInv, [ReaderNext]_<<vars, task>>
    PROVE  EndInv'
<1>1. CASE UNCHANGED <<vars, task>>
  BY <1>1 DEF EndInv, EndIsComplete, LeftOver, vars, task
<1>2. CASE FfmpegExits \/ FfmpegBlocks
  BY <1>2 DEF FfmpegExits, FfmpegBlocks, EndInv, EndIsComplete, LeftOver, vars
<1>3. CASE Start \/ StartFails \/ Resume \/ StdoutEnds \/ ReadFails \/ Closed
  BY <1>3 DEF Start, StartFails, Resume, StdoutEnds, ReadFails, Closed,
              EndInv, EndIsComplete, LeftOver, vars
<1>4. ASSUME NEW n \in 1..ChunkUnits, ReadChunk(n)
      PROVE  EndInv'
  BY <1>4, ReaderAssumption DEF ReadChunk, EndInv, EndIsComplete, LeftOver
<1>5. CASE Sleep
  BY <1>5, ReaderAssumption DEF Sleep, WholeFrame, EndInv, EndIsComplete, LeftOver
<1>6. CASE Feed
  BY <1>6, ReaderAssumption DEF Feed, WholeFrame, EndInv, EndIsComplete, LeftOver
<1>7. CASE ReadEnds
  BY <1>7 DEF ReadEnds, FlushActive, FlushIdle, Succeeded, EndInv, EndIsComplete,
              LeftOver
<1>8. CASE Collect
  BY <1>8 DEF Collect, AfterCancel, Alive, EndInv, EndIsComplete, LeftOver, vars
<1>9. CASE Cancel
  BY <1>9 DEF Cancel, CancelInGenerator, CancelAtStart, CancelBetween, EndInv,
              EndIsComplete, LeftOver, vars
<1> QED BY <1>1, <1>2, <1>3, <1>4, <1>5, <1>6, <1>7, <1>8, <1>9
  DEF ReaderNext, ReaderStep

\* A reader that has come to its end was given all the audio of a source that
\* ended regularly, and has flushed it.
THEOREM CompleteEnd == ReaderSpec => []EndIsComplete
<1>1. ReaderInit => EndInv
  <2>1. 0 < FrameUnits
    BY ReaderAssumption
  <2> QED BY <2>1 DEF ReaderInit, EndInv, EndIsComplete, LeftOver
<1>2. EndInv => EndIsComplete
  BY DEF EndInv
<1> QED BY <1>1, <1>2, EndStep, PTL DEF ReaderSpec

=============================================================================
