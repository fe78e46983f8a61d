---------------------------- MODULE PipelineProofs ----------------------------
(***************************************************************************)
(* Safety of Pipeline for any pre-roll, limits and number of utterances:   *)
(* the numbering of the captions, what the page shows, and that nothing    *)
(* queued is lost.                                                         *)
(***************************************************************************)
EXTENDS Pipeline, TLAPS

AtFinal == at \in {"final", "publishFinal"}
AtPartial == at \in {"partial", "publishPartial"}

\* An utterance the segmenter is through with.
Whole(u) == u <= current /\ (reader # "ended" => u < current)

\* No further FINAL: the loop is over, or next comes the end marker.
Closing == at \in Over \/ (~AtFinal /\ queue # <<>> /\ queue[1] = Eof)

ReaderShape ==
    /\ size > 0 => current <= MaxUtts /\ reader # "ended"
    /\ at \in Over => reader # "reading"
    /\ at = "ended" => queue = <<>>
    /\ reader # "reading" /\ at \notin Over => queue # <<>> /\ queue[Len(queue)] = Eof

\* The queue holds utterances in order, and the end marker behind them.
QueueShape ==
    /\ \A i \in 1..Len(queue) : queue[i] # Eof => Whole(queue[i])
    /\ \A i \in 1..Len(queue) : queue[i] = Eof => i = Len(queue) /\ reader # "reading"
    /\ \A i, j \in 1..Len(queue) : i < j /\ queue[j] # Eof => queue[i] < queue[j]

\* The utterances before those in the queue.
Behind ==
    {u \in 1..MaxUtts :
        Whole(u) /\ \A j \in 1..Len(queue) : queue[j] # Eof => u < queue[j]}

FinalsShape ==
    /\ AtFinal => work.utt \in Behind
    /\ \A i \in DOMAIN finals :
          finals[i].utt \in Behind /\ (AtFinal => finals[i].utt < work.utt)
    /\ \A i, j \in DOMAIN finals : i < j => finals[i].utt < finals[j].utt

\* What the reader can do between the timeout of get() and the loop.
IdleShape ==
    /\ at = "expired" => queue = <<>>
    /\ at = "raced" => queue = <<>> \/ queue = <<Eof>> \/ size <= 1

Numbers ==
    /\ at \notin {"publishFinal", "failed", "cancelled"} => nextSeq = StartSeq + Len(finals)
    /\ at = "publishFinal" => work.seq = StartSeq + Len(finals) /\ nextSeq = work.seq + 1
    /\ \A i \in DOMAIN finals : finals[i].seq = StartSeq + i - 1

\* The next utterance that may become a FINAL, and the number it then has.
NextUtt == IF AtFinal THEN work.utt ELSE IF queue # <<>> THEN queue[1] ELSE current
NextNum == IF at = "publishFinal" THEN work.seq ELSE nextSeq

\* A PARTIAL of the next utterance has the number its FINAL will have; others
\* are of earlier utterances.
Fitting ==
    {p \in Captions :
        p.utt <= NextUtt /\ p.seq <= NextNum /\ (p.utt = NextUtt => p.seq = NextNum)}
PartialsFit == ~Closing => partials \subseteq Fitting /\ (AtPartial => work \in Fitting)

PageShape ==
    /\ shown = NoPartial \/ shown \in partials
    /\ AtPartial => \A i \in DOMAIN finals : finals[i].utt < work.utt

\* Where a queued utterance can be.
Accounted ==
    {u \in 1..MaxUtts :
        \/ u \in dropped
        \/ \E j \in DOMAIN finals : finals[j].utt = u
        \/ \E j \in 1..Len(queue) : queue[j] = u
        \/ AtFinal /\ work.utt = u
        \/ at \in {"failed", "cancelled"}}
Kept == \A i \in DOMAIN queued : queued[i] \in Accounted

IInv ==
    /\ TypeOK /\ ReaderShape /\ QueueShape /\ FinalsShape /\ IdleShape
    /\ Numbers /\ PartialsFit /\ PageShape /\ Kept
    /\ FinalReplacesPartial /\ PageIsCurrent

-----------------------------------------------------------------------------
\* What Append and Tail do to a sequence.
LEMMA AppendOne ==
    ASSUME NEW S, NEW q \in Seq(S), NEW n \in S
    PROVE  /\ Append(q, n) \in Seq(S)
           /\ Len(q) \in Nat /\ DOMAIN q = 1..Len(q)
           /\ Len(Append(q, n)) = Len(q) + 1
           /\ DOMAIN Append(q, n) = 1..(Len(q) + 1)
           /\ Append(q, n) # <<>>
           /\ q = <<>> <=> Len(q) = 0
           /\ \A i \in 1..Len(q) : Append(q, n)[i] = q[i]
           /\ Append(q, n)[Len(q) + 1] = n
           /\ \A i \in 1..(Len(q) + 1) :
                 (i \in 1..Len(q) /\ Append(q, n)[i] = q[i])
                 \/ (i = Len(q) + 1 /\ Append(q, n)[i] = n)
OBVIOUS

LEMMA AppendTwo ==
    ASSUME NEW S, NEW q \in Seq(S), NEW n \in S, NEW m \in S
    PROVE  LET r == Append(Append(q, n), m) IN
           /\ r \in Seq(S) /\ r # <<>>
           /\ Len(q) \in Nat /\ Len(r) = Len(q) + 2
           /\ q = <<>> <=> Len(q) = 0
           /\ \A i \in 1..Len(q) : r[i] = q[i]
           /\ r[Len(q) + 1] = n /\ r[Len(q) + 2] = m
<1> DEFINE p == Append(q, n)
<1>1. /\ p \in Seq(S) /\ Len(p) = Len(q) + 1 /\ Len(q) \in Nat /\ p[Len(q) + 1] = n
      /\ q = <<>> <=> Len(q) = 0
      /\ \A i \in 1..Len(q) : p[i] = q[i]
  BY AppendOne
<1> HIDE DEF p
<1>2. /\ Append(p, m) \in Seq(S) /\ Append(p, m) # <<>> /\ Len(Append(p, m)) = Len(p) + 1
      /\ \A i \in 1..Len(p) : Append(p, m)[i] = p[i]
      /\ Append(p, m)[Len(p) + 1] = m
  BY <1>1, AppendOne
<1>3. /\ Append(p, m) \in Seq(S) /\ Append(p, m) # <<>> /\ Len(Append(p, m)) = Len(q) + 2
      /\ \A i \in 1..Len(q) : Append(p, m)[i] = q[i]
      /\ Append(p, m)[Len(q) + 1] = n /\ Append(p, m)[Len(q) + 2] = m
  BY <1>1, <1>2
<1> QED BY <1>1, <1>3 DEF p

LEMMA TailOne ==
    ASSUME NEW S, NEW q \in Seq(S), q # <<>>
    PROVE  /\ Tail(q) \in Seq(S) /\ Head(q) \in S /\ Head(q) = q[1]
           /\ Len(q) \in Nat \ {0} /\ Len(Tail(q)) = Len(q) - 1
           /\ Tail(q) = <<>> <=> Len(q) = 1
           /\ \A i \in 1..Len(Tail(q)) :
                 i + 1 \in 1..Len(q) /\ Tail(q)[i] = q[i + 1]
           /\ \A j \in 1..Len(q) :
                 j # 1 => j - 1 \in 1..Len(Tail(q)) /\ Tail(q)[j - 1] = q[j]
           /\ Tail(q) # <<>> => Tail(q)[Len(Tail(q))] = q[Len(q)]
<1>1. /\ Tail(q) \in Seq(S) /\ Head(q) \in S /\ Head(q) = q[1]
      /\ Len(q) \in Nat \ {0} /\ Len(Tail(q)) = Len(q) - 1
      /\ \A i \in 1..Len(Tail(q)) : Tail(q)[i] = q[i + 1]
  OBVIOUS
<1>2. Tail(q) = <<>> <=> Len(Tail(q)) = 0
  BY <1>1
<1>3. \A i \in 1..Len(Tail(q)) : i + 1 \in 1..Len(q)
  BY <1>1
<1>4. \A j \in 1..Len(q) : j # 1 => j - 1 \in 1..Len(Tail(q)) /\ Tail(q)[j - 1] = q[j]
  <2> TAKE j \in 1..Len(q)
  <2>1. j # 1 => j - 1 \in 1..Len(Tail(q)) /\ (j - 1) + 1 = j
    BY <1>1
  <2> QED BY <1>1, <2>1
<1>5. Tail(q) # <<>> => Len(q) \in 1..Len(q) /\ Len(q) # 1
  BY <1>1, <1>2
<1> QED BY <1>1, <1>2, <1>3, <1>4, <1>5

LEMMA ElementOf ==
    ASSUME NEW S, NEW q \in Seq(S)
    PROVE  /\ Len(q) \in Nat /\ DOMAIN q = 1..Len(q)
           /\ q = <<>> <=> Len(q) = 0
           /\ \A i \in DOMAIN q : q[i] \in S
OBVIOUS

\* The end marker, with and without a flushed utterance.
LEMMA LastAppended ==
    ASSUME NEW S, NEW q \in Seq(S), NEW u \in S, Eof \in S, NEW f \in BOOLEAN
    PROVE  /\ q \o LastItems(<<u>>, f) = Append(Append(q, u), Eof)
           /\ q \o LastItems(<<>>, f) = Append(q, Eof)
BY DEF LastItems

\* The types and sizes the steps below use again and again.
LEMMA Bounds ==
    ASSUME TypeOK
    PROVE  /\ MaxUtts \in Nat /\ HardMax \in Nat
           /\ current \in 1..(MaxUtts + 1) /\ size \in 0..HardMax
           /\ nextSeq \in Nat /\ work.utt \in Nat /\ work.seq \in Nat
BY PipelineAssumption DEF TypeOK, Captions, PipelineAssumption

LEMMA QueueFacts ==
    ASSUME TypeOK
    PROVE  /\ queue \in Seq(0..MaxUtts) /\ Len(queue) \in Nat
           /\ queue = <<>> <=> Len(queue) = 0
           /\ \A i \in 1..Len(queue) : queue[i] \in 0..MaxUtts
BY ElementOf DEF TypeOK

LEMMA QueuedFacts ==
    ASSUME TypeOK
    PROVE  /\ queued \in Seq(1..MaxUtts)
           /\ Len(queued) \in Nat /\ DOMAIN queued = 1..Len(queued)
           /\ \A i \in 1..Len(queued) : queued[i] \in 1..MaxUtts
BY ElementOf DEF TypeOK

LEMMA FinalsFacts ==
    ASSUME TypeOK
    PROVE  /\ Len(finals) \in Nat /\ DOMAIN finals = 1..Len(finals)
           /\ \A i \in 1..Len(finals) :
                 finals[i] \in Captions /\ finals[i].utt \in Nat /\ finals[i].seq \in Nat
<1>1. \A c \in Captions : c.utt \in Nat /\ c.seq \in Nat
  BY DEF Captions
<1>2. finals \in Seq(Captions)
  BY DEF TypeOK
<1> QED BY <1>1, <1>2, ElementOf

\* The initial state.
LEMMA InitIInv == Init => IInv
<1> SUFFICES ASSUME Init PROVE IInv
  OBVIOUS
<1> USE PipelineAssumption DEF PipelineAssumption, Init
<1>1. NoPartial \in Captions
  BY DEF NoPartial, Captions
<1>2. /\ <<>> \in Seq(0..MaxUtts) /\ <<>> \in Seq(1..MaxUtts) /\ <<>> \in Seq(Captions)
      /\ Len(<<>>) = 0 /\ DOMAIN <<>> = 1..0
  OBVIOUS
<1>3. TypeOK
  BY <1>1, <1>2 DEF TypeOK
<1>4. ReaderShape /\ QueueShape /\ IdleShape
  BY <1>2 DEF ReaderShape, QueueShape, IdleShape, Over
<1>5. FinalsShape /\ Numbers /\ PartialsFit
  BY <1>2 DEF FinalsShape, Numbers, PartialsFit, AtFinal, AtPartial
<1>6. PageShape /\ Kept /\ FinalReplacesPartial /\ PageIsCurrent
  BY <1>2 DEF PageShape, Kept, AtPartial, FinalReplacesPartial, PageIsCurrent
<1> QED BY <1>3, <1>4, <1>5, <1>6 DEF IInv

-----------------------------------------------------------------------------
(* The reader.                                                             *)

\* A step of the reader that keeps what is behind the queue behind it, and never
\* brings an earlier utterance back, disturbs nothing of the captions.
LEMMA ReaderKeeps ==
    ASSUME IInv, ReaderStep, Behind \subseteq Behind',
           ~Closing' => ~Closing /\ NextUtt \in Nat /\ NextUtt' \in Nat /\ NextUtt <= NextUtt'
    PROVE  /\ FinalsShape' /\ Numbers' /\ PartialsFit' /\ PageShape'
           /\ FinalReplacesPartial' /\ PageIsCurrent'
<1> USE DEF IInv
<1>1. /\ UNCHANGED <<nextSeq, lastSize, work, shown, finals, partials, dropped>>
      /\ at' = at \/ (at = "expired" /\ at' = "raced")
  BY DEF ReaderStep, page
<1>2. AtFinal' = AtFinal /\ AtPartial' = AtPartial
  BY <1>1 DEF AtFinal, AtPartial
<1>3. FinalsShape'
  BY <1>1, <1>2 DEF FinalsShape
<1>4. Numbers'
  BY <1>1 DEF Numbers
<1>5. PartialsFit'
  <2> SUFFICES ASSUME ~Closing' PROVE partials \subseteq Fitting' /\ (AtPartial => work \in Fitting')
    BY <1>1, <1>2 DEF PartialsFit
  <2>1. NextNum' = NextNum
    BY <1>1 DEF NextNum
  <2>2. Fitting \subseteq Fitting'
    BY <2>1 DEF Fitting, Captions
  <2> QED BY <2>2 DEF PartialsFit
<1>6. PageShape' /\ FinalReplacesPartial' /\ PageIsCurrent'
  BY <1>1, <1>2 DEF PageShape, FinalReplacesPartial, PageIsCurrent
<1> QED BY <1>3, <1>4, <1>5, <1>6

\* A chunk that closes nothing.
LEMMA ChunkStep == ASSUME IInv, Onset \/ Grow PROVE IInv'
<1> USE PipelineAssumption DEF IInv
<1>1. /\ ReaderStep /\ reader = "reading" /\ at # "raced"
      /\ at' = IF at = "expired" THEN "raced" ELSE at
      /\ UNCHANGED <<reader, current, queue, queued, nextSeq, lastSize, work, shown,
                     finals, partials, dropped>>
      /\ current <= MaxUtts
  BY DEF Onset, Grow, ReaderStep, page, ReaderShape
<1>2. size' \in 0..HardMax
  BY DEF Onset, Grow, PipelineAssumption, TypeOK
<1>3. TypeOK'
  BY <1>1, <1>2 DEF TypeOK
<1>4. ReaderShape' /\ QueueShape' /\ IdleShape'
  BY <1>1 DEF ReaderShape, QueueShape, IdleShape, Whole, Over
<1>5. AtFinal' = AtFinal
  BY <1>1 DEF AtFinal
<1>6. Behind' = Behind /\ Closing' = Closing /\ NextUtt' = NextUtt
  BY <1>1, <1>5 DEF Behind, Whole, Closing, Over, NextUtt
<1>7. NextUtt \in Nat
  BY Bounds, QueueFacts DEF NextUtt, TypeOK
<1>8. Kept'
  BY <1>1, <1>5 DEF Kept, Accounted
<1> QED BY <1>1, <1>3, <1>4, <1>6, <1>7, <1>8, ReaderKeeps

\* The utterance in progress is closed, and queued or dropped.
LEMMA CloseStep == ASSUME IInv, Close PROVE IInv'
<1> USE DEF IInv
<1>1. /\ ReaderStep /\ reader = "reading" /\ reader' = "reading" /\ at # "raced"
      /\ at' = IF at = "expired" THEN "raced" ELSE at
      /\ UNCHANGED <<nextSeq, lastSize, work, shown, finals, partials, dropped>>
      /\ size > 0 /\ current \in 1..MaxUtts /\ current' = current + 1
      /\ size' = 0 \/ (size' = 1 /\ current < MaxUtts)
      /\ current' \in 1..(MaxUtts + 1) /\ size' \in 0..HardMax
  BY Bounds, QueueFacts DEF Close, ReaderStep, page, ReaderShape
<1>2. AtFinal' = AtFinal /\ at \notin Over /\ at' \notin Over
  BY <1>1 DEF AtFinal, ReaderShape, Over
<1>3. \A i \in 1..Len(queue) : queue[i] # Eof /\ queue[i] < current
  BY <1>1 DEF QueueShape, Whole
<1>4. CASE queue' = queue /\ queued' = queued
  <2>1. TypeOK'
    BY <1>1, <1>4 DEF TypeOK
  <2>2. ReaderShape' /\ IdleShape'
    BY <1>1, <1>2, <1>4, Bounds, QueueFacts DEF ReaderShape, IdleShape, Over
  <2>7. QueueShape'
    BY <1>1, <1>3, <1>4, Bounds, QueueFacts DEF QueueShape, Whole
  <2>3. Behind \subseteq Behind'
    BY <1>1, <1>4 DEF Behind, Whole
  <2>4. NextUtt \in Nat /\ NextUtt' \in Nat /\ NextUtt <= NextUtt'
    BY <1>1, <1>2, <1>4, Bounds, QueueFacts DEF NextUtt
  <2>5. Closing' = Closing
    BY <1>1, <1>2, <1>4 DEF Closing, Over
  <2>6. Kept'
    BY <1>1, <1>2, <1>4 DEF Kept, Accounted
  <2> QED BY <1>1, <2>1, <2>2, <2>3, <2>4, <2>5, <2>6, <2>7, ReaderKeeps
<1>5. CASE queue' = Append(queue, current) /\ queued' = Append(queued, current)
  <2>1. queue \in Seq(0..MaxUtts) /\ queued \in Seq(1..MaxUtts) /\ current \in 0..MaxUtts
    BY <1>1 DEF TypeOK
  <2>2. /\ queue' \in Seq(0..MaxUtts) /\ queue' # <<>>
        /\ Len(queue) \in Nat /\ Len(queue') = Len(queue) + 1
        /\ queue = <<>> <=> Len(queue) = 0
        /\ \A i \in 1..Len(queue) : queue'[i] = queue[i]
        /\ queue'[Len(queue) + 1] = current
        /\ \A i \in 1..Len(queue') : (i \in 1..Len(queue) /\ queue'[i] = queue[i])
                                      \/ (i = Len(queue) + 1 /\ queue'[i] = current)
    BY <1>5, <2>1, AppendOne
  <2>3. /\ queued' \in Seq(1..MaxUtts)
        /\ Len(queued) \in Nat /\ DOMAIN queued = 1..Len(queued)
        /\ DOMAIN queued' = 1..(Len(queued) + 1)
        /\ \A i \in 1..Len(queued) : queued'[i] = queued[i]
        /\ queued'[Len(queued) + 1] = current
        /\ \A i \in DOMAIN queued' : (i \in 1..Len(queued) /\ queued'[i] = queued[i])
                                      \/ (i = Len(queued) + 1 /\ queued'[i] = current)
    BY <1>1, <1>5, <2>1, AppendOne
  <2>4. TypeOK'
    BY <1>1, <2>2, <2>3 DEF TypeOK
  <2>5. QueueShape'
    <3>1. \A i \in 1..Len(queue') : queue'[i] # Eof /\ queue'[i] < current'
      BY <1>1, <1>3, <2>2, QueueFacts DEF Eof
    <3>2. ASSUME NEW i \in 1..Len(queue'), NEW j \in 1..Len(queue'), i < j
          PROVE  queue'[i] < queue'[j]
      <4>1. i \in 1..Len(queue) /\ queue'[i] = queue[i] /\ queue[i] < current
        BY <1>3, <2>2, <3>2
      <4>2. CASE j \in 1..Len(queue) /\ queue'[j] = queue[j]
        BY <1>3, <3>2, <4>1, <4>2 DEF QueueShape
      <4>3. CASE queue'[j] = current
        BY <4>1, <4>3
      <4>4. (j \in 1..Len(queue) /\ queue'[j] = queue[j]) \/ queue'[j] = current
        BY <2>2
      <4> QED BY <4>2, <4>3, <4>4
    <3>3. \A i \in 1..Len(queue') : queue'[i] <= current' /\ queue'[i] < current'
      BY <1>1, <2>2, <3>1, QueueFacts
    <3> QED BY <3>1, <3>2, <3>3 DEF QueueShape, Whole
  <2>6. ReaderShape' /\ IdleShape'
    BY <1>1, <1>2, <2>2, Bounds, QueueFacts DEF ReaderShape, IdleShape, Over
  <2>7. Behind \subseteq Behind'
    <3>1. ASSUME NEW u \in Behind, NEW j \in 1..Len(queue') PROVE u < queue'[j]
      BY <1>1, <1>3, <2>2 DEF Behind, Whole
    <3>2. \A u \in Behind : u \in 1..MaxUtts /\ u <= current' /\ u < current'
      BY <1>1 DEF Behind, Whole
    <3> QED BY <3>1, <3>2 DEF Behind, Whole
  <2>8. NextUtt \in Nat /\ NextUtt' \in Nat /\ NextUtt <= NextUtt'
    BY <1>1, <1>2, <2>2, Bounds, QueueFacts DEF NextUtt
  <2>9. ~Closing
    BY <1>2, <1>3, <2>2 DEF Closing
  <2>10. Kept'
    <3>1. Accounted \subseteq Accounted'
      BY <1>1, <1>2, <2>2 DEF Accounted
    <3>2. current \in Accounted'
      BY <1>1, <2>2 DEF Accounted
    <3> QED BY <2>3, <3>1, <3>2 DEF Kept
  <2> QED BY <1>1, <2>4, <2>5, <2>6, <2>7, <2>8, <2>9, <2>10, ReaderKeeps
<1> QED BY <1>4, <1>5 DEF Close

\* The audio ends: the flush, if any, and the end marker.
LEMMA ReadEndsStep == ASSUME IInv, ReadEnds \/ ReadFails PROVE IInv'
<1> USE DEF IInv
<1>1. /\ ReaderStep /\ reader = "reading" /\ reader' \in {"ended", "failed"} /\ at # "raced"
      /\ at' = IF at = "expired" THEN "raced" ELSE at
      /\ UNCHANGED <<nextSeq, lastSize, work, shown, finals, partials, dropped, current>>
      /\ size' = 0 \/ (size' = size /\ reader' = "failed")
  BY DEF ReadEnds, ReadFails, ReaderStep, page
<1>2. AtFinal' = AtFinal /\ at \notin Over /\ at' \notin Over
  BY <1>1 DEF AtFinal, ReaderShape, Over
<1>3. \A i \in 1..Len(queue) : queue[i] # Eof /\ queue[i] < current /\ queue[i] \in Nat
  BY <1>1, Bounds, QueueFacts DEF QueueShape, Whole
<1>4. queue \in Seq(0..MaxUtts) /\ queued \in Seq(1..MaxUtts) /\ Eof \in 0..MaxUtts
  BY PipelineAssumption DEF TypeOK, Eof, PipelineAssumption
<1>5. ~Closing
  BY <1>2, <1>3, Bounds, QueueFacts DEF Closing
<1>6. CASE queue' = Append(queue, Eof) /\ queued' = queued
  <2>2. /\ queue' \in Seq(0..MaxUtts) /\ queue' # <<>>
        /\ Len(queue) \in Nat /\ Len(queue') = Len(queue) + 1
        /\ queue = <<>> <=> Len(queue) = 0
        /\ \A i \in 1..Len(queue) : queue'[i] = queue[i]
        /\ queue'[Len(queue) + 1] = Eof
        /\ \A i \in 1..Len(queue') : (i \in 1..Len(queue) /\ queue'[i] = queue[i])
                                      \/ (i = Len(queue) + 1 /\ queue'[i] = Eof)
    BY <1>4, <1>6, AppendOne
  <2>4. TypeOK'
    BY <1>1, <1>6, <2>2, Bounds DEF TypeOK
  <2>5. QueueShape'
    <3>1. ASSUME NEW i \in 1..Len(queue'), NEW j \in 1..Len(queue'), i < j, queue'[j] # Eof
          PROVE  queue'[i] < queue'[j]
      <4>1. i \in 1..Len(queue) /\ queue'[i] = queue[i]
        BY <2>2, <3>1
      <4>2. j \in 1..Len(queue) /\ queue'[j] = queue[j]
        BY <2>2, <3>1
      <4> QED BY <3>1, <4>1, <4>2 DEF QueueShape
    <3>2. \A i \in 1..Len(queue') : queue'[i] # Eof => queue'[i] < current'
      BY <1>1, <1>3, <2>2
    <3>3. \A i \in 1..Len(queue') : queue'[i] = Eof => i = Len(queue')
      BY <1>3, <2>2
    <3>4. \A i \in 1..Len(queue') : queue'[i] # Eof => queue'[i] <= current'
      <4>1. \A i \in 1..Len(queue) : queue[i] <= current
        BY <1>3, Bounds
      <4> QED BY <1>1, <2>2, <4>1
    <3> QED BY <1>1, <3>1, <3>2, <3>3, <3>4 DEF QueueShape, Whole
  <2>6. ReaderShape'
    BY <1>1, <1>2, <2>2, Bounds, QueueFacts DEF ReaderShape, Over
  <2>7. IdleShape'
    <3>1. queue = <<>> => queue' = <<Eof>>
      BY <1>6
    <3> QED BY <1>1, <3>1 DEF IdleShape
  <2>8. Behind \subseteq Behind'
    BY <1>1, <2>2, Bounds, QueueFacts DEF Behind, Whole, Eof
  <2>9. ~Closing' => NextUtt \in Nat /\ NextUtt' = NextUtt
    <3>1. CASE AtFinal
      BY <1>1, <1>2, <3>1, Bounds DEF NextUtt
    <3>2. CASE ~AtFinal /\ queue = <<>>
      BY <1>2, <2>2, <3>2 DEF Closing, NextUtt
    <3>3. CASE ~AtFinal /\ queue # <<>>
      BY <1>1, <1>2, <2>2, <3>3, QueueFacts DEF NextUtt
    <3> QED BY <1>2, <3>1, <3>2, <3>3 DEF Closing, NextUtt
  <2>10. Kept'
    BY <1>1, <1>2, <1>6, <2>2 DEF Kept, Accounted
  <2> QED BY <1>1, <1>5, <2>4, <2>5, <2>6, <2>7, <2>8, <2>9, <2>10, ReaderKeeps
<1>7. CASE /\ queue' = Append(Append(queue, current), Eof)
           /\ queued' = Append(queued, current)
           /\ size > 0 /\ size' = 0 /\ reader' = "ended"
  <2>1. current \in 1..MaxUtts /\ current \in 0..MaxUtts
    BY <1>7 DEF ReaderShape, TypeOK
  <2>2. /\ queue' \in Seq(0..MaxUtts) /\ queue' # <<>>
        /\ Len(queue) \in Nat /\ Len(queue') = Len(queue) + 2
        /\ queue = <<>> <=> Len(queue) = 0
        /\ \A i \in 1..Len(queue) : queue'[i] = queue[i]
        /\ queue'[Len(queue) + 1] = current /\ queue'[Len(queue) + 2] = Eof
    BY <1>4, <1>7, <2>1, AppendTwo
  <2>4. \A i \in 1..Len(queue') :
           \/ i \in 1..Len(queue) /\ queue'[i] = queue[i]
           \/ i = Len(queue) + 1 /\ queue'[i] = current
           \/ i = Len(queue) + 2 /\ queue'[i] = Eof
    <3>1. \A i \in 1..Len(queue') :
             i \in 1..Len(queue) \/ i = Len(queue) + 1 \/ i = Len(queue) + 2
      <4>1. Len(queue) \in Nat /\ Len(queue') = Len(queue) + 2
        BY <2>2
      <4> QED BY <4>1
    <3> QED BY <2>2, <3>1
  <2>5. /\ queued' \in Seq(1..MaxUtts)
        /\ Len(queued) \in Nat /\ DOMAIN queued = 1..Len(queued)
        /\ DOMAIN queued' = 1..(Len(queued) + 1)
        /\ \A i \in 1..Len(queued) : queued'[i] = queued[i]
        /\ queued'[Len(queued) + 1] = current
        /\ \A i \in DOMAIN queued' : (i \in 1..Len(queued) /\ queued'[i] = queued[i])
                                      \/ (i = Len(queued) + 1 /\ queued'[i] = current)
    BY <1>4, <1>7, <2>1, AppendOne
  <2>6. TypeOK'
    BY <1>1, <1>7, <2>2, <2>5, Bounds DEF TypeOK
  <2>7. QueueShape'
    <3>1. ASSUME NEW i \in 1..Len(queue'), NEW j \in 1..Len(queue'), i < j, queue'[j] # Eof
          PROVE  queue'[i] < queue'[j]
      <4>1. i \in 1..Len(queue) /\ queue'[i] = queue[i] /\ queue[i] < current
        BY <1>3, <2>2, <2>4, <3>1
      <4>2. CASE j \in 1..Len(queue) /\ queue'[j] = queue[j]
        BY <3>1, <4>1, <4>2 DEF QueueShape
      <4>3. CASE queue'[j] = current
        BY <4>1, <4>3
      <4> QED BY <2>4, <3>1, <4>2, <4>3
    <3>2. \A i \in 1..Len(queue') : queue'[i] # Eof => queue'[i] <= current'
      BY <1>1, <1>3, <2>1, <2>4, QueueFacts
    <3>3. \A i \in 1..Len(queue') : queue'[i] = Eof => i = Len(queue')
      BY <1>3, <2>1, <2>2, <2>4 DEF Eof
    <3> QED BY <1>7, <3>1, <3>2, <3>3 DEF QueueShape, Whole
  <2>8. ReaderShape'
    BY <1>1, <1>2, <1>7, <2>2, Bounds DEF ReaderShape, Over
  <2>9. IdleShape'
    BY <1>1, <1>7 DEF IdleShape
  <2>10. Behind \subseteq Behind'
    BY <1>1, <2>2, <2>4, Bounds, QueueFacts DEF Behind, Whole, Eof
  <2>11. NextUtt \in Nat /\ NextUtt' = NextUtt
    <3>1. CASE AtFinal
      BY <1>1, <1>2, <3>1, Bounds DEF NextUtt
    <3>2. CASE ~AtFinal /\ queue = <<>>
      BY <1>2, <2>1, <2>2, <3>2 DEF NextUtt
    <3>3. CASE ~AtFinal /\ queue # <<>>
      BY <1>1, <1>2, <2>2, <3>3, QueueFacts DEF NextUtt
    <3> QED BY <3>1, <3>2, <3>3
  <2>12. Kept'
    <3>1. Accounted \subseteq Accounted'
      BY <1>1, <1>2, <2>2 DEF Accounted
    <3>2. current \in Accounted'
      BY <2>1, <2>2 DEF Accounted
    <3> QED BY <2>5, <3>1, <3>2 DEF Kept
  <2> QED BY <1>1, <1>5, <2>6, <2>7, <2>8, <2>9, <2>10, <2>11, <2>12, ReaderKeeps
<1> QED
  <2>1. CASE ReadFails
    BY <1>4, <1>6, <2>1, LastAppended DEF ReadFails
  <2>2. CASE ReadEnds
    <3>1. CASE /\ size > 0
               /\ queue' = queue \o LastItems(<<current>>, FALSE)
               /\ queued' = Append(queued, current)
      <4>1. current \in 0..MaxUtts
        BY <3>1 DEF ReaderShape, TypeOK
      <4>2. queue' = Append(Append(queue, current), Eof)
        BY <1>4, <3>1, <4>1, LastAppended
      <4> QED BY <1>7, <2>2, <3>1, <4>2 DEF ReadEnds
    <3>2. CASE queue' = queue \o LastItems(<<>>, FALSE) /\ UNCHANGED queued
      BY <1>4, <1>6, <3>2, LastAppended
    <3> QED BY <2>2, <3>1, <3>2 DEF ReadEnds
  <2> QED BY <2>1, <2>2

-----------------------------------------------------------------------------
(* The ASR loop.                                                           *)

\* The head of the queue becomes the utterance at work.
LEMMA TakeUtteranceStep == ASSUME IInv, TakeUtterance PROVE IInv'
<1> USE DEF IInv
<1>1. /\ at = "waiting" /\ at' = "final" /\ queue # <<>> /\ queue' = Tail(queue)
      /\ UNCHANGED <<reader, current, size, nextSeq, lastSize, shown, finals, partials,
                     queued, dropped>>
      /\ Head(queue) # Eof /\ work' = [utt |-> Head(queue), seq |-> 0]
  BY DEF TakeUtterance, source, page, history
<1>2. /\ queue' \in Seq(0..MaxUtts) /\ Len(queue) \in Nat \ {0}
      /\ Len(queue') = Len(queue) - 1 /\ (queue' = <<>> <=> Len(queue) = 1)
      /\ Head(queue) = queue[1] /\ queue[1] \in 0..MaxUtts
      /\ \A j \in 1..Len(queue) :
            j # 1 => j - 1 \in 1..Len(queue') /\ queue'[j - 1] = queue[j]
      /\ queue' # <<>> => queue'[Len(queue')] = queue[Len(queue)]
  BY <1>1, QueueFacts, TailOne
<1>3. queue[1] \in 1..MaxUtts /\ queue[1] # Eof
  BY <1>1, <1>2, Bounds DEF Eof
<1>4. /\ work'.utt = queue[1] /\ work' \in Captions
      /\ AtFinal' /\ ~AtFinal /\ ~AtPartial' /\ at \notin Over /\ at' \notin Over
  BY <1>1, <1>2, <1>3, Bounds DEF Captions, AtFinal, AtPartial, Over
<1>5. TypeOK'
  BY <1>1, <1>2, <1>4 DEF TypeOK
<1>6. \A i \in 1..Len(queue') :
         /\ i + 1 \in 1..Len(queue) /\ queue'[i] = queue[i + 1]
         /\ 1 < i + 1 /\ (i = Len(queue') <=> i + 1 = Len(queue))
  <2>1. \A i \in 1..Len(queue') : i + 1 \in 1..Len(queue) /\ queue'[i] = queue[i + 1]
    BY <1>1, QueueFacts, TailOne
  <2>2. \A i \in 1..Len(queue') : 1 < i + 1 /\ (i = Len(queue') <=> i + 1 = Len(queue))
    <3>1. Len(queue) \in Nat \ {0} /\ Len(queue') = Len(queue) - 1
      BY <1>2
    <3> QED BY <3>1
  <2> QED BY <2>1, <2>2
<1>7. ReaderShape'
  <2>1. reader # "reading" => queue[Len(queue)] = Eof /\ Len(queue) > 1
    BY <1>2, <1>3, <1>4 DEF ReaderShape
  <2>2. reader # "reading" => queue' # <<>> /\ queue'[Len(queue')] = Eof
    <3>1. Len(queue) > 1 => queue' # <<>>
      BY <1>2
    <3> QED BY <1>2, <2>1, <3>1
  <2> QED BY <1>1, <1>4, <2>2 DEF ReaderShape, Over
<1>8. QueueShape'
  <2>1. ASSUME NEW i \in 1..Len(queue')
        PROVE  /\ queue'[i] # Eof => queue'[i] <= current /\ (reader # "ended" => queue'[i] < current)
               /\ queue'[i] = Eof => i = Len(queue') /\ reader # "reading"
    BY <1>6 DEF QueueShape, Whole
  <2>2. ASSUME NEW i \in 1..Len(queue'), NEW j \in 1..Len(queue'), i < j, queue'[j] # Eof
        PROVE  queue'[i] < queue'[j]
    <3>1. /\ i + 1 \in 1..Len(queue) /\ j + 1 \in 1..Len(queue) /\ i + 1 < j + 1
          /\ queue'[i] = queue[i + 1] /\ queue'[j] = queue[j + 1]
      BY <1>6, <2>2
    <3> QED BY <2>2, <3>1 DEF QueueShape
  <2> QED BY <1>1, <2>1, <2>2 DEF QueueShape, Whole
<1>9. FinalsShape'
  <2>1. queue[1] \in Behind'
    <3>1. ASSUME NEW j \in 1..Len(queue'), queue'[j] # Eof PROVE queue[1] < queue'[j]
      <4>1. 1 \in 1..Len(queue) /\ j + 1 \in 1..Len(queue) /\ 1 < j + 1 /\ queue'[j] = queue[j + 1]
        BY <1>2, <1>6
      <4> QED BY <3>1, <4>1 DEF QueueShape
    <3>2. queue[1] <= current /\ (reader # "ended" => queue[1] < current)
      BY <1>2, <1>3 DEF QueueShape, Whole
    <3> QED BY <1>1, <1>3, <3>1, <3>2 DEF Behind, Whole
  <2>2. Behind \subseteq Behind'
    BY <1>1, <1>6 DEF Behind, Whole
  <2>3. \A u \in Behind : u < queue[1]
    BY <1>2, <1>3 DEF Behind
  <2> QED BY <1>1, <1>4, <2>1, <2>2, <2>3 DEF FinalsShape
<1>10. IdleShape' /\ Numbers'
  BY <1>1 DEF IdleShape, Numbers
<1>11. PartialsFit'
  <2>1. ~Closing
    BY <1>3, <1>4 DEF Closing
  <2>2. NextUtt' = NextUtt /\ NextNum' = NextNum
    BY <1>1, <1>4 DEF NextUtt, NextNum
  <2>3. Fitting' = Fitting
    BY <2>2 DEF Fitting
  <2> QED BY <1>1, <1>4, <2>1, <2>3 DEF PartialsFit
<1>12. Kept'
  <2>1. ASSUME NEW u \in Accounted, NEW j \in 1..Len(queue), queue[j] = u PROVE u \in Accounted'
    <3>1. CASE j = 1
      BY <1>3, <1>4, <2>1, <3>1 DEF Accounted
    <3>2. CASE j # 1
      <4>1. j - 1 \in 1..Len(queue') /\ queue'[j - 1] = u
        BY <1>2, <2>1, <3>2
      <4> QED BY <4>1, <2>1 DEF Accounted
    <3> QED BY <3>1, <3>2
  <2>2. ASSUME NEW u \in Accounted, u \in dropped \/ \E j \in DOMAIN finals : finals[j].utt = u
        PROVE  u \in Accounted'
    BY <1>1, <2>2 DEF Accounted
  <2>3. \A u \in Accounted : \/ u \in dropped \/ \E j \in DOMAIN finals : finals[j].utt = u
                             \/ \E j \in 1..Len(queue) : queue[j] = u
    BY <1>1, <1>4 DEF Accounted
  <2>4. Accounted \subseteq Accounted'
    BY <2>1, <2>2, <2>3
  <2> QED BY <1>1, <2>4 DEF Kept
<1>13. PageShape' /\ FinalReplacesPartial' /\ PageIsCurrent'
  BY <1>1, <1>4 DEF PageShape, FinalReplacesPartial, PageIsCurrent
<1> QED BY <1>5, <1>7, <1>8, <1>9, <1>10, <1>11, <1>12, <1>13

\* The end marker is the last item, and ends the loop.
LEMMA TakeEofStep == ASSUME IInv, TakeEof PROVE IInv'
<1> USE DEF IInv
<1>1. /\ at = "waiting" /\ queue # <<>> /\ queue' = Tail(queue) /\ Head(queue) = Eof
      /\ at' = IF reader = "failed" THEN "failed" ELSE "ended"
      /\ UNCHANGED <<reader, current, size, nextSeq, lastSize, work, shown, finals, partials,
                     queued, dropped>>
  BY DEF TakeEof, source, page, history
<1>2. /\ queue' \in Seq(0..MaxUtts) /\ Len(queue) \in Nat \ {0}
      /\ Len(queue') = Len(queue) - 1 /\ (queue' = <<>> <=> Len(queue) = 1)
      /\ queue[1] = Eof
  BY <1>1, QueueFacts, TailOne
<1>3. Len(queue) = 1 /\ queue' = <<>> /\ Len(queue') = 0 /\ reader # "reading"
  <2>1. 1 \in 1..Len(queue)
    BY <1>2
  <2> QED BY <1>2, <2>1 DEF QueueShape
<1>4. at' \in {"failed", "ended"} /\ at' \in Over /\ ~AtFinal /\ ~AtFinal' /\ ~AtPartial'
  BY <1>1 DEF Over, AtFinal, AtPartial
<1>5. TypeOK'
  BY <1>1, <1>2, <1>4, Bounds DEF TypeOK
<1>6. ReaderShape' /\ QueueShape' /\ IdleShape'
  <2>1. ReaderShape' /\ IdleShape'
    BY <1>1, <1>3, <1>4 DEF ReaderShape, IdleShape
  <2>2. \A i \in 1..Len(queue') : FALSE
    BY <1>3
  <2> QED BY <2>1, <2>2 DEF QueueShape
<1>7. FinalsShape'
  <2>1. Behind \subseteq Behind'
    <3>1. \A i \in 1..Len(queue') : FALSE
      BY <1>3
    <3> QED BY <1>1, <3>1 DEF Behind, Whole
  <2> QED BY <1>1, <1>4, <2>1 DEF FinalsShape
<1>8. Numbers' /\ PartialsFit'
  BY <1>1, <1>4 DEF Numbers, PartialsFit, Closing
<1>9. Kept'
  <2>1. \A j \in 1..Len(queue) : queue[j] \notin 1..MaxUtts
    BY <1>2, <1>3, Bounds DEF Eof
  <2>2. Accounted \subseteq Accounted'
    BY <1>1, <1>4, <2>1 DEF Accounted
  <2> QED BY <1>1, <2>2 DEF Kept
<1>10. PageShape' /\ FinalReplacesPartial' /\ PageIsCurrent'
  BY <1>1, <1>4 DEF PageShape, FinalReplacesPartial, PageIsCurrent
<1> QED BY <1>5, <1>6, <1>7, <1>8, <1>9, <1>10

\* Steps that only move the loop.
LEMMA QuietStep ==
    ASSUME IInv, GetTimesOut \/ NoPartialNow \/ PartialIsEmpty \/ PartialHasText
    PROVE  IInv'
<1> USE DEF IInv
<1>1. /\ UNCHANGED <<reader, current, size, queue, nextSeq, lastSize, work, shown, finals,
                     partials, queued, dropped>>
      /\ at \in {"waiting", "expired", "raced", "partial"}
      /\ at' \in {"waiting", "expired", "publishPartial"}
      /\ at' = "publishPartial" => at = "partial"
      /\ at' = "expired" => queue = <<>>
  BY DEF GetTimesOut, NoPartialNow, PartialIsEmpty, PartialHasText, Idle, source, page, history
<1>2. /\ ~AtFinal /\ ~AtFinal' /\ (AtPartial' => AtPartial)
      /\ at \notin Over /\ at' \notin Over
  BY <1>1 DEF AtFinal, AtPartial, Over
<1>3. TypeOK' /\ ReaderShape' /\ QueueShape' /\ IdleShape'
  BY <1>1, <1>2 DEF TypeOK, ReaderShape, QueueShape, IdleShape, Whole, Over
<1>4. Behind' = Behind /\ Closing' = Closing /\ NextUtt' = NextUtt /\ NextNum' = NextNum
  BY <1>1, <1>2 DEF Behind, Whole, Closing, NextUtt, NextNum
<1>5. FinalsShape' /\ Numbers'
  BY <1>1, <1>2, <1>4 DEF FinalsShape, Numbers
<1>6. PartialsFit'
  <2>1. Fitting' = Fitting
    BY <1>4 DEF Fitting
  <2> QED BY <1>1, <1>2, <1>4, <2>1 DEF PartialsFit
<1>7. Accounted' = Accounted
  BY <1>1, <1>2 DEF Accounted
<1>8. Kept' /\ PageShape' /\ FinalReplacesPartial' /\ PageIsCurrent'
  BY <1>1, <1>2, <1>7 DEF Kept, PageShape, FinalReplacesPartial, PageIsCurrent
<1> QED BY <1>3, <1>5, <1>6, <1>8

\* The utterance in progress is longer than a PARTIAL needs: nothing but the end
\* marker can be in the queue.
LEMMA IdleQueue ==
    ASSUME IInv, Idle, LongEnough(size)
    PROVE  queue = <<>> \/ queue = <<Eof>>
<1>1. size > 1
  BY PipelineAssumption, Bounds DEF IInv, LongEnough, PipelineAssumption
<1> QED BY <1>1, Bounds DEF IInv, Idle, IdleShape

\* The utterance in progress is to become a PARTIAL.
LEMMA BeginPartialStep == ASSUME IInv, BeginPartial PROVE IInv'
<1> USE DEF IInv
<1>1. /\ Idle /\ LongEnough(size) /\ at' = "partial" /\ lastSize' = size
      /\ work' = [utt |-> current, seq |-> PartialSeq]
      /\ UNCHANGED <<reader, current, size, queue, nextSeq, shown, finals, partials,
                     queued, dropped>>
  BY DEF BeginPartial, source, page, history
<1>2. /\ at \in {"expired", "raced"} /\ ~AtFinal /\ ~AtFinal' /\ AtPartial'
      /\ at \notin Over /\ at' \notin Over
  BY <1>1 DEF Idle, AtFinal, AtPartial, Over
<1>3. /\ work' \in Captions /\ work'.utt = current /\ work'.seq = nextSeq + Len(queue)
      /\ lastSize' \in 0..HardMax
  BY <1>1, Bounds, QueueFacts DEF Captions, PartialSeq
<1>4. TypeOK'
  BY <1>1, <1>2, <1>3 DEF TypeOK
<1>5. ReaderShape' /\ QueueShape' /\ IdleShape'
  BY <1>1, <1>2 DEF ReaderShape, QueueShape, IdleShape, Whole, Over
<1>6. Behind' = Behind /\ Closing' = Closing /\ NextUtt' = NextUtt /\ NextNum' = NextNum
  BY <1>1, <1>2 DEF Behind, Whole, Closing, NextUtt, NextNum
<1>7. FinalsShape' /\ Numbers'
  BY <1>1, <1>2, <1>6 DEF FinalsShape, Numbers
<1>8. PartialsFit'
  <2>1. Fitting' = Fitting
    BY <1>6 DEF Fitting
  <2>2. CASE queue = <<>>
    <3>1. work'.utt = NextUtt /\ work'.seq = NextNum
      BY <1>2, <1>3, <2>2, Bounds, QueueFacts DEF NextUtt, NextNum
    <3>2. work' \in Fitting
      BY <1>3, <3>1, Bounds DEF Fitting
    <3> QED BY <1>1, <1>2, <1>6, <2>1, <3>2 DEF PartialsFit
  <2>3. CASE queue = <<Eof>>
    <3>1. queue # <<>> /\ queue[1] = Eof
      BY <2>3
    <3> QED BY <1>2, <1>6, <3>1 DEF PartialsFit, Closing
  <2> QED BY <1>1, <2>2, <2>3, IdleQueue
<1>9. Accounted' = Accounted
  BY <1>1, <1>2 DEF Accounted
<1>10. PageShape'
  <2>1. size > 0
    BY <1>1 DEF LongEnough
  <2>2. \A u \in Behind : u < current
    BY <2>1 DEF Behind, Whole, ReaderShape
  <2>3. \A i \in DOMAIN finals : finals[i].utt < work'.utt
    BY <1>3, <2>2 DEF FinalsShape
  <2> QED BY <1>1, <2>3 DEF PageShape
<1>11. Kept' /\ FinalReplacesPartial' /\ PageIsCurrent'
  BY <1>1, <1>9 DEF Kept, FinalReplacesPartial, PageIsCurrent
<1> QED BY <1>4, <1>5, <1>7, <1>8, <1>10, <1>11

\* The next utterance is a later one once the one at work is done with.
LEMMA NextIsLater ==
    ASSUME IInv, AtFinal
    PROVE  /\ work.utt \in 1..MaxUtts /\ work.utt \in Behind /\ NextUtt = work.utt
           /\ queue # <<>> /\ queue[1] # Eof => work.utt < queue[1] /\ queue[1] \in Nat
           /\ queue = <<>> => work.utt < current
<1> USE DEF IInv
<1>1. work.utt \in Behind
  BY DEF FinalsShape
<1>2. queue # <<>> /\ queue[1] # Eof => work.utt < queue[1] /\ queue[1] \in Nat
  <2>1. queue # <<>> => 1 \in 1..Len(queue)
    BY QueueFacts
  <2> QED BY <1>1, <2>1, Bounds, QueueFacts DEF Behind
<1>3. queue = <<>> => work.utt < current
  <2>1. queue = <<>> => reader = "reading"
    BY DEF ReaderShape, AtFinal, Over
  <2> QED BY <1>1, <2>1 DEF Behind, Whole
<1> QED BY <1>1, <1>2, <1>3 DEF Behind, NextUtt

\* The utterance at work gives no text.
LEMMA FinalIsEmptyStep == ASSUME IInv, FinalIsEmpty PROVE IInv'
<1> USE DEF IInv
<1>1. /\ at = "final" /\ at' = "waiting" /\ nextSeq' = nextSeq /\ lastSize' = 0
      /\ dropped' = dropped \cup {work.utt}
      /\ UNCHANGED <<reader, current, size, queue, work, shown, finals, partials, queued>>
  BY DEF FinalIsEmpty, SeqAfterEmpty, source, page
<1>2. /\ AtFinal /\ ~AtFinal' /\ ~AtPartial' /\ at \notin Over /\ at' \notin Over
  BY <1>1 DEF AtFinal, AtPartial, Over
<1>3. TypeOK'
  <2>1. work.utt \in 1..MaxUtts /\ dropped' \subseteq 1..MaxUtts
    BY <1>1, <1>2, NextIsLater DEF TypeOK
  <2>2. lastSize' \in 0..HardMax
    BY <1>1, Bounds
  <2> QED BY <1>1, <2>1, <2>2 DEF TypeOK
<1>4. ReaderShape' /\ QueueShape' /\ IdleShape'
  BY <1>1, <1>2 DEF ReaderShape, QueueShape, IdleShape, Whole, Over
<1>5. Behind' = Behind
  BY <1>1 DEF Behind, Whole
<1>6. FinalsShape' /\ Numbers'
  BY <1>1, <1>2, <1>5 DEF FinalsShape, Numbers
<1>7. PartialsFit'
  <2> SUFFICES ASSUME ~Closing' PROVE partials \subseteq Fitting'
    BY <1>1, <1>2 DEF PartialsFit
  <2>1. ~Closing
    BY <1>2 DEF Closing
  <2>2. NextUtt = work.utt /\ NextUtt' \in Nat /\ NextUtt \in Nat /\ NextUtt < NextUtt'
    BY <1>1, <1>2, NextIsLater, Bounds DEF Closing, NextUtt
  <2>3. NextNum' = NextNum
    BY <1>1 DEF NextNum
  <2>4. Fitting \subseteq Fitting'
    BY <2>2, <2>3 DEF Fitting, Captions
  <2> QED BY <2>1, <2>4 DEF PartialsFit
<1>8. Kept'
  <2>1. Accounted \subseteq Accounted'
    BY <1>1, <1>2 DEF Accounted
  <2> QED BY <1>1, <2>1 DEF Kept
<1>9. PageShape' /\ FinalReplacesPartial' /\ PageIsCurrent'
  BY <1>1, <1>2 DEF PageShape, FinalReplacesPartial, PageIsCurrent
<1> QED BY <1>3, <1>4, <1>6, <1>7, <1>8, <1>9

\* The utterance at work gets its number.
LEMMA FinalHasTextStep == ASSUME IInv, FinalHasText PROVE IInv'
<1> USE DEF IInv
<1>1. /\ at = "final" /\ at' = "publishFinal" /\ nextSeq' = nextSeq + 1
      /\ work' = [work EXCEPT !.seq = nextSeq]
      /\ UNCHANGED <<reader, current, size, queue, lastSize, shown, finals, partials,
                     queued, dropped>>
  BY DEF FinalHasText, source, page, history
<1>2. /\ AtFinal /\ AtFinal' /\ ~AtPartial' /\ at \notin Over /\ at' \notin Over
  BY <1>1 DEF AtFinal, AtPartial, Over
<1>3. work' \in Captions /\ work'.utt = work.utt /\ work'.seq = nextSeq
  BY <1>1, Bounds DEF TypeOK, Captions
<1>4. TypeOK'
  <2>1. /\ nextSeq' \in Nat /\ at' = "publishFinal"
        /\ UNCHANGED <<reader, current, size, queue, lastSize, shown, finals, partials,
                       queued, dropped>>
    BY <1>1, Bounds
  <2> QED BY <1>3, <2>1 DEF TypeOK
<1>5. ReaderShape' /\ QueueShape' /\ IdleShape'
  BY <1>1, <1>2 DEF ReaderShape, QueueShape, IdleShape, Whole, Over
<1>6. /\ Behind' = Behind /\ Closing' = Closing /\ NextUtt' = NextUtt /\ NextNum' = NextNum
  BY <1>1, <1>2, <1>3 DEF Behind, Whole, Closing, NextUtt, NextNum
<1>7. FinalsShape' /\ Numbers'
  BY <1>1, <1>2, <1>3, <1>6 DEF FinalsShape, Numbers
<1>8. PartialsFit'
  <2>1. Fitting' = Fitting
    BY <1>6 DEF Fitting
  <2> QED BY <1>1, <1>2, <1>6, <2>1 DEF PartialsFit
<1>9. Accounted' = Accounted
  BY <1>1, <1>2, <1>3 DEF Accounted
<1>10. Kept' /\ PageShape' /\ FinalReplacesPartial' /\ PageIsCurrent'
  BY <1>1, <1>2, <1>9 DEF Kept, PageShape, FinalReplacesPartial, PageIsCurrent
<1> QED BY <1>4, <1>5, <1>7, <1>8, <1>10

-----------------------------------------------------------------------------
(* Publishing.                                                             *)

\* A FINAL appears: the histories stay in order, and the partial it replaces is
\* gone from the page.
LEMMA FinalAppears ==
    ASSUME IInv, at = "publishFinal", Appear
    PROVE  /\ finals' \in Seq(Captions) /\ partials' = partials /\ shown' = NoPartial
           /\ Len(finals) \in Nat /\ Len(finals') = Len(finals) + 1
           /\ DOMAIN finals = 1..Len(finals) /\ DOMAIN finals' = 1..(Len(finals) + 1)
           /\ \A i \in 1..Len(finals) : finals'[i] = finals[i]
           /\ finals'[Len(finals) + 1] = work
           /\ \A i \in DOMAIN finals' : finals'[i].utt \in Behind
           /\ \A i, j \in DOMAIN finals' : i < j => finals'[i].utt < finals'[j].utt
           /\ \A i \in DOMAIN finals' : finals'[i].seq = StartSeq + i - 1
           /\ FinalReplacesPartial'
<1> USE DEF IInv
<1>1. AtFinal /\ ~Closing
  BY DEF AtFinal, Closing, Over
<1>2. finals' = Append(finals, work) /\ partials' = partials /\ shown' = AfterFinal(work.seq)
  BY DEF Appear
<1>3. /\ finals' \in Seq(Captions)
      /\ Len(finals) \in Nat /\ Len(finals') = Len(finals) + 1
      /\ DOMAIN finals = 1..Len(finals) /\ DOMAIN finals' = 1..(Len(finals) + 1)
      /\ \A i \in 1..Len(finals) : finals'[i] = finals[i]
      /\ finals'[Len(finals) + 1] = work
      /\ \A i \in 1..(Len(finals) + 1) :
            (i \in 1..Len(finals) /\ finals'[i] = finals[i]) \/ (i = Len(finals) + 1 /\ finals'[i] = work)
  <2>1. finals \in Seq(Captions) /\ work \in Captions
    BY DEF TypeOK
  <2> QED BY <1>2, <2>1, AppendOne
<1>4. work.utt \in Behind /\ NextUtt = work.utt /\ NextNum = work.seq /\ work.utt \in 1..MaxUtts
  BY <1>1, NextIsLater DEF NextNum
<1>5. \A p \in partials : p.seq <= work.seq /\ (p.utt = work.utt => p.seq = work.seq)
  BY <1>1, <1>4 DEF PartialsFit, Fitting
<1>6. shown' = NoPartial
  BY <1>2, <1>5 DEF AfterFinal, PageShape
<1>7. \A i \in DOMAIN finals' : finals'[i].utt \in Behind
  BY <1>3, <1>4 DEF FinalsShape
<1>8. ASSUME NEW i \in DOMAIN finals', NEW j \in DOMAIN finals', i < j
      PROVE  finals'[i].utt < finals'[j].utt
  <2>1. i \in 1..Len(finals) /\ finals'[i] = finals[i]
    BY <1>3, <1>8
  <2>2. CASE j \in 1..Len(finals) /\ finals'[j] = finals[j]
    BY <1>3, <1>8, <2>1, <2>2 DEF FinalsShape
  <2>3. CASE finals'[j] = work
    BY <1>1, <1>3, <2>1, <2>3 DEF FinalsShape
  <2> QED BY <1>3, <2>2, <2>3
<1>9. \A i \in DOMAIN finals' : finals'[i].seq = StartSeq + i - 1
  <2>1. \A i \in 1..Len(finals) : finals[i].seq = StartSeq + i - 1
    BY <1>3 DEF Numbers
  <2>2. work.seq = StartSeq + (Len(finals) + 1) - 1
    BY <1>3, PipelineAssumption DEF Numbers, PipelineAssumption
  <2> QED BY <1>3, <2>1, <2>2
<1>10. FinalReplacesPartial'
  <2>1. ASSUME NEW p \in partials, NEW i \in DOMAIN finals', p.utt = finals'[i].utt
        PROVE  p.seq = finals'[i].seq
    <3>1. CASE i \in 1..Len(finals) /\ finals'[i] = finals[i]
      BY <1>3, <2>1, <3>1 DEF FinalReplacesPartial
    <3>2. CASE finals'[i] = work
      BY <1>5, <2>1, <3>2
    <3> QED BY <1>3, <3>1, <3>2
  <2> QED BY <1>2, <2>1 DEF FinalReplacesPartial
<1> QED BY <1>2, <1>3, <1>6, <1>7, <1>8, <1>9, <1>10

\* A PARTIAL appears: it is of speech behind all FINALs.
LEMMA PartialAppears ==
    ASSUME IInv, at = "publishPartial", Appear
    PROVE  /\ finals' = finals /\ partials' = partials \cup {work} /\ shown' = work
           /\ partials' \subseteq Captions /\ shown' \in Captions
           /\ FinalReplacesPartial' /\ PageIsCurrent'
<1> USE DEF IInv
<1>1. AtPartial
  BY DEF AtPartial
<1>2. finals' = finals /\ partials' = partials \cup {work} /\ shown' = work
  BY DEF Appear
<1>3. \A i \in DOMAIN finals : finals[i].utt < work.utt /\ finals[i].utt \in Nat
  BY <1>1, FinalsFacts DEF PageShape
<1>4. FinalReplacesPartial'
  <2>1. \A i \in DOMAIN finals : work.utt # finals[i].utt
    BY <1>3, Bounds
  <2> QED BY <1>2, <2>1 DEF FinalReplacesPartial
<1>5. PageIsCurrent'
  BY <1>2, <1>3 DEF PageIsCurrent
<1> QED BY <1>2, <1>4, <1>5 DEF TypeOK

\* The caption at work is published, and the loop goes on.
LEMMA PublishStep == ASSUME IInv, Publish PROVE IInv'
<1> USE DEF IInv
<1>1. /\ at' = "waiting" /\ Appear /\ at \in {"publishFinal", "publishPartial"}
      /\ lastSize' = IF at = "publishFinal" THEN 0 ELSE lastSize
      /\ UNCHANGED <<reader, current, size, queue, nextSeq, work, queued, dropped>>
  BY DEF Publish, source, history
<1>2. ~AtFinal' /\ ~AtPartial' /\ at \notin Over /\ at' \notin Over
  BY <1>1 DEF AtFinal, AtPartial, Over
<1>3. ReaderShape' /\ QueueShape' /\ IdleShape'
  BY <1>1, <1>2 DEF ReaderShape, QueueShape, IdleShape, Whole, Over
<1>4. Behind' = Behind
  BY <1>1 DEF Behind, Whole
<1>5. CASE at = "publishFinal"
  <2>1. AtFinal
    BY <1>5 DEF AtFinal
  <2>2. NoPartial \in Captions
    BY DEF NoPartial, Captions
  <2>3. finals' \in Seq(Captions) /\ partials' = partials /\ shown' = NoPartial
    BY <1>1, <1>5, FinalAppears
  <2>4. lastSize' \in 0..HardMax
    BY <1>1, <1>5, Bounds
  <2>5. TypeOK'
    BY <1>1, <2>2, <2>3, <2>4 DEF TypeOK
  <2>6. FinalsShape'
    BY <1>1, <1>2, <1>4, <1>5, FinalAppears DEF FinalsShape
  <2>7. Numbers'
    <3>1. nextSeq' = StartSeq + Len(finals')
      <4>1. work.seq = StartSeq + Len(finals) /\ nextSeq = work.seq + 1
        BY <1>5 DEF Numbers
      <4>2. Len(finals) \in Nat /\ Len(finals') = Len(finals) + 1
        BY <1>1, <1>5, FinalAppears
      <4> QED BY <1>1, <4>1, <4>2, PipelineAssumption DEF PipelineAssumption
    <3>2. \A i \in DOMAIN finals' : finals'[i].seq = StartSeq + i - 1
      BY <1>1, <1>5, FinalAppears
    <3> QED BY <1>1, <3>1, <3>2 DEF Numbers
  <2>8. PartialsFit'
    <3> SUFFICES ASSUME ~Closing' PROVE partials \subseteq Fitting'
      BY <1>1, <1>2, <2>3 DEF PartialsFit
    <3>1. ~Closing
      BY <1>2, <2>1 DEF Closing
    <3>2. NextUtt = work.utt /\ NextUtt' \in Nat /\ NextUtt \in Nat /\ NextUtt < NextUtt'
      BY <1>1, <1>2, <2>1, NextIsLater, Bounds DEF Closing, NextUtt
    <3>3. NextNum \in Nat /\ NextNum' = NextNum + 1
      BY <1>1, <1>5, Bounds DEF NextNum, Numbers
    <3>4. Fitting \subseteq Fitting'
      BY <3>2, <3>3 DEF Fitting, Captions
    <3> QED BY <3>1, <3>4 DEF PartialsFit
  <2>9. Kept'
    <3>1. ASSUME NEW u \in Accounted PROVE u \in Accounted'
      <4>1. CASE \E j \in DOMAIN finals : finals[j].utt = u
        <5>1. \E j \in DOMAIN finals' : finals'[j].utt = u
          BY <1>1, <1>5, <4>1, FinalAppears
        <5> QED BY <5>1 DEF Accounted
      <4>2. CASE work.utt = u
        <5>1. Len(finals) + 1 \in DOMAIN finals' /\ finals'[Len(finals) + 1].utt = u
          BY <1>1, <1>5, <4>2, FinalAppears
        <5> QED BY <5>1 DEF Accounted
      <4>3. CASE u \in dropped \/ \E j \in 1..Len(queue) : queue[j] = u
        BY <1>1, <4>3 DEF Accounted
      <4> QED BY <1>5, <4>1, <4>2, <4>3 DEF Accounted
    <3> QED BY <1>1, <3>1 DEF Kept
  <2>10. PageShape' /\ PageIsCurrent'
    BY <1>2, <2>3 DEF PageShape, PageIsCurrent
  <2>11. FinalReplacesPartial'
    BY <1>1, <1>5, FinalAppears
  <2> QED BY <1>3, <2>5, <2>6, <2>7, <2>8, <2>9, <2>10, <2>11
<1>6. CASE at = "publishPartial"
  <2>1. ~AtFinal /\ AtPartial
    BY <1>6 DEF AtFinal, AtPartial
  <2>2. /\ finals' = finals /\ partials' = partials \cup {work} /\ shown' = work
        /\ partials' \subseteq Captions /\ shown' \in Captions
        /\ FinalReplacesPartial' /\ PageIsCurrent'
    BY <1>1, <1>6, PartialAppears
  <2>3. TypeOK'
    BY <1>1, <1>6, <2>2 DEF TypeOK
  <2>4. FinalsShape' /\ Numbers'
    BY <1>1, <1>2, <1>4, <1>6, <2>2 DEF FinalsShape, Numbers
  <2>5. PartialsFit'
    <3>1. Closing' = Closing /\ NextUtt' = NextUtt /\ NextNum' = NextNum
      BY <1>1, <1>2, <1>6, <2>1 DEF Closing, NextUtt, NextNum
    <3>2. Fitting' = Fitting
      BY <3>1 DEF Fitting
    <3> QED BY <1>2, <2>1, <2>2, <3>1, <3>2 DEF PartialsFit
  <2>6. Accounted' = Accounted
    BY <1>1, <1>2, <1>6, <2>1, <2>2 DEF Accounted
  <2>7. Kept' /\ PageShape'
    BY <1>1, <1>2, <2>2, <2>6 DEF Kept, PageShape
  <2> QED BY <1>3, <2>2, <2>3, <2>4, <2>5, <2>7
<1> QED BY <1>1, <1>5, <1>6

\* The loop is left; the caption at work may have appeared.
LEMMA LeaveStep ==
    ASSUME IInv, at \notin Over, NEW how \in {"failed", "cancelled"}, LeaveAs(how),
           UNCHANGED page \/ (at \in {"publishFinal", "publishPartial"} /\ Appear)
    PROVE  IInv'
<1> USE DEF IInv
<1>1. /\ at' = how /\ at' \in {"failed", "cancelled"}
      /\ reader' = IF reader = "reading" THEN "cancelled" ELSE reader
      /\ UNCHANGED <<current, size, queue, nextSeq, lastSize, work, queued, dropped>>
  BY DEF LeaveAs, history
<1>2. ~AtFinal' /\ ~AtPartial' /\ at' \in Over
  BY <1>1 DEF AtFinal, AtPartial, Over
<1>3. ReaderShape' /\ QueueShape' /\ IdleShape'
  BY <1>1, <1>2 DEF ReaderShape, QueueShape, IdleShape, Whole
<1>4. Behind' = Behind
  BY <1>1 DEF Behind, Whole
<1>5. PartialsFit' /\ Kept'
  <2>1. \A i \in DOMAIN queued : queued[i] \in Accounted'
    BY <1>1, QueuedFacts DEF Accounted
  <2> QED BY <1>1, <1>2, <2>1 DEF PartialsFit, Closing, Kept
<1>6. CASE UNCHANGED page
  <2>1. UNCHANGED <<shown, finals, partials>>
    BY <1>6 DEF page
  <2>2. TypeOK'
    BY <1>1, <2>1 DEF TypeOK
  <2>3. FinalsShape' /\ Numbers' /\ PageShape' /\ FinalReplacesPartial' /\ PageIsCurrent'
    BY <1>1, <1>2, <1>4, <2>1
       DEF FinalsShape, Numbers, PageShape, FinalReplacesPartial, PageIsCurrent
  <2> QED BY <1>3, <1>5, <2>2, <2>3
<1>7. CASE at = "publishFinal" /\ Appear
  <2>1. NoPartial \in Captions
    BY DEF NoPartial, Captions
  <2>2. finals' \in Seq(Captions) /\ partials' = partials /\ shown' = NoPartial
    BY <1>7, FinalAppears
  <2>3. TypeOK'
    BY <1>1, <2>1, <2>2 DEF TypeOK
  <2>4. FinalsShape'
    BY <1>2, <1>4, <1>7, FinalAppears DEF FinalsShape
  <2>5. Numbers'
    <3>1. \A i \in DOMAIN finals' : finals'[i].seq = StartSeq + i - 1
      BY <1>7, FinalAppears
    <3> QED BY <1>1, <3>1 DEF Numbers
  <2>6. PageShape' /\ PageIsCurrent'
    BY <1>2, <2>2 DEF PageShape, PageIsCurrent
  <2>7. FinalReplacesPartial'
    BY <1>7, FinalAppears
  <2> QED BY <1>3, <1>5, <2>3, <2>4, <2>5, <2>6, <2>7
<1>8. CASE at = "publishPartial" /\ Appear
  <2>1. /\ finals' = finals /\ partials' = partials \cup {work} /\ shown' = work
        /\ partials' \subseteq Captions /\ shown' \in Captions
        /\ FinalReplacesPartial' /\ PageIsCurrent'
    BY <1>8, PartialAppears
  <2>2. TypeOK'
    BY <1>1, <2>1 DEF TypeOK
  <2>3. FinalsShape' /\ Numbers' /\ PageShape'
    BY <1>1, <1>2, <1>4, <2>1 DEF FinalsShape, Numbers, PageShape
  <2> QED BY <1>3, <1>5, <2>1, <2>2, <2>3
<1> QED BY <1>6, <1>7, <1>8

-----------------------------------------------------------------------------
\* Every step preserves the invariant.
LEMMA Step == IInv /\ [Next]_vars => IInv'
<1> SUFFICES ASSUME IInv, [Next]_vars PROVE IInv'
  OBVIOUS
<1>1. CASE UNCHANGED vars
  <2>1. UNCHANGED <<reader, current, size, queue, nextSeq, lastSize, at, work, shown, finals,
                    partials, queued, dropped>>
    BY <1>1 DEF vars, source, asr, page, history
  <2>2. TypeOK' /\ ReaderShape' /\ QueueShape' /\ IdleShape' /\ FinalsShape'
    BY <2>1 DEF IInv, TypeOK, ReaderShape, QueueShape, IdleShape, FinalsShape, Behind, Whole,
                AtFinal
  <2>3. Numbers' /\ PartialsFit' /\ PageShape' /\ Kept'
    BY <2>1 DEF IInv, Numbers, PartialsFit, PageShape, Kept, Accounted, Closing, Fitting,
                NextUtt, NextNum, AtFinal, AtPartial
  <2>4. FinalReplacesPartial' /\ PageIsCurrent'
    BY <2>1 DEF IInv, FinalReplacesPartial, PageIsCurrent
  <2> QED BY <2>2, <2>3, <2>4 DEF IInv
<1>2. CASE Reader
  BY <1>2, ChunkStep, CloseStep, ReadEndsStep DEF Reader
<1>3. CASE Loop
  BY <1>3, TakeUtteranceStep, TakeEofStep, QuietStep, BeginPartialStep, FinalIsEmptyStep,
     FinalHasTextStep, PublishStep DEF Loop
<1>4. CASE PublishFails
  <2>1. at \notin Over
    BY <1>4 DEF PublishFails, Over
  <2> QED BY <1>4, <2>1, LeaveStep DEF PublishFails
<1>5. CASE Cancel
  BY <1>5, LeaveStep DEF Cancel
<1> QED BY <1>1, <1>2, <1>3, <1>4, <1>5 DEF Next

\* The invariant holds in every reachable state.
THEOREM Inductive == Spec => []IInv
<1>1. Init => IInv
  BY InitIInv
<1>2. IInv /\ [Next]_vars => IInv'
  BY Step
<1> QED BY <1>1, <1>2, PTL DEF Spec

\* Every variable of the reader, the loop and the page stays in its set, for any
\* pre-roll, limits and first number.
THEOREM TypeCorrect == Spec => []TypeOK
<1>1. IInv => TypeOK
  BY DEF IInv
<1> QED BY <1>1, Inductive, PTL

\* FINALs are numbered without a hole, in the order of the speech, from the
\* number the pipeline started with.
THEOREM Consecutive == Spec => []FinalsConsecutive
<1>1. IInv => FinalsConsecutive
  BY DEF IInv, Numbers, FinalsShape, FinalsConsecutive
<1> QED BY <1>1, Inductive, PTL

\* PARTIAL N is replaced by FINAL N: the number guessed from the length of the
\* queue is the one the FINAL of that speech gets.
THEOREM Replaces == Spec => []FinalReplacesPartial
<1>1. IInv => FinalReplacesPartial
  BY DEF IInv
<1> QED BY <1>1, Inductive, PTL

\* The page never shows a partial of speech whose FINAL, or a later one, is out.
THEOREM Current == Spec => []PageIsCurrent
<1>1. IInv => PageIsCurrent
  BY DEF IInv
<1> QED BY <1>1, Inductive, PTL

\* When the audio has ended, everything the reader queued was published or had no
\* text.
THEOREM Complete == Spec => []NothingLost
<1>1. IInv => NothingLost
  <2> SUFFICES ASSUME IInv, at = "ended", NEW i \in DOMAIN queued
               PROVE  \/ queued[i] \in dropped
                      \/ \E j \in DOMAIN finals : finals[j].utt = queued[i]
    BY DEF NothingLost
  <2>1. queue = <<>> /\ ~AtFinal
    BY DEF IInv, ReaderShape, AtFinal
  <2>2. \A j \in 1..Len(queue) : FALSE
    BY <2>1
  <2>3. queued[i] \in Accounted
    BY DEF IInv, Kept
  <2> QED BY <2>1, <2>2, <2>3 DEF Accounted
<1> QED BY <1>1, Inductive, PTL

\* No PARTIAL is begun while a finished utterance waits.
THEOREM FinalsGoFirst == Spec => FinalsFirst
<1>1. IInv /\ [Next]_vars =>
        [at' = "partial" /\ at # "partial" => \A i \in DOMAIN queue : queue[i] = Eof]_vars
  <2> SUFFICES ASSUME IInv, Next, at' = "partial", at # "partial"
               PROVE  \A i \in DOMAIN queue : queue[i] = Eof
    OBVIOUS
  <2>1. BeginPartial
    BY DEF Next, Reader, Loop, Onset, Grow, Close, ReadEnds, ReadFails, ReaderStep,
           TakeUtterance, TakeEof, GetTimesOut, NoPartialNow, PartialIsEmpty,
           PartialHasText, FinalIsEmpty, FinalHasText, Publish, PublishFails, Cancel, LeaveAs
  <2>2. queue = <<>> \/ queue = <<Eof>>
    BY <2>1, IdleQueue DEF BeginPartial
  <2> QED BY <2>2
<1> QED BY <1>1, Inductive, PTL DEF Spec, FinalsFirst
=============================================================================
