---------------------------- MODULE TranslatorProofs ----------------------------
(***************************************************************************)
(* Safety of Translation and Translator for any languages, retries and     *)
(* number of captions: order, completeness, and silence after the end; and *)
(* the model client behaves as Translation says, drops the field at no     *)
(* cost, and asks a bounded number of times.                               *)
(***************************************************************************)
EXTENDS Translator, TLAPS

\* A coroutine that may still publish.
Active(l) == one[l] \in {"translating", "publishing"}

\* The queue holds the captions behind item, and then the end marker.
Pending == submitted - item
Marks == IF closed /\ stage # "ended" THEN 1 ELSE 0
QueueShape ==
    /\ item <= submitted
    /\ Len(queue) = Pending + Marks
    /\ \A i \in 1..Len(queue) : queue[i] = IF i <= Pending THEN item + i ELSE CloseMark
    /\ stage = "ended" => item = submitted /\ closed

\* Between captions, and after the end, no coroutine is left.
Stages ==
    /\ stage \in {"waiting", "ended", "cancelled"} => \A l \in Langs : ~Active(l)
    /\ stage = "waiting" => \A l \in Langs : one[l] = "done"
    /\ stage = "busy" => \A l \in Langs : one[l] # "cancelled" /\ item > 0
    /\ \A l \in Langs : Active(l) => item \in 1..MaxSeq

\* What a language has published is behind item while it may still publish it.
Behind ==
    \A l \in Langs : \A i \in DOMAIN out[l] :
        out[l][i] <= item /\ (Active(l) => out[l][i] < item)

\* A language is done with every caption before item, and with item itself once
\* its coroutine has come to an end of its own.
Done(l) == stage \in {"waiting", "ended"} \/ (stage = "busy" /\ one[l] = "done")
Complete ==
    \A l \in Langs : \A n \in 1..item : n < item \/ Done(l) => Accounted(l, n)

IInv == TypeOK /\ QueueShape /\ Stages /\ Behind /\ InOrder /\ Complete

-----------------------------------------------------------------------------
\* What publishing n does to a list of captions.
LEMMA AppendOne ==
    ASSUME NEW S, NEW q \in Seq(S), NEW n \in S
    PROVE  /\ Append(q, n) \in Seq(S)
           /\ Len(q) \in Nat /\ DOMAIN q = 1..Len(q)
           /\ DOMAIN Append(q, n) = 1..(Len(q) + 1)
           /\ \A i \in 1..Len(q) : Append(q, n)[i] = q[i]
           /\ Append(q, n)[Len(q) + 1] = n
OBVIOUS

LEMMA ElementOf ==
    ASSUME NEW S, NEW q \in Seq(S), NEW i \in DOMAIN q
    PROVE  q[i] \in S
OBVIOUS

LEMMA TailOne ==
    ASSUME NEW S, NEW q \in Seq(S), q # <<>>
    PROVE  /\ Tail(q) \in Seq(S) /\ Head(q) \in S /\ Head(q) = q[1]
           /\ Len(q) \in Nat \ {0} /\ Len(Tail(q)) = Len(q) - 1
           /\ \A i \in 1..Len(Tail(q)) : Tail(q)[i] = q[i + 1]
OBVIOUS

\* The empty queue and the empty lists satisfy the invariant.
LEMMA InitIInv == Init => IInv
<1> SUFFICES ASSUME Init PROVE IInv
  OBVIOUS
<1> USE TranslationAssumption DEF Init, TranslationAssumption
<1>1. TypeOK
  <2>1. submitted \in 0..MaxSeq /\ item \in 0..MaxSeq
    OBVIOUS
  <2>6. closed \in BOOLEAN
    BY Zenon
  <2>2. queue \in Seq(0..MaxSeq)
    <3>1. <<>> \in Seq(0..MaxSeq)
      OBVIOUS
    <3> QED BY <3>1
  <2>3. /\ stage \in {"waiting", "busy", "ended", "failed", "cancelled"}
        /\ one \in [Langs -> {"done", "translating", "publishing", "cancelled"}]
    OBVIOUS
  <2>4. attempt \in [Langs -> 0..Retries]
    <3>1. 0 \in 0..Retries
      OBVIOUS
    <3> QED BY <3>1
  <2>5. out \in [Langs -> Seq(1..MaxSeq)] /\ errors \in [Langs -> SUBSET (1..MaxSeq)]
    <3>1. <<>> \in Seq(1..MaxSeq)
      OBVIOUS
    <3> QED BY <3>1
  <2> QED BY <2>1, <2>2, <2>3, <2>4, <2>5, <2>6 DEF TypeOK
<1>2. QueueShape
  BY DEF QueueShape, Pending, Marks
<1>3. Stages
  BY DEF Stages, Active
<1>4. Behind /\ InOrder
  BY DEF Behind, InOrder
<1>5. Complete
  BY DEF Complete
<1> QED BY <1>1, <1>2, <1>3, <1>4, <1>5 DEF IInv

\* Captions reach the streams of languages whose coroutines are active: types,
\* order and completeness survive, and every such caption is accounted for.
LEMMA ReachingStep ==
    ASSUME IInv, NEW reached \in SUBSET {l \in Langs : Active(l)}, Reaching(reached)
    PROVE  /\ out' \in [Langs -> Seq(1..MaxSeq)]
           /\ \A l \in Langs \ reached : out'[l] = out[l]
           /\ \A l \in Langs : \A i \in DOMAIN out'[l] : out'[l][i] <= item
           /\ \A l \in Langs : \A i, j \in DOMAIN out'[l] : i < j => out'[l][i] < out'[l][j]
           /\ \A l \in Langs : Published(l) \subseteq Published(l)'
           /\ \A l \in reached : item \in Published(l)'
<1>1. \A l \in Langs : out'[l] = IF l \in reached THEN Append(out[l], item) ELSE out[l]
  BY DEF Reaching
<1>2. \A l \in reached : item \in 1..MaxSeq /\ l \in Langs /\ Active(l)
  BY DEF IInv, Stages
<1>3. \A l \in Langs : out[l] \in Seq(1..MaxSeq)
  BY DEF IInv, TypeOK
<1>4. \A l \in reached :
         /\ Append(out[l], item) \in Seq(1..MaxSeq)
         /\ Len(out[l]) \in Nat /\ DOMAIN out[l] = 1..Len(out[l])
         /\ DOMAIN Append(out[l], item) = 1..(Len(out[l]) + 1)
         /\ \A i \in 1..Len(out[l]) : Append(out[l], item)[i] = out[l][i]
         /\ Append(out[l], item)[Len(out[l]) + 1] = item
  <2> TAKE l \in reached
  <2>1. item \in 1..MaxSeq /\ l \in Langs /\ out[l] \in Seq(1..MaxSeq)
    BY <1>2, <1>3
  <2> QED BY <2>1, AppendOne
<1>5. out' \in [Langs -> Seq(1..MaxSeq)]
  BY <1>3, <1>4 DEF Reaching
<1>6. \A l \in Langs : \A i \in DOMAIN out[l] :
         /\ out[l][i] \in 1..MaxSeq /\ out[l][i] <= item
         /\ l \in reached => out[l][i] < item
  <2> TAKE l \in Langs
  <2>1. /\ \A i \in DOMAIN out[l] : out[l][i] <= item /\ (Active(l) => out[l][i] < item)
        /\ out[l] \in Seq(1..MaxSeq)
    BY <1>3 DEF IInv, Behind
  <2>2. \A i \in DOMAIN out[l] : out[l][i] \in 1..MaxSeq
    BY <2>1, ElementOf
  <2> QED BY <1>2, <2>1, <2>2
<1>7. item \in Nat
  BY DEF IInv, TypeOK
<1>8. ASSUME NEW l \in Langs
      PROVE  /\ \A i \in DOMAIN out'[l] : out'[l][i] <= item
             /\ \A i, j \in DOMAIN out'[l] : i < j => out'[l][i] < out'[l][j]
             /\ Published(l) \subseteq Published(l)'
             /\ l \in reached => item \in Published(l)'
  <2>1. CASE l \notin reached
    <3>1. out'[l] = out[l]
      BY <1>1, <2>1
    <3> QED BY <2>1, <3>1, <1>6 DEF IInv, InOrder, Published
  <2>2. CASE l \in reached
    <3>1. out'[l] = Append(out[l], item)
      BY <1>1, <2>2
    <3> DEFINE q == Append(out[l], item)
    <3>2. /\ Len(out[l]) \in Nat /\ DOMAIN out[l] = 1..Len(out[l])
          /\ DOMAIN q = 1..(Len(out[l]) + 1)
          /\ \A i \in 1..Len(out[l]) : q[i] = out[l][i]
          /\ q[Len(out[l]) + 1] = item
      BY <1>4, <2>2
    <3>3. \A i \in 1..Len(out[l]) : q[i] \in Nat /\ q[i] < item
      BY <1>6, <2>2, <3>2
    <3> HIDE DEF q
    <3>4. \A i \in DOMAIN q : q[i] <= item
      BY <1>7, <3>2, <3>3
    <3>5. \A i, j \in DOMAIN q : i < j => q[i] < q[j]
      <4> SUFFICES ASSUME NEW i \in DOMAIN q, NEW j \in DOMAIN q, i < j
                   PROVE  q[i] < q[j]
        OBVIOUS
      <4>1. i \in 1..Len(out[l])
        BY <3>2
      <4>2. CASE j \in 1..Len(out[l])
        BY <3>2, <4>1, <4>2 DEF IInv, InOrder
      <4>3. CASE j = Len(out[l]) + 1
        BY <3>2, <3>3, <4>1, <4>3
      <4> QED BY <3>2, <4>2, <4>3
    <3>6. /\ \A i \in DOMAIN out[l] : i \in DOMAIN q /\ q[i] = out[l][i]
          /\ Len(out[l]) + 1 \in DOMAIN q /\ q[Len(out[l]) + 1] = item
      BY <3>2
    <3>7. Published(l) \subseteq {q[i] : i \in DOMAIN q} /\ item \in {q[i] : i \in DOMAIN q}
      BY <3>6 DEF Published
    <3>8. out'[l] = q
      BY <3>1 DEF q
    <3> QED BY <3>4, <3>5, <3>7, <3>8 DEF Published
  <2> QED BY <2>1, <2>2
<1> QED BY <1>1, <1>2, <1>5, <1>8

-----------------------------------------------------------------------------
(* One lemma per action, or per group of actions with the same proof.      *)

\* A caption is queued behind the ones that are there.
LEMMA SubmitStep == ASSUME IInv, Submit PROVE IInv'
<1> USE DEF Submit, coroutines, history
<1>1. /\ submitted \in 0..MaxSeq /\ item \in 0..MaxSeq /\ MaxSeq \in Nat
      /\ queue \in Seq(0..MaxSeq) /\ submitted + 1 \in 0..MaxSeq
  BY TranslationAssumption DEF IInv, TypeOK
<1>2. /\ queue' \in Seq(0..MaxSeq)
      /\ Len(queue) \in Nat /\ Len(queue') = Len(queue) + 1
      /\ \A i \in 1..Len(queue) : queue'[i] = queue[i]
      /\ queue'[Len(queue) + 1] = submitted + 1
  BY <1>1, AppendOne
<1>3. TypeOK'
  BY <1>1, <1>2 DEF IInv, TypeOK
<1>4. QueueShape'
  <2>1. /\ Marks = 0 /\ Marks' = 0 /\ Pending' = Pending + 1 /\ Pending \in Nat
        /\ Len(queue) = Pending
    BY <1>1 DEF IInv, QueueShape, Marks, Pending
  <2>2. \A i \in 1..Len(queue') : queue'[i] = item + i
    <3> TAKE i \in 1..Len(queue')
    <3>1. CASE i \in 1..Len(queue)
      BY <1>2, <2>1, <3>1 DEF IInv, QueueShape
    <3>2. CASE i = Len(queue) + 1
      BY <1>1, <1>2, <2>1, <3>2 DEF Pending
    <3> QED BY <1>2, <3>1, <3>2
  <2> QED BY <1>1, <1>2, <2>1, <2>2 DEF IInv, QueueShape
<1>5. Stages' /\ Behind' /\ InOrder'
  BY DEF IInv, Stages, Behind, InOrder, Active
<1>6. Complete'
  BY DEF IInv, Complete, Done, Accounted, Published
<1> QED BY <1>3, <1>4, <1>5, <1>6 DEF IInv

\* The end marker is queued behind the captions.
LEMMA CloseStep == ASSUME IInv, CloseStage PROVE IInv'
<1> USE DEF CloseStage, CloseMarks, CloseMark, coroutines, history
<1>1. /\ submitted \in 0..MaxSeq /\ item \in 0..MaxSeq /\ MaxSeq \in Nat
      /\ queue \in Seq(0..MaxSeq) /\ 0 \in 0..MaxSeq
  BY TranslationAssumption DEF IInv, TypeOK
<1>2. queue' = Append(queue, 0)
  BY <1>1
<1>3. /\ queue' \in Seq(0..MaxSeq)
      /\ Len(queue) \in Nat /\ Len(queue') = Len(queue) + 1
      /\ \A i \in 1..Len(queue) : queue'[i] = queue[i]
      /\ queue'[Len(queue) + 1] = 0
  BY <1>1, <1>2, AppendOne
<1>4. TypeOK'
  BY <1>1, <1>3 DEF IInv, TypeOK
<1>5. QueueShape'
  <2>1. /\ stage # "ended" /\ Marks = 0 /\ Marks' = 1
        /\ Pending' = Pending /\ Pending \in Nat /\ Len(queue) = Pending
    BY <1>1 DEF IInv, QueueShape, Marks, Pending
  <2> QED BY <1>1, <1>3, <2>1 DEF IInv, QueueShape
<1>6. Stages' /\ Behind' /\ InOrder'
  BY DEF IInv, Stages, Behind, InOrder, Active
<1>7. Complete'
  BY DEF IInv, Complete, Done, Accounted, Published
<1> QED BY <1>4, <1>5, <1>6, <1>7 DEF IInv

\* The next caption is the one after item, and item is accounted for.
LEMMA TakeStep == ASSUME IInv, TakeCaption PROVE IInv'
<1> USE DEF TakeCaption, CloseMark, coroutines, history
<1>1. /\ submitted \in 0..MaxSeq /\ item \in 0..MaxSeq /\ MaxSeq \in Nat /\ Retries \in Nat
      /\ queue \in Seq(0..MaxSeq)
  BY TranslationAssumption DEF IInv, TypeOK
<1>2. /\ queue' \in Seq(0..MaxSeq) /\ Head(queue) = queue[1]
      /\ Len(queue) \in Nat \ {0} /\ Len(queue') = Len(queue) - 1
      /\ \A i \in 1..Len(queue') : queue'[i] = queue[i + 1]
  BY <1>1, TailOne
<1>3. /\ Pending \in Nat \ {0} /\ item' = item + 1 /\ item' \in 1..MaxSeq
      /\ Marks \in {0, 1} /\ Marks' = Marks /\ Pending' = Pending - 1
      /\ Len(queue) = Pending + Marks
  <2>1. Pending \in Nat /\ Marks \in {0, 1} /\ Len(queue) = Pending + Marks
    BY <1>1 DEF IInv, QueueShape, Pending, Marks
  <2>2. Pending >= 1 /\ queue[1] = item + 1
    BY <1>1, <1>2, <2>1 DEF IInv, QueueShape
  <2>3. item' = item + 1 /\ item' \in 1..MaxSeq
    BY <1>1, <1>2, <2>2 DEF Pending
  <2>4. Marks' = Marks /\ Pending' = Pending - 1
    BY <1>1, <2>3 DEF Marks, Pending
  <2> QED BY <2>1, <2>2, <2>3, <2>4
<1>4. TypeOK'
  <2>1. attempt' \in [Langs -> 0..Retries]
    <3>1. 0 \in 0..Retries
      BY <1>1
    <3> QED BY <3>1
  <2> QED BY <1>1, <1>2, <1>3, <2>1 DEF IInv, TypeOK
<1>5. QueueShape'
  <2>1. \A i \in 1..Len(queue') : queue'[i] = IF i <= Pending' THEN item' + i ELSE CloseMark
    <3> TAKE i \in 1..Len(queue')
    <3>1. i \in Nat /\ i + 1 \in 1..Len(queue) /\ queue'[i] = queue[i + 1]
      BY <1>2
    <3>2. queue[i + 1] = IF i + 1 <= Pending THEN item + (i + 1) ELSE CloseMark
      BY <3>1 DEF IInv, QueueShape
    <3>3. i + 1 <= Pending <=> i <= Pending'
      BY <1>3, <3>1
    <3>4. item + (i + 1) = item' + i
      BY <1>1, <1>3, <3>1
    <3> QED BY <3>1, <3>2, <3>3, <3>4
  <2> QED BY <1>1, <1>2, <1>3, <2>1 DEF QueueShape, Pending
<1>6. Stages'
  BY <1>3 DEF Stages, Active
<1>7. Behind' /\ InOrder'
  <2>1. \A l \in Langs : \A i \in DOMAIN out[l] : out[l][i] <= item /\ out[l][i] \in 1..MaxSeq
    BY ElementOf DEF IInv, Behind, TypeOK
  <2> QED BY <1>1, <1>3, <2>1 DEF IInv, Behind, InOrder
<1>8. Complete'
  <2> SUFFICES ASSUME NEW l \in Langs, NEW n \in 1..item', n < item' \/ Done(l)'
               PROVE  Accounted(l, n)'
    BY DEF Complete
  <2>1. ~Done(l)'
    BY DEF Done
  <2>2. n \in 1..item
    BY <1>1, <1>3, <2>1
  <2>3. Accounted(l, n)
    BY <2>2 DEF IInv, Complete, Done
  <2> QED BY <2>3 DEF Accounted, Published
<1> QED BY <1>4, <1>5, <1>6, <1>7, <1>8 DEF IInv

\* The end marker is taken when item is the last caption.
LEMMA EndStep == ASSUME IInv, RunEnds PROVE IInv'
<1> USE DEF RunEnds, AtClose, CloseMark, coroutines, history
<1>1. /\ submitted \in 0..MaxSeq /\ item \in 0..MaxSeq /\ MaxSeq \in Nat
      /\ queue \in Seq(0..MaxSeq)
  BY TranslationAssumption DEF IInv, TypeOK
<1>2. /\ queue' \in Seq(0..MaxSeq) /\ Head(queue) = queue[1]
      /\ Len(queue) \in Nat \ {0} /\ Len(queue') = Len(queue) - 1
  BY <1>1, TailOne
<1>3. Pending = 0 /\ Marks = 1 /\ closed /\ item = submitted /\ Len(queue') = 0
  <2>1. Pending \in Nat /\ Marks \in {0, 1} /\ Len(queue) = Pending + Marks
    BY <1>1 DEF IInv, QueueShape, Pending, Marks
  <2>2. Pending = 0
    BY <1>1, <1>2, <2>1 DEF IInv, QueueShape
  <2>3. Marks = 1 /\ Len(queue') = 0
    BY <1>2, <2>1, <2>2
  <2>4. closed
    BY <2>3 DEF Marks
  <2>5. item = submitted
    BY <1>1, <2>2 DEF Pending
  <2> QED BY <2>2, <2>3, <2>4, <2>5
<1>4. TypeOK'
  BY <1>2 DEF IInv, TypeOK
<1>5. QueueShape'
  BY <1>1, <1>3 DEF IInv, QueueShape, Pending, Marks
<1>6. Stages' /\ Behind' /\ InOrder'
  BY DEF IInv, Stages, Behind, InOrder, Active
<1>7. Complete'
  BY DEF IInv, Complete, Done, Accounted, Published
<1> QED BY <1>4, <1>5, <1>6, <1>7 DEF IInv

\* The queue does not change, and the stage does not end.
LEMMA QueueKept ==
    ASSUME IInv, UNCHANGED <<submitted, queue, closed, item>>,
           stage' = stage \/ (stage # "ended" /\ stage' # "ended")
    PROVE  QueueShape'
<1>1. CASE stage' = stage
  BY <1>1 DEF IInv, QueueShape, Marks, Pending
<1>2. CASE stage # "ended" /\ stage' # "ended"
  <2>1. Marks' = Marks /\ Pending' = Pending
    BY <1>2 DEF Marks, Pending
  <2> QED BY <1>2, <2>1 DEF IInv, QueueShape
<1> QED BY <1>1, <1>2

\* A coroutine only becomes active when run() takes a caption.
LEMMA GatheredStep == ASSUME IInv, Gathered PROVE IInv'
<1> USE DEF Gathered, AllDone, coroutines, history
<1>1. TypeOK'
  BY DEF IInv, TypeOK
<1>2. QueueShape'
  BY QueueKept
<1>3. Stages' /\ Behind' /\ InOrder'
  BY DEF IInv, Stages, Behind, InOrder, Active
<1>4. Complete'
  BY DEF IInv, Complete, Done, Accounted, Published
<1> QED BY <1>1, <1>2, <1>3, <1>4 DEF IInv

LEMMA TryStep ==
    ASSUME IInv, NEW l \in Langs, Translated(l) \/ Retry(l)
    PROVE  IInv'
<1> USE DEF Translated, Retry, MayRetry, history
<1>1. TypeOK'
  <2>1. attempt' \in [Langs -> 0..Retries]
    <3>1. attempt \in [Langs -> 0..Retries] /\ Retries \in Nat
      BY TranslationAssumption DEF IInv, TypeOK
    <3>2. CASE Translated(l)
      BY <3>1, <3>2
    <3>3. CASE Retry(l)
      <4>1. attempt[l] + 1 \in 0..Retries
        BY <3>1, <3>3
      <4> QED BY <3>1, <3>3, <4>1
    <3> QED BY <3>2, <3>3
  <2>2. one' \in [Langs -> {"done", "translating", "publishing", "cancelled"}]
    BY DEF IInv, TypeOK
  <2> QED BY <2>1, <2>2 DEF IInv, TypeOK
<1>2. QueueShape'
  BY QueueKept
<1>3. /\ Active(l) /\ one' \in [Langs -> {"done", "translating", "publishing", "cancelled"}]
      /\ \A k \in Langs : one'[k] = one[k] \/ (k = l /\ one'[k] = "publishing")
  BY DEF IInv, TypeOK, Active
<1>4. Stages' /\ Behind' /\ InOrder'
  BY <1>3 DEF IInv, Stages, Behind, InOrder, Active
<1>5. Complete'
  BY <1>3 DEF IInv, Complete, Done, Accounted, Published
<1> QED BY <1>1, <1>2, <1>4, <1>5 DEF IInv

LEMMA GiveUpStep ==
    ASSUME IInv, NEW l \in Langs, GiveUp(l)
    PROVE  IInv'
<1> USE DEF GiveUp
<1>1. /\ Active(l) /\ item \in 1..MaxSeq
      /\ \A k \in Langs : one'[k] = IF k = l THEN "done" ELSE one[k]
      /\ \A k \in Langs : errors'[k] = IF k = l THEN errors[k] \cup {item} ELSE errors[k]
  BY DEF IInv, TypeOK, Stages, Active
<1>2. TypeOK'
  <2>1. errors' \in [Langs -> SUBSET (1..MaxSeq)]
    BY <1>1 DEF IInv, TypeOK
  <2> QED BY <2>1 DEF IInv, TypeOK
<1>3. QueueShape'
  BY QueueKept
<1>4. Stages' /\ Behind' /\ InOrder'
  BY <1>1 DEF IInv, Stages, Behind, InOrder, Active
<1>5. Complete'
  <2> SUFFICES ASSUME NEW k \in Langs, NEW n \in 1..item, n < item \/ Done(k)'
               PROVE  Accounted(k, n)'
    BY DEF Complete
  <2>1. CASE n < item \/ Done(k)
    BY <1>1, <2>1 DEF IInv, Complete, Accounted, Published
  <2>2. CASE ~(n < item) /\ ~Done(k)
    <3>1. k = l
      BY <1>1, <2>2 DEF Done
    <3>2. n = item
      BY <1>1, <2>2
    <3> QED BY <1>1, <3>1, <3>2 DEF Accounted
  <2> QED BY <2>1, <2>2
<1> QED BY <1>2, <1>3, <1>4, <1>5 DEF IInv

\* Captions reach the streams of some active languages; a coroutine that ends
\* by itself while the stage goes on has published its caption.
LEMMA PublishingStep ==
    ASSUME IInv, NEW reached \in SUBSET {l \in Langs : Active(l)}, Reaching(reached),
           UNCHANGED <<submitted, queue, closed, item, attempt, errors>>,
           one' \in [Langs -> {"done", "translating", "publishing", "cancelled"}],
           \A l \in Langs : one'[l] = one[l] \/ one'[l] \in {"done", "cancelled"},
           \A l \in reached : one'[l] # one[l],
           \/ /\ stage' = stage
              /\ \A l \in Langs : one'[l] = one[l] \/ (one'[l] = "done" /\ l \in reached)
           \/ stage \in {"waiting", "busy"} /\ stage' = "failed"
           \/ /\ stage \in {"waiting", "busy"} /\ stage' = "cancelled"
              /\ \A l \in Langs : one'[l] \in {"done", "cancelled"}
           \/ stage = "failed" /\ stage' = "failed"
    PROVE  IInv'
<1>1. TypeOK'
  <2>1. stage' \in {"waiting", "busy", "ended", "failed", "cancelled"}
    BY DEF IInv, TypeOK
  <2> QED BY <2>1, ReachingStep DEF IInv, TypeOK
<1>2. QueueShape'
  BY QueueKept
<1>3. \A l \in Langs : Active(l)' => Active(l) /\ l \notin reached
  BY DEF Active
<1>4. Stages'
  BY <1>3 DEF IInv, Stages, Active
<1>5. Behind'
  <2> SUFFICES ASSUME NEW l \in Langs, NEW i \in DOMAIN out'[l]
               PROVE  out'[l][i] <= item' /\ (Active(l)' => out'[l][i] < item')
    BY DEF Behind
  <2>1. out'[l][i] <= item
    BY ReachingStep
  <2>2. CASE Active(l)'
    BY <1>3, <2>1, <2>2, ReachingStep DEF IInv, Behind
  <2> QED BY <2>1, <2>2
<1>6. InOrder'
  BY ReachingStep DEF InOrder
<1>7. Complete'
  <2> SUFFICES ASSUME NEW l \in Langs, NEW n \in 1..item, n < item \/ Done(l)'
               PROVE  Accounted(l, n)'
    BY DEF Complete
  <2>1. Accounted(l, n) => Accounted(l, n)'
    BY ReachingStep DEF Accounted
  <2>2. CASE n < item \/ Done(l)
    BY <2>1, <2>2 DEF IInv, Complete
  <2>3. CASE ~(n < item) /\ ~Done(l)
    <3>1. l \in reached
      BY <2>3 DEF Done
    <3>2. n = item
      BY <2>3 DEF IInv, TypeOK
    <3> QED BY <3>1, <3>2, ReachingStep DEF Accounted
  <2> QED BY <2>2, <2>3
<1> QED BY <1>1, <1>2, <1>4, <1>5, <1>6, <1>7 DEF IInv

LEMMA PublishStep == ASSUME IInv, NEW l \in Langs, Publish(l) PROVE IInv'
<1> USE DEF Publish
<1>1. /\ {l} \in SUBSET {k \in Langs : Active(k)} /\ Reaching({l})
      /\ one' \in [Langs -> {"done", "translating", "publishing", "cancelled"}]
      /\ \A k \in Langs : one'[k] = IF k = l THEN "done" ELSE one[k]
      /\ one[l] = "publishing"
  BY DEF IInv, TypeOK, Active
<1> QED BY <1>1, PublishingStep

LEMMA FailStep == ASSUME IInv, NEW l \in Langs, PublishFails(l) PROVE IInv'
<1> USE DEF PublishFails
<1>1. PICK reached \in SUBSET {l} : Reaching(reached)
  OBVIOUS
<1>2. /\ reached \in SUBSET {k \in Langs : Active(k)}
      /\ one' \in [Langs -> {"done", "translating", "publishing", "cancelled"}]
      /\ \A k \in Langs : one'[k] = IF k = l THEN "done" ELSE one[k]
      /\ \A k \in reached : k = l
      /\ one[l] = "publishing"
  BY DEF IInv, TypeOK, Active
<1>3. stage \in {"busy", "failed"} /\ stage' = "failed"
  BY <1>2 DEF IInv, TypeOK, Stages, Active
<1> QED BY <1>1, <1>2, <1>3, PublishingStep

LEMMA CancelStep == ASSUME IInv, CancelStage PROVE IInv'
<1> USE DEF CancelStage, Cancelled
<1>1. PICK reached \in SUBSET {l \in Langs : one[l] = "publishing"} : Reaching(reached)
  OBVIOUS
<1>2. /\ reached \in SUBSET {k \in Langs : Active(k)}
      /\ one' \in [Langs -> {"done", "translating", "publishing", "cancelled"}]
      /\ \A k \in Langs : one'[k] \in {"done", "cancelled"}
      /\ \A k \in reached : one'[k] = "cancelled" /\ one[k] = "publishing"
  BY <1>1 DEF Active
<1> QED BY <1>1, <1>2, PublishingStep

-----------------------------------------------------------------------------
(* The theorems.                                                           *)

LEMMA NextIInv == ASSUME IInv, Next PROVE IInv'
<1>1. CASE Submit \/ CloseStage \/ CancelStage
  BY <1>1, SubmitStep, CloseStep, CancelStep
<1>2. CASE Run
  BY <1>2, TakeStep, EndStep, GatheredStep DEF Run
<1>3. CASE \E l \in Langs : One(l)
  BY <1>3, TryStep, GiveUpStep, PublishStep, FailStep DEF One
<1> QED BY <1>1, <1>2, <1>3 DEF Next

LEMMA StutterIInv == ASSUME IInv, UNCHANGED vars PROVE IInv'
<1> USE DEF vars, coroutines, history
<1>1. TypeOK' /\ QueueShape'
  BY QueueKept DEF IInv, TypeOK
<1>2. Stages' /\ Behind' /\ InOrder'
  BY DEF IInv, Stages, Behind, InOrder, Active
<1>3. Complete'
  BY DEF IInv, Complete, Done, Accounted, Published
<1> QED BY <1>1, <1>2, <1>3 DEF IInv

\* The queue, the coroutines and the streams fit together in every state.
THEOREM Inductive == Spec => []IInv
<1>1. Init => IInv
  BY InitIInv
<1>2. IInv /\ [Next]_vars => IInv'
  BY NextIInv, StutterIInv
<1> QED BY <1>1, <1>2, PTL DEF Spec

\* Every variable stays in its set.
THEOREM TypeCorrect == Spec => []TypeOK
<1>1. IInv => TypeOK
  BY DEF IInv
<1> QED BY <1>1, Inductive, PTL

\* Each language gets the captions in order and none twice.
THEOREM Ordered == Spec => []InOrder
<1>1. IInv => InOrder
  BY DEF IInv
<1> QED BY <1>1, Inductive, PTL

\* No language skips a caption without counting an error.
THEOREM Skipless == Spec => []NoneSkipped
<1>1. IInv => NoneSkipped
  <2> SUFFICES ASSUME IInv, NEW l \in Langs, NEW n \in 1..submitted,
                      n < item \/ stage = "ended"
               PROVE  Accounted(l, n)
    BY DEF NoneSkipped
  <2>1. submitted \in Nat /\ item \in Nat
    BY DEF IInv, TypeOK
  <2>2. n \in 1..item
    BY <2>1 DEF IInv, QueueShape
  <2> QED BY <2>2 DEF IInv, Complete, Done
<1> QED BY <1>1, Inductive, PTL

\* No translation appears after a drain, complete or cut short.
THEOREM Quiet == Spec => QuietAfterEnd
<1>1. IInv /\ [Next]_vars => [(stage \in {"ended", "cancelled"}) => out' = out]_vars
  <2> SUFFICES ASSUME IInv, Next, stage \in {"ended", "cancelled"}
               PROVE  out' = out
    BY DEF vars
  <2>1. \A l \in Langs : one[l] # "translating" /\ one[l] # "publishing"
    BY DEF IInv, Stages, Active
  <2>2. CASE Submit \/ CloseStage
    BY <2>2 DEF Submit, CloseStage, history
  <2>3. CASE CancelStage \/ Run
    BY <2>3 DEF CancelStage, Run, TakeCaption, RunEnds, Gathered
  <2>4. CASE \E l \in Langs : One(l)
    BY <2>1, <2>4 DEF One, Translated, Retry, GiveUp, Publish, PublishFails
  <2> QED BY <2>2, <2>3, <2>4 DEF Next
<1> QED BY <1>1, Inductive, PTL DEF Spec, QuietAfterEnd

-----------------------------------------------------------------------------
(***************************************************************************)
(* The model client.                                                       *)
(***************************************************************************)
\* The server may reject the field once, and the text may be too long once.
One01(b) == IF b THEN 1 ELSE 0
Left(r) == One01(r.field) + One01(r.context)

\* What a request has used and what it may still use; once a request lacks the
\* field, no later one has it.
Budget(l) ==
    request[l].posted =>
        /\ ~request[l].field => ~effort
        /\ request[l].posts + Left(request[l]) <= 3

Idle(l) == ~request[l].posted => request[l].posts = 0

ClientInv == ClientTypeOK /\ \A l \in Langs : Budget(l) /\ Idle(l)

-----------------------------------------------------------------------------
\* Every step of the client is a step of the stage, or none of it.
LEMMA StepRefines == ASSUME ClientNext PROVE [Next]_vars
<1>1. CASE StageStep
  BY <1>1 DEF StageStep, Next
<1>2. ASSUME NEW l \in Langs, EmitStep(l)
      PROVE  [Next]_vars
  BY <1>2 DEF EmitStep, Next, One
<1>3. ASSUME NEW l \in Langs, ClientStep(l)
      PROVE  [Next]_vars
  <2>1. CASE Ask(l) \/ DropField(l) \/ AskBare(l)
    BY <2>1 DEF Ask, DropField, AskBare
  <2>2. CASE Answered(l)
    BY <2>2 DEF Answered, Next, One
  <2>3. CASE AskAgain(l)
    BY <2>3 DEF AskAgain, NextAttempt, Next, One
  <2>4. CASE Fail(l)
    BY <2>4 DEF Fail, Next, One
  <2> QED BY <1>3, <2>1, <2>2, <2>3, <2>4 DEF ClientStep
<1> QED BY <1>1, <1>2, <1>3 DEF ClientNext

\* The stage with its client is the stage of Translation, whose translator
\* answers or fails in one step: the safety half of Implements.
THEOREM Refines == ClientSpec => Spec
<1>1. ClientInit => Init
  BY DEF ClientInit
<1>2. [ClientNext]_<<vars, client>> => [Next]_vars
  <2>1. CASE ClientNext
    BY <2>1, StepRefines
  <2>2. CASE UNCHANGED <<vars, client>>
    BY <2>2
  <2> QED BY <2>1, <2>2
<1> QED BY <1>1, <1>2, PTL DEF ClientSpec, Spec

\* With the client too, each language has the captions in order, none twice.
COROLLARY ClientOrdered == ClientSpec => []InOrder
BY Refines, Ordered

\* With the client too, no language skips a caption without counting an error.
COROLLARY ClientSkipless == ClientSpec => []NoneSkipped
BY Refines, Skipless

-----------------------------------------------------------------------------
\* The request of l after a step that gives it the value r.
LEMMA NewRequest ==
    ASSUME ClientInv, NEW l \in Langs, NEW r \in Requests,
           request' = [request EXCEPT ![l] = r],
           server' = server, effort' \in BOOLEAN, effort' => effort,
           r.posted => (~r.field => ~effort') /\ r.posts + Left(r) <= 3,
           ~r.posted => r.posts = 0
    PROVE  ClientInv'
<1>1. ClientTypeOK'
  BY DEF ClientInv, ClientTypeOK
<1>2. ASSUME NEW k \in Langs PROVE Budget(k)' /\ Idle(k)'
  <2>1. CASE k = l
    <3>1. request'[k] = r
      BY <2>1 DEF ClientInv, ClientTypeOK
    <3> QED BY <3>1 DEF Budget, Idle
  <2>2. CASE k # l
    <3>1. request'[k] = request[k]
      BY <2>2 DEF ClientInv, ClientTypeOK
    <3>2. Budget(k) /\ Idle(k)
      BY DEF ClientInv
    <3> QED BY <3>1, <3>2 DEF Budget, Idle
  <2> QED BY <2>1, <2>2
<1> QED BY <1>1, <1>2 DEF ClientInv

\* The parts of a request that the bound is about.
LEMMA LeftIs ==
    ASSUME NEW r \in Requests
    PROVE  /\ r.field \in BOOLEAN /\ r.context \in BOOLEAN /\ r.posts \in Nat
           /\ Left(r) \in 0..2
BY DEF Requests, Left, One01

\* At the start there is no request.
LEMMA InitClientInv == ASSUME ClientInit PROVE ClientInv
<1>1. NoRequest \in Requests /\ ~NoRequest.posted /\ NoRequest.posts = 0
  BY DEF NoRequest, Requests
<1>2. \A l \in Langs : request[l] = NoRequest
  BY DEF ClientInit
<1>3. ClientTypeOK
  BY <1>1 DEF ClientInit, ClientTypeOK
<1> QED BY <1>1, <1>2, <1>3 DEF ClientInv, Budget, Idle

\* A fresh call has all its requests before it.
LEMMA CallKeeps ==
    ASSUME ClientInv, NEW l \in Langs, Call(l), (item > 1) \in BOOLEAN,
           UNCHANGED <<server, effort>>
    PROVE  ClientInv'
<1> DEFINE r == [posted |-> TRUE, field |-> effort, context |-> item > 1, posts |-> 1]
<1>1. r \in Requests /\ r.posted
  BY DEF ClientInv, ClientTypeOK, Requests
<1>2. ~r.field => ~effort'
  OBVIOUS
<1>3. r.posts + Left(r) <= 3
  BY DEF Left, One01
<1>4. request' = [request EXCEPT ![l] = r]
  BY DEF Call, Post
<1>5. effort' \in BOOLEAN
  BY DEF ClientInv, ClientTypeOK
<1> HIDE DEF r
<1> QED BY <1>1, <1>2, <1>3, <1>4, <1>5, NewRequest

\* A request that is over frees its budget.
LEMMA ForgetKeeps ==
    ASSUME ClientInv, NEW l \in Langs, Forget(l), UNCHANGED <<server, effort>>
    PROVE  ClientInv'
<1>1. NoRequest \in Requests /\ ~NoRequest.posted /\ NoRequest.posts = 0
  BY DEF NoRequest, Requests
<1>2. effort' \in BOOLEAN
  BY DEF ClientInv, ClientTypeOK
<1> QED BY <1>1, <1>2, NewRequest DEF Forget

\* The request without the field, and the flag cleared with it.
LEMMA DropKeeps ==
    ASSUME ClientInv, NEW l \in Langs, DropField(l)
    PROVE  ClientInv'
<1> DEFINE q == request[l]
           r == [posted |-> TRUE, field |-> FALSE, context |-> q.context,
                 posts |-> q.posts + 1]
<1>1. q \in Requests /\ q.field /\ q.posted /\ Budget(l)
  BY DEF ClientInv, ClientTypeOK, DropField, MayDrop, Awaiting
<1>2. r \in Requests /\ r.posted /\ ~r.field
  BY <1>1 DEF Requests
<1>3. q.context \in BOOLEAN /\ q.posts \in Nat
  BY <1>1 DEF Requests
<1>4. r.posts + Left(r) <= 3
  BY <1>1, <1>2, <1>3 DEF Budget, Left, One01
<1>5. request' = [request EXCEPT ![l] = r] /\ server' = server
  BY DEF DropField, Post
<1>6. effort' = FALSE
  BY DEF DropField, EffortAfter
<1> HIDE DEF r, q
<1> QED BY <1>2, <1>4, <1>5, <1>6, NewRequest

\* The request without context: it has the field only if the flag still says so.
LEMMA BareKeeps ==
    ASSUME ClientInv, NEW l \in Langs, AskBare(l)
    PROVE  ClientInv'
<1> DEFINE q == request[l]
           r == [posted |-> TRUE, field |-> effort, context |-> FALSE,
                 posts |-> q.posts + 1]
<1>1. q \in Requests /\ q.context /\ q.posted /\ Budget(l) /\ effort \in BOOLEAN
  BY DEF ClientInv, ClientTypeOK, AskBare, Awaiting
<1>2. q.posts \in Nat /\ q.field \in BOOLEAN
  BY <1>1 DEF Requests
<1>3. r \in Requests /\ r.posted
  BY <1>1, <1>2 DEF Requests
<1>4. r.posts + Left(r) <= 3
  BY <1>1, <1>2 DEF Budget, Left, One01
<1>5. request' = [request EXCEPT ![l] = r] /\ server' = server /\ effort' = effort
  BY DEF AskBare, Post
<1>6. ~r.field => ~effort'
  BY <1>5
<1> HIDE DEF r, q
<1> QED BY <1>1, <1>3, <1>4, <1>5, <1>6, NewRequest

\* No step leaves the invariant.
LEMMA ClientStepKeeps ==
    ASSUME TypeOK, ClientInv, [ClientNext]_<<vars, client>>
    PROVE  ClientInv'
<1>1. CASE UNCHANGED client
  BY <1>1 DEF client, ClientInv, ClientTypeOK, Budget, Idle
<1>2. ASSUME NEW l \in Langs, ClientStep(l)
      PROVE  ClientInv'
  <2>1. CASE Ask(l) \/ AskAgain(l)
    <3>1. (item > 1) \in BOOLEAN
      OBVIOUS
    <3>2. Call(l) /\ UNCHANGED <<server, effort>>
      BY <2>1 DEF Ask, AskAgain
    <3> QED BY <3>1, <3>2, CallKeeps
  <2>2. CASE DropField(l)
    BY <2>2, DropKeeps
  <2>3. CASE AskBare(l)
    BY <2>3, BareKeeps
  <2>4. CASE Answered(l) \/ Fail(l)
    BY <2>4, ForgetKeeps DEF Answered, Fail
  <2> QED BY <1>2, <2>1, <2>2, <2>3, <2>4 DEF ClientStep
<1> QED BY <1>1, <1>2 DEF ClientNext, StageStep, EmitStep

\* An attempt takes three requests at most.
THEOREM Bounded == ClientSpec => []FewRequests
<1>1. ClientInit => ClientInv
  BY InitClientInv
<1>2. TypeOK /\ ClientInv /\ [ClientNext]_<<vars, client>> => ClientInv'
  BY ClientStepKeeps
<1>3. ClientInv => FewRequests
  <2>1. ASSUME ClientInv, NEW l \in Langs PROVE request[l].posts <= 3
    <3>1. request[l] \in Requests /\ Budget(l) /\ Idle(l)
      BY <2>1 DEF ClientInv, ClientTypeOK
    <3> QED BY <3>1, LeftIs DEF Budget, Idle
  <2> QED BY <2>1 DEF FewRequests
<1> QED BY <1>1, <1>2, <1>3, Refines, TypeCorrect, PTL DEF ClientSpec

-----------------------------------------------------------------------------
\* Only Fail counts an error, and it needs a server that errs: the rejection of
\* the field is met with another request.
LEMMA HealthyKeeps ==
    ASSUME FieldIsNoError, [ClientNext]_<<vars, client>>
    PROVE  FieldIsNoError'
<1>1. server' = server
  BY DEF client, ClientNext, StageStep, EmitStep, ClientStep, Ask, DropField,
         AskBare, Answered, AskAgain, Fail
<1>2. CASE errors' = errors
  BY <1>1, <1>2 DEF FieldIsNoError
<1>3. ASSUME NEW l \in Langs, Fail(l) PROVE FieldIsNoError'
  <2>1. ~server.healthy
    BY <1>3 DEF Fail, Errs, Rejected, MayDrop
  <2> QED BY <1>1, <2>1 DEF FieldIsNoError
<1>4. CASE UNCHANGED <<vars, client>>
  BY <1>2, <1>4 DEF vars, history
<1>5. CASE StageStep
  <2>1. errors' = errors
    BY <1>5 DEF StageStep, Submit, CloseStage, CancelStage, Run, TakeCaption,
                RunEnds, Gathered, history
  <2> QED BY <1>2, <2>1
<1>6. ASSUME NEW l \in Langs, EmitStep(l) PROVE FieldIsNoError'
  <2>1. errors' = errors
    BY <1>6 DEF EmitStep, Publish, PublishFails
  <2> QED BY <1>2, <2>1
<1>7. ASSUME NEW l \in Langs, ClientStep(l), ~Fail(l) PROVE FieldIsNoError'
  <2>1. errors' = errors
    BY <1>7 DEF ClientStep, Ask, DropField, AskBare, Answered, AskAgain,
                NextAttempt, Retry, Translated, vars, history
  <2> QED BY <1>2, <2>1
<1> QED BY <1>3, <1>4, <1>5, <1>6, <1>7 DEF ClientNext

\* A server that works costs no sentence, whether or not it takes the field.
THEOREM FieldCostsNothing == ClientSpec => []FieldIsNoError
<1>1. ClientInit => FieldIsNoError
  BY DEF ClientInit, Init, FieldIsNoError
<1> QED BY <1>1, HealthyKeeps, PTL DEF ClientSpec

=============================================================================
