------------------------------ MODULE TalkProofs ------------------------------
(***************************************************************************)
(* Talk for any languages, retries, runs and captions: a run that has been  *)
(* drained is told in every language, nothing follows an end but a new run, *)
(* the streams follow the contract of Captions, and the export is in order. *)
(***************************************************************************)
EXTENDS Export, TLAPS

-----------------------------------------------------------------------------
(* The invariant.                                                          *)

\* A coroutine that may still publish, one that is done, and the end marker.
Active(l) == one[l] \in {"translating", "publishing"}
Done(l) == stage \in {"waiting", "ended"} \/ (stage = "busy" /\ one[l] = "done")
Marks == IF closed /\ stage # "ended" THEN 1 ELSE 0

Entries == [kind : {"final", "partial", "ended", "error"}, seq : Int]

Types ==
    /\ submitted \in Nat /\ item \in Nat /\ found \in Nat
    /\ queue \in Seq(Nat)
    /\ stage \in {"waiting", "busy", "ended", "failed", "cancelled"}
    /\ phase \in {"idle", "run", "drain", "announce"}
    /\ one \in [Langs -> {"done", "translating", "publishing", "cancelled"}]
    /\ out \in [Langs -> Seq(Nat)] /\ errors \in [Langs -> SUBSET Nat]
    /\ source \in Seq(Entries) /\ told \in [Langs -> Seq(Entries)]
    /\ stray \in [Langs -> SUBSET Nat]

\* A stream has a last FINAL, and without a lull the numbers of its FINALs never
\* fall.
HasLast(l) == Finals(l) = {} \/ \E z \in Finals(l) : \A i \in Finals(l) : i <= z
Placed(l) ==
    /\ HasLast(l)
    /\ ~Lulled(l) => \A i, j \in Finals(l) : i <= j => l[i].seq <= l[j].seq

\* What has been spoken has been submitted, but for one caption of a run that did
\* not end by itself.
Exact ==
    /\ \/ Spoken = 1..submitted
       \/ Spoken = 1..(submitted + 1) /\ outcome # "ended"
    /\ phase = "run" => Spoken = 1..(IF emitting THEN submitted + 1 ELSE submitted)

\* The source has no holes, and all that has been submitted; after a lull it has
\* more than this run has said.
Speech ==
    /\ \E last \in Nat : Spoken = 1..last
    /\ 1..submitted \subseteq Spoken
    /\ ~Lulled(source) => Exact
    /\ Placed(source)
    /\ emitting => phase = "run" /\ submitted + 1 \in Spoken
    /\ phase = "run" => outcome = "none" /\ ~closed

\* How far the stage is: it begins behind what its run has found.
Base == IF item = 0 THEN found ELSE item
Rest == submitted - Base

\* The queue holds the captions behind Base, and then the end marker.
Ahead ==
    /\ item # 0 => item > found
    /\ Base <= submitted
    /\ Len(queue) = Rest + Marks
    /\ \A i \in 1..Len(queue) : queue[i] = IF i <= Rest THEN Base + i ELSE CloseMark
    /\ stage = "ended" => Base = submitted /\ closed

\* Only a failed stage has coroutines that outlive it, and only in the run and
\* its drain is one at work.
Quiet ==
    /\ stage \in {"waiting", "ended", "cancelled"} => \A l \in Langs : ~Active(l)
    /\ stage = "waiting" => \A l \in Langs : one[l] = "done"
    /\ stage = "busy" => item # 0
    /\ \A l \in Langs : Active(l) => item # 0
    /\ phase \in {"idle", "announce"} => stage # "busy" /\ (stage = "waiting" => queue = <<>>)
    /\ stage = "failed" => disturbed
    /\ \A l \in Langs : stray[l] \subseteq Spoken /\ (stray[l] # {} => disturbed)

\* A language has nothing as new as what it may still publish.
Behind ==
    ~disturbed /\ ~Lulled(source) => \A l \in Langs : \A n \in Seqs(told[l]) :
        n <= Base /\ (Active(l) => n < item)

\* A language is done with every caption of the run before item, and with item
\* once its coroutine has come to an end of its own.
Complete ==
    \A l \in Langs : \A n \in (found + 1)..item : n < item \/ Done(l) => Accounted(l, n)

TalkInv == Types /\ Speech /\ Ahead /\ Quiet /\ Behind /\ Complete

-----------------------------------------------------------------------------
(* Sequences and streams.                                                  *)

LEMMA AppendOne ==
    ASSUME NEW S, NEW q \in Seq(S), NEW e \in S
    PROVE  /\ Append(q, e) \in Seq(S)
           /\ Len(q) \in Nat /\ DOMAIN q = 1..Len(q) /\ Len(Append(q, e)) = Len(q) + 1
           /\ DOMAIN Append(q, e) = 1..(Len(q) + 1)
           /\ \A i \in 1..Len(q) : Append(q, e)[i] = q[i]
           /\ Append(q, e)[Len(q) + 1] = e
OBVIOUS

Elements(q) == {q[i] : i \in DOMAIN q}

LEMMA ElementsAppend ==
    ASSUME NEW S, NEW q \in Seq(S), NEW e \in S
    PROVE  Elements(Append(q, e)) = Elements(q) \cup {e}
<1> DEFINE t == Append(q, e)
<1>1. /\ Len(q) \in Nat /\ DOMAIN q = 1..Len(q) /\ DOMAIN t = 1..(Len(q) + 1)
      /\ \A i \in 1..Len(q) : t[i] = q[i]
      /\ t[Len(q) + 1] = e
  BY AppendOne
<1> HIDE DEF t
<1>2. {t[i] : i \in 1..(Len(q) + 1)} = {t[i] : i \in 1..Len(q)} \cup {t[Len(q) + 1]}
  <2>1. 1..(Len(q) + 1) = 1..Len(q) \cup {Len(q) + 1}
    BY <1>1
  <2> QED
    BY <2>1
<1>3. {t[i] : i \in 1..Len(q)} = {q[i] : i \in 1..Len(q)}
  BY <1>1
<1> QED
  BY <1>1, <1>2, <1>3 DEF t, Elements

LEMMA TailOne ==
    ASSUME NEW S, NEW q \in Seq(S), q # <<>>
    PROVE  /\ Tail(q) \in Seq(S) /\ Head(q) \in S /\ Head(q) = q[1]
           /\ Len(q) \in Nat \ {0} /\ Len(Tail(q)) = Len(q) - 1
           /\ \A i \in 1..Len(Tail(q)) : Tail(q)[i] = q[i + 1]
OBVIOUS

LEMMA FinalIs ==
    ASSUME NEW n \in Nat
    PROVE  /\ Final(n) \in Entries /\ Final(n).kind = "final"
           /\ Final(n).seq = n - 1 /\ Final(n).seq + 1 = n
BY DEF Final, Entries

LEMMA OthersAre ==
    /\ Event \in Entries /\ Event.kind # "final"
    /\ Partial \in Entries /\ Partial.kind # "final"
BY DEF Event, Partial, Entries

\* The FINALs of a stream after one more entry.
LEMMA FinalsAppend ==
    ASSUME NEW s \in Seq(Entries), NEW e \in Entries
    PROVE  /\ Finals(s) \subseteq 1..Len(s)
           /\ \A i \in Finals(s) : Append(s, e)[i] = s[i] /\ s[i].seq \in Int
           /\ Finals(Append(s, e)) =
                IF e.kind = "final" THEN Finals(s) \cup {Len(s) + 1} ELSE Finals(s)
<1> DEFINE t == Append(s, e)
<1>1. /\ Len(s) \in Nat /\ DOMAIN s = 1..Len(s) /\ DOMAIN t = 1..(Len(s) + 1)
      /\ \A i \in 1..Len(s) : t[i] = s[i]
      /\ t[Len(s) + 1] = e
  BY AppendOne
<1> HIDE DEF t
<1>2. Finals(s) \subseteq 1..Len(s)
  BY <1>1 DEF Finals
<1>3. \A i \in Finals(s) : t[i] = s[i] /\ s[i].seq \in Int
  <2>1. \A i \in 1..Len(s) : s[i] \in Entries
    BY <1>1
  <2> QED
    BY <1>1, <1>2, <2>1 DEF Entries
<1>4. \A i : i \in Finals(t) <=> i \in Finals(s) \/ (i = Len(s) + 1 /\ e.kind = "final")
  BY <1>1 DEF Finals, IsFinal
<1>5. Finals(t) = IF e.kind = "final" THEN Finals(s) \cup {Len(s) + 1} ELSE Finals(s)
  BY <1>4
<1> QED
  BY <1>2, <1>3, <1>5 DEF t

\* The captions of a stream after one more entry.
LEMMA SeqsAppend ==
    ASSUME NEW s \in Seq(Entries), NEW e \in Entries
    PROVE  Seqs(Append(s, e)) = IF e.kind = "final" THEN Seqs(s) \cup {e.seq + 1} ELSE Seqs(s)
<1> DEFINE t == Append(s, e)
<1>1. /\ \A i \in Finals(s) : t[i] = s[i]
      /\ Finals(t) = IF e.kind = "final" THEN Finals(s) \cup {Len(s) + 1} ELSE Finals(s)
      /\ t[Len(s) + 1] = e
  BY FinalsAppend, AppendOne
<1> HIDE DEF t
<1>2. {t[i].seq + 1 : i \in Finals(s)} = Seqs(s)
  <2>1. \A i \in Finals(s) : t[i].seq + 1 = s[i].seq + 1
    BY <1>1
  <2> QED
    BY <2>1 DEF Seqs
<1>3. CASE e.kind = "final"
  <2>1. Seqs(t) = {t[i].seq + 1 : i \in Finals(s)} \cup {t[Len(s) + 1].seq + 1}
    BY <1>1, <1>3 DEF Seqs
  <2> QED
    BY <1>1, <1>2, <1>3, <2>1 DEF t
<1>4. CASE e.kind # "final"
  <2>1. Seqs(t) = {t[i].seq + 1 : i \in Finals(s)}
    BY <1>1, <1>4 DEF Seqs
  <2> QED
    BY <1>2, <1>4, <2>1 DEF t
<1> QED
  BY <1>3, <1>4

\* A lull stays one, and a number that is not below the others keeps the order.
LEMMA PlacedAppend ==
    ASSUME NEW s \in Seq(Entries), NEW e \in Entries, Placed(s),
           e.kind = "final" /\ ~Lulled(s) => \A n \in Seqs(s) : n <= e.seq + 1
    PROVE  Placed(Append(s, e)) /\ (Lulled(s) => Lulled(Append(s, e)))
<1> DEFINE t == Append(s, e)
<1>1. /\ Len(s) \in Nat /\ Len(t) = Len(s) + 1
      /\ \A i \in 1..Len(s) : t[i] = s[i]
      /\ t[Len(s) + 1] = e
  BY AppendOne
<1>2. /\ Finals(s) \subseteq 1..Len(s)
      /\ \A i \in Finals(s) : t[i] = s[i] /\ s[i].seq \in Int
      /\ Finals(t) = IF e.kind = "final" THEN Finals(s) \cup {Len(s) + 1} ELSE Finals(s)
  BY FinalsAppend
<1> HIDE DEF t
<1>3. ASSUME NEW k \in Finals(s), Lull(s, k) PROVE Lull(t, k)
  <2>1. k \in 1..Len(s) /\ k + Scan <= Len(s) /\ Scan \in Nat
    BY <1>2, <1>3, TalkAssumption DEF Lull
  <2>2. \A j \in (k + 1)..(k + Scan) : j \in 1..Len(s) /\ t[j] = s[j]
    BY <1>1, <2>1
  <2> QED
    BY <1>1, <1>3, <2>1, <2>2 DEF Lull, IsFinal
<1>4. Lulled(s) => Lulled(t)
  BY <1>2, <1>3 DEF Lulled
<1>5. HasLast(t)
  <2>1. CASE e.kind = "final"
    <3>1. Len(s) + 1 \in Finals(t) /\ \A i \in Finals(t) : i <= Len(s) + 1
      BY <1>1, <1>2, <2>1
    <3> QED
      BY <3>1 DEF HasLast
  <2>2. CASE e.kind # "final"
    BY <1>2, <2>2 DEF Placed, HasLast
  <2> QED
    BY <2>1, <2>2
<1>6. ASSUME ~Lulled(t), NEW i \in Finals(t), NEW j \in Finals(t), i <= j
      PROVE  t[i].seq <= t[j].seq
  <2>1. ~Lulled(s)
    BY <1>4, <1>6
  <2>2. CASE j \in Finals(s)
    <3>1. i \in Finals(s)
      BY <1>1, <1>2, <1>6, <2>2
    <3> QED
      BY <1>2, <1>6, <2>1, <2>2, <3>1 DEF Placed
  <2>3. CASE j = Len(s) + 1 /\ e.kind = "final"
    <3>1. CASE i \in Finals(s)
      <4>1. s[i].seq + 1 \in Seqs(s)
        BY <3>1 DEF Seqs
      <4>2. s[i].seq + 1 <= e.seq + 1 /\ e.seq \in Int
        BY <2>1, <2>3, <4>1 DEF Entries
      <4> QED
        BY <1>1, <1>2, <2>3, <3>1, <4>2
    <3>2. CASE i = j
      BY <1>1, <2>3, <3>2 DEF Entries
    <3> QED
      BY <1>2, <2>3, <3>1, <3>2
  <2> QED
    BY <1>2, <2>2, <2>3
<1>7. Placed(t)
  BY <1>5, <1>6 DEF Placed
<1> QED
  BY <1>4, <1>7 DEF t

\* Entries that are not captions, one or two of them.
LEMMA OthersKeep ==
    ASSUME NEW s \in Seq(Entries), NEW e \in Entries, e.kind # "final", Placed(s),
           NEW t \in {Append(s, e), Append(Append(s, e), e)}
    PROVE  /\ t \in Seq(Entries) /\ Seqs(t) = Seqs(s)
           /\ Placed(t) /\ (Lulled(s) => Lulled(t))
<1>1. Append(s, e) \in Seq(Entries) /\ Append(Append(s, e), e) \in Seq(Entries)
  BY AppendOne
<1>2. Seqs(Append(s, e)) = Seqs(s) /\ Seqs(Append(Append(s, e), e)) = Seqs(s)
  BY <1>1, SeqsAppend
<1>3. Placed(Append(s, e)) /\ (Lulled(s) => Lulled(Append(s, e)))
  BY PlacedAppend
<1>4. /\ Placed(Append(Append(s, e), e))
      /\ Lulled(Append(s, e)) => Lulled(Append(Append(s, e), e))
  BY <1>1, <1>3, PlacedAppend
<1> QED
  BY <1>1, <1>2, <1>3, <1>4

\* A caption behind all others, once or twice.
LEMMA FinalKeeps ==
    ASSUME NEW s \in Seq(Entries), NEW n \in Nat, Placed(s),
           ~Lulled(s) => \A m \in Seqs(s) : m <= n,
           NEW t \in {Append(s, Final(n)), Append(Append(s, Final(n)), Final(n))}
    PROVE  /\ t \in Seq(Entries) /\ Seqs(t) = Seqs(s) \cup {n}
           /\ Placed(t) /\ (Lulled(s) => Lulled(t))
<1> DEFINE e == Final(n)
<1>0. e \in Entries /\ e.kind = "final" /\ e.seq + 1 = n
  BY FinalIs
<1> HIDE DEF e
<1>1. Append(s, e) \in Seq(Entries) /\ Append(Append(s, e), e) \in Seq(Entries)
  BY <1>0, AppendOne
<1>2. Seqs(Append(s, e)) = Seqs(s) \cup {n} /\ Seqs(Append(Append(s, e), e)) = Seqs(s) \cup {n}
  BY <1>0, <1>1, SeqsAppend
<1>3. Placed(Append(s, e)) /\ (Lulled(s) => Lulled(Append(s, e)))
  BY <1>0, PlacedAppend
<1>4. ~Lulled(Append(s, e)) => \A m \in Seqs(Append(s, e)) : m <= n
  BY <1>2, <1>3
<1>5. /\ Placed(Append(Append(s, e), e))
      /\ Lulled(Append(s, e)) => Lulled(Append(Append(s, e), e))
  BY <1>0, <1>1, <1>3, <1>4, PlacedAppend
<1> QED
  BY <1>1, <1>2, <1>3, <1>5 DEF e

\* What has got out of the coroutines in reached.
LEMMA Reaches ==
    ASSUME Types, NEW reached \in SUBSET Langs, Reaching(reached)
    PROVE  /\ out' \in [Langs -> Seq(Nat)]
           /\ \A l \in Langs : Published(l)' =
                IF l \in reached THEN Published(l) \cup {item} ELSE Published(l)
<1>1. out' = [l \in Langs |-> IF l \in reached THEN Append(out[l], item) ELSE out[l]]
  BY DEF Reaching
<1>2. \A l \in Langs : out[l] \in Seq(Nat)
  BY DEF Types
<1>3. \A l \in Langs : Append(out[l], item) \in Seq(Nat)
  BY <1>2, AppendOne DEF Types
<1>4. out' \in [Langs -> Seq(Nat)]
  BY <1>1, <1>2, <1>3
<1>5. \A l \in Langs : Published(l)' =
         IF l \in reached THEN Published(l) \cup {item} ELSE Published(l)
  <2> SUFFICES ASSUME NEW l \in Langs
               PROVE  Published(l)' =
                        IF l \in reached THEN Published(l) \cup {item} ELSE Published(l)
    OBVIOUS
  <2>1. CASE l \in reached
    <3>1. out'[l] = Append(out[l], item)
      BY <1>1, <2>1
    <3>2. out[l] \in Seq(Nat) /\ item \in Nat
      BY <1>2 DEF Types
    <3>3. Elements(Append(out[l], item)) = Elements(out[l]) \cup {item}
      BY <3>2, ElementsAppend
    <3>4. Published(l) = Elements(out[l]) /\ Published(l)' = Elements(out'[l])
      BY DEF Published, Elements
    <3> QED
      BY <2>1, <3>1, <3>3, <3>4
  <2>2. CASE l \notin reached
    BY <1>1, <2>2 DEF Published
  <2> QED
    BY <2>1, <2>2
<1> QED
  BY <1>4, <1>5

\* Captions that get to the streams of the languages in reached.
LEMMA Copies ==
    ASSUME Types, NEW reached \in SUBSET Langs, Reaching(reached), Copied
    PROVE  /\ told' = [l \in Langs |-> IF l \in reached THEN Append(told[l], Final(item)) ELSE told[l]]
           /\ told' \in [Langs -> Seq(Entries)]
           /\ \A l \in Langs : Seqs(told'[l]) =
                IF l \in reached THEN Seqs(told[l]) \cup {item} ELSE Seqs(told[l])
<1>1. out' = [l \in Langs |-> IF l \in reached THEN Append(out[l], item) ELSE out[l]]
  BY DEF Reaching
<1>2. \A l \in Langs : out[l] \in Seq(Nat) /\ told[l] \in Seq(Entries)
  BY DEF Types
<1>3. \A l \in Langs :
        /\ Append(out[l], item) \in Seq(Nat)
        /\ Len(out[l]) \in Nat /\ DOMAIN out[l] = 1..Len(out[l])
        /\ Len(Append(out[l], item)) = Len(out[l]) + 1
        /\ DOMAIN Append(out[l], item) = 1..(Len(out[l]) + 1)
        /\ \A i \in 1..Len(out[l]) : Append(out[l], item)[i] = out[l][i]
        /\ Append(out[l], item)[Len(out[l]) + 1] = item
  <2> TAKE l \in Langs
  <2>1. out[l] \in Seq(Nat) /\ item \in Nat
    BY <1>2 DEF Types
  <2> QED
    BY <2>1, AppendOne
<1>4. \A l \in Langs : Len(out'[l]) > Len(out[l]) <=> l \in reached
  BY <1>1, <1>3
<1>5. told' = [l \in Langs |-> IF l \in reached THEN Append(told[l], Final(item)) ELSE told[l]]
  BY <1>4 DEF Copied
<1>6. Final(item) \in Entries /\ Final(item).kind = "final" /\ Final(item).seq + 1 = item
  BY FinalIs DEF Types
<1>7. \A l \in Langs : Append(told[l], Final(item)) \in Seq(Entries)
  BY <1>2, <1>6, AppendOne
<1>8. \A l \in Langs : Seqs(Append(told[l], Final(item))) = Seqs(told[l]) \cup {item}
  BY <1>2, <1>6, SeqsAppend
<1>9. told' \in [Langs -> Seq(Entries)]
  BY <1>2, <1>5, <1>7
<1>10. \A l \in Langs : Seqs(told'[l]) =
         IF l \in reached THEN Seqs(told[l]) \cup {item} ELSE Seqs(told[l])
  BY <1>5, <1>8
<1> QED
  BY <1>5, <1>9, <1>10

-----------------------------------------------------------------------------
(* The run.                                                                *)

\* A run goes on behind a caption of the stream: the last one, unless there was a
\* lull.
LEMMA FoundIs ==
    ASSUME Types, Speech
    PROVE  /\ Found \in Nat /\ 1..Found \subseteq Spoken
           /\ ~Lulled(source) => Spoken = 1..Found
<1>1. source \in Seq(Entries) /\ Len(source) \in Nat /\ DOMAIN source = 1..Len(source)
  BY DEF Types
<1>2. Finals(source) \subseteq 1..Len(source)
  BY <1>1 DEF Finals
<1>3. Scan \in Nat \ {0}
  BY TalkAssumption
<1>4. \A i \in Finals(source) : source[i].seq \in Int
  <2>1. \A i \in 1..Len(source) : source[i] \in Entries
    BY <1>1
  <2> QED
    BY <1>2, <2>1 DEF Entries
<1>5. PICK last \in Nat : Spoken = 1..last
  BY DEF Speech
<1>6. CASE Recent(source) = {}
  <2>1. Found = 0
    BY <1>6 DEF Found
  <2>2. ASSUME Finals(source) # {} PROVE Lulled(source)
    <3>1. PICK z \in Finals(source) : \A i \in Finals(source) : i <= z
      BY <2>2 DEF Speech, Placed, HasLast
    <3>2. z \in 1..Len(source) /\ ~(z > Len(source) - Scan)
      BY <1>2, <1>6, <3>1 DEF Recent
    <3>3. z + Scan <= Len(source)
      BY <1>1, <1>3, <3>2
    <3>4. \A j \in (z + 1)..(z + Scan) : j \in DOMAIN source /\ ~(j <= z)
      BY <1>1, <1>3, <3>2, <3>3
    <3>5. \A j \in (z + 1)..(z + Scan) : ~IsFinal(source, j)
      BY <3>1, <3>4 DEF Finals
    <3> QED
      BY <3>1, <3>3, <3>5 DEF Lulled, Lull
  <2>3. Finals(source) = {} => Spoken = {}
    BY DEF Spoken, Seqs
  <2> QED
    BY <2>1, <2>2, <2>3
<1>7. CASE Recent(source) # {}
  <2> DEFINE k == Newest(source)
  <2>1. PICK z \in Finals(source) : \A i \in Finals(source) : i <= z
    <3>1. Finals(source) # {}
      BY <1>7 DEF Recent
    <3> QED
      BY <3>1 DEF Speech, Placed, HasLast
  <2>2. PICK r \in Finals(source) : r > Len(source) - Scan
    BY <1>7 DEF Recent
  <2>3. z > Len(source) - Scan
    BY <1>1, <1>2, <1>3, <2>1, <2>2
  <2>4. z \in Recent(source) /\ \A j \in Recent(source) : j <= z /\ j \in Finals(source)
    BY <2>1, <2>3 DEF Recent
  <2>5. k \in Recent(source) /\ \A j \in Recent(source) : j <= k
    BY <2>4 DEF Newest
  <2>6. k = z
    BY <1>2, <2>4, <2>5
  <2> HIDE DEF k
  <2>7. Found = source[z].seq + 1
    BY <1>7, <2>6 DEF Found, k
  <2>8. Found \in Spoken
    BY <2>1, <2>7 DEF Spoken, Seqs
  <2>9. Found \in 1..last
    BY <1>5, <2>8
  <2>10. Found \in Nat /\ 1..Found \subseteq Spoken
    BY <1>5, <2>9
  <2>11. ASSUME ~Lulled(source) PROVE last <= Found
    <3>1. last \in Spoken
      BY <1>5, <2>9
    <3>2. PICK i \in Finals(source) : last = source[i].seq + 1
      BY <3>1 DEF Spoken, Seqs
    <3>3. source[i].seq <= source[z].seq
      BY <2>1, <2>11 DEF Speech, Placed
    <3> QED
      BY <1>4, <2>1, <2>7, <3>2, <3>3
  <2> QED
    BY <1>5, <2>9, <2>10, <2>11
<1> QED
  BY <1>6, <1>7

\* What may still be published has been spoken.
LEMMA ActiveSpoken ==
    ASSUME TalkInv, NEW l \in Langs, Active(l)
    PROVE  item \in 1..submitted /\ item \in Spoken
<1>1. item # 0 /\ item \in Nat /\ submitted \in Nat
  BY DEF TalkInv, Quiet, Types
<1>2. item <= submitted
  BY <1>1 DEF TalkInv, Ahead, Base
<1>3. 1..submitted \subseteq Spoken
  BY DEF TalkInv, Speech
<1> QED
  BY <1>1, <1>2, <1>3

LEMMA BeginsKeeps ==
    ASSUME TalkInv, Begins
    PROVE  TalkInv'
<1>1. /\ phase = "idle" /\ phase' = "run" /\ outcome' = "none"
      /\ found' = Found /\ submitted' = Found
      /\ queue' = <<>> /\ closed' = FALSE
      /\ stage' = "waiting" /\ item' = 0
      /\ one' = [l \in Langs |-> "done"]
      /\ out' = [l \in Langs |-> <<>>] /\ errors' = [l \in Langs |-> {}]
      /\ UNCHANGED <<source, told, emitting, disturbed>>
  BY DEF Begins
<1>2. stray' = [l \in Langs |-> IF Active(l) THEN stray[l] \cup {item} ELSE stray[l]]
  BY DEF Begins, Active
<1>3. /\ Found \in Nat /\ 1..Found \subseteq Spoken /\ Spoken' = Spoken
      /\ ~Lulled(source) => Spoken = 1..Found
  BY <1>1, FoundIs DEF TalkInv, Spoken
<1>4. Types'
  BY <1>1, <1>2, <1>3 DEF TalkInv, Types
<1>5. Speech'
  <2>1. ~emitting
    BY <1>1 DEF TalkInv, Speech
  <2> QED
    BY <1>1, <1>3, <2>1 DEF TalkInv, Speech, Exact, Types
<1>6. Ahead'
  BY <1>1, <1>3 DEF Ahead, Base, Rest, Marks
<1>7. Quiet'
  <2>1. \A l \in Langs : Active(l) => disturbed
    BY <1>1 DEF TalkInv, Types, Quiet
  <2>2. \A l \in Langs : stray'[l] \subseteq Spoken /\ (stray'[l] # {} => disturbed)
    BY <1>2, <2>1, ActiveSpoken DEF TalkInv, Quiet
  <2> QED
    BY <1>1, <1>3, <2>2 DEF Quiet, Active
<1>8. Behind'
  <2>1. submitted \in Nat /\ Base <= submitted /\ Base \in Nat
    BY DEF TalkInv, Types, Ahead, Base
  <2>2. Base' = Found /\ (~Lulled(source) => Base <= Found)
    <3>1. ASSUME ~Lulled(source) PROVE submitted <= Found
      <4>1. 1..submitted \subseteq 1..Found
        BY <1>3, <3>1 DEF TalkInv, Speech
      <4> QED
        BY <1>3, <2>1, <4>1
    <3> QED
      BY <1>1, <1>3, <2>1, <3>1 DEF Base
  <2>3. \A l \in Langs : ~Active(l)'
    BY <1>1 DEF Active
  <2>4. \A l \in Langs : Seqs(told'[l]) = Seqs(told[l]) /\ \A n \in Seqs(told[l]) : n \in Int
    <3>1. \A l \in Langs : told[l] \in Seq(Entries)
      BY DEF TalkInv, Types
    <3>2. \A l \in Langs : \A i \in DOMAIN told[l] : told[l][i] \in Entries
      BY <3>1
    <3> QED
      BY <1>1, <3>2 DEF Seqs, Finals, Entries
  <2> QED
    BY <1>1, <1>3, <2>1, <2>2, <2>3, <2>4 DEF TalkInv, Behind
<1>9. Complete'
  BY <1>1, <1>3 DEF Complete
<1> QED
  BY <1>4, <1>5, <1>6, <1>7, <1>8, <1>9 DEF TalkInv

\* Steps that leave the stage and the translations alone.
LEMMA StageKept ==
    ASSUME TalkInv, UNCHANGED <<vars, found, told>>, disturbed => disturbed',
           Lulled(source) => Lulled(source')
    PROVE  Ahead' /\ Behind' /\ Complete'
<1>1. UNCHANGED <<submitted, queue, closed, stage, item, one, out, errors, found, told>>
  BY DEF vars, coroutines, history
<1>2. Base' = Base /\ Rest' = Rest /\ Marks' = Marks
  BY <1>1 DEF Base, Rest, Marks
<1>3. Ahead'
  BY <1>1, <1>2 DEF TalkInv, Ahead
<1>4. Behind'
  BY <1>1, <1>2 DEF TalkInv, Behind, Active
<1>5. Complete'
  BY <1>1 DEF TalkInv, Complete, Done, Accounted, Published
<1> QED
  BY <1>3, <1>4, <1>5

\* A caption that is said, once or twice.
LEMMA SaidKeeps ==
    ASSUME TalkInv, phase = "run", ~emitting, emitting' = TRUE,
           source' \in {Append(source, Final(submitted + 1)),
                       Append(Append(source, Final(submitted + 1)), Final(submitted + 1))},
           UNCHANGED <<vars, phase, outcome, found, told, stray>>,
           disturbed => disturbed'
    PROVE  TalkInv' /\ Spoken' = Spoken \cup {submitted + 1} /\ (Lulled(source) => Lulled(source'))
<1>1. UNCHANGED <<submitted, queue, closed, stage, item, one, out, errors>>
  BY DEF vars, coroutines, history
<1>2. submitted \in Nat /\ submitted + 1 \in Nat /\ source \in Seq(Entries)
  BY DEF TalkInv, Types
<1>3. PICK last \in Nat : Spoken = 1..last
  BY DEF TalkInv, Speech
<1>4. 1..submitted \subseteq Spoken /\ (~Lulled(source) => Spoken = 1..submitted)
  BY DEF TalkInv, Speech, Exact
<1>5. /\ source' \in Seq(Entries) /\ Spoken' = Spoken \cup {submitted + 1}
      /\ Placed(source') /\ (Lulled(source) => Lulled(source'))
  <2>1. ~Lulled(source) => \A m \in Seqs(source) : m <= submitted + 1
    BY <1>2, <1>4 DEF Spoken
  <2>2. Placed(source)
    BY DEF TalkInv, Speech
  <2> QED
    BY <1>2, <2>1, <2>2, FinalKeeps DEF Spoken
<1>6. Types'
  BY <1>1, <1>5 DEF TalkInv, Types
<1>7. Speech'
  <2>1. \E m \in Nat : Spoken' = 1..m
    <3>1. submitted <= last
      BY <1>2, <1>3, <1>4
    <3>2. CASE submitted = last
      <4>1. Spoken' = 1..(submitted + 1)
        BY <1>2, <1>3, <1>5, <3>2
      <4> QED
        BY <1>2, <4>1
    <3>3. CASE submitted < last
      <4>1. Spoken' = 1..last
        BY <1>2, <1>3, <1>5, <3>3
      <4> QED
        BY <4>1
    <3> QED
      BY <1>2, <3>1, <3>2, <3>3
  <2>2. ~Lulled(source') => Spoken' = 1..(submitted + 1)
    BY <1>2, <1>4, <1>5
  <2>3. outcome = "none" /\ ~closed
    BY DEF TalkInv, Speech
  <2>4. 1..submitted' \subseteq Spoken' /\ submitted' + 1 \in Spoken'
    BY <1>1, <1>4, <1>5
  <2>5. ~Lulled(source') => Exact'
    BY <1>1, <2>2, <2>3 DEF Exact
  <2> QED
    BY <1>1, <1>5, <2>1, <2>3, <2>4, <2>5 DEF Speech
<1>8. Quiet'
  BY <1>1, <1>5 DEF TalkInv, Quiet, Active
<1> QED
  BY <1>5, <1>6, <1>7, <1>8, StageKept DEF TalkInv

LEMMA SpeaksKeeps ==
    ASSUME TalkInv, Speaks \/ SpeaksTwice
    PROVE  TalkInv' /\ Spoken' = Spoken \cup {submitted + 1} /\ (Lulled(source) => Lulled(source'))
<1>1. /\ phase = "run" /\ ~emitting /\ emitting' = TRUE /\ (disturbed => disturbed')
      /\ UNCHANGED <<vars, phase, outcome, found, told, stray>>
  BY DEF Speaks, SpeaksTwice
<1>2. source' \in {Append(source, Final(submitted + 1)),
                  Append(Append(source, Final(submitted + 1)), Final(submitted + 1))}
  BY DEF Speaks, SpeaksTwice
<1> QED
  BY <1>1, <1>2, SaidKeeps

\* Entries of the source that are not captions.
LEMMA SourceRests ==
    ASSUME TalkInv, NEW e \in Entries, e.kind # "final",
           source' \in {source, Append(source, e), Append(Append(source, e), e)}
    PROVE  /\ source' \in Seq(Entries) /\ Spoken' = Spoken
           /\ Placed(source') /\ (Lulled(source) => Lulled(source'))
<1>1. source \in Seq(Entries) /\ Placed(source)
  BY DEF TalkInv, Types, Speech
<1>2. CASE source' = source
  BY <1>1, <1>2 DEF Spoken
<1>3. CASE source' \in {Append(source, e), Append(Append(source, e), e)}
  BY <1>1, <1>3, OthersKeep DEF Spoken
<1> QED
  BY <1>2, <1>3

LEMMA MurmursKeeps ==
    ASSUME TalkInv, Murmurs
    PROVE  TalkInv'
<1>1. /\ phase = "run" /\ ~emitting /\ source' = Append(source, Partial)
      /\ UNCHANGED <<vars, phase, outcome, found, emitting, told, stray, disturbed>>
  BY DEF Murmurs, run
<1>2. /\ source' \in Seq(Entries) /\ Spoken' = Spoken
      /\ Placed(source') /\ (Lulled(source) => Lulled(source'))
  BY <1>1, OthersAre, SourceRests
<1>3. UNCHANGED <<submitted, queue, closed, stage, item, one, out, errors>>
  BY <1>1 DEF vars, coroutines, history
<1>4. Types'
  BY <1>1, <1>2, <1>3 DEF TalkInv, Types
<1>5. Speech'
  BY <1>1, <1>2, <1>3 DEF TalkInv, Speech, Exact
<1>6. Quiet'
  BY <1>1, <1>2, <1>3 DEF TalkInv, Quiet, Active
<1> QED
  BY <1>1, <1>2, <1>4, <1>5, <1>6, StageKept DEF TalkInv

LEMMA SubmitsKeeps ==
    ASSUME TalkInv, Submits
    PROVE  TalkInv'
<1>1. /\ phase = "run" /\ emitting /\ emitting' = FALSE /\ ~closed
      /\ submitted' = submitted + 1 /\ queue' = Append(queue, submitted + 1)
      /\ UNCHANGED <<closed, stage, item, one, out, errors>>
      /\ UNCHANGED <<phase, outcome, found, source, told, stray, disturbed>>
  BY DEF Submits, Submit, coroutines, history
<1>2. /\ submitted \in Nat /\ item \in Nat /\ found \in Nat /\ queue \in Seq(Nat)
      /\ Base \in Nat /\ Base <= submitted /\ Rest \in Nat
  BY DEF TalkInv, Types, Ahead, Base, Rest
<1>3. /\ Spoken' = Spoken /\ submitted + 1 \in Spoken
      /\ ~Lulled(source) => Spoken = 1..(submitted + 1)
  BY <1>1 DEF TalkInv, Speech, Exact, Spoken
<1>4. Types'
  BY <1>1, <1>2 DEF TalkInv, Types
<1>5. Speech'
  <2>1. 1..(submitted + 1) \subseteq Spoken
    BY <1>2, <1>3 DEF TalkInv, Speech
  <2> QED
    BY <1>1, <1>3, <2>1 DEF TalkInv, Speech, Exact
<1>6. Base' = Base /\ Rest' = Rest + 1 /\ Marks = 0 /\ Marks' = 0
  BY <1>1, <1>2 DEF Base, Rest, Marks
<1>7. Ahead'
  <2>1. /\ Len(queue) = Rest /\ Len(queue') = Rest + 1
        /\ \A i \in 1..Rest : queue'[i] = queue[i]
        /\ queue'[Rest + 1] = submitted + 1
    BY <1>1, <1>2, <1>6 DEF TalkInv, Ahead
  <2>2. \A i \in 1..Rest : queue[i] = Base + i
    BY <1>2, <2>1 DEF TalkInv, Ahead
  <2>3. Base + (Rest + 1) = submitted + 1
    BY <1>2 DEF Rest
  <2>4. \A i \in 1..(Rest + 1) : queue'[i] = Base + i
    BY <1>2, <2>1, <2>2, <2>3
  <2>5. stage # "ended"
    BY <1>1 DEF TalkInv, Ahead
  <2> QED
    BY <1>1, <1>2, <1>6, <2>1, <2>4, <2>5 DEF TalkInv, Ahead
<1>8. Quiet'
  BY <1>1, <1>3 DEF TalkInv, Quiet, Active
<1>9. Behind'
  BY <1>1, <1>6 DEF TalkInv, Behind, Active
<1>10. Complete'
  BY <1>1 DEF TalkInv, Complete, Done, Accounted, Published
<1> QED
  BY <1>4, <1>5, <1>7, <1>8, <1>9, <1>10 DEF TalkInv

\* What EndRun and EndTool have in common.
LEMMA EndKeeps ==
    ASSUME TalkInv, NEW how \in Outcomes, how = "ended" => ~emitting, Closes(how)
    PROVE  TalkInv'
<1>1. /\ phase = "run" /\ phase' = "drain" /\ outcome' = how /\ emitting' = FALSE
      /\ ~closed /\ closed' = TRUE /\ queue' = Append(queue, CloseMark)
      /\ UNCHANGED <<submitted, stage, item, one, out, errors>>
      /\ UNCHANGED <<found, source, told, stray, disturbed>>
  BY DEF Closes, CloseStage, CloseMarks, coroutines, history, TalkInv, Types
<1>2. /\ submitted \in Nat /\ item \in Nat /\ found \in Nat /\ queue \in Seq(Nat)
      /\ Base \in Nat /\ Base <= submitted /\ Rest \in Nat /\ CloseMark \in Nat
  BY DEF TalkInv, Types, Ahead, Base, Rest, CloseMark
<1>3. /\ Spoken' = Spoken
      /\ ~Lulled(source) => Spoken = 1..(IF emitting THEN submitted + 1 ELSE submitted)
  BY <1>1 DEF TalkInv, Speech, Exact, Spoken
<1>4. Types'
  BY <1>1, <1>2 DEF TalkInv, Types
<1>5. Speech'
  BY <1>1, <1>3 DEF TalkInv, Speech, Exact
<1>6. stage # "ended" /\ Base' = Base /\ Rest' = Rest /\ Marks = 0 /\ Marks' = 1
  BY <1>1 DEF TalkInv, Ahead, Base, Rest, Marks
<1>7. Ahead'
  <2>1. /\ Len(queue) = Rest /\ Len(queue') = Rest + 1
        /\ \A i \in 1..Rest : queue'[i] = queue[i]
        /\ queue'[Rest + 1] = CloseMark
    BY <1>1, <1>2, <1>6 DEF TalkInv, Ahead
  <2>2. \A i \in 1..(Rest + 1) : queue'[i] = IF i <= Rest THEN Base + i ELSE CloseMark
    BY <1>2, <2>1 DEF TalkInv, Ahead
  <2> QED
    BY <1>1, <1>2, <1>6, <2>1, <2>2 DEF TalkInv, Ahead
<1>8. Quiet'
  BY <1>1, <1>3 DEF TalkInv, Quiet, Active
<1>9. Behind'
  BY <1>1, <1>6 DEF TalkInv, Behind, Active
<1>10. Complete'
  BY <1>1 DEF TalkInv, Complete, Done, Accounted, Published
<1> QED
  BY <1>4, <1>5, <1>7, <1>8, <1>9, <1>10 DEF TalkInv

-----------------------------------------------------------------------------
(* The stage in its run.                                                   *)

\* Steps of the stage leave what was said, and the run, alone.
LEMMA SpeechKept ==
    ASSUME TalkInv, UNCHANGED <<submitted, source, phase, outcome, emitting, closed>>
    PROVE  Speech' /\ Spoken' = Spoken
BY DEF TalkInv, Speech, Exact, Spoken

LEMMA TakesKeeps ==
    ASSUME TalkInv, TakeCaption, UNCHANGED <<run, source, told, stray, disturbed>>
    PROVE  TalkInv'
<1>1. /\ stage = "waiting" /\ queue # <<>> /\ Head(queue) # CloseMark
      /\ stage' = "busy" /\ item' = Head(queue) /\ queue' = Tail(queue)
      /\ one' = [l \in Langs |-> "translating"]
      /\ UNCHANGED <<submitted, closed, out, errors>>
      /\ UNCHANGED <<found, source, told, stray, disturbed, phase, outcome, emitting>>
  BY DEF TakeCaption, history, run
<1>2. /\ submitted \in Nat /\ item \in Nat /\ found \in Nat /\ queue \in Seq(Nat)
      /\ Base \in Nat /\ Base <= submitted /\ Rest \in Nat
  BY DEF TalkInv, Types, Ahead, Base, Rest
<1>3. /\ queue' \in Seq(Nat) /\ item' \in Nat /\ item' = queue[1]
      /\ Len(queue) \in Nat \ {0} /\ Len(queue') = Len(queue) - 1
      /\ \A i \in 1..Len(queue') : queue'[i] = queue[i + 1]
  BY <1>1, <1>2, TailOne
<1>4. Marks' = Marks /\ Marks \in {0, 1} /\ Len(queue) = Rest + Marks
  BY <1>1 DEF TalkInv, Ahead, Marks
<1>5. /\ Rest > 0 /\ item' = Base + 1 /\ item' # 0 /\ item' > found
      /\ Base' = Base + 1 /\ Rest' = Rest - 1
  <2>1. queue[1] = IF 1 <= Rest THEN Base + 1 ELSE CloseMark
    BY <1>3 DEF TalkInv, Ahead
  <2>2. Rest > 0 /\ item' = Base + 1
    BY <1>1, <1>2, <1>3, <2>1
  <2>3. Base >= found
    BY <1>2 DEF TalkInv, Ahead, Base
  <2> QED
    BY <1>1, <1>2, <2>2, <2>3 DEF Base, Rest
<1>6. Types'
  BY <1>1, <1>3 DEF TalkInv, Types
<1>7. Speech' /\ Spoken' = Spoken
  BY <1>1, SpeechKept
<1>8. Ahead'
  <2>1. Base' <= submitted' /\ Len(queue') = Rest' + Marks'
    BY <1>1, <1>2, <1>3, <1>4, <1>5 DEF Rest
  <2>2. \A i \in 1..Len(queue') :
          queue'[i] = IF i <= Rest' THEN Base' + i ELSE CloseMark
    <3> TAKE i \in 1..Len(queue')
    <3>1. i + 1 \in 1..Len(queue)
      BY <1>3
    <3>2. queue[i + 1] = IF i + 1 <= Rest THEN Base + (i + 1) ELSE CloseMark
      BY <3>1 DEF TalkInv, Ahead
    <3> QED
      BY <1>2, <1>3, <1>5, <3>2
  <2> QED
    BY <1>1, <1>5, <2>1, <2>2 DEF Ahead
<1>9. Quiet'
  <2>1. phase \notin {"idle", "announce"}
    BY <1>1 DEF TalkInv, Quiet
  <2> QED
    BY <1>1, <1>5, <1>7, <2>1 DEF TalkInv, Quiet
<1>10. Behind'
  <2>1. \A l \in Langs : Seqs(told[l]) \subseteq Int
    <3>1. \A l \in Langs : \A i \in DOMAIN told[l] : told[l][i] \in Entries
      BY DEF TalkInv, Types
    <3> QED
      BY <3>1 DEF Seqs, Finals, Entries
  <2> SUFFICES ASSUME ~disturbed', ~Lulled(source'), NEW l \in Langs, NEW n \in Seqs(told'[l])
               PROVE  n <= Base' /\ n < item'
    BY DEF Behind
  <2>2. ~disturbed /\ ~Lulled(source) /\ n \in Seqs(told[l])
    BY <1>1
  <2>3. n <= Base /\ n \in Int
    BY <2>1, <2>2 DEF TalkInv, Behind
  <2> QED
    BY <1>2, <1>5, <2>3
<1>11. Complete'
  <2> SUFFICES ASSUME NEW l \in Langs, NEW n \in (found + 1)..item', n < item' \/ Done(l)'
               PROVE  Accounted(l, n)'
    BY <1>1 DEF Complete
  <2>1. ~Done(l)'
    BY <1>1 DEF Done
  <2>2. n <= Base
    BY <1>2, <1>5, <2>1
  <2>3. item # 0 /\ n \in (found + 1)..item
    BY <1>2, <2>2 DEF Base
  <2>4. Accounted(l, n)
    BY <1>1, <2>3 DEF TalkInv, Complete, Done
  <2> QED
    BY <1>1, <2>4 DEF Accounted, Published
<1> QED
  BY <1>6, <1>7, <1>8, <1>9, <1>10, <1>11 DEF TalkInv

LEMMA RunEndsKeeps ==
    ASSUME TalkInv, RunEnds, UNCHANGED <<run, source, told, stray, disturbed>>
    PROVE  TalkInv'
<1>1. /\ stage = "waiting" /\ queue # <<>> /\ Head(queue) = CloseMark
      /\ stage' = "ended" /\ queue' = Tail(queue)
      /\ UNCHANGED <<submitted, closed, item, one, out, errors>>
      /\ UNCHANGED <<found, source, told, stray, disturbed, phase, outcome, emitting>>
  BY DEF RunEnds, AtClose, coroutines, history, run
<1>2. /\ submitted \in Nat /\ item \in Nat /\ found \in Nat /\ queue \in Seq(Nat)
      /\ Base \in Nat /\ Base <= submitted /\ Rest \in Nat
  BY DEF TalkInv, Types, Ahead, Base, Rest
<1>3. /\ queue' \in Seq(Nat) /\ Head(queue) = queue[1]
      /\ Len(queue) \in Nat \ {0} /\ Len(queue') = Len(queue) - 1
  BY <1>1, <1>2, TailOne
<1>4. Base' = Base /\ Rest' = Rest /\ Marks' = 0
  BY <1>1 DEF Base, Rest, Marks
<1>5. Rest = 0 /\ Marks = 1 /\ closed
  <2>1. queue[1] = IF 1 <= Rest THEN Base + 1 ELSE CloseMark
    BY <1>3 DEF TalkInv, Ahead
  <2>2. Rest = 0
    BY <1>1, <1>2, <1>3, <2>1 DEF CloseMark
  <2>3. Len(queue) = Rest + Marks /\ (Marks = 1 => closed) /\ Marks \in {0, 1}
    BY DEF TalkInv, Ahead, Marks
  <2> QED
    BY <1>3, <2>2, <2>3
<1>6. Len(queue') = 0
  BY <1>2, <1>3, <1>5 DEF TalkInv, Ahead
<1>7. Types' /\ Speech' /\ Spoken' = Spoken
  BY <1>1, <1>3, SpeechKept DEF TalkInv, Types
<1>8. Ahead'
  BY <1>1, <1>2, <1>4, <1>5, <1>6 DEF TalkInv, Ahead, Rest
<1>9. Quiet'
  BY <1>1, <1>7 DEF TalkInv, Quiet, Active
<1>10. Behind'
  BY <1>1, <1>4 DEF TalkInv, Behind, Active
<1>11. Complete'
  BY <1>1 DEF TalkInv, Complete, Done, Accounted, Published
<1> QED
  BY <1>7, <1>8, <1>9, <1>10, <1>11 DEF TalkInv

\* Steps that move neither the queue nor the end of the stage.
LEMMA AheadKept ==
    ASSUME TalkInv, UNCHANGED <<submitted, queue, closed, item, found>>,
           stage' = stage \/ (stage # "ended" /\ stage' # "ended")
    PROVE  Ahead' /\ Base' = Base
BY DEF TalkInv, Ahead, Base, Rest, Marks

LEMMA GatheredKeeps ==
    ASSUME TalkInv, Gathered, UNCHANGED <<run, source, told, stray, disturbed>>
    PROVE  TalkInv'
<1>1. /\ stage = "busy" /\ stage' = "waiting" /\ \A l \in Langs : one[l] = "done"
      /\ UNCHANGED <<submitted, queue, closed, item, one, out, errors>>
      /\ UNCHANGED <<found, source, told, stray, disturbed, phase, outcome, emitting>>
  BY DEF Gathered, AllDone, coroutines, history, run
<1>2. Types' /\ Speech' /\ Spoken' = Spoken
  BY <1>1, SpeechKept DEF TalkInv, Types
<1>3. Ahead' /\ Base' = Base
  BY <1>1, AheadKept
<1>4. Quiet'
  BY <1>1, <1>2 DEF TalkInv, Quiet, Active
<1>5. Behind'
  BY <1>1, <1>3 DEF TalkInv, Behind, Active
<1>6. Complete'
  BY <1>1 DEF TalkInv, Complete, Done, Accounted, Published
<1> QED
  BY <1>2, <1>3, <1>4, <1>5, <1>6 DEF TalkInv

\* A coroutine goes on, or gives its caption up.
LEMMA TriesKeeps ==
    ASSUME TalkInv, NEW l \in Langs, Translated(l) \/ Retry(l) \/ GiveUp(l), Copied,
           UNCHANGED <<run, source, stray, disturbed>>
    PROVE  TalkInv'
<1>1. /\ one[l] = "translating"
      /\ one' = one \/ one' = [one EXCEPT ![l] = "publishing"] \/ one' = [one EXCEPT ![l] = "done"]
      /\ errors' = errors \/ errors' = [errors EXCEPT ![l] = @ \cup {item}]
      /\ one'[l] = "done" => item \in errors'[l]
      /\ UNCHANGED <<submitted, queue, closed, stage, item, out>>
      /\ UNCHANGED <<found, source, stray, disturbed, phase, outcome, emitting>>
  BY DEF Translated, Retry, GiveUp, run, history, TalkInv, Types
<1>2. told' = told
  <2>1. \A m \in Langs : ~(Len(out[m]) > Len(out[m]))
    BY DEF TalkInv, Types
  <2> QED
    BY <1>1, <2>1 DEF Copied, TalkInv, Types
<1>3. \A m \in Langs \ {l} : one'[m] = one[m]
  BY <1>1 DEF TalkInv, Types
<1>4. Active(l) /\ \A m \in Langs : Active(m)' => Active(m)
  BY <1>1, <1>3 DEF Active
<1>5. Types' /\ Speech' /\ Spoken' = Spoken
  <2>1. one' \in [Langs -> {"done", "translating", "publishing", "cancelled"}]
    BY <1>1 DEF TalkInv, Types
  <2>2. errors' \in [Langs -> SUBSET Nat]
    <3>1. item \in Nat /\ errors \in [Langs -> SUBSET Nat]
      BY DEF TalkInv, Types
    <3> QED
      BY <1>1, <3>1
  <2>3. Speech' /\ Spoken' = Spoken
    BY <1>1, SpeechKept
  <2> QED
    BY <1>1, <1>2, <2>1, <2>2, <2>3 DEF TalkInv, Types
<1>6. Ahead' /\ Base' = Base
  BY <1>1, AheadKept
<1>7. Quiet'
  BY <1>1, <1>4, <1>5 DEF TalkInv, Quiet, Active
<1>8. Behind'
  BY <1>1, <1>2, <1>4, <1>6 DEF TalkInv, Behind
<1>9. Complete'
  <2>1. \A m \in Langs : errors[m] \subseteq errors'[m] /\ Published(m)' = Published(m)
    <3>1. \A m \in Langs : Published(m)' = Published(m)
      BY <1>1 DEF Published
    <3>2. \A m \in Langs : errors[m] \subseteq errors'[m]
      BY <1>1 DEF TalkInv, Types
    <3> QED
      BY <3>1, <3>2
  <2>2. \A m \in Langs : Done(m)' => Done(m) \/ m = l
    BY <1>1, <1>3 DEF Done
  <2>3. Done(l)' => item \in errors'[l]
    BY <1>1, <1>4 DEF Done, TalkInv, Quiet, Active
  <2> SUFFICES ASSUME NEW m \in Langs, NEW n \in (found + 1)..item, n < item \/ Done(m)'
               PROVE  Accounted(m, n)'
    BY <1>1 DEF Complete
  <2>4. CASE n < item \/ Done(m)
    BY <2>1, <2>4 DEF TalkInv, Complete, Accounted
  <2>5. CASE m = l /\ n = item
    BY <2>3, <2>5 DEF Accounted
  <2>6. n <= item /\ n \in Int /\ item \in Int
    BY DEF TalkInv, Types
  <2> QED
    BY <2>2, <2>4, <2>5, <2>6
<1> QED
  BY <1>5, <1>6, <1>7, <1>8, <1>9 DEF TalkInv

\* Captions reach the streams of coroutines that are then over: what is common to
\* a publication, one that fails, and a stage that is cut short.
LEMMA PublishedKeeps ==
    ASSUME TalkInv, NEW reached \in SUBSET Langs, Reaching(reached),
           told' \in [Langs -> Seq(Entries)],
           \A l \in Langs : Seqs(told'[l]) =
             IF l \in reached THEN Seqs(told[l]) \cup {item} ELSE Seqs(told[l]),
           \A l \in reached : Active(l),
           one' \in [Langs -> {"done", "translating", "publishing", "cancelled"}],
           \A l \in Langs : Active(l)' => Active(l) /\ l \notin reached,
           UNCHANGED <<submitted, queue, closed, item, found, errors>>,
           UNCHANGED <<source, stray, phase, outcome, emitting>>,
           disturbed' = disturbed \/ disturbed' = TRUE,
           stage' = stage \/ (stage' \in {"failed", "cancelled"} /\ stage # "ended"),
           stage' = "failed" => disturbed',
           stage' \in {"waiting", "ended", "cancelled"} => \A l \in Langs : ~Active(l)',
           stage' = "waiting" => \A l \in Langs : one'[l] = "done",
           stage' = "busy" => \A l \in Langs : one'[l] = "done" => one[l] = "done" \/ l \in reached
    PROVE  TalkInv'
<1>1. /\ out' \in [Langs -> Seq(Nat)]
      /\ \A l \in Langs : Published(l)' =
           IF l \in reached THEN Published(l) \cup {item} ELSE Published(l)
  BY Reaches DEF TalkInv
<1>2. Types' /\ Speech' /\ Spoken' = Spoken
  BY <1>1, SpeechKept DEF TalkInv, Types
<1>3. Ahead' /\ Base' = Base
  BY AheadKept
<1>4. Quiet'
  BY <1>2 DEF TalkInv, Quiet
<1>5. Behind'
  <2> SUFFICES ASSUME ~disturbed', ~Lulled(source'), NEW l \in Langs, NEW n \in Seqs(told'[l])
               PROVE  n <= Base /\ (Active(l)' => n < item)
    BY <1>3 DEF Behind
  <2>1. CASE n \in Seqs(told[l])
    BY <2>1 DEF TalkInv, Behind
  <2>2. CASE l \in reached /\ n = item
    <3>1. item # 0 /\ item \in Nat
      BY <2>2 DEF TalkInv, Quiet, Types
    <3> QED
      BY <2>2, <3>1 DEF Base
  <2> QED
    BY <1>1, <2>1, <2>2
<1>6. Complete'
  <2> SUFFICES ASSUME NEW l \in Langs, NEW n \in (found + 1)..item, n < item \/ Done(l)'
               PROVE  Accounted(l, n)'
    BY DEF Complete
  <2>1. Accounted(l, n) => Accounted(l, n)'
    BY <1>1 DEF Accounted
  <2>2. CASE n < item \/ Done(l)
    BY <2>1, <2>2 DEF TalkInv, Complete
  <2>3. CASE l \in reached /\ n = item
    BY <1>1, <2>3 DEF Accounted
  <2>4. Done(l)' => Done(l) \/ l \in reached
    BY DEF Done
  <2>5. n <= item /\ n \in Int /\ item \in Int
    BY DEF TalkInv, Types
  <2> QED
    BY <2>2, <2>3, <2>4, <2>5
<1> QED
  BY <1>2, <1>3, <1>4, <1>5, <1>6 DEF TalkInv

LEMMA PublishKeeps ==
    ASSUME TalkInv, NEW l \in Langs, Publish(l), Copied, UNCHANGED <<run, source, stray, disturbed>>
    PROVE  TalkInv'
<1>1. /\ one[l] = "publishing" /\ one' = [one EXCEPT ![l] = "done"] /\ Reaching({l})
      /\ UNCHANGED <<submitted, queue, closed, stage, item, errors>>
      /\ UNCHANGED <<found, source, stray, disturbed, phase, outcome, emitting>>
  BY DEF Publish, run
<1>2. /\ one' \in [Langs -> {"done", "translating", "publishing", "cancelled"}]
      /\ one'[l] = "done" /\ \A m \in Langs \ {l} : one'[m] = one[m]
      /\ \A m \in Langs : Active(m)' => Active(m) /\ m # l
      /\ Active(l)
  BY <1>1 DEF TalkInv, Types, Active
<1>3. /\ stage # "waiting"
      /\ stage \in {"waiting", "ended", "cancelled"} => \A m \in Langs : ~Active(m)
      /\ stage = "failed" => disturbed
  BY <1>2 DEF TalkInv, Quiet
<1>4. /\ told' \in [Langs -> Seq(Entries)]
      /\ \A m \in Langs : Seqs(told'[m]) =
           IF m \in {l} THEN Seqs(told[m]) \cup {item} ELSE Seqs(told[m])
  <2>1. {l} \in SUBSET Langs /\ Types
    BY DEF TalkInv
  <2> QED
    BY <1>1, <2>1, Copies
<1> QED
  BY <1>1, <1>2, <1>3, <1>4, PublishedKeeps

\* A translation that is published twice.
LEMMA ToldTwice ==
    ASSUME TalkInv, NEW l \in Langs, TellsTwice(l)
    PROVE  /\ told' \in [Langs -> Seq(Entries)]
           /\ \A m \in Langs : Seqs(told'[m]) =
                IF m \in {l} THEN Seqs(told[m]) \cup {item} ELSE Seqs(told[m])
<1>1. told' = [told EXCEPT ![l] = Append(Append(@, Final(item)), Final(item))]
  BY DEF TellsTwice
<1>2. told \in [Langs -> Seq(Entries)] /\ told[l] \in Seq(Entries)
  BY DEF TalkInv, Types
<1>3. Final(item) \in Entries /\ Final(item).kind = "final" /\ Final(item).seq + 1 = item
  BY FinalIs DEF TalkInv, Types
<1>4. /\ Append(told[l], Final(item)) \in Seq(Entries)
      /\ Append(Append(told[l], Final(item)), Final(item)) \in Seq(Entries)
  BY <1>2, <1>3, AppendOne
<1>5. Seqs(Append(Append(told[l], Final(item)), Final(item))) = Seqs(told[l]) \cup {item}
  BY <1>2, <1>3, <1>4, SeqsAppend
<1>6. told' \in [Langs -> Seq(Entries)]
  BY <1>1, <1>2, <1>4
<1>7. \A m \in Langs : m # l => told'[m] = told[m]
  BY <1>1, <1>2
<1>8. told'[l] = Append(Append(told[l], Final(item)), Final(item))
  BY <1>1, <1>2
<1> QED
  BY <1>5, <1>6, <1>7, <1>8

LEMMA TellsTwiceKeeps ==
    ASSUME TalkInv, NEW l \in Langs, TellsTwice(l)
    PROVE  TalkInv'
<1>1. /\ one[l] = "publishing" /\ one' = [one EXCEPT ![l] = "done"] /\ Reaching({l})
      /\ disturbed' = TRUE
      /\ UNCHANGED <<submitted, queue, closed, stage, item, errors>>
      /\ UNCHANGED <<found, source, stray, phase, outcome, emitting>>
  BY DEF TellsTwice, Publish, run
<1>2. /\ one' \in [Langs -> {"done", "translating", "publishing", "cancelled"}]
      /\ one'[l] = "done" /\ \A m \in Langs \ {l} : one'[m] = one[m]
      /\ \A m \in Langs : Active(m)' => Active(m) /\ m # l
      /\ Active(l)
  BY <1>1 DEF TalkInv, Types, Active
<1>3. /\ stage # "waiting"
      /\ stage \in {"waiting", "ended", "cancelled"} => \A m \in Langs : ~Active(m)
  BY <1>2 DEF TalkInv, Quiet
<1> QED
  BY <1>1, <1>2, <1>3, ToldTwice, PublishedKeeps

LEMMA FailsKeeps ==
    ASSUME TalkInv, NEW l \in Langs, TellingFails(l)
    PROVE  TalkInv'
<1>1. /\ one[l] = "publishing" /\ one' = [one EXCEPT ![l] = "done"]
      /\ stage' = IF stage = "busy" THEN "failed" ELSE stage
      /\ \E reached \in SUBSET {l} : Reaching(reached)
      /\ Copied /\ disturbed' = TRUE
      /\ UNCHANGED <<submitted, queue, closed, item, errors>>
      /\ UNCHANGED <<found, source, stray, phase, outcome, emitting>>
  BY DEF TellingFails, PublishFails, run
<1>2. PICK reached \in SUBSET {l} : Reaching(reached)
  BY <1>1
<1>3. /\ one' \in [Langs -> {"done", "translating", "publishing", "cancelled"}]
      /\ one'[l] = "done" /\ \A m \in Langs \ {l} : one'[m] = one[m]
      /\ \A m \in Langs : Active(m)' => Active(m) /\ m # l
      /\ Active(l)
  BY <1>1 DEF TalkInv, Types, Active
<1>4. /\ stage \notin {"waiting", "ended", "cancelled"} /\ stage' = "failed"
  BY <1>1, <1>3 DEF TalkInv, Quiet, Types
<1>5. /\ told' \in [Langs -> Seq(Entries)]
      /\ \A m \in Langs : Seqs(told'[m]) =
           IF m \in reached THEN Seqs(told[m]) \cup {item} ELSE Seqs(told[m])
  BY <1>1, <1>2, Copies DEF TalkInv
<1> QED
  BY <1>1, <1>2, <1>3, <1>4, <1>5, PublishedKeeps

LEMMA CutKeeps ==
    ASSUME TalkInv, CutShort
    PROVE  TalkInv'
<1>1. /\ stage \in {"waiting", "busy"} /\ stage' = "cancelled" /\ one' = Cancelled
      /\ Copied
      /\ UNCHANGED <<submitted, queue, closed, item, errors>>
      /\ UNCHANGED <<found, source, stray, disturbed, phase, outcome, emitting>>
  BY DEF CutShort, CancelStage, run
<1>2. PICK reached \in SUBSET {l \in Langs : one[l] = "publishing"} : Reaching(reached)
  BY DEF CutShort, CancelStage
<1>3. /\ one' \in [Langs -> {"done", "translating", "publishing", "cancelled"}]
      /\ \A l \in Langs : ~Active(l)'
      /\ \A l \in reached : Active(l)
  BY <1>1 DEF Cancelled, Active
<1>4. /\ told' \in [Langs -> Seq(Entries)]
      /\ \A m \in Langs : Seqs(told'[m]) =
           IF m \in reached THEN Seqs(told[m]) \cup {item} ELSE Seqs(told[m])
  BY <1>1, <1>2, Copies DEF TalkInv
<1> QED
  BY <1>1, <1>2, <1>3, <1>4, PublishedKeeps

\* A coroutine of an earlier run comes to its end.
LEMMA StrayKeeps ==
    ASSUME TalkInv, NEW l \in Langs, NEW n, StrayEnds(l, n)
    PROVE  TalkInv'
<1>1. /\ n \in stray[l] /\ stray' = [stray EXCEPT ![l] = @ \ {n}]
      /\ told' = told \/ told' = [told EXCEPT ![l] = Append(@, Final(n))]
      /\ UNCHANGED <<submitted, queue, closed, stage, item, one, out, errors>>
      /\ UNCHANGED <<found, source, disturbed, phase, outcome, emitting>>
  BY DEF StrayEnds, run, vars, coroutines, history
<1>2. n \in Nat /\ disturbed
  BY <1>1 DEF TalkInv, Types, Quiet
<1>3. /\ told' \in [Langs -> Seq(Entries)] /\ stray' \in [Langs -> SUBSET Nat]
      /\ \A m \in Langs : stray'[m] \subseteq stray[m]
  <2>1. told[l] \in Seq(Entries) /\ Final(n) \in Entries /\ stray[l] \in SUBSET Nat
    BY <1>2, FinalIs DEF TalkInv, Types
  <2>2. Append(told[l], Final(n)) \in Seq(Entries)
    BY <2>1, AppendOne
  <2> QED
    BY <1>1, <2>1, <2>2 DEF TalkInv, Types
<1>4. Types' /\ Speech' /\ Spoken' = Spoken
  BY <1>1, <1>3, SpeechKept DEF TalkInv, Types
<1>5. Ahead'
  BY <1>1, AheadKept
<1>6. Quiet'
  BY <1>1, <1>2, <1>3, <1>4 DEF TalkInv, Quiet, Active
<1>7. Behind'
  BY <1>1, <1>2 DEF Behind
<1>8. Complete'
  BY <1>1 DEF TalkInv, Complete, Done, Accounted, Published
<1> QED
  BY <1>4, <1>5, <1>6, <1>7, <1>8 DEF TalkInv

-----------------------------------------------------------------------------
(* The cleanup.                                                            *)

\* The run comes to its end, with the stage over and no coroutine in it.
LEMMA OverKeeps ==
    ASSUME TalkInv,
           UNCHANGED <<submitted, queue, closed, item, out, errors>>,
           UNCHANGED <<found, source, told, disturbed>>,
           phase' \in {"idle", "announce"},
           outcome' = outcome, emitting' = FALSE,
           stage' \in Over,
           \/ one' = one /\ stage' = stage
           \/ /\ one' = [l \in Langs |-> "done"]
              /\ stage' = stage \/ (stage \notin Over /\ stage' = "cancelled"),
           stray' = stray \/ stray' = [l \in Langs |-> {}]
    PROVE  TalkInv'
<1>1. Types'
  BY DEF TalkInv, Types, Over
<1>2. Speech' /\ Spoken' = Spoken
  BY DEF TalkInv, Speech, Exact, Spoken
<1>3. Ahead' /\ Base' = Base
  BY AheadKept DEF Over
<1>4. \A l \in Langs : Active(l)' => Active(l) /\ stage' = stage
  BY DEF Active
<1>5. Quiet'
  BY <1>2, <1>4 DEF TalkInv, Quiet, Over
<1>6. Behind'
  BY <1>3, <1>4 DEF TalkInv, Behind
<1>7. Complete'
  <2>1. \A l \in Langs : Done(l)' => Done(l)
    BY DEF Done, Over
  <2>2. \A l \in Langs : \A n : Accounted(l, n)' = Accounted(l, n)
    BY DEF Accounted, Published
  <2> QED
    BY <2>1, <2>2 DEF TalkInv, Complete
<1> QED
  BY <1>1, <1>2, <1>3, <1>5, <1>6, <1>7 DEF TalkInv

LEMMA FinishKeeps ==
    ASSUME TalkInv, FinishQuiet \/ FinishOver \/ FinishSkipped
    PROVE  TalkInv'
<1>1. /\ UNCHANGED <<submitted, queue, closed, stage, item, one, out, errors>>
      /\ UNCHANGED <<found, source, told, stray, disturbed, outcome, emitting>>
      /\ phase = "drain" /\ phase' \in {"idle", "announce"} /\ stage \in Over
  BY DEF FinishQuiet, FinishOver, FinishSkipped, Idles, Drained, vars, coroutines, history, Over
<1>2. emitting = FALSE
  BY <1>1 DEF TalkInv, Speech, Types
<1> QED
  BY <1>1, <1>2, OverKeeps

LEMMA ToolExitsKeeps ==
    ASSUME TalkInv, ToolExits
    PROVE  TalkInv'
<1>1. /\ UNCHANGED <<submitted, queue, closed, stage, item, out, errors>>
      /\ UNCHANGED <<found, source, told, stray, disturbed, outcome, emitting>>
      /\ one' = [l \in Langs |-> "done"]
      /\ phase = "drain" /\ phase' = "idle" /\ stage \in Over
  BY DEF ToolExits, Idles, history, Over
<1>2. emitting = FALSE
  BY <1>1 DEF TalkInv, Speech, Types
<1> QED
  BY <1>1, <1>2, OverKeeps

LEMMA DiesKeeps ==
    ASSUME TalkInv, Dies
    PROVE  TalkInv'
<1>1. /\ UNCHANGED <<submitted, queue, closed, item, out, errors>>
      /\ UNCHANGED <<found, source, told, disturbed>>
      /\ phase' = "idle" /\ outcome' = outcome /\ emitting' = FALSE
      /\ one' = [l \in Langs |-> "done"]
      /\ stage' = IF stage \in Over THEN stage ELSE "cancelled"
      /\ stray' \in {stray, [l \in Langs |-> {}]}
  BY DEF Dies, history
<1>2. stage' \in Over
  BY <1>1 DEF Over
<1> QED
  BY <1>1, <1>2, OverKeeps

LEMMA AnnouncesKeeps ==
    ASSUME TalkInv, NEW s \in Streams, Announces(s) \/ AnnouncesTwice(s)
    PROVE  TalkInv'
<1>1. /\ UNCHANGED <<submitted, queue, closed, stage, item, one, out, errors>>
      /\ UNCHANGED <<vars, found, stray, outcome, emitting>>
      /\ phase = "announce" /\ phase' \in {"idle", "announce"}
      /\ disturbed' = disturbed \/ disturbed' = TRUE
  BY DEF Announces, AnnouncesTwice, Announcing, vars, coroutines, history
<1>2. /\ source' \in {source, Append(source, Event), Append(Append(source, Event), Event)}
      /\ \/ told' = told
         \/ /\ s \in Langs
            /\ told' \in {[told EXCEPT ![s] = Append(@, Event)],
                         [told EXCEPT ![s] = Append(Append(@, Event), Event)]}
  BY DEF Announces, AnnouncesTwice, Streams
<1>3. Event \in Entries /\ Event.kind # "final"
  BY OthersAre
<1>4. /\ source' \in Seq(Entries) /\ Spoken' = Spoken
      /\ Placed(source') /\ (Lulled(source) => Lulled(source'))
  BY <1>2, <1>3, SourceRests
<1>5. \A l \in Langs : /\ told[l] \in Seq(Entries)
                       /\ Append(told[l], Event) \in Seq(Entries)
                       /\ Append(Append(told[l], Event), Event) \in Seq(Entries)
                       /\ Seqs(Append(told[l], Event)) = Seqs(told[l])
                       /\ Seqs(Append(Append(told[l], Event), Event)) = Seqs(told[l])
  <2> TAKE l \in Langs
  <2>1. told[l] \in Seq(Entries)
    BY DEF TalkInv, Types
  <2>2. Append(told[l], Event) \in Seq(Entries) /\ Append(Append(told[l], Event), Event) \in Seq(Entries)
    BY <1>3, <2>1, AppendOne
  <2> QED
    BY <1>3, <2>1, <2>2, SeqsAppend
<1>6. told' \in [Langs -> Seq(Entries)] /\ \A l \in Langs : Seqs(told'[l]) = Seqs(told[l])
  <2>1. told \in [Langs -> Seq(Entries)]
    BY DEF TalkInv, Types
  <2> QED
    BY <1>2, <1>5, <2>1
<1>7. Types'
  BY <1>1, <1>4, <1>6 DEF TalkInv, Types
<1>8. Speech'
  BY <1>1, <1>4 DEF TalkInv, Speech, Exact, Types
<1>9. Ahead' /\ Base' = Base
  BY <1>1, AheadKept
<1>10. Quiet'
  BY <1>1, <1>4 DEF TalkInv, Quiet, Active
<1>11. Behind'
  BY <1>1, <1>4, <1>6, <1>9 DEF TalkInv, Behind, Active
<1>12. Complete'
  BY <1>1 DEF TalkInv, Complete, Done, Accounted, Published
<1> QED
  BY <1>7, <1>8, <1>9, <1>10, <1>11, <1>12 DEF TalkInv

-----------------------------------------------------------------------------
(* The invariant holds.                                                    *)

LEMMA InitHolds ==
    ASSUME TalkInit
    PROVE  TalkInv
<1>1. /\ submitted = 0 /\ queue = <<>> /\ closed = FALSE /\ stage = "waiting" /\ item = 0
      /\ one = [l \in Langs |-> "done"]
      /\ out = [l \in Langs |-> <<>>] /\ errors = [l \in Langs |-> {}]
      /\ phase = "idle" /\ outcome = "none" /\ found = 0
      /\ source = <<>> /\ told = [l \in Langs |-> <<>>]
      /\ emitting = FALSE /\ stray = [l \in Langs |-> {}] /\ disturbed = FALSE
  BY DEF TalkInit, Init
<1>2. Finals(<<>>) = {} /\ Seqs(<<>>) = {} /\ Placed(<<>>)
  <2>1. Finals(<<>>) = {}
    BY DEF Finals
  <2> QED
    BY <2>1 DEF Seqs, Placed, HasLast
<1>3. Spoken = {} /\ \A l \in Langs : Seqs(told[l]) = {}
  BY <1>1, <1>2 DEF Spoken
<1>4. Types
  BY <1>1 DEF Types
<1>5. Speech
  <2>1. Spoken = 1..0 /\ 0 \in Nat
    BY <1>3
  <2>2. Exact
    BY <1>1, <2>1 DEF Exact
  <2> QED
    BY <1>1, <1>2, <2>1, <2>2 DEF Speech
<1>6. Ahead
  BY <1>1 DEF Ahead, Base, Rest, Marks
<1>7. Quiet
  BY <1>1 DEF Quiet, Active
<1>8. Behind
  BY <1>3 DEF Behind
<1>9. Complete
  BY <1>1 DEF Complete
<1> QED
  BY <1>4, <1>5, <1>6, <1>7, <1>8, <1>9 DEF TalkInv

LEMMA StepKeeps ==
    ASSUME TalkInv, [TalkNext]_talk
    PROVE  TalkInv'
<1>1. CASE StartRun \/ StartTool
  BY <1>1, BeginsKeeps DEF StartRun, StartTool
<1>2. CASE Speaks \/ SpeaksTwice \/ Murmurs \/ Submits
  BY <1>2, SpeaksKeeps, MurmursKeeps, SubmitsKeeps
<1>3. CASE EndTool
  <2>1. PICK how \in {"ended", "error"} : ~emitting /\ Closes(how)
    BY <1>3 DEF EndTool
  <2>2. how \in Outcomes
    BY DEF Outcomes, Announced
  <2> QED
    BY <2>1, <2>2, EndKeeps
<1>4. CASE \E how \in Outcomes : EndRun(how)
  BY <1>4, EndKeeps DEF EndRun, MayEnd
<1>5. CASE RunSteps
  BY <1>5, TakesKeeps, RunEndsKeeps, GatheredKeeps DEF RunSteps, Run
<1>6. ASSUME NEW l \in Langs, OneSteps(l) PROVE TalkInv'
  BY <1>6, TriesKeeps, PublishKeeps DEF OneSteps
<1>7. ASSUME NEW l \in Langs, TellingFails(l) \/ TellsTwice(l) PROVE TalkInv'
  BY <1>7, FailsKeeps, TellsTwiceKeeps
<1>8. ASSUME NEW l \in Langs, NEW n \in stray[l], StrayEnds(l, n) PROVE TalkInv'
  BY <1>8, StrayKeeps
<1>9. CASE CutShort
  BY <1>9, CutKeeps
<1>10. CASE FinishQuiet \/ FinishOver \/ FinishSkipped
  BY <1>10, FinishKeeps
<1>11. CASE ToolExits
  BY <1>11, ToolExitsKeeps
<1>12. ASSUME NEW s \in Streams, Announces(s) \/ AnnouncesTwice(s) PROVE TalkInv'
  BY <1>12, AnnouncesKeeps
<1>13. CASE Dies
  BY <1>13, DiesKeeps
<1>14. CASE UNCHANGED talk
  <2>1. /\ UNCHANGED <<submitted, queue, closed, stage, item, one, out, errors, vars>>
        /\ UNCHANGED <<found, source, told, stray, disturbed, phase, outcome, emitting>>
    BY <1>14 DEF talk, vars, run, coroutines, history
  <2>2. Types' /\ Speech' /\ Spoken' = Spoken
    BY <2>1, SpeechKept DEF TalkInv, Types
  <2>3. Quiet'
    BY <2>1, <2>2 DEF TalkInv, Quiet, Active
  <2> QED
    BY <2>1, <2>2, <2>3, StageKept DEF TalkInv
<1> QED
  BY <1>1, <1>2, <1>3, <1>4, <1>5, <1>6, <1>7, <1>8, <1>9, <1>10, <1>11, <1>12, <1>13, <1>14
     DEF TalkNext, Goes

\* The invariant, for any languages, runs, faults and captions.
THEOREM TalkInvariant == TalkSpec => []TalkInv
<1>1. TalkInit => TalkInv
  BY InitHolds
<1>2. TalkInv /\ [TalkNext]_talk => TalkInv'
  BY StepKeeps
<1> QED
  BY <1>1, <1>2, PTL DEF TalkSpec

-----------------------------------------------------------------------------
(* What it is for.                                                         *)

LEMMA DrainedTold ==
    ASSUME TalkInv
    PROVE  DrainedIsTold
<1> SUFFICES ASSUME stage = "ended", NEW l \in Langs, NEW n \in Spoken, ~(n <= found)
             PROVE  Accounted(l, n) \/ (n > submitted /\ (outcome # "ended" \/ Lulled(source)))
  BY DEF DrainedIsTold
<1>1. submitted \in Nat /\ item \in Nat /\ found \in Nat /\ Base = submitted
  BY DEF TalkInv, Types, Ahead
<1>2. n \in Nat \ {0}
  BY DEF TalkInv, Speech
<1>3. CASE n <= submitted
  <2>1. item = submitted /\ n \in (found + 1)..item
    BY <1>1, <1>2, <1>3 DEF Base
  <2> QED
    BY <2>1 DEF TalkInv, Complete, Done
<1>4. CASE n > submitted
  <2>1. ~Lulled(source) => Exact
    BY DEF TalkInv, Speech
  <2> QED
    BY <1>1, <1>2, <1>4, <2>1 DEF Exact
<1> QED
  BY <1>1, <1>2, <1>3, <1>4

\* A drained stage has left no caption of its run untold: with TalkInv, for any
\* number of languages, retries and captions.
THEOREM Told == TalkSpec => []DrainedIsTold
BY TalkInvariant, DrainedTold, PTL

\* Between two runs the streams change only by the events of the end.
LEMMA StreamsRest ==
    ASSUME TalkInv, [TalkNext]_talk, phase \notin {"run", "drain"}, ~disturbed
    PROVE  \/ source' = source /\ told' = told
           \/ \E s \in left : phase = "announce" /\ (Announces(s) \/ AnnouncesTwice(s))
<1>1. \A l \in Langs : ~Active(l) /\ stray[l] = {}
  BY DEF TalkInv, Quiet, Types
<1>2. stage # "busy" /\ phase \in {"idle", "announce"}
  BY DEF TalkInv, Quiet, Types
<1>3. CASE StartRun \/ StartTool
  BY <1>3 DEF StartRun, StartTool, Begins
<1>4. CASE \/ Speaks \/ SpeaksTwice \/ Murmurs \/ Submits
           \/ EndTool \/ \E how \in Outcomes : EndRun(how)
  BY <1>2, <1>4 DEF Speaks, SpeaksTwice, Murmurs, Submits, EndTool, EndRun, Closes
<1>5. CASE RunSteps
  BY <1>5 DEF RunSteps
<1>6. ASSUME NEW l \in Langs, OneSteps(l) \/ TellingFails(l) \/ TellsTwice(l) PROVE FALSE
  BY <1>1, <1>6 DEF OneSteps, TellingFails, TellsTwice, Translated, Retry, GiveUp, Publish, PublishFails, Active
<1>7. ASSUME NEW l \in Langs, NEW n \in stray[l], StrayEnds(l, n) PROVE FALSE
  BY <1>1, <1>7
<1>8. CASE CutShort \/ FinishQuiet \/ FinishOver \/ FinishSkipped \/ ToolExits
  BY <1>2, <1>8 DEF CutShort, FinishQuiet, FinishOver, FinishSkipped, ToolExits, Idles
<1>9. ASSUME NEW s \in Streams, Announces(s) \/ AnnouncesTwice(s)
      PROVE  \E r \in left : phase = "announce" /\ (Announces(r) \/ AnnouncesTwice(r))
  BY <1>9 DEF Announces, AnnouncesTwice, Announcing
<1>10. CASE Dies
  BY <1>10 DEF Dies
<1>11. CASE UNCHANGED talk
  BY <1>11 DEF talk
<1> QED
  BY <1>3, <1>4, <1>5, <1>6, <1>7, <1>8, <1>9, <1>10, <1>11 DEF TalkNext, Goes

LEMMA EndStays ==
    ASSUME TalkInv, [TalkNext]_talk, NEW s \in Streams, Stream(s)' # Stream(s),
           phase \notin {"run", "drain"}, ~disturbed
    PROVE  phase = "announce" /\ s \in left
<1>1. PICK r \in left : phase = "announce" /\ (Announces(r) \/ AnnouncesTwice(r))
  BY StreamsRest DEF Stream
<1>2. r = s
  <2>1. s # "source" => s \in Langs
    BY DEF Streams
  <2> QED
    BY <1>1, <2>1 DEF Announces, AnnouncesTwice, Announcing, Stream, TalkInv, Types
<1> QED
  BY <1>1, <1>2

\* Nothing follows an end but a new run, in any language.
THEOREM EndsLast == TalkSpec => EndIsLast
<1>1. TalkInv /\ [TalkNext]_talk =>
        [\A s \in Streams : Concluded(s) /\ Stream(s)' # Stream(s) =>
           phase \in {"run", "drain"} \/ (phase = "announce" /\ s \in left) \/ disturbed]_talk
  BY EndStays
<1> QED
  BY <1>1, TalkInvariant, PTL DEF TalkSpec, EndIsLast

-----------------------------------------------------------------------------
(* The contract of the streams.                                            *)

Speakers == IF phase = "run" THEN {"worker"} ELSE {}
Obeys == [Contract!Next]_(Contract!vars)

LEMMA ContractVars ==
    ASSUME UNCHANGED <<source, told, disturbed>>, Speakers' = Speakers
    PROVE  Obeys
BY DEF Obeys, Contract!vars, Speakers

LEMMA ContractStepDown ==
    ASSUME UNCHANGED <<source, told, disturbed>>, Speakers' \subseteq Speakers
    PROVE  Obeys
BY DEF Obeys, Contract!Next, Contract!StepDown, Speakers

LEMMA ContractFinal ==
    ASSUME NEW n \in Nat
    PROVE  Contract!Final(n - 1) = Final(n)
BY DEF Contract!Final, Final

LEMMA ContractNames ==
    /\ Event \in Contract!Events /\ Contract!Partial = Partial
    /\ \A s : Contract!Finals(s) = Finals(s) /\ Contract!Lulled(s) = Lulled(s)
BY DEF Event, Contract!Events, Contract!Event, Partial, Contract!Partial,
       Contract!Finals, Contract!IsFinal, Finals, IsFinal,
       Contract!Lulled, Contract!Lull, Lulled, Lull

\* The numbers of a stream are those of its captions, counted from 0.
LEMMA ContractNumbers ==
    ASSUME NEW s \in Seq(Entries)
    PROVE  /\ \A n \in Contract!Numbers(s) : n \in Int /\ n + 1 \in Seqs(s)
           /\ \A n \in Seqs(s) : n \in Int /\ n - 1 \in Contract!Numbers(s)
<1>1. \A i \in Finals(s) : s[i].seq \in Int
  <2>1. \A i \in DOMAIN s : s[i] \in Entries
    OBVIOUS
  <2> QED
    BY <2>1 DEF Entries, Finals
<1>2. Contract!Numbers(s) = {s[i].seq : i \in Finals(s)}
  BY ContractNames DEF Contract!Numbers
<1>3. ASSUME NEW n \in Contract!Numbers(s) PROVE n \in Int /\ n + 1 \in Seqs(s)
  BY <1>1, <1>2, <1>3 DEF Seqs
<1>4. ASSUME NEW n \in Seqs(s) PROVE n \in Int /\ n - 1 \in Contract!Numbers(s)
  <2>1. PICK i \in Finals(s) : n = s[i].seq + 1
    BY <1>4 DEF Seqs
  <2>2. s[i].seq = n - 1 /\ n \in Int
    BY <1>1, <2>1
  <2> QED
    BY <1>2, <2>2
<1> QED
  BY <1>3, <1>4

LEMMA Shifted ==
    ASSUME NEW N, NEW k \in Nat,
           \A n \in N : n \in Int /\ n + 1 \in 1..k,
           \A n \in 1..k : n - 1 \in N
    PROVE  N = 0..(k - 1)
<1>1. ASSUME NEW n \in 0..(k - 1) PROVE n \in N
  <2>1. n + 1 \in 1..k /\ (n + 1) - 1 = n
    OBVIOUS
  <2> QED
    BY <2>1
<1>2. ASSUME NEW n \in N PROVE n \in 0..(k - 1)
  OBVIOUS
<1> QED
  BY <1>1, <1>2

LEMMA BeginsObeys ==
    ASSUME Begins
    PROVE  Obeys
<1>1. UNCHANGED <<source, told, disturbed>> /\ phase = "idle" /\ phase' = "run"
  BY DEF Begins
<1>2. Contract!Take("worker")
  BY <1>1 DEF Contract!Take
<1> QED
  BY <1>2 DEF Obeys, Contract!Next

LEMMA SpeaksObeys ==
    ASSUME TalkInv, Speaks \/ SpeaksTwice
    PROVE  Obeys
<1>1. phase = "run" /\ phase' = "run" /\ ~emitting /\ told' = told
  BY DEF Speaks, SpeaksTwice
<1>2. source \in Seq(Entries) /\ submitted \in Nat
  BY DEF TalkInv, Types
<1>3. PICK last \in Nat : Spoken = 1..last
  BY DEF TalkInv, Speech
<1>4. submitted <= last /\ (~Lulled(source) => last = submitted)
  <2>1. 1..submitted \subseteq 1..last
    BY <1>3 DEF TalkInv, Speech
  <2>2. ~Lulled(source) => 1..last = 1..submitted
    BY <1>1, <1>3 DEF TalkInv, Speech, Exact
  <2> QED
    BY <1>2, <2>1, <2>2
<1> DEFINE N == Contract!Numbers(source)
<1>5. /\ \A n \in N : n \in Int /\ n + 1 \in 1..last
      /\ \A n \in 1..last : n - 1 \in N
  BY <1>2, <1>3, ContractNumbers DEF Spoken
<1>6. N = 0..(last - 1)
  BY <1>5, Shifted
<1>7. submitted \in Contract!Following
  <2>1. submitted = 0 \/ submitted - 1 \in N
    BY <1>2, <1>4, <1>6
  <2>2. submitted \in {0} \cup {m + 1 : m \in N}
    BY <1>2, <2>1
  <2>3. 0..(submitted - 1) \subseteq N
    BY <1>2, <1>4, <1>6
  <2> QED
    BY <2>2, <2>3 DEF Contract!Following
<1>8. submitted \in N => Contract!Lulled(source)
  <2>1. ~Lulled(source) => submitted \notin N
    BY <1>2, <1>4, <1>6
  <2> QED
    BY <2>1, ContractNames
<1>9. Contract!Final(submitted) = Final(submitted + 1)
  BY <1>2 DEF Contract!Final, Final
<1>10. CASE Speaks
  <2>1. source' = Append(source, Final(submitted + 1)) /\ disturbed' = disturbed
    BY <1>10 DEF Speaks
  <2>2. Contract!Say(submitted)
    BY <1>1, <1>8, <1>9, <2>1 DEF Contract!Say
  <2> QED
    BY <1>7, <2>2 DEF Obeys, Contract!Next
<1>11. CASE SpeaksTwice
  <2>1. /\ source' = Append(Append(source, Final(submitted + 1)), Final(submitted + 1))
        /\ disturbed' = TRUE
    BY <1>11 DEF SpeaksTwice
  <2>2. Contract!SayTwice(submitted)
    BY <1>1, <1>9, <2>1 DEF Contract!SayTwice
  <2> QED
    BY <1>7, <2>2 DEF Obeys, Contract!Next
<1> QED
  BY <1>10, <1>11

LEMMA MurmursObeys ==
    ASSUME Murmurs
    PROVE  Obeys
<1>1. /\ phase = "run" /\ phase' = "run" /\ source' = Append(source, Partial)
      /\ UNCHANGED <<told, disturbed>>
  BY DEF Murmurs, run
<1>2. Contract!SayPartial
  BY <1>1, ContractNames DEF Contract!SayPartial
<1> QED
  BY <1>2 DEF Obeys, Contract!Next

\* A caption in the languages of reached, whether its command is answered or not.
LEMMA ContractTranslate ==
    ASSUME TalkInv, NEW n \in Spoken, n \in Nat, NEW reached \in SUBSET Langs,
           told' = [l \in Langs |-> IF l \in reached THEN Append(told[l], Final(n)) ELSE told[l]],
           ~disturbed /\ ~Lulled(source) => \A l \in reached : \A m \in Seqs(told[l]) : m < n,
           disturbed' \in {disturbed, TRUE},
           source' = source, phase' = phase
    PROVE  Obeys
<1>1. source \in Seq(Entries) /\ \A l \in Langs : told[l] \in Seq(Entries)
  BY DEF TalkInv, Types
<1>2. n - 1 \in Contract!Numbers(source) /\ Contract!Final(n - 1) = Final(n)
  BY <1>1, ContractNumbers, ContractFinal DEF Spoken
<1>3. ASSUME ~disturbed, ~Lulled(source), NEW l \in reached, NEW m \in Contract!Numbers(told[l])
      PROVE  m < n - 1
  <2>1. m \in Int /\ m + 1 \in Seqs(told[l])
    BY <1>1, ContractNumbers
  <2>2. m + 1 < n
    BY <1>3, <2>1
  <2> QED
    BY <2>1, <2>2
<1>4. Contract!Translate(reached, n - 1)
  BY <1>2, <1>3, ContractNames DEF Contract!Translate
<1> QED
  BY <1>2, <1>4 DEF Obeys, Contract!Next

\* The same of the stage: what it publishes is item, behind all the language has.
LEMMA StageObeys ==
    ASSUME TalkInv, NEW reached \in SUBSET Langs, Reaching(reached), Copied,
           \A l \in reached : Active(l),
           disturbed' \in {disturbed, TRUE}, source' = source, phase' = phase
    PROVE  Obeys
<1>1. told' = [l \in Langs |-> IF l \in reached THEN Append(told[l], Final(item)) ELSE told[l]]
  BY Copies DEF TalkInv
<1>2. CASE reached = {}
  <2>1. told' = told
    BY <1>1, <1>2 DEF TalkInv, Types
  <2>2. disturbed' = disturbed \/ Contract!Disturb
    BY <2>1 DEF Contract!Disturb
  <2>3. Contract!Disturb => Obeys
    BY DEF Obeys, Contract!Next
  <2> QED
    BY <2>1, <2>2, <2>3, ContractVars DEF Speakers
<1>3. CASE reached # {}
  <2>1. item \in Spoken /\ item \in Nat
    BY <1>3, ActiveSpoken DEF TalkInv, Types
  <2>2. ~disturbed /\ ~Lulled(source) => \A l \in reached : \A m \in Seqs(told[l]) : m < item
    BY DEF TalkInv, Behind
  <2> QED
    BY <1>1, <2>1, <2>2, ContractTranslate
<1> QED
  BY <1>2, <1>3

\* A translation that is published twice.
LEMMA TwiceObeys ==
    ASSUME TalkInv, NEW l \in Langs, TellsTwice(l)
    PROVE  Obeys
<1>1. /\ told' = [told EXCEPT ![l] = Append(Append(@, Final(item)), Final(item))]
      /\ disturbed' = TRUE /\ UNCHANGED <<source, phase>> /\ Active(l)
  BY DEF TellsTwice, Publish, run, Active
<1>2. item \in Spoken /\ item \in Nat /\ source \in Seq(Entries)
  BY <1>1, ActiveSpoken DEF TalkInv, Types
<1>3. item - 1 \in Contract!Numbers(source) /\ Contract!Final(item - 1) = Final(item)
  BY <1>2, ContractNumbers, ContractFinal DEF Spoken
<1>4. Contract!TranslateTwice(l, item - 1)
  BY <1>1, <1>3 DEF Contract!TranslateTwice
<1> QED
  BY <1>3, <1>4 DEF Obeys, Contract!Next

LEMMA StrayObeys ==
    ASSUME TalkInv, NEW l \in Langs, NEW n, StrayEnds(l, n)
    PROVE  Obeys
<1>1. /\ n \in stray[l] /\ UNCHANGED <<source, disturbed, phase>>
      /\ told' = [told EXCEPT ![l] = Append(@, Final(n))] \/ told' = told
  BY DEF StrayEnds, run
<1>2. n \in Nat /\ n \in Spoken /\ disturbed
  BY <1>1 DEF TalkInv, Types, Quiet
<1>3. CASE told' = told
  BY <1>1, <1>3, ContractVars DEF Speakers
<1>4. CASE told' = [told EXCEPT ![l] = Append(@, Final(n))]
  <2>1. told' = [m \in Langs |-> IF m \in {l} THEN Append(told[m], Final(n)) ELSE told[m]]
    BY <1>4 DEF TalkInv, Types
  <2> QED
    BY <1>1, <1>2, <2>1, ContractTranslate
<1> QED
  BY <1>1, <1>3, <1>4

LEMMA AnnouncesObeys ==
    ASSUME NEW s \in Streams, Announces(s) \/ AnnouncesTwice(s)
    PROVE  Obeys
<1>1. phase = "announce" /\ phase' \in {"idle", "announce"}
  BY DEF Announces, AnnouncesTwice, Announcing
<1>2. Event \in Contract!Events
  BY ContractNames
<1>3. CASE Announces(s)
  <2>1. /\ disturbed' = disturbed
        /\ \/ source' = Append(source, Event) /\ told' = told
           \/ s \in Langs /\ told' = [told EXCEPT ![s] = Append(@, Event)] /\ source' = source
    BY <1>3 DEF Announces, Streams
  <2>2. Contract!AnnounceSource \/ (s \in Langs /\ Contract!AnnounceIn(s))
    BY <1>1, <1>2, <2>1 DEF Contract!AnnounceSource, Contract!AnnounceIn
  <2> QED
    BY <2>2 DEF Obeys, Contract!Next
<1>4. CASE AnnouncesTwice(s)
  <2>1. /\ disturbed' = TRUE
        /\ \/ source' = Append(Append(source, Event), Event) /\ told' = told
           \/ /\ s \in Langs
              /\ told' = [told EXCEPT ![s] = Append(Append(@, Event), Event)] /\ source' = source
    BY <1>4 DEF AnnouncesTwice, Streams
  <2>2. Contract!AnnounceTwice
    BY <1>1, <1>2, <2>1 DEF Contract!AnnounceTwice
  <2> QED
    BY <2>2 DEF Obeys, Contract!Next
<1> QED
  BY <1>3, <1>4

LEMMA StepObeys ==
    ASSUME TalkInv, [TalkNext]_talk
    PROVE  Obeys
<1>1. CASE StartRun \/ StartTool
  BY <1>1, BeginsObeys DEF StartRun, StartTool
<1>2. CASE Speaks \/ SpeaksTwice \/ Murmurs
  BY <1>2, SpeaksObeys, MurmursObeys
<1>3. CASE Submits
  BY <1>3, ContractVars DEF Submits, Speakers
<1>4. ASSUME NEW how, Closes(how) PROVE Obeys
  BY <1>4, ContractStepDown DEF Closes, Speakers
<1>5. CASE EndTool \/ \E how \in Outcomes : EndRun(how)
  BY <1>4, <1>5 DEF EndTool, EndRun
<1>6. CASE RunSteps
  BY <1>6, ContractVars DEF RunSteps, run, Speakers
<1>7. ASSUME NEW l \in Langs, OneSteps(l) PROVE Obeys
  <2>1. UNCHANGED <<source, disturbed, phase>> /\ Copied
    BY <1>7 DEF OneSteps, run
  <2>2. CASE Translated(l) \/ Retry(l) \/ GiveUp(l)
    <3>1. Reaching({})
      BY <2>2 DEF Translated, Retry, GiveUp, Reaching, history, TalkInv, Types
    <3> QED
      BY <2>1, <3>1, StageObeys
  <2>3. CASE Publish(l)
    BY <2>1, <2>3, StageObeys DEF Publish, Active
  <2> QED
    BY <1>7, <2>2, <2>3 DEF OneSteps
<1>8. ASSUME NEW l \in Langs, TellingFails(l) PROVE Obeys
  <2>1. /\ UNCHANGED <<source, phase>> /\ Copied /\ disturbed' = TRUE /\ Active(l)
        /\ \E reached \in SUBSET {l} : Reaching(reached)
    BY <1>8 DEF TellingFails, PublishFails, run, Active
  <2> QED
    BY <2>1, StageObeys
<1>9. ASSUME NEW l \in Langs, NEW n \in stray[l], StrayEnds(l, n) PROVE Obeys
  BY <1>9, StrayObeys
<1>10. CASE CutShort
  <2>1. /\ UNCHANGED <<source, phase, disturbed>> /\ Copied
        /\ \E reached \in SUBSET {l \in Langs : one[l] = "publishing"} : Reaching(reached)
    BY <1>10 DEF CutShort, CancelStage, run
  <2>2. PICK reached \in SUBSET {l \in Langs : one[l] = "publishing"} : Reaching(reached)
    BY <2>1
  <2>3. \A l \in reached : Active(l)
    BY DEF Active
  <2> QED
    BY <2>1, <2>2, <2>3, StageObeys
<1>11. CASE FinishQuiet \/ FinishOver \/ FinishSkipped \/ ToolExits
  BY <1>11, ContractVars DEF FinishQuiet, FinishOver, FinishSkipped, ToolExits, Idles, Speakers
<1>12. ASSUME NEW s \in Streams, Announces(s) \/ AnnouncesTwice(s) PROVE Obeys
  BY <1>12, AnnouncesObeys
<1>13. CASE Dies
  BY <1>13, ContractStepDown DEF Dies, Speakers
<1>14. CASE UNCHANGED talk
  BY <1>14, ContractVars DEF talk, run, Speakers
<1>15. ASSUME NEW l \in Langs, TellsTwice(l) PROVE Obeys
  BY <1>15, TwiceObeys
<1> QED
  BY <1>1, <1>2, <1>3, <1>5, <1>6, <1>7, <1>8, <1>9, <1>10, <1>11, <1>12, <1>13, <1>14, <1>15
     DEF TalkNext, Goes

\* The streams of a talk follow the contract, whatever dies, fails, is cut short or
\* applied twice, for any look-up, and any number of runs, languages and captions.
THEOREM Follows == TalkSpec => FollowsContract
<1>1. TalkInit => Contract!Init
  BY DEF TalkInit, Contract!Init
<1>2. TalkInv /\ [TalkNext]_talk => [Contract!Next]_(Contract!vars)
  BY StepObeys DEF Obeys
<1> QED
  BY <1>1, <1>2, TalkInvariant, PTL DEF TalkSpec, FollowsContract, Contract!Spec

-----------------------------------------------------------------------------
(* The export.                                                             *)

LEMMA CopiesSpoken ==
    ASSUME TalkInv, NEW reached \in SUBSET Langs, Reaching(reached), Copied,
           \A l \in reached : Active(l)
    PROVE  \A l \in Langs : Seqs(told'[l]) \subseteq Seqs(told[l]) \cup Spoken
<1>1. \A l \in Langs : Seqs(told'[l]) =
        IF l \in reached THEN Seqs(told[l]) \cup {item} ELSE Seqs(told[l])
  BY Copies DEF TalkInv
<1>2. \A l \in reached : item \in Spoken
  BY ActiveSpoken
<1> QED
  BY <1>1, <1>2

\* What goes on in a talk, without a new caption of the source.
LEMMA GoesOn ==
    ASSUME TalkInv, Goes
    PROVE  /\ Spoken' = Spoken
           /\ Lulled(source) => Lulled(source')
           /\ phase' = "run" => phase = "run"
           /\ \A l \in Langs : Seqs(told'[l]) \subseteq Seqs(told[l]) \cup Spoken
<1> DEFINE Same == source' = source /\ told' = told /\ (phase' = "run" => phase = "run")
           Goal == /\ Spoken' = Spoken
                   /\ Lulled(source) => Lulled(source')
                   /\ phase' = "run" => phase = "run"
                   /\ \A l \in Langs : Seqs(told'[l]) \subseteq Seqs(told[l]) \cup Spoken
<1>1. Same => Goal
  BY DEF Spoken
<1>2. ASSUME source' = source, phase' = phase,
             \A l \in Langs : Seqs(told'[l]) \subseteq Seqs(told[l]) \cup Spoken
      PROVE  Goal
  BY <1>2 DEF Spoken
<1>3. CASE Submits \/ EndTool \/ \E how \in Outcomes : EndRun(how)
  <2>1. Same
    BY <1>3 DEF Submits, EndTool, EndRun, Closes
  <2> QED
    BY <1>1, <2>1
<1>4. CASE RunSteps
  <2>1. Same
    BY <1>4 DEF RunSteps, run
  <2> QED
    BY <1>1, <2>1
<1>5. ASSUME NEW l \in Langs, OneSteps(l) PROVE Goal
  <2>1. UNCHANGED <<source, phase>> /\ Copied
    BY <1>5 DEF OneSteps, run
  <2>2. \E reached \in SUBSET Langs : Reaching(reached) /\ \A m \in reached : Active(m)
    <3>1. CASE Translated(l) \/ Retry(l) \/ GiveUp(l)
      <4>1. Reaching({})
        BY <3>1 DEF Translated, Retry, GiveUp, Reaching, history, TalkInv, Types
      <4> QED
        BY <4>1
    <3>2. CASE Publish(l)
      <4>1. Reaching({l}) /\ Active(l)
        BY <3>2 DEF Publish, Active
      <4> QED
        BY <4>1
    <3> QED
      BY <1>5, <3>1, <3>2 DEF OneSteps
  <2> QED
    BY <1>2, <2>1, <2>2, CopiesSpoken
<1>6. ASSUME NEW l \in Langs, TellingFails(l) PROVE Goal
  <2>1. /\ UNCHANGED <<source, phase>> /\ Copied /\ Active(l)
        /\ \E reached \in SUBSET {l} : Reaching(reached)
    BY <1>6 DEF TellingFails, PublishFails, run, Active
  <2> QED
    BY <1>2, <2>1, CopiesSpoken
<1>7. ASSUME NEW l \in Langs, NEW n \in stray[l], StrayEnds(l, n) PROVE Goal
  <2>1. /\ UNCHANGED <<source, phase>>
        /\ told' = [told EXCEPT ![l] = Append(@, Final(n))] \/ told' = told
    BY <1>7 DEF StrayEnds, run
  <2>2. n \in Nat /\ n \in Spoken
    BY DEF TalkInv, Types, Quiet
  <2>3. \A m \in Langs : told'[m] = told[m] \/ told'[m] = Append(told[m], Final(n))
    BY <2>1 DEF TalkInv, Types
  <2>4. \A m \in Langs : Seqs(Append(told[m], Final(n))) = Seqs(told[m]) \cup {n}
    <3> TAKE m \in Langs
    <3>1. told[m] \in Seq(Entries)
      BY DEF TalkInv, Types
    <3>2. Final(n) \in Entries /\ Final(n).kind = "final" /\ Final(n).seq + 1 = n
      BY <2>2, FinalIs
    <3> QED
      BY <3>1, <3>2, SeqsAppend
  <2>5. \A m \in Langs : Seqs(told'[m]) \subseteq Seqs(told[m]) \cup Spoken
    <3> TAKE m \in Langs
    <3>1. CASE told'[m] = told[m]
      BY <3>1
    <3>2. CASE told'[m] = Append(told[m], Final(n))
      BY <2>2, <2>4, <3>2
    <3> QED
      BY <2>3, <3>1, <3>2
  <2> QED
    BY <1>2, <2>1, <2>5
<1>8. CASE CutShort
  <2>1. /\ UNCHANGED <<source, phase>> /\ Copied
        /\ \E reached \in SUBSET {l \in Langs : one[l] = "publishing"} : Reaching(reached)
    BY <1>8 DEF CutShort, CancelStage, run
  <2>2. PICK reached \in SUBSET {l \in Langs : one[l] = "publishing"} : Reaching(reached)
    BY <2>1
  <2>3. \A l \in reached : Active(l)
    BY DEF Active
  <2> QED
    BY <1>2, <2>1, <2>2, <2>3, CopiesSpoken
<1>9. CASE FinishQuiet \/ FinishOver \/ FinishSkipped \/ ToolExits \/ Dies
  <2>1. Same
    BY <1>9 DEF FinishQuiet, FinishOver, FinishSkipped, ToolExits, Idles, Dies
  <2> QED
    BY <1>1, <2>1
<1>10. ASSUME NEW s \in Streams, Announces(s) \/ AnnouncesTwice(s) PROVE Goal
  <2>1. /\ phase' \in {"idle", "announce"}
        /\ source' \in {source, Append(source, Event), Append(Append(source, Event), Event)}
        /\ \/ told' = told
           \/ /\ s \in Langs
              /\ told' \in {[told EXCEPT ![s] = Append(@, Event)],
                           [told EXCEPT ![s] = Append(Append(@, Event), Event)]}
    BY <1>10 DEF Announces, AnnouncesTwice, Announcing, Streams
  <2>2. Spoken' = Spoken /\ (Lulled(source) => Lulled(source'))
    BY <2>1, OthersAre, SourceRests
  <2>3. \A l \in Langs : /\ Seqs(Append(told[l], Event)) = Seqs(told[l])
                         /\ Seqs(Append(Append(told[l], Event), Event)) = Seqs(told[l])
    <3> TAKE l \in Langs
    <3>1. told[l] \in Seq(Entries) /\ Append(told[l], Event) \in Seq(Entries)
      BY OthersAre, AppendOne DEF TalkInv, Types
    <3> QED
      BY <3>1, OthersAre, SeqsAppend
  <2>4. \A l \in Langs : told'[l] \in {told[l], Append(told[l], Event),
                                        Append(Append(told[l], Event), Event)}
    BY <2>1 DEF TalkInv, Types
  <2>5. \A l \in Langs : Seqs(told'[l]) = Seqs(told[l])
    BY <2>3, <2>4
  <2> QED
    BY <2>1, <2>2, <2>5
<1>11. CASE Murmurs
  <2>1. source' = Append(source, Partial) /\ UNCHANGED <<told, phase>>
    BY <1>11 DEF Murmurs, run
  <2> QED
    BY <2>1, OthersAre, SourceRests
<1>12. ASSUME NEW l \in Langs, TellsTwice(l) PROVE Goal
  <2>1. UNCHANGED <<source, phase>> /\ Active(l)
    BY <1>12 DEF TellsTwice, Publish, run, Active
  <2>2. item \in Spoken
    BY <2>1, ActiveSpoken
  <2>3. \A m \in Langs : Seqs(told'[m]) =
          IF m \in {l} THEN Seqs(told[m]) \cup {item} ELSE Seqs(told[m])
    BY <1>12, ToldTwice
  <2> QED
    BY <1>2, <2>1, <2>2, <2>3
<1> QED
  BY <1>3, <1>4, <1>5, <1>6, <1>7, <1>8, <1>9, <1>10, <1>11, <1>12 DEF Goes

Spans == [t0 : Nat, t1 : Nat]

\* Every number of the source stream has a time; without a lull the times are one
\* behind the other, and the clock of a run is behind them all.
Ticking ==
    /\ \A m, n \in Spoken : m < n => times[m].t1 <= times[n].t0
    /\ phase = "run" => \A n \in Spoken : times[n].t1 <= offset + heard
Clock ==
    /\ offset \in Nat /\ heard \in Nat /\ times \in [Spoken -> Spans]
    /\ \A n \in Spoken : times[n].t0 < times[n].t1
    /\ ~Lulled(source) => Ticking
    /\ \A l \in Langs : Seqs(told[l]) \subseteq Spoken

LEMMA TimesAre ==
    ASSUME Clock
    PROVE  \A n \in Spoken : times[n].t0 \in Nat /\ times[n].t1 \in Nat
<1>1. times \in [Spoken -> Spans]
  BY DEF Clock
<1>2. \A n \in Spoken : times[n] \in Spans
  BY <1>1
<1> QED
  BY <1>2 DEF Spans

LEMMA RestartsClock ==
    ASSUME TalkInv, Clock, Restarts
    PROVE  Clock'
<1>1. /\ UNCHANGED <<source, told, times>> /\ heard' = 0 /\ offset' = Resumed
  BY DEF Restarts, StartRun, StartTool, Begins
<1>2. /\ Found \in Nat /\ 1..Found \subseteq Spoken /\ Spoken' = Spoken
      /\ ~Lulled(source) => Spoken = 1..Found
  BY <1>1, FoundIs DEF TalkInv, Spoken
<1>3. Resumed \in Nat /\ (Found # 0 => Resumed = times[Found].t1 /\ Found \in Spoken)
  BY <1>2, TimesAre DEF Resumed
<1>4. ASSUME ~Lulled(source), NEW n \in Spoken PROVE times[n].t1 <= Resumed + 0
  <2>1. n \in 1..Found /\ Resumed = times[Found].t1 /\ Found \in Spoken
    BY <1>2, <1>3, <1>4
  <2>2. /\ times[n].t0 \in Nat /\ times[n].t1 \in Nat
        /\ times[Found].t0 \in Nat /\ times[Found].t1 \in Nat
    BY <2>1, TimesAre
  <2>3. CASE n = Found
    BY <2>1, <2>2, <2>3
  <2>4. CASE n < Found
    <3>1. times[n].t1 <= times[Found].t0 /\ times[Found].t0 < times[Found].t1
      BY <1>4, <2>1, <2>4 DEF Clock, Ticking
    <3> QED
      BY <2>1, <2>2, <3>1
  <2> QED
    BY <1>2, <2>1, <2>3, <2>4
<1>5. ~Lulled(source') => Ticking'
  BY <1>1, <1>2, <1>4 DEF Clock, Ticking
<1> QED
  BY <1>1, <1>2, <1>3, <1>5 DEF Clock

LEMMA UttersClock ==
    ASSUME TalkInv, Clock, Utters
    PROVE  Clock'
<1>1. PICK pause \in Pauses, length \in Lengths :
        /\ heard' = heard + pause + length
        /\ times' = [n \in DOMAIN times \cup {submitted + 1} |->
             IF n = submitted + 1
             THEN Span(offset + heard + pause, offset + heard + pause + length)
             ELSE times[n]]
  BY DEF Utters
<1>2. pause \in Nat /\ length \in Nat \ {0}
  BY ExportAssumption
<1> DEFINE start == offset + heard + pause
           span == Span(start, start + length)
<1>3. /\ offset \in Nat /\ heard \in Nat /\ start \in Nat /\ start + length \in Nat
      /\ offset + heard <= start /\ start < start + length
      /\ span \in Spans /\ span.t0 = start /\ span.t1 = start + length
      /\ offset' = offset /\ offset + heard' = start + length /\ heard' \in Nat
  BY <1>1, <1>2 DEF Clock, Utters, Span, Spans
<1>4. /\ Spoken' = Spoken \cup {submitted + 1} /\ (Lulled(source) => Lulled(source'))
      /\ phase = "run" /\ ~emitting /\ told' = told /\ submitted \in Nat
  BY SpeaksKeeps DEF Utters, Speaks, SpeaksTwice, TalkInv, Types
<1>5. times \in [Spoken -> Spans]
  BY DEF Clock
<1> HIDE DEF start, span
<1>6. times' = [n \in Spoken \cup {submitted + 1} |-> IF n = submitted + 1 THEN span ELSE times[n]]
  BY <1>1, <1>5 DEF start, span
<1>7. times' \in [Spoken' -> Spans]
  BY <1>3, <1>4, <1>5, <1>6
<1>8. \A n \in Spoken' : times'[n].t0 < times'[n].t1
  BY <1>3, <1>4, <1>6 DEF Clock
<1>9. ASSUME ~Lulled(source') PROVE Ticking'
  <2>1. Spoken = 1..submitted /\ Ticking
    BY <1>4, <1>9 DEF TalkInv, Speech, Exact, Clock
  <2>2. \A n \in Spoken : n \in Nat /\ n < submitted + 1 /\ times'[n] = times[n]
    BY <1>4, <1>6, <2>1
  <2>3. times'[submitted + 1] = span
    BY <1>6
  <2>4. \A n \in Spoken : times[n].t1 <= start /\ times[n].t1 <= start + length
    <3>1. \A n \in Spoken : times[n].t1 \in Nat /\ times[n].t1 <= offset + heard
      BY <1>4, <2>1, TimesAre DEF Ticking
    <3> QED
      BY <1>2, <1>3, <3>1
  <2>5. ASSUME NEW m \in Spoken', NEW n \in Spoken', m < n PROVE times'[m].t1 <= times'[n].t0
    <3>1. m \in Spoken /\ times'[m] = times[m]
      BY <1>4, <2>2, <2>5
    <3>2. CASE n \in Spoken
      BY <2>1, <2>2, <2>5, <3>1, <3>2 DEF Ticking
    <3>3. CASE n = submitted + 1
      BY <1>3, <2>3, <2>4, <3>1, <3>3
    <3> QED
      BY <1>4, <3>2, <3>3
  <2>6. \A n \in Spoken' : times'[n].t1 <= start + length
    BY <1>3, <1>4, <2>2, <2>3, <2>4
  <2>7. offset' + heard' = start + length
    BY <1>3
  <2> QED
    BY <2>5, <2>6, <2>7 DEF Ticking
<1>10. \A l \in Langs : Seqs(told'[l]) \subseteq Spoken'
  BY <1>4 DEF Clock
<1> QED
  BY <1>3, <1>7, <1>8, <1>9, <1>10 DEF Clock

LEMMA ContinuesClock ==
    ASSUME TalkInv, Clock, Continues
    PROVE  Clock'
<1>1. /\ Spoken' = Spoken /\ (Lulled(source) => Lulled(source'))
      /\ (phase' = "run" => phase = "run")
      /\ \A l \in Langs : Seqs(told'[l]) \subseteq Seqs(told[l]) \cup Spoken
      /\ UNCHANGED <<offset, heard, times>>
  BY GoesOn DEF Continues
<1> QED
  BY <1>1 DEF Clock, Ticking

\* Export adds times to the talk and changes nothing in it.
THEOREM ExportRefines == ExportSpec => TalkSpec
<1>1. ExportInit => TalkInit
  BY DEF ExportInit
<1>2. [ExportNext]_export => [TalkNext]_talk
  BY DEF ExportNext, Restarts, Utters, Continues, TalkNext, export
<1> QED
  BY <1>1, <1>2, PTL DEF ExportSpec, TalkSpec

LEMMA InOrderIfClock ==
    ASSUME Clock
    PROVE  SubtitlesInOrder
<1> SUFFICES ASSUME ~Lulled(source), NEW s \in Streams,
                    NEW m \in Exported(s), NEW n \in Exported(s), m < n
             PROVE  Before(m, n) /\ times[m].t1 <= times[n].t0
  BY DEF SubtitlesInOrder
<1>1. m \in Spoken /\ n \in Spoken
  BY DEF Clock, Exported, Stream, Streams, Spoken
<1>2. times[m].t0 \in Nat /\ times[m].t1 \in Nat /\ times[n].t0 \in Nat
  BY <1>1, TimesAre
<1>3. times[m].t0 < times[m].t1 /\ times[m].t1 <= times[n].t0
  BY <1>1 DEF Clock, Ticking
<1> QED
  BY <1>2, <1>3 DEF Before

\* The export of a talk is in the order of its numbers, without overlapping
\* subtitles, in every language, however often the talk has been taken over and
\* whatever has been applied twice, unless there was a lull in its source.
THEOREM ExportInOrder == ExportSpec => []SubtitlesInOrder
<1>1. ExportInit => Clock
  <2>1. ASSUME ExportInit PROVE Clock
    <3>1. /\ source = <<>> /\ told = [l \in Langs |-> <<>>] /\ phase = "idle"
          /\ offset = 0 /\ heard = 0 /\ times = <<>>
      BY <2>1 DEF ExportInit, TalkInit
    <3>2. Seqs(<<>>) = {}
      BY DEF Seqs, Finals
    <3>3. Spoken = {} /\ \A l \in Langs : Seqs(told[l]) = {}
      BY <3>1, <3>2 DEF Spoken
    <3>4. times \in [Spoken -> Spans]
      BY <3>1, <3>3
    <3> QED
      BY <3>1, <3>3, <3>4 DEF Clock, Ticking
  <2> QED
    BY <2>1
<1>2. TalkInv /\ Clock /\ [ExportNext]_export => Clock'
  <2>1. ASSUME TalkInv, Clock, UNCHANGED export PROVE Clock'
    BY <2>1 DEF Clock, Ticking, export, talk, run, Spoken
  <2> QED
    BY <2>1, RestartsClock, UttersClock, ContinuesClock DEF ExportNext
<1>3. Clock => SubtitlesInOrder
  BY InOrderIfClock
<1> QED
  BY <1>1, <1>2, <1>3, ExportRefines, TalkInvariant, PTL DEF ExportSpec

=============================================================================
