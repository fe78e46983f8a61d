----------------------------- MODULE FanoutProofs -----------------------------
(***************************************************************************)
(* What TLAPS proves of Fanout, for any number of browsers, hubs, queue     *)
(* and backlog limits and any length of the stream: one reader per stream,  *)
(* no entry twice or out of order, and no gap that is not denied.           *)
(***************************************************************************)
EXTENDS Fanout, RankProofs

\* The ids of a queue or a backlog.
Elements(s) == {s[i] : i \in DOMAIN s}

\* Ids in order, drop signals aside.
Increasing(s) == \A i, j \in DOMAIN s : i < j /\ s[j] # Dropped => s[i] < s[j]

\* A queue that the hub fills: in order, no signal in it, nothing after a.
Filled(q, a) == Increasing(q) /\ \A i \in DOMAIN q : q[i] <= a /\ q[i] # Dropped

-----------------------------------------------------------------------------
(* Sequences of ids.                                                       *)

LEMMA TailFacts ==
  ASSUME NEW s \in Seq(Nat), s # <<>>
  PROVE  /\ Tail(s) \in Seq(Nat) /\ Len(Tail(s)) = Len(s) - 1
         /\ Head(s) = s[1] /\ 1 \in DOMAIN s /\ Head(s) \in Nat
         /\ \A i \in DOMAIN Tail(s) : i + 1 \in DOMAIN s /\ Tail(s)[i] = s[i + 1]
         /\ Elements(s) \subseteq Elements(Tail(s)) \cup {Head(s)}
         /\ Elements(Tail(s)) \subseteq Elements(s)
<1>1. /\ Tail(s) \in Seq(Nat) /\ Len(Tail(s)) = Len(s) - 1 /\ Len(s) \in Nat /\ Len(s) > 0
      /\ DOMAIN s = 1..Len(s) /\ DOMAIN Tail(s) = 1..(Len(s) - 1)
      /\ \A i \in 1..(Len(s) - 1) : Tail(s)[i] = s[i + 1]
  OBVIOUS
<1>2. Head(s) = s[1] /\ 1 \in DOMAIN s /\ s[1] \in Nat
  BY <1>1
<1>3. \A i \in DOMAIN Tail(s) : i + 1 \in DOMAIN s /\ Tail(s)[i] = s[i + 1]
  BY <1>1
<1>4. ASSUME NEW i \in DOMAIN s, i # 1
      PROVE  s[i] \in Elements(Tail(s))
  <2>1. i - 1 \in DOMAIN Tail(s) /\ Tail(s)[i - 1] = s[i]
    BY <1>1, <1>4
  <2>2. QED
    BY <2>1 DEF Elements
<1>5. Elements(s) \subseteq Elements(Tail(s)) \cup {Head(s)}
  BY <1>2, <1>4 DEF Elements
<1>6. Elements(Tail(s)) \subseteq Elements(s)
  BY <1>3 DEF Elements
<1>7. QED
  BY <1>1, <1>2, <1>3, <1>5, <1>6

LEMMA TailIncreasing ==
  ASSUME NEW s \in Seq(Nat), s # <<>>, Increasing(s)
  PROVE  /\ Increasing(Tail(s))
         /\ \A p \in Elements(Tail(s)) : p # Dropped => Head(s) < p
<1>1. /\ Head(s) = s[1] /\ 1 \in DOMAIN s
      /\ \A i \in DOMAIN Tail(s) : i + 1 \in DOMAIN s /\ Tail(s)[i] = s[i + 1]
      /\ \A i \in DOMAIN Tail(s) : i \in Nat /\ i > 0
  BY TailFacts
<1>2. Increasing(Tail(s))
  BY <1>1 DEF Increasing
<1>3. ASSUME NEW i \in DOMAIN Tail(s), Tail(s)[i] # Dropped
      PROVE  Head(s) < Tail(s)[i]
  BY <1>1, <1>3 DEF Increasing
<1>4. QED
  BY <1>2, <1>3 DEF Elements

LEMMA AfterFacts ==
  ASSUME NEW a \in Nat, NEW b \in Nat, a <= b
  PROVE  /\ After(a, b) \in Seq(Nat) /\ Len(After(a, b)) = b - a
         /\ Increasing(After(a, b)) /\ Elements(After(a, b)) = (a + 1)..b
<1>1. /\ After(a, b) \in Seq(Nat) /\ Len(After(a, b)) = b - a
      /\ DOMAIN After(a, b) = 1..(b - a)
      /\ \A i \in 1..(b - a) : After(a, b)[i] = a + i
  BY DEF After
<1>2. Increasing(After(a, b))
  BY <1>1 DEF Increasing
<1>3. ASSUME NEW x \in (a + 1)..b
      PROVE  x \in Elements(After(a, b))
  <2>1. x - a \in 1..(b - a) /\ After(a, b)[x - a] = x
    BY <1>1
  <2>2. QED
    BY <1>1, <2>1 DEF Elements
<1>4. ASSUME NEW i \in DOMAIN After(a, b)
      PROVE  After(a, b)[i] \in (a + 1)..b
  BY <1>1
<1>5. Elements(After(a, b)) = (a + 1)..b
  BY <1>3, <1>4 DEF Elements
<1>6. QED
  BY <1>1, <1>2, <1>5

LEMMA ConcatFacts ==
  ASSUME NEW q \in Seq(Nat), NEW s \in Seq(Nat)
  PROVE  /\ q \o s \in Seq(Nat) /\ Len(q \o s) = Len(q) + Len(s)
         /\ DOMAIN (q \o s) = 1..(Len(q) + Len(s))
         /\ \A i \in 1..Len(q) : (q \o s)[i] = q[i]
         /\ \A i \in 1..Len(s) : (q \o s)[Len(q) + i] = s[i]
         /\ \A i \in 1..(Len(q) + Len(s)) : i > Len(q) =>
                i - Len(q) \in 1..Len(s) /\ (q \o s)[i] = s[i - Len(q)]
OBVIOUS

LEMMA Joined ==
  ASSUME NEW q \in Seq(Nat), NEW a \in Nat, NEW b \in Nat, a <= b,
         Filled(q, a),
         NEW r, r = q \o After(a, b)
  PROVE  /\ r \in Seq(Nat) /\ Len(r) = Len(q) + (b - a)
         /\ Filled(r, b)
         /\ \A x : x \in Elements(r) <=> x \in Elements(q) \/ x \in (a + 1)..b
<1> DEFINE s == After(a, b)
<1>1. /\ s \in Seq(Nat) /\ Len(s) = b - a /\ Elements(s) = (a + 1)..b
      /\ \A i \in 1..(b - a) : s[i] = a + i
  BY AfterFacts DEF After
<1>2. /\ Len(q) \in Nat /\ DOMAIN q = 1..Len(q) /\ DOMAIN s = 1..(b - a)
      /\ \A i \in DOMAIN q : q[i] \in Nat /\ q[i] <= a /\ q[i] # Dropped
      /\ Increasing(q)
  BY <1>1 DEF Filled
<1> HIDE DEF s
<1>r. /\ r \in Seq(Nat) /\ Len(r) = Len(q) + Len(s) /\ DOMAIN r = 1..(Len(q) + Len(s))
      /\ \A i \in 1..Len(q) : r[i] = q[i]
      /\ \A i \in 1..Len(s) : r[Len(q) + i] = s[i]
      /\ \A i \in 1..(Len(q) + Len(s)) : i > Len(q) =>
            i - Len(q) \in 1..Len(s) /\ r[i] = s[i - Len(q)]
  <2>1. r = q \o s
    BY DEF s
  <2>2. /\ q \o s \in Seq(Nat) /\ Len(q \o s) = Len(q) + Len(s)
        /\ DOMAIN (q \o s) = 1..(Len(q) + Len(s))
        /\ \A i \in 1..Len(q) : (q \o s)[i] = q[i]
        /\ \A i \in 1..Len(s) : (q \o s)[Len(q) + i] = s[i]
        /\ \A i \in 1..(Len(q) + Len(s)) : i > Len(q) =>
               i - Len(q) \in 1..Len(s) /\ (q \o s)[i] = s[i - Len(q)]
    BY <1>1, ConcatFacts
  <2>3. QED
    BY <2>1, <2>2, Zenon
<1>3. ASSUME NEW i \in DOMAIN r
      PROVE  \/ i \in DOMAIN q /\ r[i] = q[i]
             \/ i - Len(q) \in 1..(b - a) /\ r[i] = s[i - Len(q)] /\ r[i] = a + (i - Len(q))
  <2>1. i \in 1..(Len(q) + Len(s)) /\ i \in Int
    BY <1>1, <1>2, <1>r
  <2>2. CASE i <= Len(q)
    BY <1>2, <1>r, <2>1, <2>2
  <2>3. CASE i > Len(q)
    <3>1. i - Len(q) \in 1..Len(s) /\ r[i] = s[i - Len(q)]
      BY <1>r, <2>1, <2>3
    <3>2. QED
      BY <1>1, <3>1
  <2>4. QED
    BY <1>2, <2>1, <2>2, <2>3
<1>4. ASSUME NEW i \in DOMAIN r
      PROVE  r[i] <= b /\ r[i] # Dropped
  <2>1. CASE i \in DOMAIN q /\ r[i] = q[i]
    BY <1>2, <2>1
  <2>2. CASE i - Len(q) \in 1..(b - a) /\ r[i] = a + (i - Len(q))
    BY <1>2, <2>2 DEF Dropped
  <2>3. QED
    BY <1>3, <2>1, <2>2
<1>5. ASSUME NEW i \in DOMAIN r, NEW j \in DOMAIN r, i < j
      PROVE  r[i] < r[j]
  <2>1. i \in Nat /\ j \in Nat
    BY <1>1, <1>2, <1>r
  <2>2. CASE j \in DOMAIN q /\ r[j] = q[j]
    <3>1. i \in DOMAIN q /\ r[i] = q[i]
      BY <1>2, <1>3, <1>5, <2>1, <2>2
    <3>2. QED
      BY <1>2, <1>5, <2>2, <3>1 DEF Increasing
  <2>3. CASE j - Len(q) \in 1..(b - a) /\ r[j] = a + (j - Len(q))
    BY <1>2, <1>3, <1>5, <2>1, <2>3
  <2>4. QED
    BY <1>3, <2>2, <2>3
<1>6. Elements(r) \subseteq Elements(q) \cup Elements(s)
  <2>1. ASSUME NEW i \in DOMAIN r
        PROVE  r[i] \in Elements(q) \cup Elements(s)
    BY <1>1, <1>2, <1>r, <1>3 DEF Elements
  <2>2. QED
    BY <2>1 DEF Elements
<1>7. Elements(q) \subseteq Elements(r)
  BY <1>2, <1>r DEF Elements
<1>8. ASSUME NEW i \in 1..(b - a)
      PROVE  s[i] \in Elements(r)
  <2>1. Len(q) + i \in DOMAIN r /\ r[Len(q) + i] = s[i]
    BY <1>2, <1>r
  <2>2. QED
    BY <2>1 DEF Elements
<1>9. Elements(s) \subseteq Elements(r)
  BY <1>1, <1>2, <1>8 DEF Elements
<1>10. QED
  BY <1>1, <1>2, <1>4, <1>5, <1>6, <1>7, <1>9, <1>r DEF s, Increasing, Filled

LEMMA Signalled ==
  ASSUME NEW t \in Seq(Nat), Increasing(t)
  PROVE  /\ Append(t, Dropped) \in Seq(Nat) /\ Len(Append(t, Dropped)) = Len(t) + 1
         /\ Increasing(Append(t, Dropped))
         /\ Elements(Append(t, Dropped)) = Elements(t) \cup {Dropped}
<1> DEFINE r == Append(t, Dropped)
<1>1. /\ r \in Seq(Nat) /\ Len(r) = Len(t) + 1 /\ DOMAIN r = 1..(Len(t) + 1)
      /\ Len(t) \in Nat /\ DOMAIN t = 1..Len(t)
      /\ \A i \in DOMAIN t : r[i] = t[i]
      /\ r[Len(t) + 1] = Dropped
  BY DEF Dropped
<1> HIDE DEF r
<1>2. \A i \in DOMAIN r : i \in DOMAIN t \/ i = Len(t) + 1
  BY <1>1
<1>3. Increasing(r)
  BY <1>1, <1>2 DEF Increasing
<1>4. Elements(r) \subseteq Elements(t) \cup {Dropped}
  BY <1>1, <1>2 DEF Elements
<1>5. Elements(t) \subseteq Elements(r)
  BY <1>1 DEF Elements
<1>6. Dropped \in Elements(r)
  <2>1. Len(t) + 1 \in DOMAIN r
    BY <1>1
  <2>2. QED
    BY <1>1, <2>1 DEF Elements
<1>7. QED
  BY <1>1, <1>3, <1>4, <1>5, <1>6 DEF r

\* What put_nowait does to a queue with room for all new ids: it has them all.
LEMMA PutWithRoom ==
  ASSUME NEW q \in Seq(Nat), NEW a \in Nat, NEW n \in Nat, a < n,
         Filled(q, a), ~Overflows(q, n - a),
         NEW p, p = PutAll(q, After(a, n))
  PROVE  /\ p \in Seq(Nat) /\ Len(p) <= QueueCap /\ Filled(p, n)
         /\ \A x : x \in Elements(p) <=> x \in Elements(q) \/ x \in (a + 1)..n
<1>1. Len(After(a, n)) = n - a /\ a <= n
  BY AfterFacts
<1>2. p = q \o After(a, n)
  BY <1>1 DEF PutAll
<1>3. p \in Seq(Nat)
  BY <1>1, <1>2, Joined
<1>4. Filled(p, n)
  BY <1>1, <1>2, Joined
<1>5. Len(p) = Len(q) + (n - a)
  BY <1>1, <1>2, Joined
<1>6. \A x : x \in Elements(p) <=> x \in Elements(q) \/ x \in (a + 1)..n
  BY <1>1, <1>2, Joined
<1>7. Len(p) <= QueueCap
  BY <1>5, FanoutAssumption DEF Overflows
<1>8. QED
  BY <1>3, <1>4, <1>6, <1>7

LEMMA SameHead ==
  ASSUME NEW q \in Seq(Nat), NEW a \in Nat, NEW k \in Nat, NEW n \in Nat, a <= k, k <= n,
         Len(q) + (k - a) > 0
  PROVE  Head(q \o After(a, k)) = Head(q \o After(a, n))
<1>1. /\ After(a, k) \in Seq(Nat) /\ Len(After(a, k)) = k - a
      /\ After(a, n) \in Seq(Nat) /\ Len(After(a, n)) = n - a
      /\ k > a => After(a, k)[1] = a + 1 /\ After(a, n)[1] = a + 1
  BY AfterFacts DEF After
<1>2. Len(q) \in Nat
  OBVIOUS
<1> DEFINE x == q \o After(a, k)
           y == q \o After(a, n)
<1>3. x \in Seq(Nat) /\ Len(x) = Len(q) + (k - a) /\ y \in Seq(Nat) /\ Len(y) = Len(q) + (n - a)
  BY <1>1, ConcatFacts
<1>4. x[1] = y[1]
  <2>1. CASE Len(q) > 0
    <3>1. 1 \in 1..Len(q)
      BY <1>2, <2>1
    <3>2. x[1] = q[1]
      BY <1>1, <3>1, ConcatFacts
    <3>3. y[1] = q[1]
      BY <1>1, <3>1, ConcatFacts
    <3>4. QED
      BY <3>2, <3>3
  <2>2. CASE Len(q) = 0
    <3>1. 1 \in 1..Len(After(a, k)) /\ 1 \in 1..Len(After(a, n)) /\ k > a
      BY <1>1, <2>2
    <3>2. x[Len(q) + 1] = After(a, k)[1]
      BY <1>1, <3>1, ConcatFacts
    <3>3. y[Len(q) + 1] = After(a, n)[1]
      BY <1>1, <3>1, ConcatFacts
    <3>4. QED
      BY <1>1, <2>2, <3>1, <3>2, <3>3
  <2> HIDE DEF x, y
  <2>3. QED
    BY <1>2, <2>1, <2>2
<1> HIDE DEF x, y
<1>5. x # <<>> /\ y # <<>>
  BY <1>2, <1>3
<1>6. Head(x) = Head(y)
  BY <1>3, <1>4, <1>5, TailFacts
<1>7. QED
  BY <1>6 DEF x, y

\* Nothing of q, and no id after a, is missing before an id of p, but what is gone.
KeepsBut(gone, p, q, a) ==
    \A x \in Elements(p), y \in Nat :
        y < x /\ (y \in Elements(q) \/ y > a) => y \in Elements(p) \cup gone

\* p has all of q and the ids after a up to n.
Takes(p, q, a, n) ==
    \A x \in Nat : x \in Elements(q) \/ (x > a /\ x <= n) => x \in Elements(p)

\* A queue within its limit.
Fits(p) == Len(p) <= QueueCap

\* What it does to a queue that is or becomes full: the queue stays in order and
\* within its limit, and of what lies before one of its ids only the oldest goes.
LEMMA PutOnFull ==
  ASSUME NEW q \in Seq(Nat), NEW a \in Nat, NEW n \in Nat, a < n,
         Filled(q, a), Len(q) <= QueueCap, Overflows(q, n - a),
         NEW p, p = PutAll(q, After(a, n)), NEW old, old = Head(q \o After(a, n))
  PROVE  /\ p \in Seq(Nat) /\ Len(p) <= QueueCap /\ Increasing(p)
         /\ \A x \in Elements(p) : x <= n
         /\ KeepsBut({old}, p, q, a)
         /\ old \in Nat
         /\ Dropped \in Elements(p)
<1>1. PICK k \in Nat : k = a + (QueueCap - Len(q))
  BY FanoutAssumption
<1>2. /\ a <= k /\ k < n /\ Len(q) \in Nat /\ k - a = QueueCap - Len(q)
      /\ Len(q) + (k - a) = QueueCap /\ QueueCap \in Nat \ {0}
  BY <1>1, FanoutAssumption DEF Overflows
<1>3. /\ Len(After(a, n)) = n - a
      /\ SubSeq(After(a, n), 1, QueueCap - Len(q)) = After(a, k)
  <2>1. Len(After(a, n)) = n - a /\ \A i \in 1..(n - a) : After(a, n)[i] = a + i
    BY AfterFacts DEF After
  <2>2. SubSeq(After(a, n), 1, k - a) = [i \in 1..(k - a) |-> a + i]
    BY <1>2, <2>1
  <2>3. QED
    BY <1>2, <2>1, <2>2 DEF After
<1>4. PICK r : r = q \o After(a, k)
  OBVIOUS
<1>5. p = Append(Tail(r), Dropped)
  BY <1>3, <1>4 DEF PutAll
<1>6. r \in Seq(Nat)
  BY <1>2, <1>4, Joined
<1>7. Filled(r, k)
  BY <1>2, <1>4, Joined
<1>8. Len(r) = QueueCap
  <2>1. After(a, k) \in Seq(Nat) /\ Len(After(a, k)) = k - a
    BY <1>2, AfterFacts
  <2>2. Len(r) = Len(q) + Len(After(a, k))
    BY <1>4, <2>1, ConcatFacts
  <2>3. QED
    BY <1>2, <2>1, <2>2
<1>9. \A x : x \in Elements(r) <=> x \in Elements(q) \/ x \in (a + 1)..k
  BY <1>2, <1>4, Joined
<1>10. r # <<>>
  BY <1>2, <1>6, <1>8
<1>11. Head(r) = old /\ old \in Nat
  <2>1. a <= k /\ k <= n /\ Len(q) + (k - a) > 0
    BY <1>2
  <2>2. Head(q \o After(a, k)) = Head(q \o After(a, n))
    BY <2>1, SameHead
  <2>3. Head(r) = old
    BY <1>4, <2>2
  <2>4. QED
    BY <1>6, <1>10, <2>3, TailFacts
<1>12. /\ Tail(r) \in Seq(Nat) /\ Len(Tail(r)) = QueueCap - 1
       /\ Elements(r) \subseteq Elements(Tail(r)) \cup {old}
       /\ Elements(Tail(r)) \subseteq Elements(r)
  BY <1>6, <1>8, <1>10, <1>11, TailFacts
<1>13. Increasing(Tail(r))
  BY <1>6, <1>7, <1>10, TailIncreasing DEF Filled
<1>14. p \in Seq(Nat) /\ Len(p) = QueueCap
  BY <1>2, <1>5, <1>12 DEF Dropped
<1>15. Increasing(p)
  BY <1>5, <1>12, <1>13, Signalled
<1>16. \A x : x \in Elements(p) <=> x \in Elements(Tail(r)) \/ x = Dropped
  BY <1>5, <1>12, <1>13, Signalled
<1>17. \A x \in Elements(r) : x \in Nat /\ x <= k
  BY <1>6, <1>7 DEF Elements, Filled
<1>18. \A x \in Elements(p) : x \in Nat /\ x <= k
  BY <1>12, <1>16, <1>17 DEF Dropped
<1>19. ASSUME NEW x \in Elements(p), NEW y \in Nat, y < x, y \in Elements(q) \/ y > a
       PROVE  y \in Elements(p) \/ y = old
  <2>1. y <= k
    BY <1>18, <1>19
  <2>2. y \in Elements(r)
    BY <1>9, <1>19, <2>1
  <2>3. QED
    BY <1>12, <1>16, <2>2
<1>20. \A x \in Elements(p) : x <= n
  BY <1>2, <1>18
<1>21. Len(p) <= QueueCap
  BY <1>2, <1>14
<1>22. KeepsBut({old}, p, q, a)
  BY <1>19 DEF KeepsBut
<1>23. QED
  BY <1>11, <1>14, <1>15, <1>16, <1>20, <1>21, <1>22

-----------------------------------------------------------------------------
(* The backlog of a new viewer: the FINALs to replay, by rank.             *)

LEMMA FreshFacts ==
  ASSUME log \in Seq({"final", "other"})
  PROVE  /\ FreshBacklog \in Seq(Nat) /\ Increasing(FreshBacklog)
         /\ \A i \in DOMAIN FreshBacklog : FreshBacklog[i] \in Ids
<1> DEFINE n == Len(log)
           R == Replayed
           f == FreshBacklog
<1>1. n \in Nat /\ R \in SUBSET (1..n) /\ Ids = 1..n /\ f = Ascending(R)
  BY DEF Replayed, Ids, FreshBacklog
<1> HIDE DEF n, R, f
<1>2. Cardinality(R) \in Nat /\ f \in [1..Cardinality(R) -> R]
  BY <1>1, AscendingSorts
<1>3. \A i, j \in 1..Cardinality(R) : i < j => f[i] < f[j]
  BY <1>1, AscendingSorts
<1>4. f \in Seq(Nat)
  <2>1. \A i \in R : i \in Nat
    BY <1>1
  <2>2. QED
    BY <1>2, <2>1
<1>5. Increasing(f)
  BY <1>2, <1>3 DEF Increasing
<1>6. \A i \in DOMAIN f : f[i] \in Ids
  BY <1>1, <1>2
<1>7. QED
  BY <1>4, <1>5, <1>6 DEF f

-----------------------------------------------------------------------------
(* The inductive invariant.                                                *)

\* Hubs: a connection is attached to a hub that is not forgotten; only the hub
\* in _hubs is read and has queues; and it has a viewer.
HubsInv ==
    /\ \A c \in Clients : pc[c] = "off" <=> hub[c] = NoHub
    /\ \A h \in Hubs : \A c \in subs[h] : hub[c] = h
    /\ \A h \in Hubs : task[h] = "none" => h # current /\ \A c \in Clients : hub[c] # h
    /\ \A c \in Clients : pc[c] = "on" => Ready(hub[c])
    /\ \A h \in Hubs : last[h] <= Len(log)
    /\ OneReader

\* A queue is in order, within its limit, never ahead of the hub's reader, and
\* without a drop signal as long as the hub fills it.
QueueOK(c) ==
    IF pc[c] = "off" THEN queue[c] = <<>>
    ELSE /\ Len(queue[c]) <= QueueCap
         /\ Increasing(queue[c])
         /\ \A x \in Elements(queue[c]) : x <= last[hub[c]]
         /\ c \in subs[hub[c]] => Dropped \notin Elements(queue[c])

QueuesInv == \A c \in Clients : QueueOK(c)

\* What a connection has yet to yield of its backlog is in order and new to the
\* browser, which got everything it got in order.
BrowserOK(c) ==
    /\ lastId[c] <= Len(log)
    /\ lastId[c] <= due[c]
    /\ repeated[c] = {}
    /\ pc[c] = "on" =>
          /\ seen[c] = lastId[c]
          /\ Increasing(backlog[c])
          /\ Elements(backlog[c]) \subseteq (lastId[c] + 1)..Len(log)

BrowsersInv == \A c \in Clients : BrowserOK(c)

\* Ids that browser c will still get or is denied.
Coming(c) == Elements(backlog[c]) \cup Elements(queue[c]) \cup denied[c]

\* The seam: nothing a browser is due is missing before an id of its backlog,
\* before one of its queue, or before the ones its hub will add.
SeamOK(c) ==
    pc[c] = "on" =>
        /\ \A p \in Elements(backlog[c]), x \in Nat :
              x > due[c] /\ x < p => x \in Elements(backlog[c]) \cup denied[c]
        /\ \A p \in Elements(queue[c]), x \in Nat :
              x > due[c] /\ x < p => x \in Coming(c)
        /\ c \in subs[hub[c]] => \A x \in Nat :
              x > due[c] /\ x <= last[hub[c]] => x \in Coming(c)

SeamInv == \A c \in Clients : SeamOK(c)

IInv == TypeOK /\ HubsInv /\ QueuesInv /\ BrowsersInv /\ SeamInv

-----------------------------------------------------------------------------
(* Initial states and hubs.                                                *)

LEMMA Initially == Init => IInv
<1> SUFFICES ASSUME Init PROVE IInv
  OBVIOUS
<1> USE DEF Init
<1>1. TypeOK
  BY FanoutAssumption DEF TypeOK
<1>2. HubsInv
  BY FanoutAssumption DEF HubsInv, OneReader, Ready
<1>3. QueuesInv
  BY DEF QueuesInv, QueueOK
<1>4. BrowsersInv
  BY DEF BrowsersInv, BrowserOK
<1>5. SeamInv
  BY DEF SeamInv, SeamOK
<1>6. QED
  BY <1>1, <1>2, <1>3, <1>4, <1>5 DEF IInv

LEMMA Attached ==
  ASSUME IInv, NEW c \in Clients
  PROVE  /\ pc[c] # "off" => hub[c] \in Hubs /\ hub[c] # NoHub /\ task[hub[c]] # "none"
         /\ hub[c] \in Hubs => pc[c] # "off"
BY FanoutAssumption DEF IInv, TypeOK, HubsInv

\* Another viewer's hub is not the forgotten one.
LEMMA Leaving ==
  ASSUME IInv, NEW c \in Clients, TakeDropped(c) \/ Disconnect(c)
  PROVE  Leave(c) /\ pc[c] # "off" /\ hub[c] \in Hubs
BY Attached DEF TakeDropped, Disconnect, NextItem

LEMMA HubsStep ==
  ASSUME IInv, [Next]_vars
  PROVE  HubsInv'
<1> USE DEF IInv, TypeOK
<1>1. ASSUME NEW kind \in {"final", "other"}, Publish(kind)
      PROVE  HubsInv'
  BY <1>1 DEF HubsInv, OneReader, Ready, Publish, hubs, conns
<1>2. ASSUME NEW h \in Hubs, HubTail(h)
      PROVE  HubsInv'
  BY <1>2 DEF HubsInv, OneReader, Ready, HubTail, conns
<1>3. ASSUME NEW h \in Hubs, HubTailFails(h)
      PROVE  HubsInv'
  BY <1>3 DEF HubsInv, OneReader, Ready, HubTailFails, conns
<1>4. ASSUME NEW h \in Hubs, HubRead(h)
      PROVE  HubsInv'
  BY <1>4 DEF HubsInv, OneReader, Ready, HubRead
<1>5. ASSUME NEW c \in Clients, Join(c)
      PROVE  HubsInv'
  BY <1>5, FanoutAssumption DEF HubsInv, OneReader, Ready, Join, Attach
<1>6. ASSUME NEW c \in Clients, Open(c)
      PROVE  HubsInv'
  <2> USE DEF HubsInv, OneReader, Ready
  <2>1. PICK h \in Hubs :
           /\ Forgotten(h) /\ current = NoHub /\ current' = h
           /\ pc[c] = "off" /\ pc' = [pc EXCEPT ![c] = "wait"]
           /\ hub' = [hub EXCEPT ![c] = h]
           /\ task' = [task EXCEPT ![h] = "tail"]
           /\ subs' = [subs EXCEPT ![h] = {c}]
           /\ last' = [last EXCEPT ![h] = 0]
           /\ log' = log
    BY <1>6 DEF Open, Attach
  <2>2. \A g \in Hubs : subs[g] = {} /\ task[g] \notin {"tail", "reading"}
    BY <2>1, FanoutAssumption
  <2>3. \A d \in Clients : hub[d] # h
    BY <2>1 DEF Forgotten
  <2>4. \A d \in Clients : pc'[d] = "off" <=> hub'[d] = NoHub
    BY <2>1, FanoutAssumption
  <2>5. \A g \in Hubs : \A d \in subs'[g] : hub'[d] = g
    BY <2>1, <2>2
  <2>6. \A g \in Hubs : task'[g] = "none" => g # current' /\ \A d \in Clients : hub'[d] # g
    BY <2>1
  <2>7. \A d \in Clients : pc'[d] = "on" => Ready(hub[d])' /\ hub'[d] = hub[d] /\ hub[d] # h
    BY <2>1, <2>3, FanoutAssumption
  <2>8. \A g \in Hubs : last'[g] <= Len(log')
    BY <2>1
  <2>9. OneReader'
    BY <2>1, <2>2
  <2>10. QED
    BY <2>4, <2>5, <2>6, <2>7, <2>8, <2>9
<1>7. ASSUME NEW c \in Clients, ReadBacklog(c)
      PROVE  HubsInv'
  BY <1>7 DEF HubsInv, OneReader, Ready, ReadBacklog, hubs
<1>8. ASSUME NEW c \in Clients, YieldBacklog(c) \/ YieldLive(c) \/ SkipLive(c)
      PROVE  HubsInv'
  BY <1>8 DEF HubsInv, OneReader, Ready, YieldBacklog, YieldLive, SkipLive, hubs
<1>9. ASSUME NEW c \in Clients, TakeDropped(c) \/ Disconnect(c)
      PROVE  HubsInv'
  <2>1. Leave(c) /\ pc[c] # "off" /\ hub[c] \in Hubs
    BY <1>9, Leaving
  <2> DEFINE h == hub[c]
             others == subs[h] \ {c}
  <2> USE <2>1 DEF HubsInv, OneReader, Ready
  <2>2. /\ pc' = [pc EXCEPT ![c] = "off"] /\ hub' = [hub EXCEPT ![c] = NoHub]
        /\ subs' = [subs EXCEPT ![h] = others]
        /\ log' = log /\ h \in Hubs /\ h # NoHub /\ NoHub \notin Hubs
        /\ last' \in [Hubs -> Nat]
    BY FanoutAssumption DEF Leave, browser
  <2>3. \/ /\ others = {} /\ current = h /\ current' = NoHub
           /\ task'[h] \in {"cancelled", "none"}
        \/ /\ others # {} \/ current # h
           /\ current' = current
           /\ task'[h] = task[h] \/ (task'[h] = "none" /\ task[h] \notin {"tail", "reading"})
    <3>1. CASE RemovesHub(h, others)
      BY <3>1 DEF Leave, RemovesHub
    <3>2. CASE ~RemovesHub(h, others)
      BY <3>2 DEF Leave, RemovesHub
    <3>3. QED
      BY <3>1, <3>2
  <2>4. task'[h] = "none" => \A d \in Clients \ {c} : hub[d] # h
    BY Attached DEF Leave, RemovesHub
  <2>5. \A g \in Hubs : g # h => task'[g] = task[g] /\ last'[g] = last[g]
    BY DEF Leave
  <2>6. last'[h] = last[h] \/ last'[h] = 0
    BY DEF Leave
  <2>7. task[h] # "none"
    BY Attached
  <2> HIDE DEF h
  <2>8. \A d \in others : d \in Clients \ {c} /\ d \in subs[h] /\ hub[d] = h /\ hub'[d] = h
    BY <2>2
  <2> HIDE DEF others
  <2>9. task'[h] = "none" => h # current'
    BY <2>2, <2>3, <2>4, <2>7, <2>8
  <2>10. \A d \in Clients : pc'[d] = "off" <=> hub'[d] = NoHub
    BY <2>2
  <2>11. \A g \in Hubs : \A d \in subs'[g] : hub'[d] = g
    <3>1. \A d \in subs'[h] : hub'[d] = h
      BY <2>2, <2>8
    <3>2. ASSUME NEW g \in Hubs, g # h, NEW d \in subs'[g]
          PROVE  hub'[d] = g
      <4>1. d \in subs[g] /\ d \in Clients /\ hub[d] = g
        BY <2>2, <3>2
      <4>2. d # c
        BY <3>2, <4>1 DEF h
      <4>3. QED
        BY <2>2, <4>1, <4>2
    <3>3. QED
      BY <3>1, <3>2
  <2>12. \A g \in Hubs : task'[g] = "none" => g # current' /\ \A d \in Clients : hub'[d] # g
    <3>1. task'[h] = "none" => \A d \in Clients : hub'[d] # h
      BY <2>2, <2>4
    <3>2. \A g \in Hubs : g # h /\ task[g] = "none" => g # current' /\ \A d \in Clients : hub'[d] # g
      BY <2>2, <2>3
    <3>3. QED
      BY <2>5, <2>9, <3>1, <3>2
  <2>13. \A d \in Clients : pc'[d] = "on" => Ready(hub[d])' /\ hub'[d] = hub[d]
    <3>1. ASSUME NEW d \in Clients, pc'[d] = "on"
          PROVE  Ready(hub[d])' /\ hub'[d] = hub[d]
      <4>1. d # c /\ pc[d] = "on" /\ hub'[d] = hub[d] /\ hub[d] \in Hubs
        BY <2>2, <3>1, Attached
      <4>2. CASE hub[d] = h
        BY <2>3, <2>4, <4>1, <4>2
      <4>3. CASE hub[d] # h
        BY <2>5, <4>1, <4>3
      <4>4. QED
        BY <4>1, <4>2, <4>3
    <3>2. QED
      BY <3>1
  <2>14. \A g \in Hubs : last'[g] <= Len(log')
    <3>1. log' = log /\ Len(log) \in Nat
      BY <2>2
    <3>2. \A g \in Hubs : last[g] <= Len(log)
      OBVIOUS
    <3>3. last'[h] <= Len(log)
      BY <2>2, <2>6, <3>1, <3>2
    <3>4. QED
      BY <2>5, <3>1, <3>2, <3>3
  <2>15. \A g \in Hubs : task'[g] \in {"tail", "reading"} =>
            g = current' /\ \E d \in Clients : hub'[d] = g
    <3>1. task'[h] \in {"tail", "reading"} => h = current' /\ others # {}
      BY <2>2, <2>3
    <3>2. ASSUME NEW g \in Hubs, g # h, task'[g] \in {"tail", "reading"}
          PROVE  g = current' /\ \E d \in Clients : hub'[d] = g
      <4>1. task[g] \in {"tail", "reading"} /\ g = current
        BY <2>5, <3>2
      <4>2. PICK d \in Clients : hub[d] = g
        BY <4>1
      <4>3. hub'[d] = g /\ current' = current
        BY <2>2, <2>3, <3>2, <4>1, <4>2 DEF h
      <4>4. QED
        BY <4>1, <4>2, <4>3
    <3>3. others # {} => \E d \in Clients : hub'[d] = h
      BY <2>8
    <3>4. QED
      BY <3>1, <3>2, <3>3
  <2>16. \A g \in Hubs : subs'[g] # {} => g = current'
    <3>1. others # {} => h = current
      BY <2>2, <2>8
    <3>2. \A g \in Hubs : g # h => subs'[g] = subs[g]
      BY <2>2
    <3>3. subs'[h] = others
      BY <2>2
    <3>4. QED
      BY <2>3, <3>1, <3>2, <3>3
  <2>17. QED
    BY <2>10, <2>11, <2>12, <2>13, <2>14, <2>15, <2>16
<1>10. CASE ReplicaDies
  BY <1>10, FanoutAssumption DEF HubsInv, OneReader, Ready, ReplicaDies
<1>11. CASE UNCHANGED vars
  BY <1>11 DEF HubsInv, OneReader, Ready, vars, hubs, conns
<1>12. QED
  BY <1>1, <1>2, <1>3, <1>4, <1>5, <1>6, <1>7, <1>8, <1>9, <1>10, <1>11
     DEF Next, HubStep, Serve

-----------------------------------------------------------------------------
(* One reply of XREAD and one queue.                                       *)

\* The queue of viewer c after the hub's reader has got the entries up to n.
LEMMA ReadFacts ==
  ASSUME IInv, NEW h \in Hubs, NEW n \in (last[h] + 1)..Len(log), NEW c \in subs[h],
         NEW new, new = After(last[h], n), NEW p, p = PutAll(queue[c], new),
         NEW old, old = Head(queue[c] \o new)
  PROVE  /\ pc[c] # "off" /\ hub[c] = h /\ c \in Clients /\ n \in Nat /\ n > last[h]
         /\ p \in Seq(Nat) /\ Fits(p) /\ Increasing(p) /\ old \in Nat
         /\ \A x \in Elements(p) : x <= n
         /\ ~Overflows(queue[c], Len(new)) =>
               /\ Dropped \notin Elements(p)
               /\ Takes(p, queue[c], last[h], n)
         /\ KeepsBut(IF Overflows(queue[c], Len(new)) THEN {old} ELSE {}, p, queue[c], last[h])
<1> DEFINE a == last[h]
           q == queue[c]
<1>1. c \in Clients /\ hub[c] = h /\ pc[c] # "off" /\ a \in Nat /\ Len(log) \in Nat
  BY FanoutAssumption DEF IInv, TypeOK, HubsInv
<1>2. n \in Nat /\ a < n /\ a <= n /\ n > a
  BY <1>1
<1>3. /\ q \in Seq(Nat) /\ Len(q) <= QueueCap /\ Increasing(q)
      /\ \A x \in Elements(q) : x <= a /\ x # Dropped
  BY <1>1 DEF IInv, TypeOK, QueuesInv, QueueOK
<1>4. Filled(q, a)
  BY <1>3 DEF Filled, Elements
<1>5. Len(new) = n - a /\ new \in Seq(Nat)
  BY <1>1, <1>2, AfterFacts
<1> HIDE DEF a, q
<1>6. old \in Nat
  <2>1. q \o new \in Seq(Nat) /\ Len(q \o new) = Len(q) + Len(new) /\ Len(q) \in Nat
    BY <1>3, <1>5, ConcatFacts
  <2>2. q \o new # <<>>
    <3>1. Len(q \o new) # 0
      BY <1>1, <1>2, <1>5, <2>1
    <3>2. QED
      BY <3>1
  <2>3. Head(q \o new) \in Nat
    BY <2>1, <2>2, TailFacts
  <2>4. QED
    BY <2>3 DEF q
<1>7. p = PutAll(q, After(a, n)) /\ old = Head(q \o After(a, n))
  BY DEF a, q
<1>8. CASE ~Overflows(q, Len(new))
  <2>1. ~Overflows(q, n - a)
    BY <1>5, <1>8
  <2>2. p \in Seq(Nat) /\ Len(p) <= QueueCap
    BY <1>1, <1>2, <1>3, <1>4, <1>7, <2>1, PutWithRoom
  <2>3. Filled(p, n)
    BY <1>1, <1>2, <1>3, <1>4, <1>7, <2>1, PutWithRoom
  <2>4. \A x : x \in Elements(p) <=> x \in Elements(q) \/ x \in (a + 1)..n
    BY <1>1, <1>2, <1>3, <1>4, <1>7, <2>1, PutWithRoom
  <2>5. Increasing(p) /\ \A x \in Elements(p) : x <= n /\ x # Dropped
    BY <2>3 DEF Filled, Elements
  <2>6. \A x \in Nat : x > a /\ x <= n => x \in (a + 1)..n
    BY <1>1, <1>2
  <2>7. Takes(p, q, a, n)
    BY <2>4, <2>6 DEF Takes
  <2>8. \A x \in Elements(p) : x \in Nat
    BY <2>2 DEF Elements
  <2>9. KeepsBut({}, p, q, a)
    <3>1. \A x \in Elements(p), y \in Nat : y < x => y <= n
      BY <1>2, <2>5, <2>8
    <3>2. QED
      BY <2>7, <3>1 DEF KeepsBut, Takes
  <2>10. QED
    BY <1>1, <1>2, <1>6, <1>8, <2>2, <2>5, <2>7, <2>9 DEF a, q, Fits
<1>9. CASE Overflows(q, Len(new))
  <2>1. Overflows(q, n - a)
    BY <1>5, <1>9
  <2>2. p \in Seq(Nat) /\ Len(p) <= QueueCap /\ Increasing(p)
    BY <1>1, <1>2, <1>3, <1>4, <1>7, <2>1, PutOnFull
  <2>3. \A x \in Elements(p) : x <= n
    BY <1>1, <1>2, <1>3, <1>4, <1>7, <2>1, PutOnFull
  <2>4. KeepsBut({old}, p, q, a)
    BY <1>1, <1>2, <1>3, <1>4, <1>7, <2>1, PutOnFull
  <2>5. QED
    BY <1>1, <1>2, <1>6, <1>9, <2>2, <2>3, <2>4 DEF a, q, Fits
<1>10. QED
  BY <1>8, <1>9 DEF a, q

\* A connection reads its backlog.
LEMMA ResumeFacts ==
  ASSUME IInv, NEW c \in Clients
  PROVE  \E e \in Nat : /\ lastId[c] <= e /\ e <= Len(log)
                        /\ ResumeBacklog(c) \in Seq(Nat) /\ Increasing(ResumeBacklog(c))
                        /\ Elements(ResumeBacklog(c)) = (lastId[c] + 1)..e
                        /\ lastId[c] + Len(ResumeBacklog(c)) = e
<1> DEFINE a == lastId[c]
           e == a + (IF Len(log) - a <= MaxBacklog THEN Len(log) - a ELSE MaxBacklog)
<1>1. a \in Nat /\ Len(log) \in Nat /\ a <= Len(log) /\ MaxBacklog \in Nat
  BY FanoutAssumption DEF IInv, TypeOK, BrowsersInv, BrowserOK
<1>2. ResumeBacklog(c) = After(a, e)
  BY DEF ResumeBacklog
<1>3. e \in Nat /\ a <= e /\ e <= Len(log)
  BY <1>1
<1> HIDE DEF e, a
<1>4. /\ After(a, e) \in Seq(Nat) /\ Len(After(a, e)) = e - a
      /\ Increasing(After(a, e)) /\ Elements(After(a, e)) = (a + 1)..e
  BY <1>1, <1>3, AfterFacts
<1>5. a + (e - a) = e
  BY <1>1, <1>3
<1>6. QED
  BY <1>2, <1>3, <1>4, <1>5 DEF a

-----------------------------------------------------------------------------
(* Types and queues.                                                       *)

LEMMA TypeStep ==
  ASSUME IInv, [Next]_vars
  PROVE  TypeOK'
<1>0. TypeOK
  BY DEF IInv
<1>1. ASSUME NEW kind \in {"final", "other"}, Publish(kind)
      PROVE  TypeOK'
  BY <1>0, <1>1 DEF TypeOK, Publish, hubs, conns, browser
<1>2. ASSUME NEW h \in Hubs, HubTail(h) \/ HubTailFails(h)
      PROVE  TypeOK'
  <2>1. CASE HubTail(h)
    BY <1>0, <2>1 DEF TypeOK, HubTail, conns, browser
  <2>2. CASE HubTailFails(h)
    BY <1>0, <2>2 DEF TypeOK, HubTailFails, conns, browser
  <2>3. QED
    BY <1>2, <2>1, <2>2
<1>3. ASSUME NEW h \in Hubs, HubRead(h)
      PROVE  TypeOK'
  <2>1. PICK n \in (last[h] + 1)..Len(log) :
           /\ last' = [last EXCEPT ![h] = n]
           /\ queue' = [c \in Clients |-> IF c \in subs[h] THEN PutAll(queue[c], After(last[h], n))
                                          ELSE queue[c]]
           /\ subs' = [subs EXCEPT ![h] = {c \in @ : ~Overflows(queue[c], Len(After(last[h], n)))}]
           /\ denied' = [c \in Clients |->
                            IF c \in subs[h] /\ Overflows(queue[c], Len(After(last[h], n)))
                            THEN Deny(c, {Head(queue[c] \o After(last[h], n))}) ELSE denied[c]]
    BY <1>3 DEF HubRead
  <2>2. \A c \in subs[h] : /\ PutAll(queue[c], After(last[h], n)) \in Seq(Nat)
                           /\ Head(queue[c] \o After(last[h], n)) \in Nat
    <3>1. ASSUME NEW c \in subs[h]
          PROVE  /\ PutAll(queue[c], After(last[h], n)) \in Seq(Nat)
                 /\ Head(queue[c] \o After(last[h], n)) \in Nat
      <4>1. PICK new : new = After(last[h], n)
        OBVIOUS
      <4>2. PICK p : p = PutAll(queue[c], new)
        OBVIOUS
      <4>3. PICK old : old = Head(queue[c] \o new)
        OBVIOUS
      <4>4. old \in Nat
        BY <4>1, <4>2, <4>3, ReadFacts
      <4>5. p \in Seq(Nat)
        BY <4>1, <4>2, <4>3, ReadFacts
      <4>6. QED
        BY <4>1, <4>2, <4>3, <4>4, <4>5
    <3>2. QED
      BY <3>1
  <2>3. last' \in [Hubs -> Nat] /\ subs' \in [Hubs -> SUBSET Clients]
    BY <1>0, <2>1 DEF TypeOK
  <2>4. queue' \in [Clients -> Seq(Nat)]
    BY <1>0, <2>1, <2>2 DEF TypeOK
  <2>5. denied' \in [Clients -> SUBSET Nat]
    BY <1>0, <2>1, <2>2 DEF TypeOK, Deny
  <2>6. QED
    BY <1>0, <1>3, <2>3, <2>4, <2>5 DEF TypeOK, HubRead
<1>4. ASSUME NEW c \in Clients, Join(c) \/ Open(c)
      PROVE  TypeOK'
  <2>1. CASE Join(c)
    BY <1>0, <2>1 DEF TypeOK, Join, Attach, browser
  <2>2. CASE Open(c)
    BY <1>0, <2>2 DEF TypeOK, Open, Attach, browser
  <2>3. QED
    BY <1>4, <2>1, <2>2
<1>5. ASSUME NEW c \in Clients, ReadBacklog(c)
      PROVE  TypeOK'
  <2>1. FreshBacklog \in Seq(Nat) /\ ResumeBacklog(c) \in Seq(Nat)
    BY <1>0, FreshFacts, ResumeFacts DEF TypeOK
  <2>2. Len(ResumeBacklog(c)) \in Nat /\ Len(log) \in Nat
    BY <1>0, <2>1 DEF TypeOK
  <2>3. \A e \in Nat : CutOff(c, e) \in SUBSET Nat
    <3>1. \A e \in Nat : (e + 1)..last[hub[c]] \subseteq Nat
      OBVIOUS
    <3>2. QED
      BY <3>1 DEF CutOff
  <2>4. CutOff(c, lastId[c] + Len(ResumeBacklog(c))) \in SUBSET Nat
    BY <1>0, <2>2, <2>3 DEF TypeOK
  <2>5. denied' \in [Clients -> SUBSET Nat]
    BY <1>0, <1>5, <2>4 DEF TypeOK, ReadBacklog, Deny
  <2>6. backlog' \in [Clients -> Seq(Nat)]
    BY <1>0, <1>5, <2>1 DEF TypeOK, ReadBacklog
  <2>7. QED
    BY <1>0, <1>5, <2>2, <2>5, <2>6 DEF TypeOK, ReadBacklog, hubs
<1>6. ASSUME NEW c \in Clients, YieldBacklog(c)
      PROVE  TypeOK'
  <2>1. Head(backlog[c]) \in Nat /\ Tail(backlog[c]) \in Seq(Nat)
    BY <1>0, <1>6, TailFacts DEF TypeOK, YieldBacklog
  <2>2. QED
    BY <1>0, <1>6, <2>1 DEF TypeOK, YieldBacklog, Yield, hubs
<1>7. ASSUME NEW c \in Clients, YieldLive(c) \/ SkipLive(c)
      PROVE  TypeOK'
  <2>1. queue[c] # <<>> /\ \A id \in Ids : id \in Nat
    BY <1>0, <1>7 DEF YieldLive, SkipLive, NextItem, Ids
  <2>2. Tail(queue[c]) \in Seq(Nat)
    BY <1>0, <2>1, TailFacts DEF TypeOK
  <2>3. CASE YieldLive(c)
    BY <1>0, <2>1, <2>2, <2>3 DEF TypeOK, YieldLive, Yield, hubs
  <2>4. CASE SkipLive(c)
    BY <1>0, <2>2, <2>4 DEF TypeOK, SkipLive, hubs, browser
  <2>5. QED
    BY <1>7, <2>3, <2>4
<1>8. ASSUME NEW c \in Clients, TakeDropped(c) \/ Disconnect(c)
      PROVE  TypeOK'
  <2>1. Leave(c) /\ hub[c] \in Hubs
    BY <1>8, Leaving
  <2>2. QED
    BY <1>0, <2>1 DEF TypeOK, Leave, browser
<1>9. CASE ReplicaDies
  BY <1>0, <1>9 DEF TypeOK, ReplicaDies, browser
<1>10. CASE UNCHANGED vars
  BY <1>0, <1>10 DEF TypeOK, vars, hubs, conns, browser
<1>11. QED
  BY <1>1, <1>2, <1>3, <1>4, <1>5, <1>6, <1>7, <1>8, <1>9, <1>10 DEF Next, HubStep, Serve

LEMMA EmptyFacts ==
  /\ <<>> \in Seq(Nat) /\ Len(<<>>) = 0
  /\ Increasing(<<>>) /\ Elements(<<>>) = {}
BY DEF Increasing, Elements

LEMMA QueuesStep ==
  ASSUME IInv, [Next]_vars
  PROVE  QueuesInv'
<1>0. /\ TypeOK /\ HubsInv /\ \A d \in Clients : QueueOK(d)
      /\ \A d \in Clients : pc[d] # "off" => hub[d] \in Hubs /\ task[hub[d]] # "none"
  BY Attached DEF IInv, QueuesInv
<1> SUFFICES ASSUME NEW d \in Clients PROVE QueueOK(d)'
  BY DEF QueuesInv
<1>h. \A h \in Hubs : last[h] \in Nat /\ last[h] <= Len(log) /\ Len(log) \in Nat
  BY <1>0 DEF TypeOK, HubsInv
<1>q. \A x \in Elements(queue[d]) : x \in Nat
  BY <1>0 DEF TypeOK, Elements
<1>1. ASSUME NEW kind \in {"final", "other"}, Publish(kind)
      PROVE  QueueOK(d)'
  BY <1>0, <1>1 DEF QueueOK, Publish, hubs, conns
<1>2. ASSUME NEW h \in Hubs, HubTail(h) \/ HubTailFails(h)
      PROVE  QueueOK(d)'
  <2>1. \A g \in Hubs : last'[g] \in Nat /\ last[g] <= last'[g]
    <3>1. CASE HubTail(h)
      BY <1>0, <1>h, <3>1 DEF TypeOK, HubTail
    <3>2. CASE HubTailFails(h)
      BY <1>h, <3>2 DEF HubTailFails
    <3>3. QED
      BY <1>2, <3>1, <3>2
  <2>2. pc' = pc /\ hub' = hub /\ queue' = queue /\ subs' = subs
    BY <1>2 DEF HubTail, HubTailFails, conns
  <2>3. ASSUME pc[d] # "off", NEW x \in Elements(queue[d])
        PROVE  x <= last'[hub[d]]
    <3>1. x <= last[hub[d]] /\ hub[d] \in Hubs /\ x \in Nat
      BY <1>0, <1>q, <2>3 DEF QueueOK
    <3>2. QED
      BY <1>h, <2>1, <3>1
  <2>4. QED
    BY <1>0, <2>2, <2>3 DEF QueueOK
<1>3. ASSUME NEW h \in Hubs, HubRead(h)
      PROVE  QueueOK(d)'
  <2>1. PICK n \in (last[h] + 1)..Len(log) :
           /\ last' = [last EXCEPT ![h] = n]
           /\ queue' = [c \in Clients |-> IF c \in subs[h] THEN PutAll(queue[c], After(last[h], n))
                                          ELSE queue[c]]
           /\ subs' = [subs EXCEPT ![h] = {c \in @ : ~Overflows(queue[c], Len(After(last[h], n)))}]
    BY <1>3 DEF HubRead
  <2>2. pc' = pc /\ hub' = hub
    BY <1>3 DEF HubRead
  <2>3. n \in Nat /\ last[h] <= n
    BY <1>h
  <2>4. CASE d \in subs[h]
    <3>1. /\ pc[d] # "off" /\ hub[d] = h
          /\ queue'[d] = PutAll(queue[d], After(last[h], n))
          /\ last'[h] = n
          /\ d \in subs'[h] <=> ~Overflows(queue[d], Len(After(last[h], n)))
      <4>1. pc[d] # "off" /\ hub[d] = h
        BY <1>h, <2>4, FanoutAssumption DEF IInv, TypeOK, HubsInv
      <4>2. /\ queue'[d] = PutAll(queue[d], After(last[h], n)) /\ last'[h] = n
            /\ subs'[h] = {c \in subs[h] : ~Overflows(queue[c], Len(After(last[h], n)))}
        BY <1>0, <2>1, <2>4 DEF TypeOK
      <4>3. QED
        BY <2>4, <4>1, <4>2
    <3>2. /\ Len(queue'[d]) <= QueueCap /\ Increasing(queue'[d])
          /\ \A x \in Elements(queue'[d]) : x <= n
          /\ ~Overflows(queue[d], Len(After(last[h], n))) => Dropped \notin Elements(queue'[d])
      <4>1. PICK new : new = After(last[h], n)
        OBVIOUS
      <4>2. PICK p : p = PutAll(queue[d], new)
        OBVIOUS
      <4>3. PICK old : old = Head(queue[d] \o new)
        OBVIOUS
      <4>4. Fits(p)
        BY <2>4, <4>1, <4>2, <4>3, ReadFacts
      <4>5. Increasing(p)
        BY <2>4, <4>1, <4>2, <4>3, ReadFacts
      <4>6. \A x \in Elements(p) : x <= n
        BY <2>4, <4>1, <4>2, <4>3, ReadFacts
      <4>7. ~Overflows(queue[d], Len(new)) => Dropped \notin Elements(p)
        BY <2>4, <4>1, <4>2, <4>3, ReadFacts
      <4>8. p = queue'[d]
        BY <3>1, <4>1, <4>2
      <4>9. QED
        BY <4>1, <4>4, <4>5, <4>6, <4>7, <4>8 DEF Fits
    <3>3. QED
      BY <2>2, <3>1, <3>2 DEF QueueOK
  <2>5. CASE d \notin subs[h]
    <3>1. queue'[d] = queue[d] /\ \A g \in Hubs : d \in subs'[g] => d \in subs[g]
      BY <1>0, <2>1, <2>5 DEF TypeOK
    <3>2. \A g \in Hubs : last'[g] \in Nat /\ last[g] <= last'[g]
      BY <1>0, <1>h, <2>1, <2>3 DEF TypeOK
    <3>3. ASSUME pc[d] # "off", NEW x \in Elements(queue[d])
          PROVE  x <= last'[hub[d]]
      <4>1. x <= last[hub[d]] /\ hub[d] \in Hubs /\ x \in Nat
        BY <1>0, <1>q, <3>3 DEF QueueOK
      <4>2. QED
        BY <1>h, <3>2, <4>1
    <3>4. QED
      BY <1>0, <2>2, <3>1, <3>3 DEF QueueOK
  <2>6. QED
    BY <2>4, <2>5
<1>4. ASSUME NEW c \in Clients, Join(c) \/ Open(c)
      PROVE  QueueOK(d)'
  <2>1. /\ pc[c] = "off" /\ pc' = [pc EXCEPT ![c] = "wait"] /\ queue' = queue
        /\ \A b \in Clients \ {c} : hub'[b] = hub[b]
    BY <1>0, <1>4 DEF TypeOK, Join, Open, Attach
  <2>2. CASE d = c
    BY <1>0, <2>1, <2>2, EmptyFacts, FanoutAssumption DEF QueueOK, TypeOK
  <2>3. CASE d # c /\ pc[d] # "off"
    <3>1. last'[hub[d]] = last[hub[d]] /\ (d \in subs'[hub[d]] => d \in subs[hub[d]])
      <4>1. CASE Join(c)
        BY <1>0, <2>3, <4>1 DEF TypeOK, Join
      <4>2. CASE Open(c)
        BY <1>0, <2>3, <4>2 DEF TypeOK, HubsInv, Open, Attach, Forgotten
      <4>3. QED
        BY <1>4, <4>1, <4>2
    <3>2. QED
      BY <1>0, <2>1, <2>3, <3>1 DEF QueueOK, TypeOK
  <2>4. CASE d # c /\ pc[d] = "off"
    BY <1>0, <2>1, <2>4 DEF QueueOK, TypeOK
  <2>5. QED
    BY <2>2, <2>3, <2>4
<1>5. ASSUME NEW c \in Clients, ReadBacklog(c)
      PROVE  QueueOK(d)'
  BY <1>0, <1>5 DEF TypeOK, QueueOK, ReadBacklog, hubs
<1>6. ASSUME NEW c \in Clients, YieldBacklog(c)
      PROVE  QueueOK(d)'
  BY <1>0, <1>6 DEF QueueOK, YieldBacklog, hubs
<1>7. ASSUME NEW c \in Clients, YieldLive(c) \/ SkipLive(c)
      PROVE  QueueOK(d)'
  <2>1. /\ queue[c] # <<>> /\ queue' = [queue EXCEPT ![c] = Tail(@)] /\ pc[c] = "on"
        /\ pc' = pc /\ hub' = hub /\ subs' = subs /\ last' = last
    BY <1>7 DEF YieldLive, SkipLive, NextItem, hubs
  <2>2. CASE d = c
    <3>1. /\ queue[c] \in Seq(Nat) /\ Len(queue[c]) <= QueueCap /\ Increasing(queue[c])
          /\ queue'[c] = Tail(queue[c])
      BY <1>0, <2>1, <2>2 DEF TypeOK, QueueOK
    <3>2. /\ Len(Tail(queue[c])) <= QueueCap /\ Increasing(Tail(queue[c]))
          /\ Elements(Tail(queue[c])) \subseteq Elements(queue[c])
      BY <2>1, <3>1, TailFacts, TailIncreasing, FanoutAssumption
    <3>3. QED
      BY <1>0, <2>1, <2>2, <3>1, <3>2 DEF QueueOK
  <2>3. CASE d # c
    BY <1>0, <2>1, <2>3 DEF TypeOK, QueueOK
  <2>4. QED
    BY <2>2, <2>3
<1>8. ASSUME NEW c \in Clients, TakeDropped(c) \/ Disconnect(c)
      PROVE  QueueOK(d)'
  <2>1. Leave(c) /\ hub[c] \in Hubs
    BY <1>8, Leaving
  <2>2. CASE d = c
    BY <1>0, <2>1, <2>2 DEF TypeOK, QueueOK, Leave
  <2>3. CASE d # c
    <3>1. /\ pc'[d] = pc[d] /\ hub'[d] = hub[d] /\ queue'[d] = queue[d]
          /\ hub[d] \in Hubs => last'[hub[d]] = last[hub[d]] /\ (d \in subs'[hub[d]] => d \in subs[hub[d]])
      BY <1>0, <2>1, <2>3 DEF TypeOK, Leave
    <3>2. QED
      BY <1>0, <3>1 DEF QueueOK
  <2>4. QED
    BY <2>2, <2>3
<1>9. CASE ReplicaDies
  BY <1>9 DEF QueueOK, ReplicaDies
<1>10. CASE UNCHANGED vars
  BY <1>0, <1>10 DEF QueueOK, vars, hubs, conns
<1>11. QED
  BY <1>1, <1>2, <1>3, <1>4, <1>5, <1>6, <1>7, <1>8, <1>9, <1>10 DEF Next, HubStep, Serve

-----------------------------------------------------------------------------
(* What a browser gets, and what it misses.                                *)

LEMMA BrowsersStep ==
  ASSUME IInv, [Next]_vars
  PROVE  BrowsersInv'
<1>0. TypeOK /\ \A d \in Clients : BrowserOK(d)
  BY DEF IInv, BrowsersInv
<1> SUFFICES ASSUME NEW d \in Clients PROVE BrowserOK(d)'
  BY DEF BrowsersInv
<1>t. /\ lastId[d] \in Nat /\ due[d] \in Nat /\ Len(log) \in Nat /\ seen[d] \in Nat
      /\ backlog[d] \in Seq(Nat) /\ queue[d] \in Seq(Nat) /\ repeated[d] \subseteq Nat
  BY <1>0 DEF TypeOK
<1>1. ASSUME NEW kind \in {"final", "other"}, Publish(kind)
      PROVE  BrowserOK(d)'
  <2>1. Len(log') = Len(log) + 1
    BY <1>0, <1>1 DEF TypeOK, Publish
  <2>2. (lastId[d] + 1)..Len(log) \subseteq (lastId[d] + 1)..Len(log')
    BY <1>t, <2>1
  <2>3. QED
    BY <1>0, <1>1, <1>t, <2>1, <2>2 DEF BrowserOK, Publish, conns, browser
<1>2. ASSUME NEW h \in Hubs, HubTail(h) \/ HubTailFails(h) \/ HubRead(h)
      PROVE  BrowserOK(d)'
  <2>1. /\ log' = log /\ pc' = pc /\ lastId' = lastId /\ due' = due /\ repeated' = repeated
        /\ seen' = seen /\ backlog' = backlog
    BY <1>2 DEF HubTail, HubTailFails, HubRead, conns, browser
  <2>2. QED
    BY <1>0, <2>1 DEF BrowserOK
<1>3. ASSUME NEW c \in Clients, Join(c) \/ Open(c)
      PROVE  BrowserOK(d)'
  <2>1. /\ log' = log /\ pc' = [pc EXCEPT ![c] = "wait"] /\ lastId' = lastId /\ due' = due
        /\ repeated' = repeated /\ seen' = seen /\ backlog' = backlog
    BY <1>3 DEF Join, Open, Attach, browser
  <2>2. pc'[d] = "on" => pc[d] = "on"
    BY <1>0, <2>1 DEF TypeOK
  <2>3. QED
    BY <1>0, <2>1, <2>2 DEF BrowserOK
<1>4. ASSUME NEW c \in Clients, ReadBacklog(c)
      PROVE  BrowserOK(d)'
  <2>1. CASE d # c
    BY <1>0, <1>4, <2>1 DEF TypeOK, BrowserOK, ReadBacklog
  <2>2. CASE d = c /\ lastId[c] = 0
    <3>1. /\ backlog'[c] = FreshBacklog /\ seen'[c] = lastId[c] /\ due'[c] = Len(log)
          /\ log' = log /\ lastId' = lastId /\ repeated' = repeated
      BY <1>0, <1>4, <2>2 DEF TypeOK, ReadBacklog
    <3>2. /\ Increasing(FreshBacklog)
          /\ \A i \in DOMAIN FreshBacklog : FreshBacklog[i] \in Ids
      BY <1>0, FreshFacts DEF TypeOK
    <3>3. Elements(FreshBacklog) \subseteq (lastId[c] + 1)..Len(log)
      BY <2>2, <3>2 DEF Elements, Ids
    <3>4. QED
      BY <1>0, <1>t, <2>2, <3>1, <3>2, <3>3 DEF BrowserOK
  <2>3. CASE d = c /\ lastId[c] # 0
    <3>1. /\ backlog'[c] = ResumeBacklog(c) /\ seen'[c] = lastId[c] /\ due'[c] = due[c]
          /\ log' = log /\ lastId' = lastId /\ repeated' = repeated
      BY <1>0, <1>4, <2>3 DEF TypeOK, ReadBacklog
    <3>2. PICK e \in Nat : /\ e <= Len(log) /\ Increasing(ResumeBacklog(c))
                           /\ Elements(ResumeBacklog(c)) = (lastId[c] + 1)..e
      BY ResumeFacts
    <3>3. Elements(ResumeBacklog(c)) \subseteq (lastId[c] + 1)..Len(log)
      BY <1>t, <2>3, <3>2
    <3>4. QED
      BY <1>0, <1>t, <2>3, <3>1, <3>2, <3>3 DEF BrowserOK
  <2>4. QED
    BY <2>1, <2>2, <2>3
<1>5. ASSUME NEW c \in Clients, NEW id \in Ids, Yield(c, id), lastId[c] < id,
             log' = log, pc' = pc,
             \A b \in Clients \ {c} : backlog'[b] = backlog[b],
             pc[c] = "on" => /\ Increasing(backlog'[c])
                             /\ Elements(backlog'[c]) \subseteq (id + 1)..Len(log)
      PROVE  BrowserOK(d)'
  <2>1. CASE d # c
    BY <1>0, <1>5, <2>1 DEF TypeOK, BrowserOK, Yield
  <2>2. CASE d = c
    <3>1. /\ seen'[c] = id /\ lastId'[c] = id /\ due'[c] = (IF id > due[c] THEN id ELSE due[c])
          /\ repeated'[c] = repeated[c]
      BY <1>0, <1>5, <1>t, <2>2 DEF TypeOK, Yield, Ids
    <3>2. id \in Nat /\ id <= Len(log)
      BY <1>t DEF Ids
    <3>3. QED
      BY <1>0, <1>5, <1>t, <2>2, <3>1, <3>2 DEF BrowserOK
  <2>3. QED
    BY <2>1, <2>2
<1>6. ASSUME NEW c \in Clients, YieldBacklog(c)
      PROVE  BrowserOK(d)'
  <2>1. /\ backlog[c] # <<>> /\ pc[c] = "on" /\ Yield(c, Head(backlog[c])) /\ pc' = pc
        /\ backlog' = [backlog EXCEPT ![c] = Tail(@)] /\ log' = log
    BY <1>6 DEF YieldBacklog
  <2>2. backlog[c] \in Seq(Nat) /\ Increasing(backlog[c])
        /\ Elements(backlog[c]) \subseteq (lastId[c] + 1)..Len(log)
        /\ lastId[c] \in Nat
    BY <1>0, <2>1 DEF TypeOK, BrowserOK
  <2>3. /\ Head(backlog[c]) \in Elements(backlog[c])
        /\ Elements(Tail(backlog[c])) \subseteq Elements(backlog[c])
    BY <2>1, <2>2, TailFacts DEF Elements
  <2>4. Head(backlog[c]) \in Ids /\ lastId[c] < Head(backlog[c])
    BY <1>t, <2>2, <2>3 DEF Ids
  <2>5. Increasing(Tail(backlog[c])) /\ \A p \in Elements(Tail(backlog[c])) : p # Dropped => Head(backlog[c]) < p
    BY <2>1, <2>2, TailIncreasing
  <2>6. Elements(Tail(backlog[c])) \subseteq (Head(backlog[c]) + 1)..Len(log)
    <3>1. ASSUME NEW p \in Elements(Tail(backlog[c]))
          PROVE  p \in (Head(backlog[c]) + 1)..Len(log)
      <4>1. p \in (lastId[c] + 1)..Len(log)
        BY <2>2, <2>3
      <4>2. p # Dropped /\ p \in Nat /\ p <= Len(log)
        BY <1>t, <2>2, <4>1 DEF Dropped
      <4>3. Head(backlog[c]) < p /\ Head(backlog[c]) \in Nat
        BY <1>t, <2>4, <2>5, <4>2 DEF Ids
      <4>4. QED
        BY <1>t, <4>2, <4>3
    <3>2. QED
      BY <3>1
  <2>7. backlog'[c] = Tail(backlog[c]) /\ \A b \in Clients \ {c} : backlog'[b] = backlog[b]
    BY <1>0, <2>1 DEF TypeOK
  <2>8. QED
    BY <1>5, <2>1, <2>4, <2>5, <2>6, <2>7
<1>7. ASSUME NEW c \in Clients, YieldLive(c)
      PROVE  BrowserOK(d)'
  <2>1. PICK id \in Ids : NextItem(c, id) /\ IsNew(c, id) /\ Yield(c, id)
    BY <1>7 DEF YieldLive
  <2>2. backlog[c] = <<>> /\ pc[c] = "on" /\ log' = log /\ pc' = pc /\ backlog' = backlog
    BY <1>7 DEF YieldLive, NextItem
  <2>3. lastId[c] < id
    BY <1>0, <2>1, <2>2 DEF IsNew, BrowserOK, Ids, TypeOK
  <2>4. Increasing(backlog'[c]) /\ Elements(backlog'[c]) = {}
    BY <2>2, EmptyFacts
  <2>5. QED
    BY <1>5, <2>1, <2>2, <2>3, <2>4
<1>8. ASSUME NEW c \in Clients, SkipLive(c)
      PROVE  BrowserOK(d)'
  BY <1>0, <1>8 DEF BrowserOK, SkipLive, browser
<1>9. ASSUME NEW c \in Clients, TakeDropped(c) \/ Disconnect(c)
      PROVE  BrowserOK(d)'
  <2>1. Leave(c)
    BY <1>9, Leaving
  <2>2. CASE d = c
    BY <1>0, <2>1, <2>2 DEF TypeOK, BrowserOK, Leave, browser
  <2>3. CASE d # c
    BY <1>0, <2>1, <2>3 DEF TypeOK, BrowserOK, Leave, browser
  <2>4. QED
    BY <2>2, <2>3
<1>10. CASE ReplicaDies
  BY <1>0, <1>10 DEF BrowserOK, ReplicaDies, browser
<1>11. CASE UNCHANGED vars
  BY <1>0, <1>11 DEF BrowserOK, vars, conns, browser
<1>12. QED
  BY <1>1, <1>2, <1>3, <1>4, <1>6, <1>7, <1>8, <1>9, <1>10, <1>11 DEF Next, HubStep, Serve

-----------------------------------------------------------------------------
(* The seam of backlog and queue.                                          *)

\* What happens to other browsers and to hubs they are not in is no matter.
LEMMA SeamElsewhere ==
  ASSUME NEW d \in Clients, SeamOK(d),
         pc'[d] = "on" =>
            /\ pc[d] = "on" /\ hub'[d] = hub[d] /\ backlog'[d] = backlog[d]
            /\ queue'[d] = queue[d] /\ due'[d] = due[d] /\ denied'[d] = denied[d]
            /\ d \in subs'[hub[d]] =>
                  d \in subs[hub[d]] /\ last'[hub[d]] = last[hub[d]]
  PROVE  SeamOK(d)'
BY DEF SeamOK, Coming

\* A reply of XREAD on the queue of viewer d.
LEMMA SeamRead ==
  ASSUME IInv, [Next]_vars, NEW h \in Hubs, HubRead(h), NEW d \in subs[h], pc[d] = "on"
  PROVE  SeamOK(d)'
<1>0. TypeOK /\ SeamOK(d) /\ d \in Clients /\ hub[d] = h
  BY DEF IInv, TypeOK, SeamInv, HubsInv
<1>1. PICK n \in (last[h] + 1)..Len(log) :
         /\ last' = [last EXCEPT ![h] = n]
         /\ queue' = [c \in Clients |-> IF c \in subs[h] THEN PutAll(queue[c], After(last[h], n))
                                        ELSE queue[c]]
         /\ subs' = [subs EXCEPT ![h] = {c \in @ : ~Overflows(queue[c], Len(After(last[h], n)))}]
         /\ denied' = [c \in Clients |->
                          IF c \in subs[h] /\ Overflows(queue[c], Len(After(last[h], n)))
                          THEN Deny(c, {Head(queue[c] \o After(last[h], n))}) ELSE denied[c]]
  BY DEF HubRead
<1>2. PICK new : new = After(last[h], n)
  OBVIOUS
<1>3. PICK p : p = PutAll(queue[d], new)
  OBVIOUS
<1>4. PICK old : old = Head(queue[d] \o new)
  OBVIOUS
<1>5. /\ hub' = hub /\ pc' = pc /\ backlog' = backlog /\ due' = due
      /\ queue'[d] = p /\ last'[h] = n
      /\ d \in subs'[h] => ~Overflows(queue[d], Len(new))
  <2>1. subs'[h] = {c \in subs[h] : ~Overflows(queue[c], Len(new))}
    BY <1>0, <1>1, <1>2 DEF TypeOK
  <2>2. queue'[d] = p /\ last'[h] = n
    BY <1>0, <1>1, <1>2, <1>3 DEF TypeOK
  <2>3. QED
    BY <2>1, <2>2 DEF HubRead
<1>6. /\ denied[d] \subseteq denied'[d]
      /\ Overflows(queue[d], Len(new)) /\ old > due[d] => old \in denied'[d]
  BY <1>0, <1>1, <1>2, <1>4 DEF Deny
<1>7. last[h] \in Nat /\ due[d] \in Nat /\ queue[d] \in Seq(Nat) /\ backlog[d] \in Seq(Nat)
  BY <1>0 DEF TypeOK
<1>8. n \in Nat
  BY <1>0 DEF TypeOK
<1>9. ~Overflows(queue[d], Len(new)) => Takes(p, queue[d], last[h], n)
  BY <1>2, <1>3, <1>4, ReadFacts
<1>10. KeepsBut(IF Overflows(queue[d], Len(new)) THEN {old} ELSE {}, p, queue[d], last[h])
  BY <1>2, <1>3, <1>4, ReadFacts
<1>11. ASSUME NEW x \in Nat, x > due[d]
       PROVE  /\ x <= last[h] => x \in Coming(d)
              /\ x \in denied[d] => x \in denied'[d]
              /\ x \in Elements(backlog[d]) => x \in Elements(backlog'[d])
  BY <1>0, <1>5, <1>6, <1>11 DEF SeamOK
<1>12. ASSUME NEW y \in Elements(p), NEW x \in Nat, x > due[d], x < y
       PROVE  x \in Coming(d)'
  <2>1. CASE x \in Elements(queue[d]) \/ x > last[h]
    <3>1. x \in Elements(p) \/ (Overflows(queue[d], Len(new)) /\ x = old)
      BY <1>10, <1>12, <2>1 DEF KeepsBut
    <3>2. QED
      BY <1>5, <1>6, <1>12, <3>1 DEF Coming
  <2>2. CASE x \notin Elements(queue[d]) /\ x <= last[h]
    BY <1>5, <1>11, <1>12, <2>2 DEF Coming
  <2>3. QED
    BY <1>7, <2>1, <2>2
<1>13. ASSUME d \in subs'[h], NEW x \in Nat, x > due[d], x <= n
       PROVE  x \in Coming(d)'
  <2>1. Takes(p, queue[d], last[h], n)
    BY <1>5, <1>9, <1>13
  <2>2. CASE x \in Elements(queue[d]) \/ x > last[h]
    BY <1>5, <1>13, <2>1, <2>2 DEF Takes, Coming
  <2>3. CASE x \notin Elements(queue[d]) /\ x <= last[h]
    BY <1>5, <1>11, <1>13, <2>3 DEF Coming
  <2>4. QED
    BY <1>7, <2>2, <2>3
<1>14. ASSUME NEW y \in Elements(backlog[d]), NEW x \in Nat, x > due[d], x < y
       PROVE  x \in Elements(backlog'[d]) \cup denied'[d]
  BY <1>0, <1>5, <1>6, <1>14 DEF SeamOK
<1>15. QED
  BY <1>0, <1>5, <1>12, <1>13, <1>14 DEF SeamOK

\* A connection takes one id off its backlog or its queue.
LEMMA SeamTakes ==
  ASSUME NEW c \in Clients, SeamOK(c), pc[c] = "on",
         hub' = hub, subs' = subs, last' = last, NEW id,
         Elements(backlog'[c]) \subseteq Elements(backlog[c]),
         Elements(backlog[c]) \subseteq Elements(backlog'[c]) \cup {id},
         Elements(queue'[c]) \subseteq Elements(queue[c]),
         Elements(queue[c]) \subseteq Elements(queue'[c]) \cup {id},
         \A x \in Nat : x > due'[c] => /\ x > due[c] /\ x # id
                                       /\ x \in denied[c] => x \in denied'[c]
  PROVE  SeamOK(c)'
<1>1. ASSUME NEW p \in Elements(backlog'[c]), NEW x \in Nat, x > due'[c], x < p
      PROVE  x \in Elements(backlog'[c]) \cup denied'[c]
  BY <1>1 DEF SeamOK
<1>2. ASSUME NEW x \in Nat, x > due'[c], x \in Coming(c)
      PROVE  x \in Coming(c)'
  BY <1>2 DEF Coming
<1>3. ASSUME NEW p \in Elements(queue'[c]), NEW x \in Nat, x > due'[c], x < p
      PROVE  x \in Coming(c)'
  <2>1. x > due[c] /\ p \in Elements(queue[c])
    BY <1>3
  <2>2. x \in Coming(c)
    BY <1>3, <2>1 DEF SeamOK
  <2>3. QED
    BY <1>2, <1>3, <2>2
<1>4. ASSUME c \in subs'[hub'[c]], NEW x \in Nat, x > due'[c], x <= last'[hub'[c]]
      PROVE  x \in Coming(c)'
  <2>1. x > due[c] /\ c \in subs[hub[c]] /\ x <= last[hub[c]]
    BY <1>4
  <2>2. x \in Coming(c)
    BY <1>4, <2>1 DEF SeamOK
  <2>3. QED
    BY <1>2, <1>4, <2>2
<1>5. QED
  BY <1>1, <1>3, <1>4 DEF SeamOK

\* The id that a connection takes off, and what stays the same.
LEMMA TakeFacts ==
  ASSUME IInv, NEW c \in Clients, YieldBacklog(c) \/ YieldLive(c) \/ SkipLive(c)
  PROVE  \E id \in Nat :
            /\ pc[c] = "on" /\ pc' = pc /\ hub' = hub /\ subs' = subs /\ last' = last
            /\ Elements(backlog'[c]) \subseteq Elements(backlog[c])
            /\ Elements(backlog[c]) \subseteq Elements(backlog'[c]) \cup {id}
            /\ Elements(queue'[c]) \subseteq Elements(queue[c])
            /\ Elements(queue[c]) \subseteq Elements(queue'[c]) \cup {id}
            /\ \/ Yield(c, id)
               \/ UNCHANGED browser /\ id <= lastId[c]
            /\ \A d \in Clients \ {c} : backlog'[d] = backlog[d] /\ queue'[d] = queue[d]
<1>0. TypeOK /\ BrowserOK(c)
  BY DEF IInv, BrowsersInv
<1>t. backlog[c] \in Seq(Nat) /\ queue[c] \in Seq(Nat)
  BY <1>0 DEF TypeOK
<1>1. CASE YieldBacklog(c)
  <2>1. /\ pc[c] = "on" /\ pc' = pc /\ hub' = hub /\ subs' = subs /\ last' = last /\ queue' = queue
        /\ backlog[c] # <<>> /\ backlog'[c] = Tail(backlog[c]) /\ Yield(c, Head(backlog[c]))
        /\ \A d \in Clients \ {c} : backlog'[d] = backlog[d]
    BY <1>0, <1>1 DEF TypeOK, YieldBacklog, hubs
  <2>2. /\ Elements(backlog[c]) \subseteq Elements(Tail(backlog[c])) \cup {Head(backlog[c])}
        /\ Elements(Tail(backlog[c])) \subseteq Elements(backlog[c])
        /\ Head(backlog[c]) \in Nat
    BY <1>t, <2>1, TailFacts
  <2>3. QED
    BY <2>1, <2>2
<1>2. CASE YieldLive(c) \/ SkipLive(c)
  <2>1. /\ pc[c] = "on" /\ pc' = pc /\ hub' = hub /\ subs' = subs /\ last' = last /\ backlog' = backlog
        /\ queue[c] # <<>> /\ queue'[c] = Tail(queue[c])
        /\ \A d \in Clients \ {c} : queue'[d] = queue[d]
    BY <1>0, <1>2 DEF TypeOK, YieldLive, SkipLive, NextItem, hubs
  <2>2. /\ Elements(queue[c]) \subseteq Elements(Tail(queue[c])) \cup {Head(queue[c])}
        /\ Elements(Tail(queue[c])) \subseteq Elements(queue[c])
        /\ Head(queue[c]) \in Nat
    BY <1>t, <2>1, TailFacts
  <2>3. Yield(c, Head(queue[c])) \/ (UNCHANGED browser /\ Head(queue[c]) <= lastId[c])
    <3>1. CASE YieldLive(c)
      BY <3>1 DEF YieldLive, NextItem
    <3>2. CASE SkipLive(c)
      <4>1. UNCHANGED browser /\ ~ IsNew(c, Head(queue[c]))
        BY <3>2 DEF SkipLive, NextItem
      <4>2. seen[c] = lastId[c] /\ lastId[c] \in Nat
        BY <1>0, <2>1 DEF BrowserOK, TypeOK
      <4>3. QED
        BY <2>2, <4>1, <4>2 DEF IsNew
    <3>3. QED
      BY <1>2, <3>1, <3>2
  <2>4. QED
    BY <2>1, <2>2, <2>3
<1>3. QED
  BY <1>1, <1>2

LEMMA SeamTake ==
  ASSUME IInv, NEW c \in Clients, YieldBacklog(c) \/ YieldLive(c) \/ SkipLive(c)
  PROVE  SeamOK(c)'
<1>0. TypeOK /\ BrowserOK(c) /\ SeamOK(c)
  BY DEF IInv, BrowsersInv, SeamInv
<1>t. lastId[c] \in Nat /\ due[c] \in Nat /\ lastId[c] <= due[c]
  BY <1>0 DEF TypeOK, BrowserOK
<1>1. PICK id \in Nat :
         /\ pc[c] = "on" /\ hub' = hub /\ subs' = subs /\ last' = last
         /\ Elements(backlog'[c]) \subseteq Elements(backlog[c])
         /\ Elements(backlog[c]) \subseteq Elements(backlog'[c]) \cup {id}
         /\ Elements(queue'[c]) \subseteq Elements(queue[c])
         /\ Elements(queue[c]) \subseteq Elements(queue'[c]) \cup {id}
         /\ \/ Yield(c, id)
            \/ UNCHANGED browser /\ id <= lastId[c]
  BY TakeFacts
<1>2. ASSUME NEW x \in Nat, x > due'[c]
      PROVE  x > due[c] /\ x # id /\ (x \in denied[c] => x \in denied'[c])
  <2>1. CASE Yield(c, id)
    <3>1. /\ due'[c] = (IF id > due[c] THEN id ELSE due[c])
          /\ denied'[c] = {i \in denied[c] : i > id}
      BY <1>0, <2>1 DEF TypeOK, Yield
    <3>2. x > due[c] /\ x > id
      BY <1>2, <1>t, <3>1
    <3>3. QED
      BY <3>1, <3>2
  <2>2. CASE UNCHANGED browser /\ id <= lastId[c]
    BY <1>2, <1>t, <2>2 DEF browser
  <2>3. QED
    BY <1>1, <2>1, <2>2
<1>3. QED
  BY <1>0, <1>1, <1>2, SeamTakes

\* A connection goes on: what lies between the end of its backlog and its queue
\* is denied.
LEMMA SeamBegins ==
  ASSUME IInv, NEW c \in Clients, ReadBacklog(c)
  PROVE  SeamOK(c)'
<1> DEFINE h == hub[c]
<1>0. TypeOK /\ QueueOK(c) /\ BrowserOK(c) /\ pc[c] = "wait" /\ h \in Hubs
  BY Attached DEF IInv, QueuesInv, BrowsersInv, ReadBacklog
<1>t. /\ lastId[c] \in Nat /\ due[c] \in Nat /\ lastId[c] <= due[c]
      /\ queue[c] \in Seq(Nat) /\ last[h] \in Nat /\ last[h] <= Len(log) /\ Len(log) \in Nat
      /\ log \in Seq({"final", "other"})
  BY <1>0 DEF TypeOK, BrowserOK, IInv, HubsInv
<1>q. \A p \in Elements(queue[c]) : p \in Nat /\ p <= last[h]
  BY <1>0, <1>t DEF QueueOK, Elements
<1>1. hub' = hub /\ last' = last /\ subs' = subs /\ queue' = queue
  BY DEF ReadBacklog, hubs
<1>2. CASE lastId[c] = 0
  <2>1. backlog'[c] = FreshBacklog /\ due'[c] = Len(log)
    BY <1>0, <1>2 DEF TypeOK, ReadBacklog
  <2>2. \A i \in DOMAIN FreshBacklog : FreshBacklog[i] \in Ids
    BY <1>t, FreshFacts
  <2>3. \A p \in Elements(FreshBacklog) : p \in Nat /\ p <= Len(log)
    BY <1>t, <2>2 DEF Elements, Ids
  <2>4. \A p \in Elements(backlog'[c]), x \in Nat : ~ (x > due'[c] /\ x < p)
    BY <1>t, <2>1, <2>3
  <2>5. \A p \in Elements(queue'[c]), x \in Nat : ~ (x > due'[c] /\ x < p)
    BY <1>t, <1>q, <1>1, <2>1
  <2>6. \A x \in Nat : ~ (x > due'[c] /\ x <= last'[hub'[c]])
    BY <1>t, <1>1, <2>1
  <2>7. QED
    BY <2>4, <2>5, <2>6 DEF SeamOK
<1>3. CASE lastId[c] # 0
  <2>1. PICK e \in Nat : /\ lastId[c] <= e /\ e <= Len(log)
                         /\ Elements(ResumeBacklog(c)) = (lastId[c] + 1)..e
                         /\ lastId[c] + Len(ResumeBacklog(c)) = e
    BY ResumeFacts
  <2>2. backlog'[c] = ResumeBacklog(c) /\ due'[c] = due[c] /\ denied'[c] = Deny(c, CutOff(c, e))
    BY <1>0, <1>3, <2>1 DEF TypeOK, ReadBacklog
  <2>3. Elements(backlog'[c]) = (lastId[c] + 1)..e
    BY <2>1, <2>2
  <2>4. ASSUME NEW x \in Nat, x > due[c], x <= last[h],
               \/ \E p \in Elements(queue[c]) : p > x
               \/ Dropped \notin Elements(queue[c])
        PROVE  x \in Coming(c)'
    <3>1. CASE x <= e
      <4>1. x \in (lastId[c] + 1)..e
        BY <1>t, <2>1, <2>4, <3>1
      <4>2. QED
        BY <2>3, <4>1 DEF Coming
    <3>2. CASE x > e /\ x \notin Elements(queue[c])
      <4>1. x \in (e + 1)..last[h]
        BY <1>t, <2>1, <2>4, <3>2
      <4>2. \A i \in DOMAIN queue[c] : queue[c][i] # x
        BY <3>2 DEF Elements
      <4>3. \/ \E i \in DOMAIN queue[c] : queue[c][i] > x
            \/ \A i \in DOMAIN queue[c] : queue[c][i] # Dropped
        BY <2>4 DEF Elements
      <4>4. x \in CutOff(c, e)
        BY <4>1, <4>2, <4>3 DEF CutOff
      <4>5. QED
        BY <2>2, <2>4, <4>4 DEF Deny, Coming
    <3>3. CASE x \in Elements(queue[c])
      BY <1>1, <3>3 DEF Coming
    <3>4. QED
      BY <2>1, <3>1, <3>2, <3>3
  <2>5. ASSUME NEW p \in Elements(backlog'[c]), NEW x \in Nat, x > due'[c], x < p
        PROVE  x \in Elements(backlog'[c])
    BY <1>t, <2>1, <2>2, <2>3, <2>5
  <2>6. ASSUME NEW p \in Elements(queue'[c]), NEW x \in Nat, x > due'[c], x < p
        PROVE  x \in Coming(c)'
    <3>1. p \in Elements(queue[c]) /\ p > x /\ x > due[c] /\ x <= last[h]
      BY <1>t, <1>q, <1>1, <2>2, <2>6
    <3>2. QED
      BY <2>4, <3>1
  <2>7. ASSUME c \in subs'[hub'[c]], NEW x \in Nat, x > due'[c], x <= last'[hub'[c]]
        PROVE  x \in Coming(c)'
    <3>1. Dropped \notin Elements(queue[c])
      BY <1>0, <1>1, <2>7 DEF QueueOK
    <3>2. QED
      BY <1>1, <2>2, <2>4, <2>7, <3>1
  <2>8. QED
    BY <2>5, <2>6, <2>7 DEF SeamOK
<1>4. QED
  BY <1>2, <1>3

LEMMA SeamStep ==
  ASSUME IInv, [Next]_vars
  PROVE  SeamInv'
<1>0. TypeOK /\ HubsInv /\ \A d \in Clients : SeamOK(d)
  BY DEF IInv, SeamInv
<1> SUFFICES ASSUME NEW d \in Clients PROVE SeamOK(d)'
  BY DEF SeamInv
<1>h. pc[d] = "on" => /\ hub[d] \in Hubs
                      /\ task[hub[d]] \in {"reading", "cancelled"}
  BY <1>0, Attached DEF HubsInv, Ready
<1>1. ASSUME NEW kind \in {"final", "other"}, Publish(kind)
      PROVE  SeamOK(d)'
  BY <1>0, <1>1, SeamElsewhere DEF Publish, hubs, conns, browser
<1>2. ASSUME NEW h \in Hubs, HubTail(h) \/ HubTailFails(h)
      PROVE  SeamOK(d)'
  <2>1. pc[d] = "on" => hub[d] # h
    BY <1>2, <1>h DEF HubTail, HubTailFails
  <2>2. /\ pc' = pc /\ hub' = hub /\ backlog' = backlog /\ queue' = queue /\ due' = due
        /\ denied' = denied /\ subs' = subs
        /\ \A g \in Hubs : g # h => last'[g] = last[g]
    BY <1>0, <1>2 DEF TypeOK, HubTail, HubTailFails, conns, browser
  <2>3. QED
    BY <1>0, <1>h, <2>1, <2>2, SeamElsewhere
<1>3. ASSUME NEW h \in Hubs, HubRead(h)
      PROVE  SeamOK(d)'
  <2>1. CASE d \in subs[h] /\ pc[d] = "on"
    BY <1>3, <2>1, SeamRead
  <2>2. CASE d \in subs[h] /\ pc[d] # "on"
    BY <1>3, <2>2 DEF SeamOK, HubRead
  <2>3. CASE d \notin subs[h]
    <3>1. /\ pc' = pc /\ hub' = hub /\ backlog' = backlog /\ due' = due
          /\ queue'[d] = queue[d] /\ denied'[d] = denied[d]
      BY <1>0, <1>3, <2>3 DEF TypeOK, HubRead
    <3>2. \A g \in Hubs : d \in subs'[g] => d \in subs[g] /\ g # h /\ last'[g] = last[g]
      BY <1>0, <1>3, <2>3 DEF TypeOK, HubRead
    <3>3. QED
      BY <1>0, <1>h, <3>1, <3>2, SeamElsewhere
  <2>4. QED
    BY <2>1, <2>2, <2>3
<1>4. ASSUME NEW c \in Clients, Join(c) \/ Open(c)
      PROVE  SeamOK(d)'
  <2>1. /\ pc' = [pc EXCEPT ![c] = "wait"] /\ pc[c] = "off" /\ queue' = queue
        /\ backlog' = backlog /\ due' = due /\ denied' = denied
        /\ \A b \in Clients \ {c} : hub'[b] = hub[b]
    BY <1>0, <1>4 DEF TypeOK, Join, Open, Attach, browser
  <2>2. CASE d = c
    BY <1>0, <2>1, <2>2 DEF SeamOK, TypeOK
  <2>3. CASE d # c /\ pc[d] = "on"
    <3>1. last'[hub[d]] = last[hub[d]] /\ (d \in subs'[hub[d]] => d \in subs[hub[d]])
      <4>1. CASE Join(c)
        BY <1>0, <1>h, <2>3, <4>1 DEF TypeOK, Join
      <4>2. CASE Open(c)
        BY <1>0, <1>h, <2>3, <4>2 DEF TypeOK, HubsInv, Open, Attach, Forgotten
      <4>3. QED
        BY <1>4, <4>1, <4>2
    <3>2. QED
      BY <1>0, <2>1, <2>3, <3>1, SeamElsewhere
  <2>4. CASE d # c /\ pc[d] # "on"
    BY <1>0, <2>1, <2>4 DEF SeamOK, TypeOK
  <2>5. QED
    BY <2>2, <2>3, <2>4
<1>5. ASSUME NEW c \in Clients, ReadBacklog(c)
      PROVE  SeamOK(d)'
  <2>1. CASE d = c
    BY <1>5, <2>1, SeamBegins
  <2>2. CASE d # c
    <3>1. /\ pc'[d] = pc[d] /\ backlog'[d] = backlog[d] /\ due'[d] = due[d]
          /\ denied'[d] = denied[d] /\ hub' = hub /\ queue' = queue /\ subs' = subs /\ last' = last
      BY <1>0, <1>5, <2>2 DEF TypeOK, ReadBacklog, hubs
    <3>2. QED
      BY <1>0, <3>1, SeamElsewhere
  <2>3. QED
    BY <2>1, <2>2
<1>6. ASSUME NEW c \in Clients, YieldBacklog(c) \/ YieldLive(c) \/ SkipLive(c)
      PROVE  SeamOK(d)'
  <2>1. CASE d = c
    BY <1>6, <2>1, SeamTake
  <2>2. CASE d # c
    <3>1. PICK id \in Nat :
            /\ pc' = pc /\ hub' = hub /\ subs' = subs /\ last' = last
            /\ Yield(c, id) \/ UNCHANGED browser
            /\ \A b \in Clients \ {c} : backlog'[b] = backlog[b] /\ queue'[b] = queue[b]
      BY <1>6, TakeFacts
    <3>2. due'[d] = due[d] /\ denied'[d] = denied[d]
      BY <1>0, <2>2, <3>1 DEF TypeOK, Yield, browser
    <3>3. QED
      BY <1>0, <2>2, <3>1, <3>2, SeamElsewhere
  <2>3. QED
    BY <2>1, <2>2
<1>7. ASSUME NEW c \in Clients, TakeDropped(c) \/ Disconnect(c)
      PROVE  SeamOK(d)'
  <2>1. Leave(c) /\ hub[c] \in Hubs
    BY <1>7, Leaving
  <2>2. CASE d = c
    BY <1>0, <2>1, <2>2 DEF TypeOK, SeamOK, Leave
  <2>3. CASE d # c
    <3>1. /\ pc'[d] = pc[d] /\ hub'[d] = hub[d] /\ queue'[d] = queue[d] /\ backlog'[d] = backlog[d]
          /\ due'[d] = due[d] /\ denied'[d] = denied[d]
      BY <1>0, <2>1, <2>3 DEF TypeOK, Leave, browser
    <3>2. hub[d] \in Hubs => /\ last'[hub[d]] = last[hub[d]]
                             /\ d \in subs'[hub[d]] => d \in subs[hub[d]]
      BY <1>0, <2>1, <2>3 DEF TypeOK, Leave
    <3>3. QED
      BY <1>0, <1>h, <3>1, <3>2, SeamElsewhere
  <2>4. QED
    BY <2>2, <2>3
<1>8. CASE ReplicaDies
  BY <1>8 DEF SeamOK, ReplicaDies
<1>9. CASE UNCHANGED vars
  BY <1>0, <1>9, SeamElsewhere DEF vars, hubs, conns, browser
<1>10. QED
  BY <1>1, <1>2, <1>3, <1>4, <1>5, <1>6, <1>7, <1>8, <1>9 DEF Next, HubStep, Serve

-----------------------------------------------------------------------------
(* The theorems.                                                           *)

LEMMA Inductive == IInv /\ [Next]_vars => IInv'
<1> SUFFICES ASSUME IInv, [Next]_vars PROVE IInv'
  OBVIOUS
<1>1. TypeOK' /\ HubsInv'
  BY TypeStep, HubsStep
<1>2. QueuesInv' /\ BrowsersInv' /\ SeamInv'
  BY QueuesStep, BrowsersStep, SeamStep
<1>3. QED
  BY <1>1, <1>2 DEF IInv

LEMMA Invariant == Spec => []IInv
<1>1. QED
  BY Initially, Inductive, PTL DEF Spec

\* Every variable keeps its type, for any number of viewers and hubs.
THEOREM TypeCorrect == Spec => []TypeOK
<1>1. IInv => TypeOK
  BY DEF IInv
<1>2. QED
  BY <1>1, Invariant, PTL

\* At most one reader per stream, whichever of any number of viewers come and
\* go while hubs start, fail and are cancelled.
THEOREM SingleReader == Spec => []OneReader
<1>1. IInv => OneReader
  BY DEF IInv, HubsInv
<1>2. QED
  BY <1>1, Invariant, PTL

\* No browser ever gets an entry twice or out of order, for any queue, backlog
\* and replay limits and any length of the stream.
THEOREM NeverTwice == Spec => []Ordered
<1>1. IInv => Ordered
  BY DEF IInv, BrowsersInv, BrowserOK, Ordered
<1>2. QED
  BY <1>1, Invariant, PTL

\* What a step makes a browser miss it was denied.
LEMMA MissedStep ==
  ASSUME IInv, [Next]_vars, NEW d \in Clients
  PROVE  Missed(d) \subseteq denied[d]
<1>0. TypeOK /\ BrowserOK(d) /\ QueueOK(d) /\ SeamOK(d)
  BY DEF IInv, BrowsersInv, QueuesInv, SeamInv
<1>t. /\ due[d] \in Nat /\ backlog[d] \in Seq(Nat) /\ queue[d] \in Seq(Nat)
  BY <1>0 DEF TypeOK
<1>1. CASE lastId'[d] = lastId[d]
  BY <1>1 DEF Missed
<1>2. ASSUME NEW s \in Seq(Nat), s # <<>>, Increasing(s), lastId'[d] = Head(s),
             \A x \in Nat : x > due[d] /\ x < Head(s) => x \in Elements(s) \cup denied[d]
      PROVE  Missed(d) \subseteq denied[d]
  <2>1. /\ Elements(s) \subseteq Elements(Tail(s)) \cup {Head(s)} /\ Head(s) \in Nat
        /\ Elements(Tail(s)) \subseteq Elements(s)
    BY <1>2, TailFacts
  <2>2. \A p \in Elements(Tail(s)) : p # Dropped => Head(s) < p
    BY <1>2, TailIncreasing
  <2>3. ASSUME NEW x \in (due[d] + 1)..(Head(s) - 1)
        PROVE  x \in denied[d]
    <3>1. x \in Nat /\ x > due[d] /\ x < Head(s) /\ x # Dropped
      BY <1>t, <2>1 DEF Dropped
    <3>2. x \notin Elements(Tail(s)) /\ x # Head(s)
      BY <2>1, <2>2, <3>1
    <3>3. QED
      BY <1>2, <2>1, <3>1, <3>2
  <2>4. QED
    BY <1>2, <2>3 DEF Missed
<1>3. CASE lastId'[d] # lastId[d]
  <2>1. \E c \in Clients : YieldBacklog(c) \/ YieldLive(c)
    BY <1>3 DEF Next, HubStep, Serve, vars, browser, conns, Publish, HubTail, HubTailFails,
       HubRead, Join, Open, Attach, ReadBacklog, SkipLive, TakeDropped, Disconnect, Leave, ReplicaDies
  <2>2. PICK c \in Clients : YieldBacklog(c) \/ YieldLive(c)
    BY <2>1
  <2>3. c = d
    BY <1>0, <1>3, <2>2 DEF TypeOK, YieldBacklog, YieldLive, Yield
  <2>4. CASE YieldBacklog(d)
    <3>1. backlog[d] # <<>> /\ lastId'[d] = Head(backlog[d]) /\ pc[d] = "on"
      BY <1>0, <2>4 DEF TypeOK, YieldBacklog, Yield
    <3>2. Increasing(backlog[d]) /\ Head(backlog[d]) \in Elements(backlog[d])
      BY <1>0, <1>t, <3>1, TailFacts DEF BrowserOK, Elements
    <3>3. \A x \in Nat : x > due[d] /\ x < Head(backlog[d]) => x \in Elements(backlog[d]) \cup denied[d]
      BY <1>0, <3>1, <3>2 DEF SeamOK
    <3>4. QED
      BY <1>2, <1>t, <3>1, <3>2, <3>3
  <2>5. CASE YieldLive(d)
    <3>1. queue[d] # <<>> /\ lastId'[d] = Head(queue[d]) /\ pc[d] = "on" /\ backlog[d] = <<>>
      BY <1>0, <2>5 DEF TypeOK, YieldLive, NextItem, Yield
    <3>2. Increasing(queue[d]) /\ Head(queue[d]) \in Elements(queue[d])
      BY <1>0, <1>t, <3>1, TailFacts DEF QueueOK, Elements
    <3>3. Elements(backlog[d]) = {}
      BY <3>1, EmptyFacts
    <3>4. \A x \in Nat : x > due[d] /\ x < Head(queue[d]) => x \in Elements(queue[d]) \cup denied[d]
      BY <1>0, <3>1, <3>2, <3>3 DEF SeamOK, Coming
    <3>5. QED
      BY <1>2, <1>t, <3>1, <3>2, <3>4
  <2>6. QED
    BY <2>2, <2>3, <2>4, <2>5
<1>4. QED
  BY <1>1, <1>3

\* Across reconnections, replicas, hubs that come and go and the seam of backlog
\* and queue, a browser misses only what a full queue or a cut backlog denied
\* it, for any queue, backlog and replay limits and any length of the stream.
THEOREM NoUnexplainedGap == Spec => GapsExplained
<1>1. IInv /\ [Next]_vars => [\A c \in Clients : Missed(c) \subseteq denied[c]]_vars
  BY MissedStep
<1>2. QED
  BY <1>1, Invariant, PTL DEF Spec, GapsExplained

-----------------------------------------------------------------------------
(* Streams that fit into a queue and a backlog.                            *)

Short == Len(log) <= QueueCap /\ Len(log) <= MaxBacklog

\* The hub has put no more on a queue than it has read.
QueuesSlim == \A h \in Hubs : \A c \in subs[h] : Len(queue[c]) <= last[h]

NothingDenied == Short => \A c \in Clients : denied[c] = {}

\* Entries a+1 to n behind a queue that holds at most a entries.
LEMMA PutSlim ==
  ASSUME NEW q \in Seq(Nat), NEW new \in Seq(Nat), NEW a \in Nat, NEW n \in Nat,
         a <= n, Len(new) = n - a, Len(q) <= a
  PROVE  /\ Len(q \o new) <= n
         /\ n <= QueueCap => ~Overflows(q, Len(new))
<1>1. Len(q \o new) = Len(q) + Len(new)
  BY ConcatFacts
<1>2. Len(q) \in Nat
  OBVIOUS
<1> DEFINE k == Len(q)
           m == Len(new)
<1>3. k \in Nat /\ m = n - a /\ k <= a
  BY <1>2
<1>4. Len(q \o new) = k + m
  BY <1>1
<1> HIDE DEF k, m
<1>5. k + m <= n
  BY <1>3
<1>6. n <= QueueCap => ~(k + m > QueueCap)
  BY <1>3, <1>5, FanoutAssumption
<1>7. QED
  BY <1>4, <1>5, <1>6 DEF Overflows, k, m

LEMMA HubReadsSlim ==
  ASSUME IInv, QueuesSlim, NEW h \in Hubs, HubRead(h)
  PROVE  QueuesSlim' /\ (NothingDenied => NothingDenied')
<1>0. TypeOK /\ \A g \in Hubs : \A d \in subs[g] : hub[d] = g
  BY DEF IInv, HubsInv
<1>1. PICK n \in (last[h] + 1)..Len(log) :
         /\ last' = [last EXCEPT ![h] = n]
         /\ queue' = [c \in Clients |-> IF c \in subs[h] THEN PutAll(queue[c], After(last[h], n))
                                        ELSE queue[c]]
         /\ subs' = [subs EXCEPT ![h] = {c \in @ : ~Overflows(queue[c], Len(After(last[h], n)))}]
         /\ denied' = [c \in Clients |->
                          IF c \in subs[h] /\ Overflows(queue[c], Len(After(last[h], n)))
                          THEN Deny(c, {Head(queue[c] \o After(last[h], n))}) ELSE denied[c]]
  BY DEF HubRead
<1>2. PICK new : new = After(last[h], n)
  OBVIOUS
<1>3. /\ last[h] \in Nat /\ n \in Nat /\ last[h] <= n /\ n <= Len(log) /\ Len(log) \in Nat
      /\ new \in Seq(Nat) /\ Len(new) = n - last[h]
  <2>1. last[h] \in Nat /\ Len(log) \in Nat
    BY <1>0 DEF TypeOK
  <2>2. n \in Nat /\ last[h] <= n /\ n <= Len(log)
    BY <2>1
  <2>3. QED
    BY <1>2, <2>1, <2>2, AfterFacts
<1>4. ASSUME NEW g \in Hubs, NEW c \in subs'[g]
      PROVE  Len(queue'[c]) <= last'[g]
  <2>1. CASE g = h
    <3>1. c \in subs[h] /\ c \in Clients /\ ~Overflows(queue[c], Len(new)) /\ last'[g] = n
      BY <1>0, <1>1, <1>2, <1>4, <2>1 DEF TypeOK
    <3>2. queue[c] \in Seq(Nat) /\ queue'[c] = queue[c] \o new
      BY <1>0, <1>1, <1>2, <3>1 DEF TypeOK, PutAll
    <3>3. Len(queue[c]) <= last[h]
      BY <3>1 DEF QueuesSlim
    <3>4. Len(queue[c] \o new) <= n
      BY <1>3, <3>2, <3>3, PutSlim
    <3>5. QED
      BY <2>1, <3>1, <3>2, <3>4
  <2>2. CASE g # h
    <3>1. c \in subs[g] /\ c \in Clients /\ last'[g] = last[g] /\ c \notin subs[h]
      BY <1>0, <1>1, <1>4, <2>2 DEF TypeOK
    <3>2. queue'[c] = queue[c]
      BY <1>1, <3>1
    <3>3. QED
      BY <3>1, <3>2 DEF QueuesSlim
  <2>3. QED
    BY <2>1, <2>2
<1>5. ASSUME NothingDenied, Short', NEW c \in Clients
      PROVE  denied'[c] = {}
  <2>1. Short
    BY <1>5 DEF Short, HubRead
  <2>2. c \in subs[h] => ~Overflows(queue[c], Len(new))
    <3>1. SUFFICES ASSUME c \in subs[h] PROVE ~Overflows(queue[c], Len(new))
      OBVIOUS
    <3>2. Len(queue[c]) <= last[h] /\ queue[c] \in Seq(Nat)
      BY <1>0, <3>1 DEF QueuesSlim, TypeOK
    <3>3. n <= QueueCap
      BY <1>3, <2>1, FanoutAssumption DEF Short
    <3>4. QED
      BY <1>3, <3>2, <3>3, PutSlim
  <2>3. denied'[c] = denied[c]
    BY <1>1, <1>2, <2>2
  <2>4. QED
    BY <1>5, <2>1, <2>3 DEF NothingDenied
<1>6. QED
  BY <1>4, <1>5 DEF QueuesSlim, NothingDenied

LEMMA SlimStep ==
  ASSUME IInv, QueuesSlim, [Next]_vars
  PROVE  QueuesSlim'
<1>0. /\ TypeOK /\ \A g \in Hubs : last[g] \in Nat /\ last[g] <= Len(log) /\ Len(log) \in Nat
      /\ \A g \in Hubs : \A d \in subs[g] : d \in Clients /\ Len(queue[d]) \in Nat
  BY DEF IInv, HubsInv, TypeOK
<1>1. CASE \/ \E kind \in {"final", "other"} : Publish(kind)
           \/ \E c \in Clients : ReadBacklog(c) \/ YieldBacklog(c)
           \/ \E h \in Hubs : HubTailFails(h)
           \/ UNCHANGED vars
  <2>1. subs' = subs /\ queue' = queue /\ last' = last
    BY <1>1 DEF Publish, ReadBacklog, YieldBacklog, HubTailFails, vars, hubs, conns
  <2>2. QED
    BY <2>1 DEF QueuesSlim
<1>2. ASSUME NEW h \in Hubs, HubTail(h)
      PROVE  QueuesSlim'
  <2>1. subs' = subs /\ queue' = queue /\ \A g \in Hubs : last'[g] \in {last[g], Len(log)}
    BY <1>0, <1>2 DEF TypeOK, HubTail, conns
  <2>2. ASSUME NEW g \in Hubs, NEW d \in subs[g]
        PROVE  Len(queue[d]) <= last'[g]
    BY <1>0, <2>1 DEF QueuesSlim
  <2>3. QED
    BY <2>1, <2>2 DEF QueuesSlim
<1>3. ASSUME NEW h \in Hubs, HubRead(h)
      PROVE  QueuesSlim'
  BY <1>3, HubReadsSlim
<1>4. ASSUME NEW c \in Clients, Join(c) \/ Open(c)
      PROVE  QueuesSlim'
  <2>1. queue' = queue /\ queue[c] = <<>>
    BY <1>4 DEF Join, Open, Attach, IInv, QueuesInv, QueueOK
  <2>2. ASSUME NEW g \in Hubs, NEW d \in subs'[g]
        PROVE  /\ d = c \/ (d \in subs[g] /\ last'[g] = last[g])
               /\ last'[g] \in Nat
    <3>1. CASE Join(c)
      BY <1>0, <2>2, <3>1 DEF TypeOK, Join
    <3>2. CASE Open(c)
      BY <1>0, <2>2, <3>2 DEF TypeOK, Open
    <3>3. QED
      BY <1>4, <3>1, <3>2
  <2>3. ASSUME NEW g \in Hubs, NEW d \in subs'[g]
        PROVE  Len(queue'[d]) <= last'[g]
    <3>1. CASE d = c
      BY <2>1, <2>2, <2>3, <3>1
    <3>2. CASE d # c
      BY <2>1, <2>2, <2>3, <3>2 DEF QueuesSlim
    <3>3. QED
      BY <3>1, <3>2
  <2>4. QED
    BY <2>3 DEF QueuesSlim
<1>5. ASSUME NEW c \in Clients, YieldLive(c) \/ SkipLive(c)
      PROVE  QueuesSlim'
  <2>1. /\ queue[c] # <<>> /\ queue[c] \in Seq(Nat) /\ queue' = [queue EXCEPT ![c] = Tail(@)]
        /\ subs' = subs /\ last' = last
    BY <1>0, <1>5 DEF TypeOK, YieldLive, SkipLive, NextItem, hubs
  <2>2. Len(Tail(queue[c])) = Len(queue[c]) - 1
    BY <2>1, TailFacts
  <2>3. ASSUME NEW g \in Hubs, NEW d \in subs[g]
        PROVE  Len(queue'[d]) <= last[g]
    <3>1. Len(queue[d]) <= last[g]
      BY DEF QueuesSlim
    <3>2. d # c => queue'[d] = queue[d]
      BY <2>1
    <3>3. d = c => Len(queue'[d]) = Len(queue[d]) - 1
      BY <1>0, <2>1, <2>2 DEF TypeOK
    <3>4. Len(queue[d]) \in Nat /\ last[g] \in Nat
      BY <1>0
    <3>5. Len(queue'[d]) <= Len(queue[d])
      BY <3>2, <3>3, <3>4
    <3>6. Len(queue'[d]) \in Int
      BY <3>2, <3>3, <3>4
    <3>7. QED
      BY ONLY <3>1, <3>4, <3>5, <3>6
  <2>4. QED
    BY <2>1, <2>3 DEF QueuesSlim
<1>6. ASSUME NEW c \in Clients, TakeDropped(c) \/ Disconnect(c)
      PROVE  QueuesSlim'
  <2>1. Leave(c) /\ hub[c] \in Hubs
    BY <1>6, Leaving
  <2>2. ASSUME NEW g \in Hubs, NEW d \in subs'[g]
        PROVE  d # c /\ d \in subs[g] /\ queue'[d] = queue[d] /\ last'[g] = last[g]
    <3>1. \A f \in Hubs : \A b \in subs[f] : hub[b] = f /\ b \in Clients
      BY DEF IInv, HubsInv, TypeOK
    <3>2. d \in subs[g] /\ d # c
      BY <1>0, <2>1, <2>2, <3>1 DEF TypeOK, Leave
    <3>3. queue'[d] = queue[d]
      BY <1>0, <2>1, <3>1, <3>2 DEF TypeOK, Leave
    <3>4. last'[g] = last[g]
      BY <1>0, <2>1, <3>1, <3>2 DEF TypeOK, Leave
    <3>5. QED
      BY <3>2, <3>3, <3>4
  <2>3. QED
    BY <2>2 DEF QueuesSlim
<1>7. CASE ReplicaDies
  BY <1>7 DEF QueuesSlim, ReplicaDies
<1>8. QED
  BY <1>1, <1>2, <1>3, <1>4, <1>5, <1>6, <1>7 DEF Next, HubStep, Serve

LEMMA DeniedStep ==
  ASSUME IInv, QueuesSlim, NothingDenied, [Next]_vars
  PROVE  NothingDenied'
<1>0. TypeOK
  BY DEF IInv
<1>1. SUFFICES ASSUME Short', NEW d \in Clients PROVE denied'[d] = {}
  BY DEF NothingDenied
<1>2. Short
  <2>1. Len(log) \in Nat /\ Len(log') \in Nat /\ Len(log) <= Len(log')
    <3>1. CASE \E kind \in {"final", "other"} : Publish(kind)
      BY <1>0, <3>1 DEF TypeOK, Publish
    <3>2. CASE log' = log
      BY <1>0, <3>2 DEF TypeOK
    <3>3. QED
      BY <3>1, <3>2 DEF Next, HubStep, Serve, vars, HubTail, HubTailFails, HubRead, Join, Open, Attach,
         ReadBacklog, YieldBacklog, YieldLive, SkipLive, TakeDropped, Disconnect, Leave, ReplicaDies
  <2>2. QED
    BY <1>1, <2>1, FanoutAssumption DEF Short
<1>3. denied[d] = {}
  BY <1>2 DEF NothingDenied
<1>4. CASE \E h \in Hubs : HubRead(h)
  BY <1>1, <1>4, HubReadsSlim DEF NothingDenied
<1>5. ASSUME NEW c \in Clients, ReadBacklog(c)
      PROVE  denied'[d] = {}
  <2>1. CASE d # c
    BY <1>0, <1>3, <1>5, <2>1 DEF TypeOK, ReadBacklog
  <2>2. CASE d = c /\ lastId[c] = 0
    BY <1>0, <1>3, <1>5, <2>2 DEF TypeOK, ReadBacklog
  <2>3. CASE d = c /\ lastId[c] # 0
    <3>0. hub[c] \in Hubs
      <4>1. pc[c] # "off"
        BY <1>5 DEF ReadBacklog
      <4>2. QED
        BY <4>1, Attached
    <3>1. /\ lastId[c] \in Nat /\ Len(log) \in Nat /\ lastId[c] <= Len(log)
          /\ MaxBacklog \in Nat /\ Len(log) <= MaxBacklog
      <4>1. lastId[c] \in Nat /\ Len(log) \in Nat
        BY <1>0 DEF TypeOK
      <4>2. lastId[c] <= Len(log)
        BY DEF IInv, BrowsersInv, BrowserOK
      <4>3. QED
        BY <1>2, <4>1, <4>2, FanoutAssumption DEF Short
    <3>2. ResumeBacklog(c) = After(lastId[c], Len(log))
      <4>1. Len(log) - lastId[c] <= MaxBacklog
        BY ONLY <3>1
      <4>2. lastId[c] + (Len(log) - lastId[c]) = Len(log)
        BY ONLY <3>1
      <4>3. QED
        BY <4>1, <4>2 DEF ResumeBacklog
    <3>3. lastId[c] + Len(ResumeBacklog(c)) = Len(log)
      <4>1. Len(ResumeBacklog(c)) = Len(log) - lastId[c]
        BY <3>1, <3>2, AfterFacts
      <4>2. QED
        BY ONLY <3>1, <4>1
    <3>4. last[hub[c]] \in Nat /\ last[hub[c]] <= Len(log)
      BY <3>0 DEF IInv, TypeOK, HubsInv
    <3>5. CutOff(c, Len(log)) = {}
      BY <3>1, <3>4 DEF CutOff
    <3>6. denied'[c] = Deny(c, {})
      BY <1>0, <1>5, <2>3, <3>3, <3>5 DEF TypeOK, ReadBacklog
    <3>7. QED
      BY <1>3, <2>3, <3>6 DEF Deny
  <2>4. QED
    BY <2>1, <2>2, <2>3
<1>6. ASSUME NEW c \in Clients, YieldBacklog(c) \/ YieldLive(c)
      PROVE  denied'[d] = {}
  <2>1. PICK id : Yield(c, id)
    BY <1>6 DEF YieldBacklog, YieldLive
  <2>2. denied'[d] \subseteq denied[d]
    BY <1>0, <2>1 DEF TypeOK, Yield
  <2>3. QED
    BY <1>3, <2>2
<1>7. CASE denied' = denied
  BY <1>3, <1>7
<1>8. QED
  BY <1>4, <1>5, <1>6, <1>7 DEF Next, HubStep, Serve, vars, browser, Publish, HubTail, HubTailFails, Join, Open,
     Attach, SkipLive, TakeDropped, Disconnect, Leave, ReplicaDies

\* Up to the point where a stream has more entries than a queue or a backlog
\* holds, nobody misses any: the two limits are the only causes of a gap.
THEOREM ShortStreamsWhole == Spec => [][Short' => \A c \in Clients : Missed(c) = {}]_vars
<1>1. Init => QueuesSlim /\ NothingDenied
  BY DEF Init, QueuesSlim, NothingDenied
<1>2. IInv /\ QueuesSlim /\ NothingDenied /\ [Next]_vars => QueuesSlim' /\ NothingDenied'
  BY SlimStep, DeniedStep
<1>3. IInv /\ NothingDenied /\ [Next]_vars => [Short' => \A c \in Clients : Missed(c) = {}]_vars
  <2> SUFFICES ASSUME IInv, NothingDenied, [Next]_vars, Short', NEW c \in Clients
               PROVE  Missed(c) = {} \/ UNCHANGED vars
    OBVIOUS
  <2>1. CASE lastId'[c] = lastId[c]
    BY <2>1 DEF Missed
  <2>2. CASE lastId'[c] # lastId[c]
    <3>1. log' = log
      BY <2>2 DEF Next, HubStep, Serve, vars, browser, conns, Publish, HubTail, HubTailFails, HubRead, Join,
         Open, Attach, ReadBacklog, YieldBacklog, YieldLive, SkipLive, TakeDropped, Disconnect, Leave,
         ReplicaDies
    <3>2. denied[c] = {}
      BY <3>1 DEF Short, NothingDenied
    <3>3. QED
      BY <3>2, MissedStep
  <2>3. QED
    BY <2>1, <2>2
<1>4. QED
  BY <1>1, <1>2, <1>3, Invariant, PTL DEF Spec

-----------------------------------------------------------------------------
(* Nobody waits in vain: the safety under CatchesUp.                       *)

\* The hub in _hubs has a task that was not cancelled.
CurrentLives == \A h \in Hubs : h = current => task[h] # "cancelled"

\* A queue that no hub fills any more holds the drop signal.
LeftSignalled ==
    \A c \in Clients : pc[c] # "off" /\ c \notin subs[hub[c]] => Dropped \in Elements(queue[c])

\* A connection that lacks an entry has it, or a later one, in its hands, or
\* is on a hub that runs and has still to read it.
Fed ==
    \A c \in Clients :
        pc[c] = "on" /\ Behind(c) /\ backlog[c] = <<>> /\ queue[c] = <<>> =>
            c \in subs[hub[c]] /\ task[hub[c]] = "reading" /\ last[hub[c]] < Len(log)

LEMMA CurrentStep ==
  ASSUME IInv, CurrentLives, [Next]_vars
  PROVE  CurrentLives'
<1>0. TypeOK /\ \A h \in Hubs : task[h] = "none" => h # current
  BY DEF IInv, HubsInv
<1>1. CASE \/ \E kind \in {"final", "other"} : Publish(kind)
           \/ \E h \in Hubs : HubRead(h)
           \/ \E c \in Clients : \/ Join(c) \/ ReadBacklog(c) \/ YieldBacklog(c)
                                 \/ YieldLive(c) \/ SkipLive(c)
           \/ UNCHANGED vars
  <2>1. task' = task /\ current' = current
    BY <1>1 DEF Publish, HubRead, Join, ReadBacklog, YieldBacklog, YieldLive, SkipLive, vars, hubs
  <2>2. QED
    BY <2>1 DEF CurrentLives
<1>2. ASSUME NEW h \in Hubs, HubTail(h) \/ HubTailFails(h)
      PROVE  CurrentLives'
  BY <1>0, <1>2 DEF TypeOK, CurrentLives, HubTail, HubTailFails
<1>3. ASSUME NEW c \in Clients, Open(c)
      PROVE  CurrentLives'
  BY <1>0, <1>3 DEF TypeOK, CurrentLives, Open
<1>4. ASSUME NEW c \in Clients, TakeDropped(c) \/ Disconnect(c)
      PROVE  CurrentLives'
  <2>1. Leave(c) /\ hub[c] \in Hubs
    BY <1>4, Leaving
  <2>2. \A h \in Hubs : h # NoHub
    BY FanoutAssumption
  <2>3. ASSUME NEW h \in Hubs, h = current'
        PROVE  task'[h] # "cancelled"
    <3>1. ~RemovesHub(hub[c], subs[hub[c]] \ {c}) /\ h = current
      BY <2>1, <2>2, <2>3 DEF Leave
    <3>2. task'[h] = task[h] \/ task'[h] = "none"
      BY <1>0, <2>1, <3>1 DEF TypeOK, Leave
    <3>3. QED
      BY <3>1, <3>2 DEF CurrentLives
  <2>4. QED
    BY <2>3 DEF CurrentLives
<1>5. CASE ReplicaDies
  BY <1>5 DEF CurrentLives, ReplicaDies
<1>6. QED
  BY <1>1, <1>2, <1>3, <1>4, <1>5 DEF Next, HubStep, Serve

\* Whoever is left behind is told.
LEMMA OverflowSignals ==
  ASSUME IInv, NEW h \in Hubs, NEW n \in (last[h] + 1)..Len(log), NEW c \in subs[h],
         Overflows(queue[c], Len(After(last[h], n)))
  PROVE  Dropped \in Elements(PutAll(queue[c], After(last[h], n)))
<1> DEFINE a == last[h]
           q == queue[c]
<1>1. c \in Clients /\ hub[c] = h /\ pc[c] # "off" /\ a \in Nat /\ Len(log) \in Nat
  BY FanoutAssumption DEF IInv, TypeOK, HubsInv
<1>2. n \in Nat /\ a < n /\ a <= n
  BY <1>1
<1>3. /\ q \in Seq(Nat) /\ Len(q) <= QueueCap /\ Increasing(q)
      /\ \A x \in Elements(q) : x <= a /\ x # Dropped
  BY <1>1 DEF IInv, TypeOK, QueuesInv, QueueOK
<1>4. Filled(q, a)
  BY <1>3 DEF Filled, Elements
<1>5. Overflows(q, Len(After(a, n)))
  OBVIOUS
<1> HIDE DEF a, q
<1>6. Overflows(q, n - a)
  BY <1>1, <1>2, <1>5, AfterFacts
<1>7. PICK p : p = PutAll(q, After(a, n))
  OBVIOUS
<1>8. PICK old : old = Head(q \o After(a, n))
  OBVIOUS
<1>9. Dropped \in Elements(p)
  BY <1>1, <1>2, <1>3, <1>4, <1>6, <1>7, <1>8, PutOnFull
<1>10. QED
  BY <1>7, <1>9 DEF a, q

LEMMA SignalledStep ==
  ASSUME IInv, LeftSignalled, [Next]_vars
  PROVE  LeftSignalled'
<1>0. /\ TypeOK
      /\ \A d \in Clients : pc[d] # "off" => hub[d] \in Hubs /\ task[hub[d]] # "none"
  BY Attached DEF IInv
<1>1. SUFFICES ASSUME NEW d \in Clients, pc'[d] # "off", d \notin subs'[hub'[d]]
               PROVE  Dropped \in Elements(queue'[d])
  BY DEF LeftSignalled, Elements
<1>2. ASSUME pc[d] # "off", hub'[d] = hub[d], queue'[d] = queue[d],
             d \in subs[hub[d]] => d \in subs'[hub[d]]
      PROVE  Dropped \in Elements(queue'[d])
  BY <1>1, <1>2 DEF LeftSignalled
<1>3. CASE \/ \E kind \in {"final", "other"} : Publish(kind)
           \/ \E h \in Hubs : HubTail(h) \/ HubTailFails(h)
           \/ \E c \in Clients : ReadBacklog(c) \/ YieldBacklog(c)
           \/ UNCHANGED vars
  <2>1. hub' = hub /\ queue' = queue /\ subs' = subs /\ (pc'[d] = pc[d] \/ pc[d] # "off")
    BY <1>0, <1>3 DEF TypeOK, Publish, HubTail, HubTailFails, ReadBacklog, YieldBacklog, vars, hubs, conns
  <2>2. QED
    BY <1>1, <1>2, <2>1
<1>4. ASSUME NEW h \in Hubs, HubRead(h)
      PROVE  Dropped \in Elements(queue'[d])
  <2>1. PICK n \in (last[h] + 1)..Len(log) :
           /\ queue' = [c \in Clients |-> IF c \in subs[h] THEN PutAll(queue[c], After(last[h], n))
                                          ELSE queue[c]]
           /\ subs' = [subs EXCEPT ![h] = {c \in @ : ~Overflows(queue[c], Len(After(last[h], n)))}]
    BY <1>4 DEF HubRead
  <2>2. pc' = pc /\ hub' = hub
    BY <1>4 DEF HubRead
  <2>3. CASE d \in subs[h]
    <3>1. hub[d] = h /\ d \in subs[hub[d]]
      BY <2>3 DEF IInv, HubsInv
    <3>2. Overflows(queue[d], Len(After(last[h], n)))
      BY <1>0, <1>1, <2>1, <2>2, <3>1 DEF TypeOK
    <3>3. queue'[d] = PutAll(queue[d], After(last[h], n))
      BY <2>1, <2>3
    <3>4. QED
      BY <2>3, <3>2, <3>3, OverflowSignals
  <2>4. CASE d \notin subs[h]
    <3>1. queue'[d] = queue[d] /\ d \notin subs[hub[d]]
      BY <1>0, <1>1, <2>1, <2>2, <2>4 DEF TypeOK
    <3>2. QED
      BY <1>1, <2>2, <3>1 DEF LeftSignalled
  <2>5. QED
    BY <2>3, <2>4
<1>5. ASSUME NEW c \in Clients, Join(c) \/ Open(c)
      PROVE  Dropped \in Elements(queue'[d])
  <2>1. d # c
    <3>1. CASE Join(c)
      BY <1>0, <1>1, <3>1 DEF TypeOK, Join, Attach
    <3>2. CASE Open(c)
      BY <1>0, <1>1, <3>2 DEF TypeOK, Open, Attach
    <3>3. QED
      BY <1>5, <3>1, <3>2
  <2>2. pc[d] # "off" /\ hub'[d] = hub[d] /\ queue'[d] = queue[d]
    BY <1>0, <1>1, <1>5, <2>1 DEF TypeOK, Join, Open, Attach
  <2>3. d \in subs[hub[d]] => d \in subs'[hub[d]]
    <3>1. CASE Join(c)
      BY <1>0, <2>2, <3>1 DEF TypeOK, Join
    <3>2. CASE Open(c)
      BY <1>0, <2>2, <3>2 DEF TypeOK, Open, Forgotten
    <3>3. QED
      BY <1>5, <3>1, <3>2
  <2>4. QED
    BY <1>2, <2>2, <2>3
<1>6. ASSUME NEW c \in Clients, YieldLive(c) \/ SkipLive(c)
      PROVE  Dropped \in Elements(queue'[d])
  <2>1. /\ queue[c] # <<>> /\ queue[c] \in Seq(Nat) /\ queue' = [queue EXCEPT ![c] = Tail(@)]
        /\ pc' = pc /\ hub' = hub /\ subs' = subs /\ Head(queue[c]) \in Ids
    BY <1>0, <1>6 DEF TypeOK, YieldLive, SkipLive, NextItem, hubs
  <2>2. Dropped \in Elements(queue[d])
    BY <1>1, <2>1 DEF LeftSignalled
  <2>3. CASE d = c
    <3>1. Elements(queue[c]) \subseteq Elements(Tail(queue[c])) \cup {Head(queue[c])}
      BY <2>1, TailFacts
    <3>2. queue'[c] = Tail(queue[c])
      BY <1>0, <2>1 DEF TypeOK
    <3>3. Head(queue[c]) # Dropped
      BY <1>0, <2>1 DEF TypeOK, Ids, Dropped
    <3>4. QED
      BY <2>2, <2>3, <3>1, <3>2, <3>3
  <2>4. CASE d # c
    BY <2>1, <2>2, <2>4
  <2>5. QED
    BY <2>3, <2>4
<1>7. ASSUME NEW c \in Clients, TakeDropped(c) \/ Disconnect(c)
      PROVE  Dropped \in Elements(queue'[d])
  <2>1. Leave(c) /\ hub[c] \in Hubs
    BY <1>7, Leaving
  <2>2. d # c
    BY <1>0, <1>1, <2>1 DEF TypeOK, Leave
  <2>3. pc[d] # "off" /\ hub'[d] = hub[d] /\ queue'[d] = queue[d]
    BY <1>0, <1>1, <2>1, <2>2 DEF TypeOK, Leave
  <2>4. d \in subs[hub[d]] => d \in subs'[hub[d]]
    BY <1>0, <2>1, <2>2, <2>3 DEF TypeOK, Leave
  <2>5. QED
    BY <1>2, <2>3, <2>4
<1>8. CASE ReplicaDies
  BY <1>1, <1>8 DEF ReplicaDies
<1>9. QED
  BY <1>3, <1>4, <1>5, <1>6, <1>7, <1>8 DEF Next, HubStep, Serve

LEMMA FedThen ==
  ASSUME IInv, CurrentLives, LeftSignalled
  PROVE  Fed
<1>1. SUFFICES ASSUME NEW c \in Clients, pc[c] = "on", Behind(c), backlog[c] = <<>>, queue[c] = <<>>
               PROVE  c \in subs[hub[c]] /\ task[hub[c]] = "reading" /\ last[hub[c]] < Len(log)
  BY DEF Fed
<1>2. hub[c] \in Hubs
  BY <1>1, Attached
<1>3. c \in subs[hub[c]]
  BY <1>1, EmptyFacts DEF LeftSignalled
<1>4. hub[c] = current
  BY <1>2, <1>3 DEF IInv, HubsInv, OneReader
<1>5. task[hub[c]] = "reading"
  BY <1>1, <1>2, <1>4 DEF IInv, HubsInv, Ready, CurrentLives
<1>6. PICK id \in Ids : id > due[c] /\ id \notin denied[c]
  BY <1>1 DEF Behind
<1>7. Coming(c) = denied[c]
  BY <1>1, EmptyFacts DEF Coming
<1>8. ~(id <= last[hub[c]])
  BY <1>1, <1>3, <1>6, <1>7 DEF IInv, SeamInv, SeamOK, Ids
<1>9. last[hub[c]] \in Nat /\ Len(log) \in Nat /\ id <= Len(log)
  BY <1>2, <1>6 DEF IInv, TypeOK, Ids
<1>10. QED
  BY <1>3, <1>5, <1>6, <1>8, <1>9 DEF Ids

\* However hubs and viewers come and go, no connection waits for an entry that
\* nothing will bring: either it has something to yield, or its hub, which is
\* alive, has entries to read.  With fairness this is what makes CatchesUp true.
THEOREM NobodyWaitsInVain == Spec => []Fed
<1>1. Init => CurrentLives /\ LeftSignalled
  BY FanoutAssumption DEF Init, CurrentLives, LeftSignalled
<1>2. IInv /\ CurrentLives /\ LeftSignalled /\ [Next]_vars => CurrentLives' /\ LeftSignalled'
  BY CurrentStep, SignalledStep
<1>3. IInv /\ CurrentLives /\ LeftSignalled => Fed
  BY FedThen
<1>4. QED
  BY <1>1, <1>2, <1>3, Invariant, PTL DEF Spec

=============================================================================
