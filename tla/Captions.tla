------------------------------- MODULE Captions -------------------------------
(***************************************************************************)
(* What the caption streams of one talk promise (src/conffy/contracts.py,  *)
(* "Stream messages"), whoever writes them: a FINAL takes the next number, *)
(* one worker speaks at a time, and a target language repeats numbers of   *)
(* the source in their order.  A worker that hangs past its lease, a       *)
(* command that is applied twice or a translation whose publication fails  *)
(* weakens the promise to: no number of the source is skipped, and a       *)
(* translation comes behind what it translates.  So does a lull, after     *)
(* which a new run does not find where the last one ended (Lookup), and    *)
(* begins again at 0.  Sessions and Talk implement this module.            *)
(***************************************************************************)
EXTENDS Lookup

CONSTANTS
    Workers,    \* who may speak
    Langs       \* the target languages

VARIABLES
    speakers,   \* the workers that may write captions now
    disturbed,  \* one of these has happened
    source,     \* the stream of the source language
    told        \* the stream of each target language

vars == <<speakers, disturbed, source, told>>

Final(n) == [kind |-> "final", seq |-> n]
Partial == [kind |-> "partial", seq |-> 0]
Event(kind) == [kind |-> kind, seq |-> 0]
Events == {Event(kind) : kind \in {"ended", "error"}}

Numbers(stream) == {stream[i].seq : i \in Finals(stream)}

Init ==
    /\ speakers = {}
    /\ disturbed = FALSE
    /\ source = <<>>
    /\ told = [l \in Langs |-> <<>>]

Take(w) ==
    /\ speakers = {} \/ disturbed
    /\ speakers' = speakers \cup {w}
    /\ UNCHANGED <<disturbed, source, told>>

StepDown ==
    /\ speakers' \in SUBSET speakers
    /\ UNCHANGED <<disturbed, source, told>>

\* The numbers that may be said: every lower one has been.
Following ==
    {n \in {0} \cup {m + 1 : m \in Numbers(source)} : 0..(n - 1) \subseteq Numbers(source)}

Say(n) ==
    /\ speakers # {}
    /\ n \in Numbers(source) => disturbed \/ Lulled(source)
    /\ source' = Append(source, Final(n))
    /\ UNCHANGED <<speakers, disturbed, told>>

\* One XADD, applied twice.
SayTwice(n) ==
    /\ speakers # {}
    /\ source' = Append(Append(source, Final(n)), Final(n))
    /\ disturbed' = TRUE
    /\ UNCHANGED <<speakers, told>>

SayPartial ==
    /\ speakers # {}
    /\ source' = Append(source, Partial)
    /\ UNCHANGED <<speakers, disturbed, told>>

\* One caption in some of the languages, behind those it has: a publication that
\* fails may break the order later.
Translate(reached, n) ==
    /\ n \in Numbers(source)
    /\ ~disturbed /\ ~Lulled(source) => \A l \in reached : \A m \in Numbers(told[l]) : m < n
    /\ told' = [l \in Langs |-> IF l \in reached THEN Append(told[l], Final(n)) ELSE told[l]]
    /\ disturbed' \in {disturbed, TRUE}
    /\ UNCHANGED <<speakers, source>>

TranslateTwice(l, n) ==
    /\ n \in Numbers(source)
    /\ told' = [told EXCEPT ![l] = Append(Append(@, Final(n)), Final(n))]
    /\ disturbed' = TRUE
    /\ UNCHANGED <<speakers, source>>

AnnounceSource ==
    /\ \E e \in Events : source' = Append(source, e)
    /\ UNCHANGED <<speakers, disturbed, told>>

AnnounceIn(l) ==
    /\ \E e \in Events : told' = [told EXCEPT ![l] = Append(@, e)]
    /\ UNCHANGED <<speakers, disturbed, source>>

\* One event, applied twice.
AnnounceTwice ==
    /\ \E e \in Events :
          \/ source' = Append(Append(source, e), e) /\ UNCHANGED told
          \/ /\ \E l \in Langs : told' = [told EXCEPT ![l] = Append(Append(@, e), e)]
             /\ UNCHANGED source
    /\ disturbed' = TRUE
    /\ UNCHANGED speakers

Disturb ==
    /\ disturbed' = TRUE
    /\ UNCHANGED <<speakers, source, told>>

Next ==
    \/ StepDown \/ \E w \in Workers : Take(w)
    \/ \E n \in Following : Say(n) \/ SayTwice(n)
    \/ SayPartial
    \/ \E reached \in SUBSET Langs, n \in Numbers(source) : Translate(reached, n)
    \/ \E l \in Langs, n \in Numbers(source) : TranslateTwice(l, n)
    \/ AnnounceSource \/ \E l \in Langs : AnnounceIn(l)
    \/ AnnounceTwice
    \/ Disturb

Spec == Init /\ [][Next]_vars

=============================================================================
