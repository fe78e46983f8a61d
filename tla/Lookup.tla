-------------------------------- MODULE Lookup --------------------------------
(***************************************************************************)
(* Where a new run of a talk finds the end of the run before it: the       *)
(* look-up last_finals(.., 1) of src/conffy/bus.py, which sees no further  *)
(* back in a caption stream than its newest entries, and the partials and   *)
(* events among these count.                                               *)
(***************************************************************************)
EXTENDS Integers, Sequences

CONSTANT Scan   \* how many entries it looks at: scan

IsFinal(l, i) == l[i].kind = "final"
Finals(l) == {i \in DOMAIN l : IsFinal(l, i)}

\* The FINALs it sees, and the one it returns.
Recent(l) == {i \in Finals(l) : i > Len(l) - Scan}
Newest(l) == CHOOSE i \in Recent(l) : \A j \in Recent(l) : j <= i

\* Behind FINAL k so much was published that was not a FINAL that a look-up
\* there found nothing.
Lull(l, k) ==
    /\ k + Scan <= Len(l)
    /\ \A j \in (k + 1)..(k + Scan) : ~IsFinal(l, j)

\* There was such a lull in the stream; there was one between two FINALs.
Lulled(l) == \E k \in Finals(l) : Lull(l, k)
Interrupted(l, i, j) == \E k \in Finals(l) : i <= k /\ k < j /\ Lull(l, k)

=============================================================================
