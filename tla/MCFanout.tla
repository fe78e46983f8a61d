------------------------------- MODULE MCFanout -------------------------------
(***************************************************************************)
(* Fanout for TLC.  Browsers are interchangeable: a symmetry set where     *)
(* only safety is checked, and one of them stands for all in the liveness  *)
(* properties.                                                             *)
(***************************************************************************)
EXTENDS Fanout, TLC

CONSTANT Viewer    \* the browser the liveness properties are about

Symmetry == Permutations(Clients)

\* A viewer that is behind catches up or is disconnected.
CatchesUp == CatchesUpOf(Viewer)

\* A viewer that connects is served.
Served == ServedOf(Viewer)

=============================================================================
