------------------------------ MODULE MCSessions ------------------------------
(***************************************************************************)
(* Sessions for TLC.  Workers are interchangeable, so the safety runs use  *)
(* them as a symmetry set; the liveness runs must not.                     *)
(***************************************************************************)
EXTENDS Sessions, TLC

Symmetry == Permutations(Workers)

=============================================================================
