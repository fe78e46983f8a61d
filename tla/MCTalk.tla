-------------------------------- MODULE MCTalk ---------------------------------
(***************************************************************************)
(* Instances of Export for TLC.  Nothing distinguishes the target languages, *)
(* so they may be interchanged.                                            *)
(***************************************************************************)
EXTENDS Export, TLC

Symmetry == Permutations(Langs)

=============================================================================
