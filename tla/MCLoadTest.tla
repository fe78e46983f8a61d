------------------------------ MODULE MCLoadTest ------------------------------
(***************************************************************************)
(* LoadTest for TLC: the sessions of the file and a third one are posted,    *)
(* some with one of their languages twice.                                 *)
(***************************************************************************)
EXTENDS LoadTest, TLC

FromEn == [source |-> "en", targets |-> <<"es">>]
FromEs == [source |-> "es", targets |-> <<"en", "en">>]

MCBodies == {FromEn, FromEs}
MCFile == <<[id |-> 1, config |-> FromEn], [id |-> 2, config |-> FromEs]>>

Symmetry == Permutations(Replicas)

=============================================================================
