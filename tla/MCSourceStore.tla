---------------------------- MODULE MCSourceStore ----------------------------
(* Instances of SourceStore for TLC.                                         *)
EXTENDS SourceStore, TLC

SessionSymmetry == Permutations(Session)
=============================================================================
