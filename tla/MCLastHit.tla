------------------------------ MODULE MCLastHit ------------------------------
(* Instances of LastHit for TLC.                                             *)
EXTENDS LastHit, TLC

\* Readers are interchangeable.
MCSymmetry == Permutations(Readers)
=============================================================================
