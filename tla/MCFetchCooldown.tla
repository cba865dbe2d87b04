--------------------------- MODULE MCFetchCooldown ---------------------------
(* Instances of FetchCooldown for TLC.                                       *)
EXTENDS FetchCooldown, TLC

\* Years are interchangeable: the table compares their times only.
MCSymmetry == Permutations(Years)
=============================================================================
