---------------------------- MODULE MCDecodedYear ----------------------------
(* Instances of DecodedYear for TLC: sizes of the model BLOBs, symmetry.     *)
EXTENDS DecodedYear, TLC

CONSTANTS blobA, blobB, blobBad

\* blobA and blobBad take one unit of the byte budget, blobB two.
MCSize == [x \in Raw |-> IF x = blobB THEN 2 ELSE 1]

\* Readers are interchangeable, and so are mutators.
MCSymmetry == Permutations(Readers) \cup Permutations(Mutators)
=============================================================================
