----------------------------- MODULE MCYearFetch -----------------------------
(* YearFetch for TLC: requests are interchangeable.                          *)
EXTENDS YearFetch, TLC

MCSymmetry == Permutations(Requests)
=============================================================================
