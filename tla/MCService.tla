------------------------------ MODULE MCService ------------------------------
(* Service for TLC: one year is prewarmed.                                   *)
EXTENDS Service

MCPrewarmYears == <<2026>>
=============================================================================
