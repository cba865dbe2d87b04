------------------------------ MODULE YearReads ------------------------------
(***************************************************************************)
(* What internal/cache promises the readers of a year, without the memory   *)
(* in front of SQLite: a read takes the row once, at one moment between     *)
(* call and return, and answers with the decoding of exactly that row or    *)
(* with an error.  Rows change whenever they like.                          *)
(***************************************************************************)
CONSTANTS Readers, Years,
          Row,     \* what a row may hold, the absence of a row included
          Nothing, \* no value taken yet
          Failed   \* the error answer

VARIABLES rows,   \* year -> its row
          stage,  \* reader -> idle, asked, taken, answered
          asked,  \* reader -> the year of its call
          value   \* reader -> the row taken, then the answer

vars == <<rows, stage, asked, value>>

Init ==
  /\ rows \in [Years -> Row]
  /\ stage = [r \in Readers |-> "idle"]
  /\ asked \in [Readers -> Years]
  /\ value = [r \in Readers |-> Nothing]

Move(r, from, to) == stage[r] \in from /\ stage' = [stage EXCEPT ![r] = to]

Ask(r, y) ==
  /\ Move(r, {"idle"}, "asked")
  /\ asked' = [asked EXCEPT ![r] = y]
  /\ UNCHANGED <<rows, value>>

\* The moment at which the read takes effect.
Take(r) ==
  /\ Move(r, {"asked"}, "taken")
  /\ value' = [value EXCEPT ![r] = rows[asked[r]]]
  /\ UNCHANGED <<rows, asked>>

Answer(r) ==
  /\ Move(r, {"taken"}, "answered")
  /\ UNCHANGED <<rows, asked, value>>

Refuse(r) ==
  /\ Move(r, {"asked", "taken"}, "answered")
  /\ value' = [value EXCEPT ![r] = Failed]
  /\ UNCHANGED <<rows, asked>>

Leave(r) ==
  /\ Move(r, {"answered"}, "idle")
  /\ value' = [value EXCEPT ![r] = Nothing]
  /\ UNCHANGED <<rows, asked>>

Change ==
  /\ rows' \in [Years -> Row]
  /\ UNCHANGED <<stage, asked, value>>

Next == Change \/ \E r \in Readers : \/ Take(r) \/ Answer(r) \/ Refuse(r) \/ Leave(r)
                                     \/ \E y \in Years : Ask(r, y)

Spec == Init /\ [][Next]_vars
=============================================================================
