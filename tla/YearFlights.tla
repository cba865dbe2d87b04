----------------------------- MODULE YearFlights -----------------------------
(***************************************************************************)
(* What Scheduler.FetchAndStore promises its callers, without leaders,      *)
(* channels and cooldowns.  A year has at most one flight at a time.  The   *)
(* flight is the only thing that makes the row fresh, it does so at most    *)
(* once and only if the row is not fresh already, and it lands with         *)
(*   fetched  if it stored the year,                                        *)
(*   fresh    if it found the year fresh,                                   *)
(*   a context's error if that cut it off: the row may have been stored,    *)
(*   another error if it failed, and then it stored nothing.                *)
(* Everybody on board gets the landing's outcome, unless he leaves with the *)
(* error of his own context; nobody is left on board of a closed flight.    *)
(***************************************************************************)
CONSTANTS Callers, Years, None,
          Errors,   \* outcomes other than fetched and fresh
          CtxErrors \* those among them that a context ends with

VARIABLES row,     \* year -> missing, stale, fresh
          flight,  \* year -> None, open; stored, found, unsure, failing once it is
                   \*         decided; or the outcome it landed with
          stage,   \* caller -> out, asked, aboard, landed, answered
          bound,   \* caller -> the year it asked for
          answer   \* caller -> the outcome it has, or None

vars == <<row, flight, stage, bound, answer>>

Init ==
  /\ row \in [Years -> {"missing", "stale", "fresh"}]
  /\ flight = [y \in Years |-> None]
  /\ stage = [c \in Callers |-> "out"]
  /\ bound = [c \in Callers |-> None]
  /\ answer = [c \in Callers |-> None]

Landed(y) == flight[y] \in Errors \cup {"fetched", "fresh"}

Ask(c, y) ==
  /\ stage[c] = "out"
  /\ stage' = [stage EXCEPT ![c] = "asked"]
  /\ bound' = [bound EXCEPT ![c] = y]
  /\ UNCHANGED <<row, flight, answer>>

\* The first to ask opens the flight, others join it.
Board(c) ==
  LET y == bound[c] IN
  /\ stage[c] = "asked"
  /\ ~Landed(y)
  /\ stage' = [stage EXCEPT ![c] = "aboard"]
  /\ flight' = [flight EXCEPT ![y] = IF @ = None THEN "open" ELSE @]
  /\ UNCHANGED <<row, bound, answer>>

\* Late for a flight that has landed and is not closed yet: share its outcome.
BoardLate(c) ==
  /\ stage[c] = "asked"
  /\ Landed(bound[c])
  /\ stage' = [stage EXCEPT ![c] = "landed"]
  /\ answer' = [answer EXCEPT ![c] = flight[bound[c]]]
  /\ UNCHANGED <<row, flight, bound>>

Find(y) ==
  /\ flight[y] = "open" /\ row[y] = "fresh"
  /\ flight' = [flight EXCEPT ![y] = "found"]
  /\ UNCHANGED <<row, stage, bound, answer>>

\* The row is stored, whether or not the flight gets to know.
Store(y) ==
  /\ flight[y] = "open" /\ row[y] # "fresh"
  /\ row' = [row EXCEPT ![y] = "fresh"]
  /\ \E s \in {"stored", "unsure"} : flight' = [flight EXCEPT ![y] = s]
  /\ UNCHANGED <<stage, bound, answer>>

\* The flight is cut off by a context, or fails; nothing is stored.
Abort(y) ==
  /\ flight[y] = "open"
  /\ \E s \in {"unsure", "failing"} : flight' = [flight EXCEPT ![y] = s]
  /\ UNCHANGED <<row, stage, bound, answer>>

LandsWith(y) == CASE flight[y] = "stored"  -> {"fetched"}
                  [] flight[y] = "found"   -> {"fresh"}
                  [] flight[y] = "unsure"  -> CtxErrors
                  [] flight[y] = "failing" -> Errors \ CtxErrors
                  [] OTHER -> {}

\* c, whose flight it is, has its answer at once; the others collect theirs.
Land(c, o) ==
  LET y == bound[c]
      aboard(d) == stage[d] = "aboard" /\ bound[d] = y
  IN
  /\ aboard(c)
  /\ o \in LandsWith(y)
  /\ flight' = [flight EXCEPT ![y] = o]
  /\ stage' = [d \in Callers |-> IF d = c THEN "answered" ELSE IF aboard(d) THEN "landed" ELSE stage[d]]
  /\ answer' = [d \in Callers |-> IF aboard(d) THEN o ELSE answer[d]]
  /\ UNCHANGED <<row, bound>>

Collect(c) ==
  /\ stage[c] = "landed"
  /\ stage' = [stage EXCEPT ![c] = "answered"]
  /\ UNCHANGED <<row, flight, bound, answer>>

GiveUp(c) ==
  /\ stage[c] \in {"aboard", "landed"}
  /\ stage' = [stage EXCEPT ![c] = "answered"]
  /\ \E e \in CtxErrors : answer' = [answer EXCEPT ![c] = e]
  /\ UNCHANGED <<row, flight, bound>>

CloseFlight(y) ==
  /\ Landed(y)
  /\ flight' = [flight EXCEPT ![y] = None]
  /\ UNCHANGED <<row, stage, bound, answer>>

Leave(c) ==
  /\ stage[c] = "answered"
  /\ stage' = [stage EXCEPT ![c] = "out"]
  /\ bound' = [bound EXCEPT ![c] = None]
  /\ answer' = [answer EXCEPT ![c] = None]
  /\ UNCHANGED <<row, flight>>

\* Rows age, are cleared and are pruned; none becomes fresh.
Decay(y) ==
  /\ row' \in {[row EXCEPT ![y] = v] : v \in {"missing", "stale"}}
  /\ UNCHANGED <<flight, stage, bound, answer>>

Next ==
  \/ \E c \in Callers : \/ Board(c) \/ BoardLate(c) \/ Collect(c) \/ GiveUp(c) \/ Leave(c)
                        \/ \E y \in Years : Ask(c, y)
                        \/ \E o \in Errors \cup {"fetched", "fresh"} : Land(c, o)
  \/ \E y \in Years : Find(y) \/ Store(y) \/ Abort(y) \/ CloseFlight(y) \/ Decay(y)

Spec == Init /\ [][Next]_vars
=============================================================================
