---------------------------- MODULE FetchCooldown ----------------------------
(***************************************************************************)
(* The failure table of internal/scheduler/scheduler.go: recordFetchFailure *)
(* doubles a year's delay from Base to MaxDelay, drops entries that have    *)
(* been over for more than MaxDelay and, at MaxTracked entries, evicts the  *)
(* one with the oldest retryAt.  A failing leader takes its timestamp       *)
(* before it locks the table, so records of different years may reach the   *)
(* table out of order.  Time advances in abstract ticks.                    *)
(***************************************************************************)
EXTENDS Integers, FiniteSets, Functions, FiniteSetsExt

CONSTANTS Years, Base, MaxDelay, MaxTracked,
          Horizon   \* bound: the last tick explored

ASSUME CooldownAssumption == /\ Base \in Nat \ {0} /\ MaxDelay \in Nat /\ Base <= MaxDelay
                             /\ MaxTracked \in Nat \ {0} /\ Horizon \in Nat
                             /\ IsFiniteSet(Years)

VARIABLES
  failures,  \* tracked year -> [retryAt, delay]
  now,
  attempt,   \* year -> no, upstream, failed: what its leader is doing; there is
             \*         at most one (YearFlights)
  stamp      \* year -> the time its failing leader read

vars == <<failures, now, attempt, stamp>>

Tracked == DOMAIN failures

Init == /\ failures = [y \in {} |-> [retryAt |-> 0, delay |-> 0]]
        /\ now = 0
        /\ attempt = [y \in Years |-> "no"]
        /\ stamp = [y \in Years |-> 0]

\* fetchCooldownRemaining is positive at time t.
Active(y, t) == y \in Tracked /\ failures[y].retryAt > t

Least(S, f) == {y \in S : \A z \in S : f[y].retryAt <= f[z].retryAt}

\* The delay after a failure: the first one, or twice the last one, capped.
NextDelay(y) == LET delay == IF y \in Tracked THEN 2 * failures[y].delay ELSE Base
                IN  IF delay > MaxDelay THEN MaxDelay ELSE delay

\* Entries that stay when a failure at time t is recorded.
Kept(t) == {y \in Tracked : ~(t - failures[y].retryAt > MaxDelay)}

\* The years the bound may cost, when a new year y arrives at the kept ones.
VictimsAny(y, kept) == IF y \notin kept /\ Cardinality(kept) >= MaxTracked THEN kept ELSE {}
VictimsLate(y, kept) ==
  IF y \notin kept /\ Cardinality(kept) > MaxTracked THEN Least(kept, failures) ELSE {}
Victims(y, kept) ==
  IF y \notin kept /\ Cardinality(kept) >= MaxTracked THEN Least(kept, failures) ELSE {}

-----------------------------------------------------------------------------
\* The cooldown check passes and the attempt begins.
Attempt(y) ==
  /\ attempt[y] = "no"
  /\ ~Active(y, now)
  /\ attempt' = [attempt EXCEPT ![y] = "upstream"]
  /\ UNCHANGED <<failures, now, stamp>>

\* The attempt failed: recordFetchFailure reads the clock ...
Stamp(y) ==
  /\ attempt[y] = "upstream"
  /\ attempt' = [attempt EXCEPT ![y] = "failed"]
  /\ stamp' = [stamp EXCEPT ![y] = now]
  /\ UNCHANGED <<failures, now>>

\* ... and then holds the lock to the end.
recordFetchFailure(y) ==
  LET t == stamp[y]
      delay == NextDelay(y)
      kept == Kept(t)
      victims == Victims(y, kept)
  IN
  /\ attempt[y] = "failed"
  /\ \E gone \in IF victims = {} THEN {{}} ELSE {{v} : v \in victims} :
        LET left == (kept \ gone) \cup {y} IN
        failures' = [z \in left |-> IF z = y THEN [retryAt |-> t + delay, delay |-> delay]
                                    ELSE failures[z]]
  /\ attempt' = [attempt EXCEPT ![y] = "no"]
  /\ stamp' = [stamp EXCEPT ![y] = 0]
  /\ UNCHANGED now

\* The attempt was cancelled: nothing is recorded.
Cancelled(y) ==
  /\ attempt[y] = "upstream"
  /\ attempt' = [attempt EXCEPT ![y] = "no"]
  /\ UNCHANGED <<failures, now, stamp>>

\* Success, of an attempt or because the row turned out fresh.
clearFetchFailure(y) ==
  /\ attempt[y] # "failed"
  /\ failures' = Restrict(failures, Tracked \ {y})
  /\ attempt' = [attempt EXCEPT ![y] = "no"]
  /\ UNCHANGED <<now, stamp>>

Tick == /\ now < Horizon
        /\ now' = now + 1
        /\ UNCHANGED <<failures, attempt, stamp>>

Next == \/ \E y \in Years : Attempt(y) \/ Stamp(y) \/ recordFetchFailure(y) \/ Cancelled(y) \/ clearFetchFailure(y)
        \/ Tick

Spec == Init /\ [][Next]_vars

-----------------------------------------------------------------------------
(***************************************************************************)
(* The table keeps its promises whatever the sequence of failures and the   *)
(* order in which they reach the lock: at most MaxTracked years are         *)
(* remembered, and none is held back for more than MaxDelay from now.       *)
(***************************************************************************)
TableBounded ==
  /\ Cardinality(Tracked) <= MaxTracked
  /\ \A y \in Tracked : failures[y].delay \in Base .. MaxDelay /\ failures[y].retryAt <= now + MaxDelay

(***************************************************************************)
(* The bound costs a running cooldown only when there is nothing else to    *)
(* give up: an active entry vanishes without success only if every tracked  *)
(* year is in cooldown, and then it is one that ends first.                 *)
(***************************************************************************)
ActiveKept ==
  [][\A y \in Tracked \ DOMAIN failures' :
       Active(y, now) /\ ~(DOMAIN failures' \subseteq Tracked)
         => \A z \in Tracked : failures[y].retryAt <= failures[z].retryAt]_vars
=============================================================================
