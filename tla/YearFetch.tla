------------------------------ MODULE YearFetch ------------------------------
(***************************************************************************)
(* Fetch coordination of internal/scheduler/scheduler.go.                   *)
(*                                                                         *)
(* fetchAndStore is single-flight per year: the caller whose LoadOrStore    *)
(* wins leads, everybody else waits for the leader's result or for its own  *)
(* context.  Request handlers and prewarm call it synchronously, the        *)
(* maintenance loop for stale years, and ScheduleYearFetch from background  *)
(* tasks that hold one slot per year.  Failed attempts put the year into a  *)
(* cooldown (its timing is FetchCooldown's subject; here it just ends).     *)
(* Background goroutines are counted in a WaitGroup that Scheduler.Wait     *)
(* drains at shutdown, after refusing new ones.                             *)
(***************************************************************************)
EXTENDS Integers, FiniteSets

CONSTANTS Requests,   \* goroutines that call fetchAndStore synchronously
          Loops,      \* the goroutines StartBackground starts
          Tasks,      \* goroutines of ScheduleYearFetch and StartBackgroundFetch
          Years,
          None

Callers == Requests \cup Loops \cup Tasks
Counted == Loops \cup Tasks      \* members of the WaitGroup while they live

ASSUME CallerAssumption == /\ Requests \cap Loops = {}
                           /\ (Requests \cup Loops) \cap Tasks = {}
                           /\ None \notin Callers \cup Years
                           /\ IsFiniteSet(Counted)

VARIABLES
  row,        \* year -> fresh, stale, or missing: absent or not decodable
  cooling,    \* year -> its retryAt lies in the future
  leader,     \* inflight: year -> the caller that stored the entry, or None
  published,  \* year -> outcome once the entry's done channel is closed, or None
  pc, target, \* caller -> where it is, and for which year
  outcome,    \* caller -> what its call will return, or None
  ctx,        \* caller -> live, canceled, deadline: its own context, while the
              \*           call can still consult it
  attempted,  \* caller -> attemptedFetch
  tracking,   \* the discovery task's coalescing flag
  yearTasks,  \* year -> the task holding its slot, or None
  wg,         \* the WaitGroup's counter
  bgClosed,   \* background admission is over
  appDone,    \* the application context is cancelled
  waiter      \* Scheduler.Wait: no, waiting, done, expired

flightVars == <<leader, published>>
callVars   == <<pc, target, outcome, ctx, attempted>>
bgVars     == <<tracking, yearTasks, wg, bgClosed, appDone, waiter>>
vars       == <<row, cooling, flightVars, callVars, bgVars>>

Successes == {"fetched", "fresh"}
Outcomes  == Successes \cup {"canceled", "deadline", "failed", "cooldown"}
CtxErrors == {"canceled", "deadline"}
ASSUME OutcomeAssumption ==
  None \notin Outcomes \cup {"open", "stored", "found", "unsure", "failing"}

\* Program counters of a leader between LoadOrStore and its deferred function.
Fetching == {"peek", "cooldown", "upstream", "store", "settle"}
Leading  == Fetching \cup {"publish", "delete"}
\* Those of any call under way.
Calling  == Leading \cup {"join", "wait", "woken", "return"}
\* A task between admission and wg.Done.
Alive    == Calling \cup {"track", "done"}
\* Where a call consults its context; one that ends elsewhere is noticed there.
Consulting == {"peek", "upstream", "store", "wait", "woken"}

-----------------------------------------------------------------------------
Init ==
  /\ row \in [Years -> {"missing", "fresh", "stale"}]
  /\ cooling = [y \in Years |-> FALSE]
  /\ leader = [y \in Years |-> None]
  /\ published = [y \in Years |-> None]
  /\ pc = [c \in Callers |-> "idle"]
  /\ target = [c \in Callers |-> None]
  /\ outcome = [c \in Callers |-> None]
  /\ ctx = [c \in Callers |-> "live"]
  /\ attempted = [c \in Callers |-> FALSE]
  /\ tracking = FALSE
  /\ yearTasks = [y \in Years |-> None]
  /\ wg = Cardinality(Loops)
  /\ bgClosed = FALSE
  /\ appDone = FALSE
  /\ waiter = "no"

Goto(c, l) == pc' = [pc EXCEPT ![c] = l]

\* The error of c's context: its own, or the application's it derives from.
CtxErr(c) == IF ctx[c] # "live" THEN ctx[c] ELSE IF appDone THEN "canceled" ELSE "live"

\* The call settles on outcome o and goes on at l.
Decide(c, o, l) == /\ outcome' = [outcome EXCEPT ![c] = o]
                   /\ ctx' = [ctx EXCEPT ![c] = "live"]
                   /\ Goto(c, l)
Finish(c, o)  == Decide(c, o, "settle")      \* return: run the deferred function
Proceed(c, l) == Goto(c, l) /\ UNCHANGED <<outcome, ctx>>

-----------------------------------------------------------------------------
(* fetchAndStore                                                            *)

\* A request or a loop calls it; tasks are started by ScheduleYearFetch.
Call(c, y) ==
  /\ c \in Requests \cup Loops
  /\ pc[c] = "idle"
  /\ c \in Loops => ~appDone
  /\ Goto(c, "join")
  /\ target' = [target EXCEPT ![c] = y]
  /\ UNCHANGED <<row, cooling, flightVars, outcome, ctx, attempted, bgVars>>

\* The caller's context ends: the client leaves, or its timeout passes.
EndContext(c, how) ==
  /\ pc[c] \in Consulting
  /\ ctx[c] = "live"
  /\ ctx' = [ctx EXCEPT ![c] = how]
  /\ UNCHANGED <<row, cooling, flightVars, pc, target, outcome, attempted, bgVars>>

\* LoadOrStore finds no entry: lead.
Lead(c) ==
  LET y == target[c] IN
  /\ pc[c] = "join"
  /\ leader[y] = None
  /\ leader' = [leader EXCEPT ![y] = c]
  /\ published' = [published EXCEPT ![y] = None]
  /\ Goto(c, "peek")
  /\ UNCHANGED <<row, cooling, target, outcome, ctx, attempted, bgVars>>

\* LoadOrStore finds an entry: wait for it; it may be finished already.
Follow(c) ==
  LET y == target[c] IN
  /\ pc[c] = "join"
  /\ leader[y] # None
  /\ outcome' = [outcome EXCEPT ![c] = published[y]]
  /\ Goto(c, IF published[y] = None THEN "wait" ELSE "woken")
  /\ UNCHANGED <<row, cooling, flightVars, target, ctx, attempted, bgVars>>

AbandonDropsEntry(c) ==
  /\ pc[c] \in {"wait", "woken"}
  /\ CtxErr(c) # "live"
  /\ Decide(c, CtxErr(c), "return")
  /\ leader' = [leader EXCEPT ![target[c]] = None]
  /\ UNCHANGED <<row, cooling, published, target, attempted, bgVars>>

\* The waiter's select sees its own context first.
Abandon(c) ==
  /\ pc[c] \in {"wait", "woken"}
  /\ CtxErr(c) # "live"
  /\ Decide(c, CtxErr(c), "return")
  /\ UNCHANGED <<row, cooling, flightVars, target, attempted, bgVars>>

\* The waiter's select sees the closed channel and returns the shared result.
Wake(c) ==
  /\ pc[c] = "woken"
  /\ Decide(c, outcome[c], "return")
  /\ UNCHANGED <<row, cooling, flightVars, target, attempted, bgVars>>

PeekIgnoringRow(c) ==
  /\ pc[c] = "peek"
  /\ \/ CtxErr(c) # "live" /\ Finish(c, CtxErr(c))
     \/ Finish(c, "failed")
     \/ CtxErr(c) = "live" /\ Proceed(c, "cooldown")
  /\ UNCHANGED <<row, cooling, flightVars, target, attempted, bgVars>>

\* PeekDecodedYear: an error ends the call, a fresh valid row skips the fetch.
Peek(c) ==
  /\ pc[c] = "peek"
  /\ \/ CtxErr(c) # "live" /\ Finish(c, CtxErr(c))
     \/ Finish(c, "failed")
     \/ CtxErr(c) = "live" /\ row[target[c]] = "fresh" /\ Finish(c, "fresh")
     \/ CtxErr(c) = "live" /\ row[target[c]] # "fresh" /\ Proceed(c, "cooldown")
  /\ UNCHANGED <<row, cooling, flightVars, target, attempted, bgVars>>

HeldBackUnlessMissing(c) == cooling[target[c]] /\ row[target[c]] # "missing"

\* fetchCooldownRemaining is positive.
HeldBack(c) == cooling[target[c]]

CheckCooldown(c) ==
  /\ pc[c] = "cooldown"
  /\ IF HeldBack(c)
     THEN Finish(c, "cooldown") /\ UNCHANGED attempted
     ELSE /\ Proceed(c, "upstream")
          /\ attempted' = [attempted EXCEPT ![c] = TRUE]
  /\ UNCHANGED <<row, cooling, flightVars, target, bgVars>>

\* The errors fetchContext may end with: the caller's own, or its two minutes.
FetchCtxErrors(c) == {"deadline"} \cup (IF CtxErr(c) = "canceled" THEN {"canceled"} ELSE {})

\* The ways a call under fetchContext may fail: its context, or the operation
\* itself (a panic is recovered into an error).
FetchErrors(c) == {"failed"} \cup FetchCtxErrors(c)

\* AniList answers, fails, or is cut off.
Upstream(c) ==
  /\ pc[c] = "upstream"
  /\ \/ Proceed(c, "store")
     \/ \E e \in FetchErrors(c) : Finish(c, e)
  /\ UNCHANGED <<row, cooling, flightVars, target, attempted, bgVars>>

\* Encode and SetYearContext.  A context that ends while the INSERT commits makes
\* SetYearContext return its error although the row is stored.
Store(c) ==
  /\ pc[c] = "store"
  /\ \/ /\ row' = [row EXCEPT ![target[c]] = "fresh"]
        /\ \E o \in {"fetched"} \cup FetchCtxErrors(c) : Finish(c, o)
     \/ UNCHANGED row /\ \E e \in FetchErrors(c) : Finish(c, e)
  /\ UNCHANGED <<cooling, flightVars, target, attempted, bgVars>>

\* Deferred: success clears the failure record; a failed attempt that was not
\* cancelled starts a cooldown.
Settle(c) ==
  LET y == target[c] IN
  /\ pc[c] = "settle"
  /\ cooling' = [cooling EXCEPT ![y] =
                   IF outcome[c] \in Successes THEN FALSE
                   ELSE IF attempted[c] /\ outcome[c] # "canceled" THEN TRUE
                   ELSE @]
  /\ attempted' = [attempted EXCEPT ![c] = FALSE]
  /\ Goto(c, "publish")
  /\ UNCHANGED <<row, flightVars, target, outcome, ctx, bgVars>>

PublishOnlySuccess(c) ==
  LET y == target[c] IN
  /\ pc[c] = "publish"
  /\ IF outcome[c] \in Successes
     THEN /\ published' = [published EXCEPT ![y] = outcome[c]]
          /\ outcome' = [d \in Callers |-> IF pc[d] = "wait" /\ target[d] = y
                                           THEN outcome[c] ELSE outcome[d]]
          /\ pc' = [d \in Callers |-> IF d = c THEN "delete"
                                      ELSE IF pc[d] = "wait" /\ target[d] = y THEN "woken"
                                      ELSE pc[d]]
     ELSE Goto(c, "delete") /\ UNCHANGED <<published, outcome>>
  /\ UNCHANGED <<row, cooling, leader, target, ctx, attempted, bgVars>>

\* Deferred: fill the result and close(done), which every waiter sees.
Publish(c) ==
  LET y == target[c]
      waiting(d) == pc[d] = "wait" /\ target[d] = y
  IN
  /\ pc[c] = "publish"
  /\ published' = [published EXCEPT ![y] = outcome[c]]
  /\ outcome' = [d \in Callers |-> IF waiting(d) THEN outcome[c] ELSE outcome[d]]
  /\ pc' = [d \in Callers |-> IF d = c THEN "delete" ELSE IF waiting(d) THEN "woken" ELSE pc[d]]
  /\ UNCHANGED <<row, cooling, leader, target, ctx, attempted, bgVars>>

\* Deferred: inflight.Delete.
Delete(c) ==
  /\ pc[c] = "delete"
  /\ leader' = [leader EXCEPT ![target[c]] = None]
  /\ published' = [published EXCEPT ![target[c]] = None]
  /\ Goto(c, "return")
  /\ UNCHANGED <<row, cooling, target, outcome, ctx, attempted, bgVars>>

\* The call returns to a request or a loop.
Return(c) ==
  /\ pc[c] = "return"
  /\ c \notin Tasks
  /\ Goto(c, "idle")
  /\ target' = [target EXCEPT ![c] = None]
  /\ outcome' = [outcome EXCEPT ![c] = None]
  /\ UNCHANGED <<row, cooling, flightVars, ctx, attempted, bgVars>>

-----------------------------------------------------------------------------
(* Background work                                                          *)

AdmittingUntilCancel == TRUE

\* Under bgMu: background admission is open.
Admitting == ~bgClosed

\* What ScheduleYearFetch answers at this moment.
Schedule(y) == IF ~Admitting \/ appDone THEN "rejected"
               ELSE IF yearTasks[y] # None THEN "already"
               ELSE "scheduled"

\* ScheduleYearFetch reserves the slot and starts task t.
ScheduleYearFetch(t, y) ==
  /\ pc[t] = "idle"
  /\ Schedule(y) = "scheduled"
  /\ yearTasks' = [yearTasks EXCEPT ![y] = t]
  /\ wg' = wg + 1
  /\ target' = [target EXCEPT ![t] = y]
  /\ Goto(t, "join")
  /\ UNCHANGED <<row, cooling, flightVars, outcome, ctx, attempted, tracking, bgClosed, appDone, waiter>>

\* The task's deferred function gives the slot back, whatever happened ...
ReleaseSlot(t) ==
  /\ t \in Tasks
  /\ pc[t] = "return"
  /\ yearTasks' = [yearTasks EXCEPT ![target[t]] = None]
  /\ target' = [target EXCEPT ![t] = None]
  /\ outcome' = [outcome EXCEPT ![t] = None]
  /\ Goto(t, "done")
  /\ UNCHANGED <<row, cooling, flightVars, ctx, attempted, tracking, wg, bgClosed, appDone, waiter>>

\* Process: discovery starts at most one tracking task; a refusal at shutdown
\* leaves the flag set.
StartTracking(t) ==
  /\ pc[t] = "idle"
  /\ ~tracking
  /\ tracking' = TRUE
  /\ IF Admitting
     THEN wg' = wg + 1 /\ Goto(t, "track")
     ELSE UNCHANGED <<wg, pc>>
  /\ UNCHANGED <<row, cooling, flightVars, target, outcome, ctx, attempted,
                 yearTasks, bgClosed, appDone, waiter>>

EndTracking(t) ==
  /\ pc[t] = "track"
  /\ tracking' = FALSE
  /\ Goto(t, "done")
  /\ UNCHANGED <<row, cooling, flightVars, target, outcome, ctx, attempted,
                 yearTasks, wg, bgClosed, appDone, waiter>>

DoneUncounted(t) ==
  /\ pc[t] = "done"
  /\ Goto(t, "idle")
  /\ UNCHANGED <<row, cooling, flightVars, target, outcome, ctx, attempted, bgVars>>

\* ... and wg.Done comes last.
Done(t) ==
  /\ pc[t] = "done"
  /\ wg' = wg - 1
  /\ Goto(t, "idle")
  /\ UNCHANGED <<row, cooling, flightVars, target, outcome, ctx, attempted,
                 tracking, yearTasks, bgClosed, appDone, waiter>>

LoopExitDeaf(l) == pc[l] = "idle" /\ appDone /\ FALSE /\ UNCHANGED vars

\* A loop of StartBackground sees the cancelled context between two rounds.
LoopExit(l) ==
  /\ pc[l] = "idle"
  /\ appDone
  /\ Goto(l, "exited")
  /\ wg' = wg - 1
  /\ UNCHANGED <<row, cooling, flightVars, target, outcome, ctx, attempted,
                 tracking, yearTasks, bgClosed, appDone, waiter>>

CancelApp ==
  /\ ~appDone
  /\ appDone' = TRUE
  /\ UNCHANGED <<row, cooling, flightVars, callVars, tracking, yearTasks, wg, bgClosed, waiter>>

\* Scheduler.Wait, which runContext calls after cancelling: no more admission.
BeginWait ==
  /\ appDone /\ waiter = "no"
  /\ bgClosed' = TRUE
  /\ waiter' = "waiting"
  /\ UNCHANGED <<row, cooling, flightVars, callVars, tracking, yearTasks, wg, appDone>>

EndWait ==
  /\ waiter = "waiting"
  /\ wg = 0
  /\ waiter' = "done"
  /\ UNCHANGED <<row, cooling, flightVars, callVars, tracking, yearTasks, wg, bgClosed, appDone>>

\* The five seconds of the caller's context are over first.
ExpireWait ==
  /\ waiter = "waiting"
  /\ waiter' = "expired"
  /\ UNCHANGED <<row, cooling, flightVars, callVars, tracking, yearTasks, wg, bgClosed, appDone>>

-----------------------------------------------------------------------------
(* Time and other users of the store                                        *)

\* Freshness runs out.
Age(y) ==
  /\ row[y] = "fresh"
  /\ row' = [row EXCEPT ![y] = "stale"]
  /\ UNCHANGED <<cooling, flightVars, callVars, bgVars>>

\* The row is cleared or pruned.
Remove(y) ==
  /\ row[y] # "missing"
  /\ row' = [row EXCEPT ![y] = "missing"]
  /\ UNCHANGED <<cooling, flightVars, callVars, bgVars>>

\* retryAt passes, or the bounded failure table evicts the year.
Expire(y) ==
  /\ cooling[y]
  /\ cooling' = [cooling EXCEPT ![y] = FALSE]
  /\ UNCHANGED <<row, flightVars, callVars, bgVars>>

-----------------------------------------------------------------------------
LeaderStep(c) == Peek(c) \/ CheckCooldown(c) \/ Upstream(c) \/ Store(c)
                 \/ Settle(c) \/ Publish(c) \/ Delete(c)
CallStep(c) == Lead(c) \/ Follow(c) \/ Abandon(c) \/ Wake(c) \/ LeaderStep(c) \/ Return(c)
TaskStep(t) == ReleaseSlot(t) \/ EndTracking(t) \/ Done(t)

FetchNext ==
  \/ \E c \in Callers : CallStep(c) \/ \E how \in {"canceled", "deadline"} : EndContext(c, how)
  \/ \E t \in Tasks : TaskStep(t)
  \/ \E l \in Loops : LoopExit(l) \/ \E y \in Years : Call(l, y)
  \/ CancelApp \/ BeginWait \/ EndWait \/ ExpireWait
  \/ \E y \in Years : Age(y) \/ Remove(y) \/ Expire(y)

Next ==
  \/ FetchNext
  \/ \E c \in Requests, y \in Years : Call(c, y)
  \/ \E t \in Tasks : StartTracking(t) \/ \E y \in Years : ScheduleYearFetch(t, y)

\* What goroutine c does by itself once started.
Goroutine(c) == CallStep(c) \/ (c \in Tasks /\ TaskStep(c)) \/ (c \in Loops /\ LoopExit(c))

(***************************************************************************)
(* Goroutines are scheduled and every operation of a call returns: SQLite   *)
(* gives up after its busy retries, FetchYear after two minutes.  Nothing   *)
(* is assumed about contexts ending.                                        *)
(***************************************************************************)
Fairness == WF_vars(EndWait) /\ \A c \in Callers : WF_vars(Goroutine(c))

Spec == Init /\ [][Next]_vars /\ Fairness

-----------------------------------------------------------------------------
(* Properties                                                               *)

(***************************************************************************)
(* A year that is stored fresh and valid is not fetched again: a caller     *)
(* that decided to fetch still finds no fresh row when it stores.           *)
(***************************************************************************)
FreshNotRefetched ==
  \A c \in Callers : pc[c] \in {"cooldown", "upstream", "store"} => row[target[c]] # "fresh"

\* No upstream attempt is under way for a year in cooldown, whatever began it.
CooldownHonoured ==
  \A c \in Callers : pc[c] \in {"upstream", "store"} => ~cooling[target[c]]

\* A year's flight and a call, seen from outside.
Course(o) == CASE o = "fetched" -> "stored"
               [] o = "fresh" -> "found"
               [] o \in CtxErrors -> "unsure"
               [] o \in {"failed", "cooldown"} -> "failing"
               [] OTHER -> "open"
Flight(y) == IF leader[y] = None \/ published[y] # None THEN published[y]
             ELSE Course(outcome[leader[y]])
Stage(c) == CASE pc[c] = "join" -> "asked"
              [] pc[c] \in Fetching \cup {"publish", "wait"} -> "aboard"
              [] pc[c] = "woken" -> "landed"
              [] pc[c] \in {"delete", "return"} -> "answered"
              [] OTHER -> "out"

Flights == INSTANCE YearFlights WITH
             Errors <- Outcomes \ Successes,
             flight <- [y \in Years |-> Flight(y)],
             stage <- [c \in Callers |-> Stage(c)],
             bound <- target,
             answer <- [c \in Callers |-> IF Stage(c) \in {"landed", "answered"}
                                         THEN outcome[c] ELSE None]

(***************************************************************************)
(* fetchAndStore keeps the promise of YearFlights: one flight per year at a *)
(* time, whoever joins, gives up or retries; its leader alone stores, and   *)
(* never over a fresh row; "nil" means that the row was fresh at a moment   *)
(* of that flight, "fetched" that the flight stored it, a failure that it   *)
(* stored nothing, and a context's error leaves that open; everybody on     *)
(* board gets that outcome or his own context's error, and nobody is left   *)
(* behind.                                                                  *)
(***************************************************************************)
FlightsKept == Flights!Spec

(***************************************************************************)
(* One task per year and no leaked slot: a year's slot is reserved exactly  *)
(* while a task for it runs, and the WaitGroup counts every live goroutine. *)
(***************************************************************************)
SlotsMatchTasks ==
  /\ \A y \in Years, t \in Tasks :
        yearTasks[y] = t <=> pc[t] \in Calling /\ target[t] = y
  /\ wg = Cardinality({c \in Counted : \/ c \in Tasks /\ pc[c] \in Alive
                                       \/ c \in Loops /\ pc[c] # "exited"})

(***************************************************************************)
(* Once Wait has returned nil no background goroutine runs again, so the    *)
(* cache can be closed under nobody's feet.                                 *)
(***************************************************************************)
QuietAfterWait ==
  waiter = "done" => /\ \A t \in Tasks : pc[t] = "idle"
                     /\ \A l \in Loops : pc[l] = "exited"

\* Every call of a request or a loop returns, also when nobody's context ends
\* and it waits for another caller's fetch.  (For tasks, see WaitEnds.)
CallsReturn == \A c \in Requests \cup Loops : pc[c] \in Calling ~> pc[c] \notin Calling

\* Cancellation drains the background work: Wait ends unless its time runs out.
WaitEnds == waiter = "waiting" ~> waiter \in {"done", "expired"}
=============================================================================
