----------------------------- MODULE ListHandler -----------------------------
(***************************************************************************)
(* handleList of cmd/server/main.go: GET /list.                             *)
(*                                                                         *)
(* A handler reads the requested year; without a usable row it fetches      *)
(* synchronously and reads again; a winter request also reads the year      *)
(* before and schedules it when it is missing; a stale year is served and   *)
(* scheduled for refresh.  Requests run concurrently with each other, with  *)
(* the background tasks they scheduled and with shutdown.  What is in a     *)
(* response is ListPipeline's subject.  FetchAndStore appears here as what  *)
(* YearFlights promises of it: nil means that the year was stored or found  *)
(* fresh.                                                                   *)
(***************************************************************************)
EXTENDS Integers

CONSTANTS Requests, Years, None

ASSUME YearsAssumption == Years \subseteq Int /\ None \notin Years

VARIABLES
  row,       \* year -> fresh, stale, or missing: absent or not decodable
  slots,     \* yearTasks: the years a background task is held for
  tracking,  \* the discovery task's coalescing flag
  discovery, \* a discovery task runs
  appDone, bgClosed,
  pc,        \* request -> step
  year,      \* request -> requested year, or None
  winter,    \* request -> season is WINTER
  data,      \* request -> the row it read last, or None
  reply,     \* request -> none, error (500), empty (200 []), list
  lacking,   \* history: request -> its year was missing at some time while it ran
  due        \* history: years whose stale rows were served, and not tried since

storeVars == <<row, slots, due, tracking, discovery, appDone, bgClosed>>
reqVars   == <<pc, year, winter, data, reply, lacking>>
vars      == <<storeVars, reqVars>>

Init ==
  /\ row \in [Years -> {"missing", "fresh", "stale"}]
  /\ slots = {} /\ due = {}
  /\ tracking = FALSE /\ discovery = FALSE
  /\ appDone = FALSE /\ bgClosed = FALSE
  /\ pc = [q \in Requests |-> "idle"]
  /\ year = [q \in Requests |-> None]
  /\ winter = [q \in Requests |-> FALSE]
  /\ data = [q \in Requests |-> None]
  /\ reply = [q \in Requests |-> "none"]
  /\ lacking = [q \in Requests |-> FALSE]

Set(f, q, v) == [f EXCEPT ![q] = v]
Respond(q, r) == pc' = Set(pc, q, "replied") /\ reply' = Set(reply, q, r)
Step(q, l)    == pc' = Set(pc, q, l) /\ UNCHANGED reply

\* Every change of the store is seen by the requests under way for that year.
Stored(y, v) == /\ row' = [row EXCEPT ![y] = v]
                /\ lacking' = [q \in Requests |-> lacking[q] \/ (year[q] = y /\ v = "missing")]

-----------------------------------------------------------------------------
\* Scheduler.ScheduleYearFetch: the answer, and the slot it reserves.
Answer(y) == IF bgClosed \/ appDone THEN "rejected"
             ELSE IF y \in slots THEN "already" ELSE "scheduled"
ReserveOneTask(y) == slots' = IF Answer(y) = "scheduled" /\ slots = {} THEN {y} ELSE slots
Reserve(y) == slots' = IF Answer(y) = "scheduled" THEN slots \cup {y} ELSE slots

\* A parsed request for year y; parameters that do not parse end in a 400, and
\* without a mapping every request in a 503.
Arrive(q, y, w) ==
  /\ pc[q] = "idle"
  /\ w => y - 1 \in Years
  /\ pc' = Set(pc, q, "read")
  /\ year' = Set(year, q, y)
  /\ winter' = Set(winter, q, w)
  /\ lacking' = Set(lacking, q, row[y] = "missing")
  /\ UNCHANGED <<storeVars, data, reply>>

\* A cache read fails, also because the client has left.
ReadError(q) ==
  /\ pc[q] \in {"read", "reread", "prior"}
  /\ Respond(q, "error")
  /\ UNCHANGED <<storeVars, year, winter, data, lacking>>

AfterRead(q) == IF winter[q] THEN "prior" ELSE "process"

NeedsFetchWhenStale(q) == row[year[q]] # "fresh"

\* No row, or one that does not decode.
NeedsFetch(q) == row[year[q]] = "missing"

\* Reads and fetches succeed only before cancellation: r.Context derives from it.
Read(q) ==
  /\ pc[q] = "read"
  /\ ~appDone
  /\ data' = Set(data, q, row[year[q]])
  /\ Step(q, IF NeedsFetch(q) THEN "fetch" ELSE AfterRead(q))
  /\ UNCHANGED <<storeVars, year, winter, lacking>>

\* FetchAndStore returns nil: the year was stored, by this call or another.
FetchOk(q) ==
  /\ pc[q] = "fetch"
  /\ ~appDone
  /\ Stored(year[q], "fresh")
  /\ Step(q, "reread")
  /\ UNCHANGED <<slots, due, tracking, discovery, appDone, bgClosed, year, winter, data>>

\* It returns an error.
FetchFailed(q) ==
  /\ pc[q] = "fetch"
  /\ Respond(q, "empty")
  /\ UNCHANGED <<storeVars, year, winter, data, lacking>>

Reread(q) ==
  /\ pc[q] = "reread"
  /\ ~appDone
  /\ data' = Set(data, q, row[year[q]])
  /\ IF row[year[q]] = "missing" THEN Respond(q, "empty") ELSE Step(q, AfterRead(q))
  /\ UNCHANGED <<storeVars, year, winter, lacking>>

\* Winter: the year before, which may not be usable.
ReadPrior(q) ==
  /\ pc[q] = "prior"
  /\ ~appDone
  /\ Step(q, IF row[year[q] - 1] = "missing" THEN "backfill" ELSE "process")
  /\ UNCHANGED <<storeVars, year, winter, data, lacking>>

\* It is scheduled; the answer is not looked at.
ScheduleWinter(q) ==
  LET y == year[q] - 1 IN
  /\ pc[q] = "backfill"
  /\ Reserve(y)
  /\ Step(q, "process")
  /\ UNCHANGED <<row, due, tracking, discovery, appDone, bgClosed, year, winter, data, lacking>>

\* Scheduler.Process: filtering is pure; it may start the discovery task.
CallProcess(q) ==
  /\ pc[q] = "process"
  /\ \/ ~tracking /\ tracking' = TRUE /\ discovery' = ~bgClosed
     \/ UNCHANGED <<tracking, discovery>>
  /\ Step(q, "refresh")
  /\ UNCHANGED <<row, slots, due, appDone, bgClosed, year, winter, data, lacking>>

\* A stale row is served, and its refresh is due; a task that is held already
\* will do.
RefreshAndReply(q) ==
  /\ pc[q] = "refresh"
  /\ IF data[q] # "fresh"
     THEN /\ Reserve(year[q])
          /\ due' = IF appDone THEN due ELSE due \cup {year[q]}
     ELSE UNCHANGED <<slots, due>>
  /\ Respond(q, "list")
  /\ UNCHANGED <<row, tracking, discovery, appDone, bgClosed, year, winter, data, lacking>>

\* The response is written; the goroutine can serve another request.
Finish(q) ==
  /\ pc[q] = "replied"
  /\ pc' = Set(pc, q, "idle")
  /\ year' = Set(year, q, None)
  /\ winter' = Set(winter, q, FALSE)
  /\ data' = Set(data, q, None)
  /\ reply' = Set(reply, q, "none")
  /\ lacking' = Set(lacking, q, FALSE)
  /\ UNCHANGED storeVars

-----------------------------------------------------------------------------
\* A background year task has fetched, or failed, and gives its slot back.
TaskEnd(y) ==
  /\ y \in slots
  /\ slots' = slots \ {y}
  /\ due' = due \ {y}
  /\ \/ Stored(y, "fresh")
     \/ UNCHANGED <<row, lacking>>
  /\ UNCHANGED <<tracking, discovery, appDone, bgClosed, pc, year, winter, data, reply>>

\* Prewarm, the maintenance loop or another request stores the year, or a call
\* that goes on to fail with its context's error did; an INSERT that cancellation
\* overtakes may still commit.
FetchedElsewhere(y) ==
  /\ row[y] # "fresh"
  /\ Stored(y, "fresh")
  /\ UNCHANGED <<slots, due, tracking, discovery, appDone, bgClosed, pc, year, winter, data, reply>>

\* The discovery task is over (what it does is module Discovery's).
DiscoveryEnd ==
  /\ discovery
  /\ discovery' = FALSE /\ tracking' = FALSE
  /\ UNCHANGED <<row, slots, due, appDone, bgClosed, reqVars>>

\* Clearing or pruning removes the row; time makes it stale.
Vanish(y) ==
  /\ row[y] # "missing"
  /\ Stored(y, "missing")
  /\ UNCHANGED <<slots, due, tracking, discovery, appDone, bgClosed, pc, year, winter, data, reply>>

Age(y) ==
  /\ row[y] = "fresh"
  /\ Stored(y, "stale")
  /\ UNCHANGED <<slots, due, tracking, discovery, appDone, bgClosed, pc, year, winter, data, reply>>

CancelApp ==
  /\ ~appDone
  /\ appDone' = TRUE
  /\ UNCHANGED <<row, slots, due, tracking, discovery, bgClosed, reqVars>>

\* Scheduler.Wait closes admission; after an expired server shutdown handlers
\* may still run.
CloseAdmission ==
  /\ appDone /\ ~bgClosed
  /\ bgClosed' = TRUE
  /\ UNCHANGED <<row, slots, due, tracking, discovery, appDone, reqVars>>

Handle(q) == \/ Read(q) \/ FetchOk(q) \/ FetchFailed(q) \/ Reread(q)
             \/ ReadPrior(q) \/ ScheduleWinter(q) \/ CallProcess(q) \/ RefreshAndReply(q) \/ Finish(q)

\* Everything but the end of the discovery task.
HandlerNext ==
  \/ \E q \in Requests : Handle(q) \/ ReadError(q) \/ \E y \in Years, w \in BOOLEAN : Arrive(q, y, w)
  \/ \E y \in Years : TaskEnd(y) \/ FetchedElsewhere(y) \/ Vanish(y) \/ Age(y)
  \/ CancelApp \/ CloseAdmission

-----------------------------------------------------------------------------
(***************************************************************************)
(* Stale data outlives an outage: a request is answered with the degraded   *)
(* empty list only if its year really was missing at some time while it     *)
(* ran, however fetches, clears and refreshes interleave.                   *)
(***************************************************************************)
StaleServed == \A q \in Requests : reply[q] = "empty" => lacking[q]

(***************************************************************************)
(* A stale list never goes out without its refresh: while a year that was   *)
(* served stale has not been tried again since, a task for it is held.      *)
(* Whatever other years' tasks, repeated requests, winter backfills and     *)
(* shutdown do to the slots, the refresh cannot be forgotten; only a list   *)
(* that went out after cancellation has none.                               *)
(***************************************************************************)
StaleRefreshed == due \subseteq slots
=============================================================================
