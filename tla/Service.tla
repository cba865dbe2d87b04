------------------------------- MODULE Service -------------------------------
(***************************************************************************)
(* The process of cmd/server/main.go: runContext opens the cache, loads the *)
(* mapping, listens, and starts the two loops of Scheduler.StartBackground  *)
(* and Scheduler.Prewarm beside the request handlers.  When the context     *)
(* ends it waits for prewarm, shuts the server down, waits for background   *)
(* work, each for a limited time, and closes the cache.                     *)
(*                                                                         *)
(* A handler is here somebody who may store years, start tasks and then     *)
(* ends: ListHandler says when it does.  The maintenance loop prunes, scans *)
(* for rows older than their limit and fetches them one by one.  The        *)
(* mapping loop retries and refreshes; what it loads is MappingLoader's.    *)
(***************************************************************************)
EXTENDS Integers, Sequences

CONSTANTS Requests, Years, None,
          PrewarmYears,  \* PREWARM_YEARS, a sequence
          MaxTasks       \* bound: background tasks at a time

ASSUME YearsAssumption == Years \subseteq Int /\ None \notin Years
ASSUME PrewarmAssumption == PrewarmYears \in Seq(Years) /\ MaxTasks \in Nat

VARIABLES
  row,       \* year -> missing, fresh, limit (its age is the limit), stale
  tasks,     \* background year fetches and discovery tasks under way
  busy,      \* handlers under way
  appDone,   \* the context has ended
  bgClosed,  \* the scheduler admits no task any more
  phase,     \* open, load, listen, serve, prewarm, shutdown, wait, close, exited
  failed,    \* runContext's error is not nil
  warm,      \* [pc, at]: prewarm is off, check, fetch or done, at an element
  maint,     \* [pc, queue, year]: off, idle, scan, years, fetch, exited
  mapper,    \* the mapping loop: off, idle, loading, exited
  loaded     \* the resolver has a mapping

work == <<row, tasks, busy, loaded>>
ctl  == <<appDone, bgClosed>>
proc == <<phase, failed>>
vars == <<work, ctl, proc, warm, maint, mapper>>

Init ==
  /\ row \in [Years -> {"missing", "fresh", "limit", "stale"}]
  /\ tasks = 0 /\ busy = {}
  /\ appDone = FALSE /\ bgClosed = FALSE
  /\ phase = "open"
  /\ failed = FALSE
  /\ warm = [pc |-> "off", at |-> 1]
  /\ maint = [pc |-> "off", queue |-> {}, year |-> None]
  /\ mapper = "off" /\ loaded = FALSE

-----------------------------------------------------------------------------
(* runContext                                                               *)

To(p)    == phase' = p /\ UNCHANGED failed
Fails(p) == phase' = p /\ failed' = TRUE

\* The data directories are checked and the cache is opened.
OpenCache ==
  /\ phase = "open"
  /\ To("load") \/ Fails("exited")
  /\ UNCHANGED <<work, ctl, warm, maint, mapper>>

\* The mapping is loaded or not; a signal meanwhile ends the start.
LoadResolver ==
  /\ phase = "load"
  /\ To(IF appDone THEN "close" ELSE "listen")
  /\ loaded' \in BOOLEAN
  /\ UNCHANGED <<row, tasks, busy, ctl, warm, maint, mapper>>

\* StartBackground and the prewarm goroutine follow the listener.
Listen ==
  /\ phase = "listen"
  /\ \/ /\ To("serve")
        /\ warm' = [warm EXCEPT !.pc = IF PrewarmYears = <<>> THEN "done" ELSE "check"]
        /\ maint' = [maint EXCEPT !.pc = "idle"]
        /\ mapper' = "idle"
     \/ Fails("close") /\ UNCHANGED <<warm, maint, mapper>>
  /\ UNCHANGED <<work, ctl>>

\* SIGINT, SIGTERM.
Signal ==
  /\ ~appDone /\ phase # "exited"
  /\ appDone' = TRUE
  /\ UNCHANGED <<work, bgClosed, proc, warm, maint, mapper>>

\* Serve fails; cancel() follows.
ServerError ==
  /\ phase = "serve"
  /\ Fails("prewarm")
  /\ appDone' = TRUE
  /\ UNCHANGED <<work, bgClosed, warm, maint, mapper>>

Stop ==
  /\ phase = "serve" /\ appDone
  /\ To("prewarm")
  /\ UNCHANGED <<work, ctl, warm, maint, mapper>>

\* prewarmDone, or five seconds.
AwaitPrewarm ==
  /\ phase = "prewarm"
  /\ \/ warm.pc = "done" /\ To("shutdown")
     \/ warm.pc # "done" /\ Fails("shutdown")
  /\ UNCHANGED <<work, ctl, warm, maint, mapper>>

ShutdownSilently ==
  /\ phase = "shutdown"
  /\ To("wait")
  /\ UNCHANGED <<work, ctl, warm, maint, mapper>>

\* server.Shutdown returns when no handler runs; after ten seconds server.Close
\* drops the connections and waits for nobody.
Shutdown ==
  /\ phase = "shutdown"
  /\ \/ busy = {} /\ To("wait")
     \/ busy # {} /\ Fails("wait")
  /\ UNCHANGED <<work, ctl, warm, maint, mapper>>

\* What the WaitGroup counts.
Background == tasks > 0 \/ maint.pc \notin {"off", "exited"} \/ mapper \in {"idle", "loading"}

\* Scheduler.Wait: admission ends, then the WaitGroup is empty or five seconds pass.
BeginWait ==
  /\ phase = "wait" /\ ~bgClosed
  /\ bgClosed' = TRUE
  /\ UNCHANGED <<work, appDone, proc, warm, maint, mapper>>

EndWait ==
  /\ phase = "wait" /\ bgClosed
  /\ \/ ~Background /\ To("close")
     \/ Background /\ Fails("close")
  /\ UNCHANGED <<work, ctl, warm, maint, mapper>>

\* The deferred db.Close, which may fail.
CloseCache ==
  /\ phase = "close"
  /\ To("exited") \/ Fails("exited")
  /\ UNCHANGED <<work, ctl, warm, maint, mapper>>

Lifecycle == \/ OpenCache \/ LoadResolver \/ Listen \/ Stop \/ AwaitPrewarm \/ Shutdown
             \/ BeginWait \/ EndWait \/ CloseCache

-----------------------------------------------------------------------------
(* Handlers and the tasks they start                                        *)

\* An INSERT that cancellation overtakes may still commit, whatever its caller is
\* told.
Store(y, v) == row' = [row EXCEPT ![y] = v] /\ UNCHANGED <<tasks, busy, loaded>>

\* Connections are accepted, or kept alive, until Shutdown has returned.
Request(q) ==
  /\ phase \in {"serve", "prewarm", "shutdown"} /\ q \notin busy
  /\ busy' = busy \cup {q}
  /\ UNCHANGED <<row, tasks, loaded, ctl, proc, warm, maint, mapper>>

\* handleList: without a mapping 503; a missing year is fetched before the answer.
HandlerStores(y) ==
  /\ busy # {} /\ loaded /\ row[y] = "missing"
  /\ Store(y, "fresh")
  /\ UNCHANGED <<ctl, proc, warm, maint, mapper>>

\* It schedules years, which cancellation refuses, and discovery, which only
\* the end of admission does; slots and coalescing are YearFetch's.
HandlerStartsTask ==
  /\ busy # {} /\ loaded /\ ~bgClosed /\ tasks < MaxTasks
  /\ tasks' = tasks + 1
  /\ UNCHANGED <<row, busy, loaded, ctl, proc, warm, maint, mapper>>

Reply(q) ==
  /\ q \in busy
  /\ busy' = busy \ {q}
  /\ UNCHANGED <<row, tasks, loaded, ctl, proc, warm, maint, mapper>>

\* A background task ends, having stored a year or not.
TaskEnd ==
  /\ tasks > 0
  /\ tasks' = tasks - 1
  /\ \/ \E y \in Years : row' = [row EXCEPT ![y] = "fresh"]
     \/ UNCHANGED row
  /\ UNCHANGED <<busy, loaded, ctl, proc, warm, maint, mapper>>

\* yearFreshAt: a row is fresh below its limit; POST /cache/clear removes all.
Age(y) ==
  /\ \/ row[y] = "fresh" /\ Store(y, "limit")
     \/ row[y] = "limit" /\ Store(y, "stale")
  /\ UNCHANGED <<ctl, proc, warm, maint, mapper>>

Clear ==
  /\ busy # {} /\ ~appDone
  /\ row' = [y \in Years |-> "missing"]
  /\ UNCHANGED <<tasks, busy, loaded, ctl, proc, warm, maint, mapper>>

-----------------------------------------------------------------------------
(* Scheduler.Prewarm                                                        *)

NextWarm == warm' = IF warm.at = Len(PrewarmYears) THEN [warm EXCEPT !.pc = "done"]
                    ELSE [pc |-> "check", at |-> warm.at + 1]

\* A fresh year is skipped; one that is not, or cannot be read, is fetched.
WarmCheck ==
  /\ warm.pc = "check"
  /\ \/ appDone /\ warm' = [warm EXCEPT !.pc = "done"]
     \/ ~appDone /\ row[PrewarmYears[warm.at]] = "fresh" /\ NextWarm
     \/ ~appDone /\ warm' = [warm EXCEPT !.pc = "fetch"]
  /\ UNCHANGED <<work, ctl, proc, maint, mapper>>

\* A failure goes on with the next year, unless the context has ended.  (The
\* read that follows a success only fills the decoded-year cache.)
WarmFetch ==
  /\ warm.pc = "fetch"
  /\ Store(PrewarmYears[warm.at], "fresh") \/ UNCHANGED work
  /\ IF appDone THEN warm' = [warm EXCEPT !.pc = "done"] ELSE NextWarm
  /\ UNCHANGED <<ctl, proc, maint, mapper>>

-----------------------------------------------------------------------------
(* The loops of Scheduler.StartBackground                                   *)

MaintTo(p) == maint' = [maint EXCEPT !.pc = p]

\* The ticker: prune removes the rows of Y (which, is LastHit's subject), or
\* fails; a VACUUM after it changes no row.
Prune(Y) ==
  /\ maint.pc = "idle" /\ ~appDone
  /\ \A y \in Y : row[y] # "missing"
  /\ row' = [y \in Years |-> IF y \in Y THEN "missing" ELSE row[y]]
  /\ MaintTo("scan")
  /\ UNCHANGED <<tasks, busy, loaded, ctl, proc, warm, mapper>>

\* NeedsRefreshYears: older than the limit, not as old as the limit.
Stale(y) == row[y] = "stale"

Scan ==
  /\ maint.pc = "scan" /\ ~appDone
  /\ maint' = [maint EXCEPT !.pc = "years", !.queue = {y \in Years : Stale(y)}]
  /\ UNCHANGED <<work, ctl, proc, warm, mapper>>

ScanFails ==
  /\ maint.pc = "scan"
  /\ MaintTo("idle")
  /\ UNCHANGED <<work, ctl, proc, warm, mapper>>

\* The next year of the scan, in the order SQLite returned them.
NextYear ==
  /\ maint.pc = "years"
  /\ \/ /\ maint.queue = {} \/ appDone
        /\ maint' = [maint EXCEPT !.pc = "idle", !.queue = {}]
     \/ /\ ~appDone
        /\ \E y \in maint.queue : maint' = [pc |-> "fetch", queue |-> maint.queue \ {y}, year |-> y]
  /\ UNCHANGED <<work, ctl, proc, warm, mapper>>

MaintFetchGivingUp ==
  /\ maint.pc = "fetch"
  /\ \/ Store(maint.year, "fresh") /\ maint' = [maint EXCEPT !.pc = "years", !.year = None]
     \/ UNCHANGED work /\ maint' = [pc |-> "idle", queue |-> {}, year |-> None]
  /\ UNCHANGED <<ctl, proc, warm, mapper>>

\* FetchAndStore's error is dropped.
MaintFetch ==
  /\ maint.pc = "fetch"
  /\ Store(maint.year, "fresh") \/ UNCHANGED work
  /\ maint' = [maint EXCEPT !.pc = "years", !.year = None]
  /\ UNCHANGED <<ctl, proc, warm, mapper>>

MaintExitDeaf == maint.pc = "idle" /\ appDone /\ UNCHANGED vars

MaintExit ==
  /\ maint.pc = "idle" /\ appDone
  /\ MaintTo("exited")
  /\ UNCHANGED <<work, ctl, proc, warm, mapper>>

\* The timer of the mapping loop, which is set again whatever the refresh does.
RefreshMapping ==
  /\ mapper = "idle" /\ ~appDone
  /\ mapper' = "loading"
  /\ UNCHANGED <<work, ctl, proc, warm, maint>>

MappingLoaded ==
  /\ mapper = "loading" /\ ~appDone
  /\ mapper' = "idle"
  /\ loaded' = TRUE
  /\ UNCHANGED <<row, tasks, busy, ctl, proc, warm, maint>>

MappingFailsOnce ==
  /\ mapper = "loading"
  /\ mapper' = "exited"
  /\ UNCHANGED <<work, ctl, proc, warm, maint>>

\* A failed or cancelled refresh keeps what there is.
MappingFails ==
  /\ mapper = "loading"
  /\ mapper' = "idle"
  /\ UNCHANGED <<work, ctl, proc, warm, maint>>

MapperExit ==
  /\ mapper = "idle" /\ appDone
  /\ mapper' = "exited"
  /\ UNCHANGED <<work, ctl, proc, warm, maint>>

Maintain == Scan \/ ScanFails \/ NextYear \/ MaintFetch \/ MaintExit \/ \E Y \in SUBSET Years : Prune(Y)

Mapper == RefreshMapping \/ MappingLoaded \/ MappingFails \/ MapperExit

Next ==
  \/ Lifecycle \/ Signal \/ ServerError
  \/ \E q \in Requests : Request(q) \/ Reply(q)
  \/ \E y \in Years : HandlerStores(y) \/ Age(y)
  \/ HandlerStartsTask \/ TaskEnd \/ Clear
  \/ WarmCheck \/ WarmFetch
  \/ Maintain \/ Mapper

(***************************************************************************)
(* Goroutines run, time passes, every call returns (YearFetch's CallsReturn,*)
(* DecodedYear's ReadsReturn) and now and then the table can be scanned and *)
(* the mapping source or its local copy answers.  Nothing is assumed about   *)
(* AniList: every fetch may fail.                                           *)
(***************************************************************************)
Fairness ==
  /\ \A q \in Requests : WF_vars(Reply(q))
  /\ \A y \in Years : WF_vars(row[y] = "limit" /\ Age(y))
  /\ WF_vars(TaskEnd)
  /\ WF_vars(Lifecycle)
  /\ WF_vars(WarmCheck \/ WarmFetch)
  /\ WF_vars(Maintain) /\ SF_vars(Scan)
  /\ WF_vars(Mapper) /\ SF_vars(MappingLoaded)

Spec == Init /\ [][Next]_vars /\ Fairness

-----------------------------------------------------------------------------
Quiet == busy = {} /\ warm.pc \in {"off", "done"} /\ ~Background

(***************************************************************************)
(* "Cancelled handlers must release connections before storage is closed":  *)
(* if runContext ends without an error, then no handler, prewarm, task or   *)
(* loop is left when it closes the cache; whoever is still running then is  *)
(* reported by the exit status.                                             *)
(***************************************************************************)
CleanExit == phase \in {"close", "exited"} /\ ~failed => Quiet

(***************************************************************************)
(* Cancellation alone stops everything: once the context has ended the      *)
(* handlers, prewarm, tasks and loops all come to an end for good, so that  *)
(* no time limit of the shutdown is what ends them.                         *)
(***************************************************************************)
Drains == appDone ~> []Quiet

(***************************************************************************)
(* A year nobody asks for is kept up to date: once its row is not fresh the *)
(* maintenance loop tries to fetch it, whether its age was scanned exactly  *)
(* at the limit, other years fail, or prunes fail, unless the row becomes   *)
(* fresh or vanishes otherwise or the process stops.                        *)
(***************************************************************************)
StaleTried ==
  \A y \in Years : phase = "serve" /\ row[y] \in {"limit", "stale"} ~>
     row[y] \in {"fresh", "missing"} \/ (maint.pc = "fetch" /\ maint.year = y) \/ appDone

\* handleHealth: cache and resolver checks, and the status code they make.
HasYears == \A n \in DOMAIN PrewarmYears : row[PrewarmYears[n]] # "missing"
Health(cacheErr) ==
  [cache    |-> IF cacheErr THEN "unhealthy" ELSE IF HasYears THEN "ok" ELSE "warming",
   resolver |-> IF loaded THEN "ok" ELSE "degraded",
   status   |-> IF cacheErr THEN "unhealthy" ELSE IF loaded THEN "ok" ELSE "degraded",
   code     |-> IF cacheErr \/ ~loaded THEN 503 ELSE 200]

(***************************************************************************)
(* "Health becomes ready without a restart": a service that had to start    *)
(* without a mapping answers health checks that reach SQLite with 200       *)
(* sooner or later, and from then on for good: neither failed refreshes nor *)
(* clears, prunes or a cold cache make it unready again.                    *)
(***************************************************************************)
BecomesReady == phase = "serve" ~> appDone \/ [](phase # "exited" => Health(FALSE).code = 200)
=============================================================================
