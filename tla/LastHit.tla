------------------------------- MODULE LastHit -------------------------------
(***************************************************************************)
(* Access accounting and retention of internal/cache/cache.go.              *)
(*                                                                         *)
(* A user read of a cached year returns at once; its last_hit timestamp is  *)
(* debounced, kept in pendingLastHits and written later by one worker       *)
(* goroutine, which retries failed writes on a ticker and makes one final   *)
(* attempt when the cache closes.  Retention pruning deletes years whose    *)
(* last access is older than a cutoff and has to take the accesses that     *)
(* are still pending into account.  /cache/clear drops rows first and the   *)
(* accounting state afterwards.                                             *)
(*                                                                         *)
(* Left out: the hit and miss counters and the failed-write markers, which  *)
(* only feed statistics and logs, and the BLOBs (see DecodedYear).          *)
(***************************************************************************)
EXTENDS Integers, FiniteSets, FiniteSetsExt

CONSTANTS Readers, Years,
          None,        \* no row, no timestamp
          Debounce,    \* lastHitDebounce, in ticks of the clock
          Retention,   \* CACHE_RETENTION_DAYS, in ticks
          MaxTime      \* bound on the clock

ASSUME TimingAssumption == /\ Debounce \in Nat
                           /\ Retention \in Nat
                           /\ MaxTime \in Nat \ {0}
ASSUME NoneAssumption == None \notin Nat \cup [fetched : Nat, hit : Nat]

VARIABLES
  now,           \* the wall clock, in ticks; rows written before it existed have hit 0
  row,           \* year -> [fetched, hit] or None; fetched is tracked while hit is 0
  dbOpen,
  lastHitTimes,  \* year -> time of the last scheduled write, or None
  pending,       \* pendingLastHits: year -> time, or None
  wake,          \* the lastHitWake channel holds its one element
  stopping,      \* lastHitCtx is cancelled
  worker,        \* select, write, settle, stopped
  final,         \* the worker is in its last flush
  batch,         \* the worker's snapshot of pending
  reader,        \* reader -> [pc, year, persisted, at]
  prune,         \* [pc, cutoff, keep]
  clearing,      \* ClearContext has deleted the rows, not the accounting
  used,          \* history: when the row came to be, or the latest access counted since
  snapUsed,      \* history: used as of the pruner's snapshot
  owed           \* history: pending as of the cancellation by Close

storeVars == <<row, dbOpen>>
memVars   == <<lastHitTimes, pending, wake>>
workVars  == <<stopping, worker, final, batch>>
histVars  == <<used, snapUsed, owed>>
vars == <<now, storeVars, memVars, workVars, reader, prune, clearing, histVars>>

-----------------------------------------------------------------------------
NoTimes == [y \in Years |-> None]
NoUse == [y \in Years |-> 0]
Idle == [pc |-> "idle", year |-> None, persisted |-> 0, at |-> 0]
NoPrune == [pc |-> "idle", cutoff |-> 0, keep |-> {}]

\* The timestamp retention goes by: last_hit, or fetched_at for rows without.
Effective(x) == IF x.hit > 0 THEN x.hit ELSE x.fetched

\* What SQLite knows of each row's use.
Persisted == [y \in Years |-> IF row[y] = None THEN 0 ELSE Effective(row[y])]

Init ==
  /\ now = 1
  /\ row \in [Years -> {None, [fetched |-> 0, hit |-> 1], [fetched |-> 1, hit |-> 0]}]
  /\ dbOpen = TRUE
  /\ lastHitTimes = NoTimes
  /\ pending = NoTimes
  /\ wake = FALSE
  /\ stopping = FALSE
  /\ worker = "select"
  /\ final = FALSE
  /\ batch = NoTimes
  /\ reader = [r \in Readers |-> Idle]
  /\ prune = NoPrune
  /\ clearing = FALSE
  /\ used = Persisted
  /\ snapUsed = NoUse
  /\ owed = NoTimes

Tick ==
  /\ now < MaxTime
  /\ now' = now + 1
  /\ UNCHANGED <<storeVars, memVars, workVars, reader, prune, clearing, histVars>>

-----------------------------------------------------------------------------
(* readYearContext with recordAccess                                        *)

\* The SELECT finds the row; a miss or an error changes nothing here.
Read(r, y) ==
  /\ reader[r].pc = "idle"
  /\ dbOpen
  /\ row[y] # None
  /\ reader' = [reader EXCEPT ![r] = [Idle EXCEPT !.pc = "stamp", !.year = y,
                                                  !.persisted = row[y].hit]]
  /\ UNCHANGED <<now, storeVars, memVars, workVars, prune, clearing, histVars>>

\* time.Now() is taken before the lock.
Stamp(r) ==
  /\ reader[r].pc = "stamp"
  /\ reader' = [reader EXCEPT ![r] = [@ EXCEPT !.pc = "queue", !.at = now]]
  /\ UNCHANGED <<now, storeVars, memVars, workVars, prune, clearing, histVars>>

\* Debounce against the last scheduled write, or the persisted timestamp.
Debounced(y, persisted, at) ==
  at - (IF lastHitTimes[y] # None THEN lastHitTimes[y] ELSE persisted) < Debounce

\* queueLastHit; its non-blocking send leaves the wake channel full.
queueLastHit(r) ==
  LET y == reader[r].year
      at == reader[r].at
  IN
  /\ reader[r].pc = "queue"
  /\ IF Debounced(y, reader[r].persisted, at)
     THEN /\ lastHitTimes' = [lastHitTimes EXCEPT
                                ![y] = IF @ = None THEN reader[r].persisted ELSE @]
          /\ UNCHANGED <<pending, wake>>
     ELSE /\ lastHitTimes' = [lastHitTimes EXCEPT ![y] = at]
          /\ pending' = [pending EXCEPT ![y] = at]
          /\ wake' = TRUE
  /\ used' = [used EXCEPT ![y] = IF row[y] # None /\ at > @ THEN at ELSE @]
  /\ reader' = [reader EXCEPT ![r] = Idle]
  /\ UNCHANGED <<now, storeVars, workVars, prune, clearing, snapUsed, owed>>

-----------------------------------------------------------------------------
(* runLastHitWorker and flushLastHits                                       *)

\* The snapshot that a flush begins with; an empty one ends it.
BeginFlush(isFinal) ==
  /\ batch' = pending
  /\ final' = isFinal
  /\ worker' = IF pending # NoTimes THEN "write" ELSE IF isFinal THEN "stopped" ELSE "select"

\* A flush under the cancelled worker context fails at once: the select just
\* consumed its event.  Otherwise wake and ticker start the same flush.
OnWake ==
  /\ worker = "select"
  /\ wake
  /\ wake' = FALSE
  /\ IF stopping THEN UNCHANGED <<worker, batch, final>> ELSE BeginFlush(FALSE)
  /\ UNCHANGED <<now, storeVars, lastHitTimes, pending, stopping, reader, prune, clearing, histVars>>

NoTicker == worker = "select" /\ FALSE /\ UNCHANGED vars

OnTicker ==
  /\ worker = "select"
  /\ ~stopping
  /\ pending # NoTimes
  /\ BeginFlush(FALSE)
  /\ UNCHANGED <<now, storeVars, memVars, stopping, reader, prune, clearing, histVars>>

NoDone == worker = "select" /\ FALSE /\ UNCHANGED vars

QuitWithoutFlush ==
  /\ worker = "select"
  /\ stopping
  /\ worker' = "stopped"
  /\ final' = TRUE
  /\ UNCHANGED <<now, storeVars, memVars, stopping, batch, reader, prune, clearing, histVars>>

\* ctx.Done: one last flush under a fresh one-second context.
OnDone ==
  /\ worker = "select"
  /\ stopping
  /\ BeginFlush(TRUE)
  /\ UNCHANGED <<now, storeVars, memVars, stopping, reader, prune, clearing, histVars>>

Rewritten(x, t) == IF x = None \/ t = None \/ t <= x.hit THEN x
                   ELSE [fetched |-> 0, hit |-> t]

\* UPDATE ... SET last_hit = MAX(last_hit, ...) for the rows of the batch.
\* Resetting busy_timeout or returning the connection may still fail after it.
FlushWrite(ok) ==
  /\ worker = "write"
  /\ row' = [y \in Years |-> Rewritten(row[y], batch[y])]
  /\ used' = [y \in Years |-> IF row'[y] # None /\ row'[y].hit > used[y]
                              THEN row'[y].hit ELSE used[y]]
  /\ worker' = IF ok THEN "settle" ELSE IF final THEN "stopped" ELSE "select"
  /\ batch' = IF ok THEN batch ELSE NoTimes
  /\ UNCHANGED <<now, dbOpen, memVars, stopping, final, reader, prune, clearing, snapUsed, owed>>

\* The UPDATE itself fails (busy, timeout, cancelled): pending stays.
FlushFail ==
  /\ worker = "write"
  /\ worker' = IF final THEN "stopped" ELSE "select"
  /\ batch' = NoTimes
  /\ UNCHANGED <<now, storeVars, memVars, stopping, final, reader, prune, clearing, histVars>>

SettledAlways(y) == batch[y] # None /\ pending[y] # None

\* Only an access the batch covers is settled; a newer one stays pending.
Settled(y) == batch[y] # None /\ pending[y] # None /\ pending[y] <= batch[y]

FlushSettle ==
  /\ worker = "settle"
  /\ pending' = [y \in Years |-> IF Settled(y) THEN None ELSE pending[y]]
  /\ worker' = IF final THEN "stopped" ELSE "select"
  /\ batch' = NoTimes
  /\ UNCHANGED <<now, storeVars, lastHitTimes, wake, stopping, final, reader, prune, clearing, histVars>>

-----------------------------------------------------------------------------
(* Mutations of the table                                                   *)

SetYearRenewing(y) ==
  /\ dbOpen
  /\ used' = [used EXCEPT ![y] = IF row[y] = None THEN now ELSE @]
  /\ row' = [row EXCEPT ![y] = [fetched |-> 0, hit |-> now]]
  /\ UNCHANGED <<now, dbOpen, memVars, workVars, reader, prune, clearing, snapUsed, owed>>

\* SetYearContext: insertion starts the retention window, a refresh keeps it.
SetYear(y) ==
  /\ dbOpen
  /\ used' = [used EXCEPT ![y] = IF row[y] = None THEN now ELSE @]
  /\ row' = [row EXCEPT ![y] = [fetched |-> 0,
                                hit |-> IF @ = None THEN now ELSE Effective(@)]]
  /\ UNCHANGED <<now, dbOpen, memVars, workVars, reader, prune, clearing, snapUsed, owed>>

\* ClearContext: the DELETE ...
ClearRows ==
  /\ dbOpen /\ ~clearing
  /\ row' = NoTimes
  /\ clearing' = TRUE
  /\ used' = NoUse
  /\ UNCHANGED <<now, dbOpen, memVars, workVars, reader, prune, snapUsed, owed>>

\* ... and then, under lastHitMu, the accounting of what was deleted.
ClearAccounting ==
  /\ clearing
  /\ clearing' = FALSE
  /\ lastHitTimes' = NoTimes
  /\ pending' = NoTimes
  /\ used' = Persisted
  /\ owed' = NoTimes
  /\ UNCHANGED <<now, storeVars, wake, workVars, reader, prune, snapUsed>>

KeepNone(cutoff) == {}

\* Years whose pending access is recent enough to protect them.
KeepPending(cutoff) == {y \in Years : pending[y] # None /\ pending[y] >= cutoff}

\* PruneStaleYearsContext: cutoff and pending years, under lastHitMu ...
PruneSnapshot ==
  /\ prune.pc = "idle"
  /\ prune' = [pc |-> "delete", cutoff |-> now - Retention,
               keep |-> KeepPending(now - Retention)]
  /\ snapUsed' = used
  /\ UNCHANGED <<now, storeVars, memVars, workVars, reader, clearing, used, owed>>

\* The rows the DELETE selects.
Prunable == {y \in Years : /\ row[y] # None
                           /\ Effective(row[y]) < prune.cutoff
                           /\ y \notin prune.keep}

\* ... and the DELETE, after any number of busy retries.
PruneDelete ==
  /\ prune.pc = "delete"
  /\ dbOpen
  /\ row' = [y \in Years |-> IF y \in Prunable THEN None ELSE row[y]]
  /\ used' = [y \in Years |-> IF y \in Prunable THEN 0 ELSE used[y]]
  /\ prune' = NoPrune
  /\ snapUsed' = NoUse
  /\ UNCHANGED <<now, dbOpen, memVars, workVars, reader, clearing, owed>>

\* The DELETE fails or its context ends.
PruneFail ==
  /\ prune.pc = "delete"
  /\ prune' = NoPrune
  /\ snapUsed' = NoUse
  /\ UNCHANGED <<now, storeVars, memVars, workVars, reader, clearing, used, owed>>

\* Close: cancel the worker, wait for lastHitDone, close SQLite.
CloseCancel ==
  /\ ~stopping
  /\ stopping' = TRUE
  /\ owed' = pending
  /\ UNCHANGED <<now, storeVars, memVars, worker, final, batch, reader, prune, clearing,
                 used, snapUsed>>

CloseDB ==
  /\ worker = "stopped"
  /\ dbOpen
  /\ dbOpen' = FALSE
  /\ UNCHANGED <<now, row, memVars, workVars, reader, prune, clearing, histVars>>

-----------------------------------------------------------------------------
WorkerStep == \/ OnWake \/ OnTicker \/ OnDone
              \/ \E ok \in BOOLEAN : FlushWrite(ok)
              \/ FlushFail \/ FlushSettle

Next ==
  \/ Tick
  \/ \E r \in Readers : \/ \E y \in Years : Read(r, y)
                        \/ Stamp(r) \/ queueLastHit(r)
  \/ WorkerStep
  \/ \E y \in Years : SetYear(y)
  \/ ClearRows \/ ClearAccounting
  \/ PruneSnapshot \/ PruneDelete \/ PruneFail
  \/ CloseCancel \/ CloseDB

(***************************************************************************)
(* The worker is scheduled; its select picks at random among ready cases,   *)
(* so a lasting cancellation is eventually seen; SQLite is not locked       *)
(* against it forever, so a write that is tried again and again succeeds.   *)
(***************************************************************************)
Fairness == /\ WF_vars(WorkerStep)
            /\ SF_vars(OnDone)
            /\ SF_vars(FlushWrite(TRUE))

Spec == Init /\ [][Next]_vars /\ Fairness

-----------------------------------------------------------------------------
(* Properties                                                               *)

\* The latest use the cache still knows of, in SQLite or in memory.
Known(y) == IF pending[y] # None /\ pending[y] > Effective(row[y])
            THEN pending[y] ELSE Effective(row[y])

(***************************************************************************)
(* No access is lost by more than the debounce window: while a row exists,  *)
(* its persisted or pending timestamp lags behind its insertion and the     *)
(* latest access queueLastHit counted by less than the debounce, whatever   *)
(* the worker, failing writes, refreshes and pruning do.  (What ClearContext *)
(* drops it forgets, also in the history.)                                  *)
(***************************************************************************)
HitsAccounted ==
  \A y \in Years : row[y] # None =>
     used[y] <= Known(y) \/ used[y] - Known(y) < Debounce

(***************************************************************************)
(* A prune deletes no year that had been accessed, when the prune began, a  *)
(* debounce window or more after its cutoff, even if the worker had not     *)
(* written that access yet or is writing it at this moment.                 *)
(***************************************************************************)
PruneRespectsHits ==
  [][\A y \in Years :
       PruneDelete /\ y \in Prunable =>
          snapUsed[y] < prune.cutoff + (IF Debounce = 0 THEN 1 ELSE Debounce)]_vars

(***************************************************************************)
(* Retention ends: what a prune leaves was inserted or read by a user since *)
(* its cutoff.  The refreshes that rewrite a row every week do not keep a   *)
(* year alive that nobody asks for.                                         *)
(***************************************************************************)
PruneForgets ==
  [][\A y \in Years : PruneDelete /\ row'[y] # None =>
                          used[y] >= prune.cutoff \/ snapUsed[y] >= prune.cutoff]_vars

(***************************************************************************)
(* Close does not lose accesses: if the worker's final flush settled, every *)
(* access pending when Close cancelled it is in its row, unless the row is  *)
(* gone.                                                                    *)
(***************************************************************************)
CloseFlushes ==
  [][(worker # "stopped" /\ worker' = "stopped" /\ ~FlushFail /\ ~FlushWrite(FALSE)) =>
       \A y \in Years : row[y] # None /\ owed[y] # None => Effective(row[y]) >= owed[y]]_vars

(***************************************************************************)
(* A failed write is retried without another access: a pending timestamp    *)
(* leaves the queue eventually, unless the cache shuts down.                *)
(***************************************************************************)
PendingDrains == \A y \in Years : pending[y] # None ~> pending[y] = None \/ stopping

\* Close returns: after the cancellation the worker stops, even under load.
WorkerStops == stopping ~> worker = "stopped"
=============================================================================
