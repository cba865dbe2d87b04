--------------------------- MODULE Discovery_proofs ---------------------------
(***************************************************************************)
(* Proofs about the list handlers and the discovery task they start, for    *)
(* any number of requests, years, keys and batches, and about the list that *)
(* a request is answered with, for shows, settings and mappings of any kind *)
(* and lists of any length.                                                 *)
(***************************************************************************)
EXTENDS Discovery, ListPipeline, FiniteSetTheorems, WellFoundedInduction, TLAPS

Rows == {"missing", "fresh", "stale"}
Steps == {"idle", "read", "fetch", "reread", "prior", "backfill", "process", "refresh", "replied"}

HandlerType ==
  /\ row \in [Years -> Rows]
  /\ appDone \in BOOLEAN /\ bgClosed \in BOOLEAN
  /\ pc \in [Requests -> Steps]
  /\ year \in [Requests -> Years \cup {None}]
  /\ data \in [Requests -> Rows \cup {None}]
  /\ reply \in [Requests -> {"none", "error", "empty", "list"}]
  /\ lacking \in [Requests -> BOOLEAN]

\* A request under way has a year, and knows if that year has no row; one
\* that went to fetch has met the missing row.
Watched ==
  \A q \in Requests : pc[q] # "idle" =>
    /\ year[q] \in Years
    /\ row[year[q]] = "missing" => lacking[q]
    /\ pc[q] = "fetch" => lacking[q]

\* An answer is given in the last step.
AnsweredLast == \A q \in Requests : reply[q] # "none" => pc[q] = "replied"

\* Admission closes after cancellation only.
ClosedLate == bgClosed => appDone

HandlerInv == HandlerType /\ Watched /\ AnsweredLast /\ ClosedLate /\ StaleServed

-----------------------------------------------------------------------------
LEMMA HandlerInitially == Init => HandlerInv
  BY YearsAssumption
  DEF Init, HandlerInv, HandlerType, Watched, AnsweredLast, ClosedLate, StaleServed,
      Rows, Steps

\* A change of the store keeps what the requests under way know of it.
LEMMA StoreKeeps ==
  ASSUME HandlerInv, NEW y \in Years, NEW v \in Rows, Stored(y, v),
         UNCHANGED <<appDone, bgClosed, pc, year, data, reply>>
  PROVE  HandlerInv'
<1>1. HandlerType'
  BY DEF HandlerInv, HandlerType, Stored
<1>2. Watched'
  BY DEF HandlerInv, HandlerType, Watched, Stored
<1>3. (AnsweredLast /\ ClosedLate /\ StaleServed)'
  BY DEF HandlerInv, HandlerType, AnsweredLast, ClosedLate, StaleServed, Stored
<1> QED BY <1>1, <1>2, <1>3 DEF HandlerInv

\* A handler that goes on to another step without an answer.
LEMMA StepKeeps ==
  ASSUME HandlerInv, NEW q \in Requests, NEW l \in Steps, Step(q, l), pc[q] \notin {"idle", "replied"},
         l \notin {"idle", "fetch"} \/ (l = "fetch" /\ row[year[q]] = "missing"),
         NEW d \in Rows \cup {None}, data' \in {data, Set(data, q, d)},
         UNCHANGED <<row, appDone, bgClosed, year, lacking>>
  PROVE  HandlerInv'
<1>1. HandlerType'
  BY DEF HandlerInv, HandlerType, Step, Set
<1>2. Watched'
  BY DEF HandlerInv, HandlerType, Watched, Step, Set
<1>3. (AnsweredLast /\ ClosedLate /\ StaleServed)'
  BY DEF HandlerInv, HandlerType, AnsweredLast, ClosedLate, StaleServed, Step, Set
<1> QED BY <1>1, <1>2, <1>3 DEF HandlerInv

\* A handler that answers: without a list, or empty only if the year was missing.
LEMMA RespondKeeps ==
  ASSUME HandlerInv, NEW q \in Requests, NEW r \in {"error", "empty", "list"}, Respond(q, r),
         pc[q] # "idle", r = "empty" => lacking[q],
         NEW d \in Rows \cup {None}, data' \in {data, Set(data, q, d)},
         UNCHANGED <<row, appDone, bgClosed, year, lacking>>
  PROVE  HandlerInv'
<1>1. HandlerType'
  BY DEF HandlerInv, HandlerType, Respond, Set, Steps
<1>2. Watched'
  BY DEF HandlerInv, HandlerType, Watched, Respond, Set
<1>3. (AnsweredLast /\ ClosedLate /\ StaleServed)'
  BY DEF HandlerInv, HandlerType, AnsweredLast, ClosedLate, StaleServed, Respond, Set
<1> QED BY <1>1, <1>2, <1>3 DEF HandlerInv

\* A step that changes nothing the handlers' invariant reads but the two flags.
LEMMA FlagsKeep ==
  ASSUME HandlerInv, appDone' \in BOOLEAN, bgClosed' \in BOOLEAN, bgClosed' => appDone', appDone => appDone',
         UNCHANGED <<row, reqVars>>
  PROVE  HandlerInv'
  BY DEF HandlerInv, HandlerType, Watched, AnsweredLast, ClosedLate, StaleServed, reqVars

LEMMA ArriveKeeps ==
  ASSUME HandlerInv, NEW q \in Requests, NEW y \in Years, NEW w \in BOOLEAN, Arrive(q, y, w)
  PROVE  HandlerInv'
<1> USE DEF Arrive, Set, storeVars
<1>1. HandlerType'
  BY DEF HandlerInv, HandlerType, Steps
<1>2. Watched'
  BY DEF HandlerInv, HandlerType, Watched
<1>3. reply[q] = "none"
  BY DEF HandlerInv, AnsweredLast
<1>4. (AnsweredLast /\ ClosedLate /\ StaleServed)'
  BY <1>3 DEF HandlerInv, HandlerType, AnsweredLast, ClosedLate, StaleServed
<1> QED BY <1>1, <1>2, <1>4 DEF HandlerInv

LEMMA FinishKeeps ==
  ASSUME HandlerInv, NEW q \in Requests, Finish(q)
  PROVE  HandlerInv'
<1> USE DEF Finish, Set, storeVars
<1>1. HandlerType'
  BY DEF HandlerInv, HandlerType, Steps
<1>2. Watched'
  BY DEF HandlerInv, HandlerType, Watched
<1>3. (AnsweredLast /\ ClosedLate /\ StaleServed)'
  BY DEF HandlerInv, HandlerType, AnsweredLast, ClosedLate, StaleServed
<1> QED BY <1>1, <1>2, <1>3 DEF HandlerInv

LEMMA HandleKeeps ==
  ASSUME HandlerInv, NEW q \in Requests, Handle(q) \/ ReadError(q)
  PROVE  HandlerInv'
<1>0. /\ pc[q] # "idle" => year[q] \in Years /\ row[year[q]] \in Rows
      /\ data[q] \in Rows \cup {None}
      /\ AfterRead(q) \in {"prior", "process"}
  BY DEF HandlerInv, HandlerType, Watched, AfterRead
<1>1. CASE ReadError(q)
  BY <1>1, RespondKeeps DEF ReadError, storeVars
<1>2. CASE Read(q)
  BY <1>0, <1>2, StepKeeps DEF Read, NeedsFetch, storeVars, Steps
<1>3. CASE FetchOk(q)
  <2> USE <1>3 DEF FetchOk, Stored, Step, Set
  <2>1. HandlerType'
    BY <1>0 DEF HandlerInv, HandlerType, Rows, Steps
  <2>2. Watched'
    BY <1>0 DEF HandlerInv, HandlerType, Watched
  <2>3. (AnsweredLast /\ ClosedLate /\ StaleServed)'
    BY DEF HandlerInv, HandlerType, AnsweredLast, ClosedLate, StaleServed
  <2> QED BY <2>1, <2>2, <2>3 DEF HandlerInv
<1>4. CASE FetchFailed(q)
  <2>1. lacking[q]
    BY <1>4 DEF FetchFailed, HandlerInv, Watched
  <2> QED BY <1>4, <2>1, RespondKeeps DEF FetchFailed, storeVars
<1>5. CASE Reread(q)
  <2>1. CASE row[year[q]] = "missing"
    <3>1. lacking[q]
      BY <1>5, <2>1 DEF Reread, HandlerInv, Watched
    <3> QED BY <1>0, <1>5, <2>1, <3>1, RespondKeeps DEF Reread, storeVars
  <2>2. CASE row[year[q]] # "missing"
    BY <1>0, <1>5, <2>2, StepKeeps DEF Reread, storeVars, Steps
  <2> QED BY <2>1, <2>2
<1>6. CASE ReadPrior(q)
  BY <1>6, StepKeeps DEF ReadPrior, storeVars, Steps
<1>7. CASE ScheduleWinter(q)
  BY <1>7, StepKeeps DEF ScheduleWinter, Steps
<1>8. CASE CallProcess(q)
  BY <1>8, StepKeeps DEF CallProcess, Steps
<1>9. CASE RefreshAndReply(q)
  BY <1>9, RespondKeeps DEF RefreshAndReply
<1>10. CASE Finish(q)
  BY <1>10, FinishKeeps
<1> QED BY <1>1, <1>2, <1>3, <1>4, <1>5, <1>6, <1>7, <1>8, <1>9, <1>10 DEF Handle

LEMMA HandlerNextKeeps == HandlerInv /\ HandlerNext => HandlerInv'
<1> SUFFICES ASSUME HandlerInv, HandlerNext PROVE HandlerInv'
  OBVIOUS
<1>1. ASSUME NEW q \in Requests, Handle(q) \/ ReadError(q) PROVE HandlerInv'
  BY <1>1, HandleKeeps
<1>2. ASSUME NEW q \in Requests, NEW y \in Years, NEW w \in BOOLEAN, Arrive(q, y, w) PROVE HandlerInv'
  BY <1>2, ArriveKeeps
<1>3. ASSUME NEW y \in Years, TaskEnd(y) PROVE HandlerInv'
  <2>1. CASE Stored(y, "fresh")
    BY <1>3, <2>1, StoreKeeps DEF TaskEnd, Rows
  <2>2. CASE UNCHANGED <<row, lacking>>
    <3>1. appDone' \in BOOLEAN /\ bgClosed' \in BOOLEAN /\ (bgClosed' => appDone')
      BY <1>3 DEF TaskEnd, HandlerInv, HandlerType, ClosedLate
    <3> QED BY <1>3, <2>2, <3>1, FlagsKeep DEF TaskEnd, reqVars
  <2> QED BY <1>3, <2>1, <2>2 DEF TaskEnd
<1>4. ASSUME NEW y \in Years, FetchedElsewhere(y) PROVE HandlerInv'
  BY <1>4, StoreKeeps DEF FetchedElsewhere, Rows
<1>5. ASSUME NEW y \in Years, Vanish(y) PROVE HandlerInv'
  BY <1>5, StoreKeeps DEF Vanish, Rows
<1>6. ASSUME NEW y \in Years, Age(y) PROVE HandlerInv'
  BY <1>6, StoreKeeps DEF Age, Rows
<1>7. CASE CancelApp
  <2>1. appDone' \in BOOLEAN /\ bgClosed' \in BOOLEAN /\ (bgClosed' => appDone')
    BY <1>7 DEF CancelApp, HandlerInv, HandlerType
  <2> QED BY <1>7, <2>1, FlagsKeep DEF CancelApp
<1>8. CASE CloseAdmission
  <2>1. appDone' \in BOOLEAN /\ bgClosed' \in BOOLEAN /\ (bgClosed' => appDone')
    BY <1>8 DEF CloseAdmission, HandlerInv, HandlerType
  <2> QED BY <1>8, <2>1, FlagsKeep DEF CloseAdmission
<1> QED BY <1>1, <1>2, <1>3, <1>4, <1>5, <1>6, <1>7, <1>8 DEF HandlerNext

-----------------------------------------------------------------------------
\* The handlers' invariant holds through the steps of the discovery task and
\* through a restart.
LEMMA HandlerStep == HandlerInv /\ [Next]_allVars => HandlerInv'
<1> SUFFICES ASSUME HandlerInv, [Next]_allVars PROVE HandlerInv'
  OBVIOUS
<1>1. ASSUME UNCHANGED vars PROVE HandlerInv'
  BY <1>1 DEF vars, storeVars, reqVars, HandlerInv, HandlerType, Watched, AnsweredLast, ClosedLate,
              StaleServed
<1>2. ASSUME DiscoveryEnd PROVE HandlerInv'
  BY <1>2 DEF DiscoveryEnd, reqVars, HandlerInv, HandlerType, Watched, AnsweredLast, ClosedLate,
              StaleServed
<1>3. CASE Serve
  BY <1>3, HandlerNextKeeps DEF Serve
<1>4. CASE CountSeenMappings \/ Insert \/ InsertFails \/ Commit \/ Announce
  BY <1>1, <1>2, <1>4 DEF CountSeenMappings, Insert, InsertFails, Commit, Announce, End
<1>5. CASE Restart
  BY <1>5 DEF Restart, HandlerInv, HandlerType, Watched, AnsweredLast, ClosedLate, StaleServed,
              Steps
<1> QED BY <1>1, <1>3, <1>4, <1>5 DEF Next, allVars

LEMMA HandlerAlways == Spec => []HandlerInv
<1>1. DiscoveryInit => HandlerInv
  BY HandlerInitially DEF DiscoveryInit
<1> QED BY <1>1, HandlerStep, PTL DEF Spec

(***************************************************************************)
(* For any number of concurrent requests, years and refreshes, handleList   *)
(* degrades to an empty list only when the requested year really had no     *)
(* usable row while the request ran.                                        *)
(***************************************************************************)
THEOREM StaleIsServed == Spec => []StaleServed
<1>1. HandlerInv => StaleServed
  BY DEF HandlerInv
<1> QED BY <1>1, HandlerAlways, PTL

\* A slot is only given back by a task that has tried its year.
LEMMA RefreshStep == HandlerInv /\ StaleRefreshed /\ [Next]_allVars => StaleRefreshed'
<1> SUFFICES ASSUME HandlerInv, StaleRefreshed, [Next]_allVars PROVE StaleRefreshed'
  OBVIOUS
<1> USE DEF StaleRefreshed
<1>1. ASSUME UNCHANGED <<slots, due>> PROVE StaleRefreshed'
  BY <1>1
<1>2. ASSUME NEW q \in Requests, RefreshAndReply(q) PROVE StaleRefreshed'
  <2>1. CASE data[q] # "fresh" /\ ~appDone
    <3>1. ~bgClosed
      BY <2>1 DEF HandlerInv, ClosedLate
    <3>2. year[q] \in slots' /\ slots \subseteq slots'
      BY <1>2, <2>1, <3>1 DEF RefreshAndReply, Reserve, Answer
    <3> QED BY <1>2, <2>1, <3>2 DEF RefreshAndReply
  <2>2. CASE data[q] # "fresh" /\ appDone
    BY <1>2, <2>2 DEF RefreshAndReply, Reserve
  <2>3. CASE data[q] = "fresh"
    BY <1>1, <1>2, <2>3 DEF RefreshAndReply
  <2> QED BY <2>1, <2>2, <2>3
<1>3. ASSUME NEW q \in Requests, ScheduleWinter(q) PROVE StaleRefreshed'
  BY <1>3 DEF ScheduleWinter, Reserve
<1>4. ASSUME NEW q \in Requests, Handle(q) \/ ReadError(q) PROVE StaleRefreshed'
  BY <1>1, <1>2, <1>3, <1>4 DEF Handle, Read, FetchOk, FetchFailed, Reread, ReadPrior, CallProcess,
                                Finish, ReadError, storeVars
<1>5. ASSUME NEW q \in Requests, NEW y \in Years, NEW w \in BOOLEAN, Arrive(q, y, w)
      PROVE  StaleRefreshed'
  BY <1>1, <1>5 DEF Arrive, storeVars
<1>6. ASSUME NEW y \in Years, TaskEnd(y) PROVE StaleRefreshed'
  BY <1>6 DEF TaskEnd
<1>7. ASSUME NEW y \in Years, FetchedElsewhere(y) \/ Vanish(y) \/ Age(y) PROVE StaleRefreshed'
  BY <1>1, <1>7 DEF FetchedElsewhere, Vanish, Age
<1>8. CASE Serve
  BY <1>1, <1>4, <1>5, <1>6, <1>7, <1>8 DEF Serve, HandlerNext, CancelApp, CloseAdmission
<1>9. CASE CountSeenMappings \/ Insert \/ InsertFails \/ Commit \/ Announce \/ UNCHANGED allVars
  BY <1>1, <1>9 DEF CountSeenMappings, Insert, InsertFails, Commit, Announce, End, DiscoveryEnd,
                    allVars, vars, storeVars
<1>10. CASE Restart
  BY <1>10 DEF Restart
<1> QED BY <1>8, <1>9, <1>10 DEF Next

(***************************************************************************)
(* Once handleList has sent a stale list, a task for its year is held until *)
(* one has tried to refresh it, for any number of requests and years and    *)
(* through shutdown; a list sent after cancellation alone is exempt.        *)
(***************************************************************************)
THEOREM StaleIsRefreshed == Spec => []StaleRefreshed
<1>1. DiscoveryInit => StaleRefreshed
  BY DEF DiscoveryInit, Init, StaleRefreshed
<1> QED BY <1>1, RefreshStep, HandlerAlways, PTL DEF Spec

-----------------------------------------------------------------------------
TaskType ==
  /\ task \in [pc : {"off", "count", "insert", "announce"}, batch : Seq(Keys), at : Nat \ {0},
               fresh : Seq(Keys), first : BOOLEAN]
  /\ seen \subseteq Keys /\ quiet \subseteq Keys
  /\ announced \in [Keys -> 0..2]

\* The coalescing flag admits one task: it is set while one runs.
OneTask == (task.pc # "off" => discovery) /\ (discovery => tracking)

\* A task begins with nothing found, and what an open transaction found is
\* not in the table yet.
FoundIsNew ==
  /\ task.pc \in {"off", "count"} => task.fresh = <<>>
  /\ task.pc = "insert" => ToSet(task.fresh) \cap seen = {}

\* A mapping that is not in the table has no history.
Unheard == \A k \in Keys \ seen : announced[k] = 0 /\ k \notin quiet

\* A mapping that was committed and not yet logged has no history either.
Due == task.pc = "announce" => \A k \in ToSet(task.fresh) : k \in seen /\ announced[k] = 0 /\ k \notin quiet

DiscoveryInv == TaskType /\ OneTask /\ FoundIsNew /\ Unheard /\ Due /\ DiscoveryExact

LEMMA FoundKeys == ASSUME TaskType PROVE ToSet(task.fresh) \subseteq Keys
  BY DEF TaskType, ToSet

\* The set of a sequence that grows by one element.
LEMMA ToSetAppend ==
  ASSUME NEW S, NEW s \in Seq(S), NEW e \in S
  PROVE  ToSet(Append(s, e)) = ToSet(s) \cup {e}
<1>1. /\ DOMAIN s = 1..Len(s) /\ Len(s) \in Nat
      /\ DOMAIN Append(s, e) = 1..(Len(s) + 1)
      /\ Append(s, e)[Len(s) + 1] = e
      /\ \A i \in 1..Len(s) : Append(s, e)[i] = s[i]
  OBVIOUS
<1>2. ASSUME NEW x \in ToSet(Append(s, e)) PROVE x \in ToSet(s) \cup {e}
  <2>1. PICK i \in 1..(Len(s) + 1) : x = Append(s, e)[i]
    BY <1>1, <1>2 DEF ToSet
  <2>2. CASE i = Len(s) + 1
    BY <1>1, <2>1, <2>2
  <2>3. CASE i \in 1..Len(s)
    BY <1>1, <2>1, <2>3 DEF ToSet
  <2> QED BY <1>1, <2>2, <2>3
<1>3. ASSUME NEW x \in ToSet(s) PROVE x \in ToSet(Append(s, e))
  <2>1. PICK i \in 1..Len(s) : x = s[i]
    BY <1>1, <1>3 DEF ToSet
  <2>2. i \in 1..(Len(s) + 1) /\ x = Append(s, e)[i]
    BY <1>1, <2>1
  <2> QED BY <1>1, <2>2 DEF ToSet
<1>4. e \in ToSet(Append(s, e))
  <2>1. Len(s) + 1 \in 1..(Len(s) + 1)
    BY <1>1
  <2> QED BY <1>1, <2>1 DEF ToSet
<1> QED BY <1>2, <1>3, <1>4

LEMMA ToSetEmpty == ToSet(<<>>) = {}
  BY DEF ToSet

\* A task that starts, ends or is reset leaves an empty one.
LEMMA OffIs ==
  /\ Off \in [pc : {"off", "count", "insert", "announce"}, batch : Seq(Keys), at : Nat \ {0},
              fresh : Seq(Keys), first : BOOLEAN]
  /\ Off.pc = "off" /\ Off.fresh = <<>>
  BY DEF Off

\* While no task waits to announce, the history and the table are all that
\* DiscoveryExact speaks of.
LEMMA QuietTask ==
  ASSUME DiscoveryInv, UNCHANGED <<seen, announced, quiet>>, task.pc # "announce", task'.pc # "announce"
  PROVE  (Unheard /\ Due /\ DiscoveryExact)'
  BY DEF DiscoveryInv, Unheard, Due, DiscoveryExact

\* DiscoveryEnd ends the task that ran.
LEMMA EndKeeps == ASSUME DiscoveryInv, End PROVE OneTask' /\ task' = Off
  BY OffIs DEF End, DiscoveryEnd, OneTask

\* An insertion, or a retry, moves the task within its transaction.
LEMMA TaskMoves ==
  ASSUME TaskType, NEW a \in Nat \ {0}, NEW f \in Seq(Keys),
         task' = [task EXCEPT !.at = a, !.fresh = f], UNCHANGED <<seen, announced, quiet>>
  PROVE  TaskType' /\ task'.pc = task.pc /\ task'.fresh = f
  BY DEF TaskType

-----------------------------------------------------------------------------
LEMMA ServeTask ==
  ASSUME DiscoveryInv, HandlerNext
  PROVE  /\ discovery => discovery' /\ tracking'
         /\ discovery' => tracking'
<1> USE DEF DiscoveryInv, OneTask
<1>1. ASSUME NEW q \in Requests, CallProcess(q) PROVE (discovery => discovery' /\ tracking') /\ (discovery' => tracking')
  BY <1>1 DEF CallProcess
<1>2. ASSUME UNCHANGED <<tracking, discovery>> PROVE (discovery => discovery' /\ tracking') /\ (discovery' => tracking')
  BY <1>2
<1>3. ASSUME NEW q \in Requests, NEW y \in Years, NEW w \in BOOLEAN, Arrive(q, y, w)
      PROVE  UNCHANGED <<tracking, discovery>>
  BY <1>3 DEF Arrive, storeVars
<1>4. ASSUME NEW q \in Requests, Handle(q) \/ ReadError(q), ~CallProcess(q)
      PROVE  UNCHANGED <<tracking, discovery>>
  BY <1>4 DEF Handle, ReadError, Read, FetchOk, FetchFailed, Reread, ReadPrior, ScheduleWinter,
              RefreshAndReply, Finish, storeVars
<1>5. ASSUME NEW y \in Years, TaskEnd(y) \/ FetchedElsewhere(y) \/ Vanish(y) \/ Age(y)
      PROVE  UNCHANGED <<tracking, discovery>>
  BY <1>5 DEF TaskEnd, FetchedElsewhere, Vanish, Age
<1>6. CancelApp \/ CloseAdmission => UNCHANGED <<tracking, discovery>>
  BY DEF CancelApp, CloseAdmission
<1> QED BY <1>1, <1>2, <1>3, <1>4, <1>5, <1>6 DEF HandlerNext

LEMMA DiscoveryInitially == DiscoveryInit => DiscoveryInv
  BY OffIs DEF DiscoveryInit, Init, DiscoveryInv, TaskType, OneTask, FoundIsNew, Unheard, Due, DiscoveryExact

LEMMA DiscoveryStep == DiscoveryInv /\ [Next]_allVars => DiscoveryInv'
<1> SUFFICES ASSUME DiscoveryInv, [Next]_allVars PROVE DiscoveryInv'
  OBVIOUS
<1>0. /\ TaskType /\ OneTask /\ FoundIsNew /\ Unheard /\ Due /\ DiscoveryExact
      /\ ToSet(task.fresh) \subseteq Keys
  BY FoundKeys DEF DiscoveryInv
<1>1. CASE Serve
  <2>1. CASE discovery' /\ ~discovery
    <3>1. PICK b \in Batches : task' = [Off EXCEPT !.pc = "count", !.batch = b]
      BY <1>1, <2>1 DEF Serve
    <3>2. task.pc = "off" /\ task'.pc = "count" /\ task'.fresh = <<>> /\ UNCHANGED <<seen, announced, quiet>>
      BY <1>0, <1>1, <2>1, <3>1, OffIs DEF OneTask, Serve, Off
    <3>3. TaskType' /\ FoundIsNew'
      BY <1>0, <3>1, <3>2, OffIs, BatchAssumption DEF TaskType, FoundIsNew, Off
    <3>4. OneTask'
      BY <1>1, <2>1, ServeTask DEF OneTask, Serve
    <3>5. (Unheard /\ Due /\ DiscoveryExact)'
      BY <3>2, QuietTask
    <3> QED BY <3>3, <3>4, <3>5 DEF DiscoveryInv
  <2>2. CASE ~(discovery' /\ ~discovery)
    <3>1. UNCHANGED taskVars
      BY <1>1, <2>2 DEF Serve, taskVars
    <3>2. OneTask'
      BY <1>0, <1>1, <3>1, ServeTask DEF OneTask, Serve, taskVars
    <3>3. (TaskType /\ FoundIsNew /\ Unheard /\ Due /\ DiscoveryExact)'
      BY <1>0, <3>1 DEF TaskType, FoundIsNew, Unheard, Due, DiscoveryExact, taskVars
    <3> QED BY <3>2, <3>3 DEF DiscoveryInv
  <2> QED BY <2>1, <2>2
<1>2. CASE CountSeenMappings
  <2>1. CASE End
    <3>1. task.pc = "count" /\ task' = Off /\ OneTask' /\ UNCHANGED <<seen, announced, quiet>>
      BY <1>2, <2>1, EndKeeps DEF CountSeenMappings
    <3>2. TaskType' /\ FoundIsNew'
      BY <1>0, <3>1, OffIs DEF TaskType, FoundIsNew
    <3> QED BY <3>1, <3>2, OffIs, QuietTask DEF DiscoveryInv
  <2>2. CASE task' = [task EXCEPT !.pc = "insert", !.first = (seen = {})] /\ UNCHANGED vars
    <3>1. /\ task.pc = "count" /\ task'.pc = "insert" /\ task'.fresh = <<>>
          /\ UNCHANGED <<seen, announced, quiet, discovery, tracking>>
      BY <1>0, <1>2, <2>2 DEF CountSeenMappings, TaskType, FoundIsNew, vars, storeVars
    <3>2. TaskType'
      BY <1>0, <2>2, <3>1 DEF TaskType
    <3>3. OneTask' /\ FoundIsNew'
      BY <1>0, <3>1, ToSetEmpty DEF OneTask, FoundIsNew
    <3> QED BY <3>1, <3>2, <3>3, QuietTask DEF DiscoveryInv
  <2> QED BY <1>2, <2>1, <2>2 DEF CountSeenMappings
<1>3. CASE Insert
  <2> DEFINE k == task.batch[task.at]
             found == IF k \in seen \cup ToSet(task.fresh) THEN task.fresh ELSE Append(task.fresh, k)
  <2>1. k \in Keys /\ task.fresh \in Seq(Keys)
    BY <1>0, <1>3 DEF Insert, TaskType
  <2>2. /\ task.pc = "insert" /\ task' = [task EXCEPT !.at = task.at + 1, !.fresh = found]
        /\ UNCHANGED <<seen, announced, quiet, discovery, tracking>>
    BY <1>3 DEF Insert, vars, storeVars
  <2>3. found \in Seq(Keys) /\ ToSet(found) \cap seen = {}
    BY <1>0, <2>1, <2>2, ToSetAppend DEF FoundIsNew
  <2> HIDE DEF k, found
  <2>4. TaskType' /\ task'.pc = "insert" /\ task'.fresh = found
    <3>1. task.at + 1 \in Nat \ {0}
      BY <1>0 DEF TaskType
    <3> QED BY <1>0, <2>2, <2>3, <3>1, TaskMoves
  <2>5. OneTask' /\ FoundIsNew'
    BY <1>0, <2>2, <2>3, <2>4 DEF OneTask, FoundIsNew
  <2> QED BY <2>2, <2>4, <2>5, QuietTask DEF DiscoveryInv
<1>4. CASE InsertFails
  <2>0. task.pc = "insert" /\ UNCHANGED <<seen, announced, quiet>>
    BY <1>4 DEF InsertFails, Rollback
  <2>1. CASE End
    <3>1. task' = Off /\ OneTask'
      BY <2>1, EndKeeps
    <3>2. TaskType' /\ FoundIsNew'
      BY <1>0, <2>0, <3>1, OffIs DEF TaskType, FoundIsNew
    <3> QED BY <2>0, <3>1, <3>2, OffIs, QuietTask DEF DiscoveryInv
  <2>2. CASE task' = [task EXCEPT !.at = 1, !.fresh = <<>>] /\ UNCHANGED vars
    <3>1. TaskType' /\ task'.pc = "insert" /\ task'.fresh = <<>>
      <4>1. <<>> \in Seq(Keys) /\ 1 \in Nat \ {0}
        OBVIOUS
      <4> QED BY <1>0, <2>0, <2>2, <4>1, TaskMoves
    <3>2. OneTask' /\ FoundIsNew'
      BY <1>0, <2>0, <2>2, <3>1, ToSetEmpty DEF OneTask, FoundIsNew, vars, storeVars
    <3> QED BY <2>0, <3>1, <3>2, QuietTask DEF DiscoveryInv
  <2> QED BY <1>4, <2>1, <2>2 DEF InsertFails
<1>5. CASE Commit
  <2>1. /\ task.pc = "insert" /\ seen' = seen \cup ToSet(task.fresh)
        /\ task' = [task EXCEPT !.pc = "announce"]
        /\ UNCHANGED <<announced, quiet, discovery, tracking>>
    BY <1>5 DEF Commit, vars, storeVars
  <2>2. TaskType' /\ task'.pc = "announce" /\ task'.fresh = task.fresh
    BY <1>0, <2>1 DEF TaskType
  <2>3. OneTask' /\ FoundIsNew'
    BY <1>0, <2>1, <2>2 DEF OneTask, FoundIsNew
  <2>4. Unheard'
    BY <1>0, <2>1 DEF Unheard
  <2>5. Due'
    BY <1>0, <2>1, <2>2 DEF Due, Unheard, FoundIsNew
  <2>6. DiscoveryExact'
    BY <1>0, <2>1, <2>2 DEF DiscoveryExact
  <2> QED BY <2>2, <2>3, <2>4, <2>5, <2>6 DEF DiscoveryInv
<1>6. CASE Announce
  <2>1. task.pc = "announce" /\ task' = Off /\ OneTask' /\ UNCHANGED seen
    BY <1>6, EndKeeps DEF Announce
  <2>2. \A k \in ToSet(task.fresh) : k \in seen /\ announced[k] = 0 /\ k \notin quiet
    BY <1>0, <2>1 DEF Due
  <2>3. CASE task.first
    <3>1. quiet' = quiet \cup ToSet(task.fresh) /\ UNCHANGED announced
      BY <1>6, <2>3 DEF Announce
    <3>2. TaskType' /\ FoundIsNew' /\ Due'
      BY <1>0, <2>1, <3>1, OffIs DEF TaskType, FoundIsNew, Due
    <3>3. Unheard'
      BY <1>0, <2>1, <2>2, <3>1 DEF Unheard
    <3>4. DiscoveryExact'
      BY <1>0, <2>1, <2>2, <3>1 DEF DiscoveryExact
    <3> QED BY <2>1, <3>2, <3>3, <3>4 DEF DiscoveryInv
  <2>4. CASE ~task.first
    <3>1. /\ announced' = [k \in Keys |-> IF k \in ToSet(task.fresh) /\ announced[k] < 2
                                          THEN announced[k] + 1 ELSE announced[k]]
          /\ UNCHANGED quiet
      BY <1>6, <2>4 DEF Announce
    <3>2. \A k \in Keys : announced'[k] = (IF k \in ToSet(task.fresh) THEN 1 ELSE announced[k])
      BY <1>0, <2>2, <3>1 DEF TaskType
    <3>3. TaskType' /\ FoundIsNew' /\ Due'
      BY <1>0, <2>1, <3>1, OffIs DEF TaskType, FoundIsNew, Due
    <3>4. Unheard'
      BY <1>0, <2>1, <2>2, <3>1, <3>2 DEF Unheard
    <3>5. DiscoveryExact'
      BY <1>0, <2>1, <2>2, <3>1, <3>2 DEF DiscoveryExact
    <3> QED BY <2>1, <3>3, <3>4, <3>5 DEF DiscoveryInv
  <2> QED BY <2>3, <2>4
<1>7. CASE Restart
  <2>1. /\ quiet' = quiet \cup (IF task.pc = "announce" THEN ToSet(task.fresh) ELSE {})
        /\ task' = Off /\ UNCHANGED <<seen, announced>>
    BY <1>7 DEF Restart
  <2>2. TaskType' /\ FoundIsNew' /\ Due'
    BY <1>0, <2>1, OffIs DEF TaskType, FoundIsNew, Due
  <2>3. OneTask'
    BY <1>7, <2>1, OffIs DEF OneTask, Restart
  <2>4. Unheard'
    BY <1>0, <2>1 DEF Unheard, Due
  <2>5. DiscoveryExact'
    BY <1>0, <2>1 DEF DiscoveryExact, Due
  <2> QED BY <2>2, <2>3, <2>4, <2>5 DEF DiscoveryInv
<1>8. CASE UNCHANGED allVars
  BY <1>0, <1>8 DEF allVars, taskVars, vars, storeVars, DiscoveryInv, TaskType, OneTask, FoundIsNew,
                    Unheard, Due, DiscoveryExact
<1> QED BY <1>1, <1>2, <1>3, <1>4, <1>5, <1>6, <1>7, <1>8 DEF Next

(***************************************************************************)
(* For any shows and any keys, busy retries, failed transactions, shutdowns *)
(* and restarts included: trackNewMappings announces a mapping at most once *)
(* and never one the first run seeded, and loses none it committed, except  *)
(* when the process is killed between commit and log.                       *)
(***************************************************************************)
THEOREM DiscoveryIsExact == Spec => []DiscoveryExact
<1>1. DiscoveryInv => DiscoveryExact
  BY DEF DiscoveryInv
<1> QED BY <1>1, DiscoveryInitially, DiscoveryStep, PTL DEF Spec
-----------------------------------------------------------------------------
(* Folds over finite sets                                                   *)

\* A nonempty set of naturals has the minimum that Min picks.
LEMMA MinNat ==
  ASSUME NEW S, S \subseteq Nat, S # {}
  PROVE  Min(S) \in S /\ \A x \in S : Min(S) =< x
<1> DEFINE R == {ss \in Nat \X Nat : ss[1] < ss[2]}
<1>1. IsWellFoundedOn(R, Nat)
  BY NatLessThanWellFounded DEF OpToRel
<1>2. \A i, j \in Nat : i < j => <<i, j>> \in R
  OBVIOUS
<1> HIDE DEF R
<1>3. PICK m \in S : \A x \in S : ~(<<x, m>> \in R)
  BY <1>1, WFMin, Zenon
<1>4. ASSUME NEW x \in S PROVE m =< x
  <2>1. m \in Nat /\ x \in Nat
    OBVIOUS
  <2>2. ~(x < m)
    BY <1>2, <1>3, <2>1, Zenon
  <2> QED BY <2>1, <2>2
<1> QED BY <1>4 DEF Min

\* Taking an element out of a finite set.
LEMMA LessOne ==
  ASSUME NEW S, IsFiniteSet(S), NEW x \in S
  PROVE  /\ IsFiniteSet(S \ {x})
         /\ Cardinality(S) \in Nat /\ Cardinality(S \ {x}) \in Nat
         /\ Cardinality(S \ {x}) = Cardinality(S) - 1
BY FS_RemoveElement, FS_CardinalityType

(***************************************************************************)
(* A fold has a value: with a set D to fold over, whichever element c takes *)
(* next, a function f gives every subset of D its fold.                     *)
(***************************************************************************)
FoldEq(f, D, b, h, c) ==
  \A t \in SUBSET D : f[t] = IF t = {} THEN b ELSE h[<<c[t], f[t \ {c[t]}]>>]

LEMMA FoldExists ==
  ASSUME NEW D, IsFiniteSet(D), NEW V, NEW b \in V, NEW h \in [D \X V -> V],
         NEW c, \A t \in SUBSET D : t # {} => c[t] \in t
  PROVE  \E f \in [SUBSET D -> V] : FoldEq(f, D, b, h, c)
<1> DEFINE Small(n) == {t \in SUBSET D : Cardinality(t) <= n}
           Value(f, t) == IF t = {} THEN b ELSE h[<<c[t], f[t \ {c[t]}]>>]
           Good(n) == \E f \in [Small(n) -> V] : \A t \in Small(n) : f[t] = Value(f, t)
           Bad == {n \in Nat : ~Good(n)}
<1>1. \A t \in SUBSET D : IsFiniteSet(t) /\ Cardinality(t) \in Nat
  BY FS_Subset, FS_CardinalityType
<1>2. Bad = {}
  <2> SUFFICES ASSUME Bad # {} PROVE FALSE
    OBVIOUS
  <2>1. PICK n \in Bad : \A m \in Bad : n <= m
    <3>1. Bad \subseteq Nat
      OBVIOUS
    <3> HIDE DEF Bad
    <3> QED BY <3>1, MinNat
  <2>2. CASE n = 0
    <3>1. \A t \in Small(0) : t = {}
      BY <1>1, FS_EmptySet
    <3> DEFINE f == [t \in Small(0) |-> b]
    <3>2. f \in [Small(0) -> V] /\ \A t \in Small(0) : f[t] = Value(f, t)
      BY <3>1
    <3> QED BY <2>2, <3>2
  <2>3. CASE n # 0
    <3>1. n - 1 \in Nat /\ ~(n <= n - 1)
      BY <2>3
    <3>2. Good(n - 1)
      BY <2>1, <3>1
    <3>3. PICK f \in [Small(n - 1) -> V] : \A t \in Small(n - 1) : f[t] = Value(f, t)
      BY <3>2
    <3> DEFINE g == [t \in Small(n) |-> Value(f, t)]
    <3>4. ASSUME NEW t \in Small(n) PROVE Value(f, t) \in V /\ Value(f, t) = Value(g, t)
      <4>1. CASE t = {}
        BY <4>1
      <4>2. CASE t # {}
        <5> DEFINE u == t \ {c[t]}
        <5>1. c[t] \in t /\ c[t] \in D
          BY <4>2
        <5>2. u \in Small(n - 1) /\ u \in Small(n)
          <6>1. IsFiniteSet(t) /\ u \in SUBSET D
            BY <1>1
          <6>2. Cardinality(u) \in Nat /\ Cardinality(t) \in Nat /\ Cardinality(u) = Cardinality(t) - 1
            BY <5>1, <6>1, LessOne
          <6> QED BY <6>1, <6>2, <2>3
        <5> HIDE DEF u
        <5>3. f[u] = Value(f, u) /\ f[u] \in V
          BY <3>3, <5>2
        <5>4. g[u] = Value(f, u)
          BY <5>2
        <5>5. <<c[t], f[u]>> \in D \X V
          BY <5>1, <5>3
        <5> QED BY <4>2, <5>3, <5>4, <5>5 DEF u
      <4> QED BY <4>1, <4>2
    <3>5. g \in [Small(n) -> V] /\ \A t \in Small(n) : g[t] = Value(g, t)
      BY <3>4
    <3> QED BY <3>5
  <2> QED BY <2>2, <2>3
<1>3. Good(Cardinality(D))
  BY <1>1, <1>2
<1>4. Small(Cardinality(D)) = SUBSET D
  BY <1>1, FS_Subset
<1> QED BY <1>3, <1>4 DEF FoldEq

-----------------------------------------------------------------------------
(* Lists by positions                                                       *)

Rank(P, n) == Cardinality({k \in P : k <= n})

LEMMA AtEmpty == ASSUME NEW list PROVE At(list, {}) = << >>
<1>1. Cardinality({}) = 0 /\ 1..0 = {}
  BY FS_EmptySet
<1> QED BY <1>1 DEF At

LEMMA AtType ==
  ASSUME NEW list, NEW P, IsFiniteSet(P)
  PROVE  /\ Cardinality(P) \in Nat /\ Len(At(list, P)) = Cardinality(P)
         /\ DOMAIN At(list, P) = 1..Cardinality(P)
BY FS_CardinalityType DEF At

\* Positions of a list of this length.
Positions(P, n) == P \subseteq 1..n

\* One position more, after all others.
LEMMA AtNext ==
  ASSUME NEW list, NEW k \in Nat, NEW P, Positions(P, k - 1)
  PROVE  At(list, P \cup {k}) = Append(At(list, P), list[k])
<1> DEFINE Q == P \cup {k}
           c == Cardinality(P)
<1>1. /\ IsFiniteSet(P) /\ c \in Nat /\ IsFiniteSet(Q) /\ Cardinality(Q) = c + 1
      /\ \A n \in P : n \in Int /\ n < k
      /\ k \notin P
  <2>0. P \subseteq 1..(k - 1)
    BY DEF Positions
  <2>1. IsFiniteSet(1..(k - 1)) /\ k \notin P
    BY <2>0, FS_Interval
  <2>2. IsFiniteSet(P)
    BY <2>0, <2>1, FS_Subset
  <2> QED BY <2>0, <2>1, <2>2, FS_AddElement, FS_CardinalityType
<1>2. ASSUME NEW n \in P PROVE Rank(Q, n) = Rank(P, n) /\ Rank(P, n) \in 0..c
  <2>1. {j \in Q : j <= n} = {j \in P : j <= n}
    BY <1>1
  <2>2. {j \in P : j <= n} \subseteq P
    OBVIOUS
  <2>3. Cardinality({j \in P : j <= n}) <= c /\ Cardinality({j \in P : j <= n}) \in Nat
    BY <1>1, <2>2, FS_Subset, FS_CardinalityType
  <2>4. Rank(Q, n) = Rank(P, n) /\ Rank(P, n) = Cardinality({j \in P : j <= n})
    BY <2>1, Zenon DEF Rank
  <2> HIDE DEF Q
  <2> QED BY <1>1, <2>3, <2>4
<1>3. Rank(Q, k) = c + 1
  <2>1. \A j \in Q : j <= k
    BY <1>1
  <2>2. {j \in Q : j <= k} = Q
    BY <2>1, Zenon
  <2>3. Rank(Q, k) = Cardinality(Q)
    BY <2>2, Zenon DEF Rank
  <2> QED BY <1>1, <2>3
<1>q. k \in Q /\ \A n : n \in Q <=> n \in P \/ n = k
  OBVIOUS
<1> HIDE DEF Q, c
<1>4. ASSUME NEW p \in 1..c
      PROVE  (CHOOSE n \in Q : Rank(Q, n) = p) = (CHOOSE n \in P : Rank(P, n) = p)
  <2>1. p # c + 1
    BY <1>1
  <2>2. \A n : n \in Q /\ Rank(Q, n) = p <=> n \in P /\ Rank(P, n) = p
    BY <1>2, <1>3, <1>q, <2>1
  <2> QED BY <2>2, Zenon
<1>5. (CHOOSE n \in Q : Rank(Q, n) = c + 1) = k
  <2>1. \A n \in P : Rank(Q, n) # c + 1
    BY <1>1, <1>2
  <2> QED BY <1>3, <1>q, <2>1
<1>6. At(list, P) = [p \in 1..c |-> list[CHOOSE n \in P : Rank(P, n) = p]]
  BY Zenon DEF At, Rank, c
<1>7. At(list, Q) = [p \in 1..(c + 1) |-> list[CHOOSE n \in Q : Rank(Q, n) = p]]
  BY <1>1, Zenon DEF At, Rank
<1> DEFINE s == At(list, P)
<1>8. Len(s) = c /\ DOMAIN s = 1..c /\ \A p \in 1..c : s[p] = list[CHOOSE n \in P : Rank(P, n) = p]
  BY <1>1, <1>6
<1> HIDE DEF s
<1>9. Append(s, list[k]) = [p \in 1..(c + 1) |-> IF p = c + 1 THEN list[k] ELSE s[p]]
  BY <1>1, <1>8
<1> DEFINE at(p) == CHOOSE n \in Q : Rank(Q, n) = p
<1>10. ASSUME NEW p \in 1..(c + 1)
       PROVE  list[at(p)] = IF p = c + 1 THEN list[k] ELSE s[p]
  <2>1. CASE p = c + 1
    <3>1. at(p) = k
      BY <1>5, <2>1, Zenon
    <3> HIDE DEF at
    <3> QED BY <2>1, <3>1
  <2>2. CASE p # c + 1
    <3>1. p \in 1..c
      BY <1>1, <2>2
    <3>2. at(p) = CHOOSE n \in P : Rank(P, n) = p
      BY <1>4, <3>1, Zenon
    <3>3. list[at(p)] = s[p]
      BY <1>8, <3>1, <3>2, Zenon
    <3> HIDE DEF at
    <3> QED BY <2>2, <3>3
  <2> QED BY <2>1, <2>2
<1> QED BY <1>7, <1>9, <1>10, Zenon DEF s, Q

\* Induction up to a number, over a set.
LEMMA Climb ==
  ASSUME NEW N \in Nat, NEW Good, 0 \in Good, \A k \in 1..N : k - 1 \in Good => k \in Good
  PROVE  \A k \in 0..N : k \in Good
<1> DEFINE Bad == {k \in 0..N : k \notin Good}
<1> SUFFICES ASSUME Bad # {} PROVE FALSE
  OBVIOUS
<1>1. PICK k \in Bad : \A m \in Bad : k <= m
  <2>1. Bad \subseteq Nat
    OBVIOUS
  <2> HIDE DEF Bad
  <2> QED BY <2>1, MinNat
<1>2. k \in 1..N /\ k - 1 \in 0..N /\ ~(k <= k - 1)
  OBVIOUS
<1>3. k - 1 \in Good
  BY <1>1, <1>2
<1> QED BY <1>2, <1>3

\* The positions up to k.
UpTo(P, k) == {n \in P : n <= k}

LEMMA UpToIs ==
  ASSUME NEW N \in Nat, NEW P, Positions(P, N)
  PROVE  /\ UpTo(P, 0) = {} /\ UpTo(P, N) = P
         /\ \A k \in 1..N : /\ Positions(UpTo(P, k - 1), k - 1)
                            /\ k \in P => UpTo(P, k) = UpTo(P, k - 1) \cup {k}
                            /\ k \notin P => UpTo(P, k) = UpTo(P, k - 1)
<1>1. \A n \in P : n \in Nat /\ n > 0 /\ n <= N
  BY DEF Positions
<1>2. UpTo(P, 0) = {} /\ UpTo(P, N) = P
  BY <1>1 DEF UpTo
<1>3. ASSUME NEW k \in 1..N
      PROVE  /\ Positions(UpTo(P, k - 1), k - 1)
             /\ k \in P => UpTo(P, k) = UpTo(P, k - 1) \cup {k}
             /\ k \notin P => UpTo(P, k) = UpTo(P, k - 1)
  <2>1. \A n \in P : n <= k <=> n <= k - 1 \/ n = k
    BY <1>1
  <2>2. Positions(UpTo(P, k - 1), k - 1)
    <3>1. \A n \in P : n <= k - 1 => n \in 1..(k - 1)
      BY <1>1
    <3> QED BY <3>1, Zenon DEF Positions, UpTo
  <2>3. k \in P => UpTo(P, k) = UpTo(P, k - 1) \cup {k}
    BY <1>1, <2>1 DEF UpTo
  <2>4. k \notin P => UpTo(P, k) = UpTo(P, k - 1)
    BY <1>1, <2>1 DEF UpTo
  <2> QED BY <2>2, <2>3, <2>4
<1> QED BY <1>2, <1>3

\* A list grows position by position.
Grows(list, P, N) ==
  /\ At(list, UpTo(P, 0)) = << >>
  /\ At(list, UpTo(P, N)) = At(list, P)
  /\ \A k \in 1..N :
       At(list, UpTo(P, k)) = IF k \in P THEN Append(At(list, UpTo(P, k - 1)), list[k])
                              ELSE At(list, UpTo(P, k - 1))

LEMMA AtUpTo ==
  ASSUME NEW list, NEW N \in Nat, NEW P, Positions(P, N)
  PROVE  Grows(list, P, N)
<1>1. UpTo(P, 0) = {} /\ UpTo(P, N) = P
  BY UpToIs
<1>2. ASSUME NEW k \in 1..N
      PROVE  At(list, UpTo(P, k)) = IF k \in P THEN Append(At(list, UpTo(P, k - 1)), list[k])
                                    ELSE At(list, UpTo(P, k - 1))
  <2>1. /\ Positions(UpTo(P, k - 1), k - 1)
        /\ k \in P => UpTo(P, k) = UpTo(P, k - 1) \cup {k}
        /\ k \notin P => UpTo(P, k) = UpTo(P, k - 1)
    BY UpToIs
  <2>2. k \in Nat
    OBVIOUS
  <2>3. At(list, UpTo(P, k - 1) \cup {k}) = Append(At(list, UpTo(P, k - 1)), list[k])
    BY <2>1, <2>2, AtNext, Zenon
  <2> QED BY <2>1, <2>3
<1> QED BY <1>1, <1>2, AtEmpty DEF Grows

\* Lists that agree at some positions.
LEMMA AtSame ==
  ASSUME NEW list, NEW other, NEW N \in Nat, NEW P, Positions(P, N), \A n \in P : list[n] = other[n]
  PROVE  At(list, P) = At(other, P)
<1> DEFINE Good == {k \in 0..N : At(list, UpTo(P, k)) = At(other, UpTo(P, k))}
<1>0. Grows(list, P, N) /\ Grows(other, P, N)
  BY AtUpTo
<1>1. 0 \in Good
  BY <1>0 DEF Grows
<1>2. ASSUME NEW k \in 1..N, k - 1 \in Good PROVE k \in Good
  <2>1. At(list, UpTo(P, k - 1)) = At(other, UpTo(P, k - 1)) /\ k \in 0..N
    BY <1>2
  <2>2. At(list, UpTo(P, k)) = IF k \in P THEN Append(At(list, UpTo(P, k - 1)), list[k])
                               ELSE At(list, UpTo(P, k - 1))
    BY <1>0 DEF Grows
  <2>3. At(other, UpTo(P, k)) = IF k \in P THEN Append(At(other, UpTo(P, k - 1)), other[k])
                                ELSE At(other, UpTo(P, k - 1))
    BY <1>0 DEF Grows
  <2>4. CASE k \in P
    <3>1. list[k] = other[k]
      BY <2>4
    <3>2. At(list, UpTo(P, k)) = At(other, UpTo(P, k))
      BY <2>1, <2>2, <2>3, <2>4, <3>1, Zenon
    <3> QED BY <2>1, <3>2
  <2>5. CASE k \notin P
    <3>1. At(list, UpTo(P, k)) = At(other, UpTo(P, k))
      BY <2>1, <2>2, <2>3, <2>5, Zenon
    <3> QED BY <2>1, <3>1
  <2> QED BY <2>4, <2>5
<1>3. N \in Good
  <2> HIDE DEF Good
  <2> QED BY <1>1, <1>2, Climb
<1> QED BY <1>0, <1>3 DEF Grows

\* What is in such a list.
LEMMA AtIn ==
  ASSUME NEW list, NEW N \in Nat, NEW P, Positions(P, N)
  PROVE  /\ At(list, P) \in Seq({list[n] : n \in P})
         /\ ToSet(At(list, P)) = {list[n] : n \in P}
<1> DEFINE T == {list[n] : n \in P}
           a == [k \in 0..N |-> At(list, UpTo(P, k))]
           In(k, x) == \E n \in P : n <= k /\ x = list[n]
           Good == {k \in 0..N : /\ a[k] \in Seq(T)
                                 /\ \A x : (\E i \in 1..Len(a[k]) : a[k][i] = x) <=> In(k, x)}
<1>0. /\ a[0] = << >> /\ a[N] = At(list, P)
      /\ \A k \in 1..N : a[k] = IF k \in P THEN Append(a[k - 1], list[k]) ELSE a[k - 1]
  <2>1. Grows(list, P, N)
    BY AtUpTo
  <2>2. 0 \in 0..N /\ N \in 0..N /\ \A k \in 1..N : k \in 0..N /\ k - 1 \in 0..N
    OBVIOUS
  <2>3. \A k \in 0..N : a[k] = At(list, UpTo(P, k))
    OBVIOUS
  <2> HIDE DEF a
  <2>4. a[0] = << >> /\ a[N] = At(list, P)
    BY <2>1, <2>2, <2>3, Zenon DEF Grows
  <2>5. ASSUME NEW k \in 1..N PROVE a[k] = IF k \in P THEN Append(a[k - 1], list[k]) ELSE a[k - 1]
    BY <2>1, <2>2, <2>3, Zenon DEF Grows
  <2> QED BY <2>4, <2>5
<1>n. \A n \in P : n \in Nat /\ n > 0 /\ n <= N
  BY DEF Positions
<1> HIDE DEF a
<1>1. 0 \in Good
  <2>1. a[0] \in Seq(T) /\ Len(a[0]) = 0
    BY <1>0
  <2>2. \A x : ~In(0, x)
    BY <1>n
  <2> QED BY <2>1, <2>2
<1>2. ASSUME NEW k \in 1..N, k - 1 \in Good PROVE k \in Good
  <2>1. /\ a[k - 1] \in Seq(T) /\ k \in 0..N
        /\ \A x : (\E i \in 1..Len(a[k - 1]) : a[k - 1][i] = x) <=> In(k - 1, x)
    BY <1>2
  <2>2. CASE k \in P
    <3>1. a[k] = Append(a[k - 1], list[k]) /\ list[k] \in T
      BY <1>0, <2>2
    <3> DEFINE s == a[k - 1]
               l == Len(s)
    <3>2. a[k] \in Seq(T) /\ l \in Nat /\ Len(a[k]) = l + 1 /\ a[k][l + 1] = list[k]
      BY <2>1, <3>1
    <3>3. \A i \in 1..l : a[k][i] = s[i]
      BY <2>1, <3>1
    <3> HIDE DEF T, In, l, s
    <3>4. \A x : (\E i \in 1..(l + 1) : a[k][i] = x) <=> (\E i \in 1..l : s[i] = x) \/ x = list[k]
      <4>1. \A i : i \in 1..(l + 1) <=> i \in 1..l \/ i = l + 1
        BY <3>2
      <4> QED BY <3>2, <3>3, <4>1
    <3>5. \A n \in P : n <= k <=> n <= k - 1 \/ n = k
      BY <1>n
    <3>6. \A x : In(k, x) <=> In(k - 1, x) \/ x = list[k]
      BY <2>2, <3>5 DEF In
    <3>7. \A x : (\E i \in 1..Len(a[k]) : a[k][i] = x) <=> In(k, x)
      BY <2>1, <3>2, <3>4, <3>6, Zenon DEF l, s
    <3> QED BY <2>1, <3>2, <3>7
  <2>3. CASE k \notin P
    <3>1. a[k] = a[k - 1]
      BY <1>0, <2>3
    <3>2. \A n \in P : n <= k <=> n <= k - 1
      BY <1>n, <2>3
    <3>3. \A x : In(k, x) <=> In(k - 1, x)
      BY <3>2
    <3> HIDE DEF In
    <3> QED BY <2>1, <3>1, <3>3
  <2> QED BY <2>2, <2>3
<1>3. N \in Good
  <2> HIDE DEF Good
  <2> QED BY <1>1, <1>2, Climb
<1>4. a[N] \in Seq(T)
  BY <1>3
<1>5. \A x : (\E i \in 1..Len(a[N]) : a[N][i] = x) <=> x \in T
  <2>1. \A x : In(N, x) <=> x \in T
    BY <1>n
  <2> HIDE DEF T, In
  <2> QED BY <1>3, <2>1
<1> HIDE DEF T
<1>6. ToSet(a[N]) = T
  <2>1. DOMAIN a[N] = 1..Len(a[N])
    BY <1>4
  <2> QED BY <1>5, <2>1 DEF ToSet
<1> QED BY <1>0, <1>4, <1>6 DEF T

-----------------------------------------------------------------------------
(* What the loops of the filters keep                                       *)

\* The greatest of finitely many numbers is the one Max picks.
LEMMA MaxUpTo ==
  ASSUME NEW n \in Nat, NEW t \in SUBSET (1..n), t # {}
  PROVE  Max(t) \in t /\ \A x \in t : Max(t) >= x
<1> DEFINE Gaps == {n - x : x \in t}
<1>1. Gaps \subseteq Nat /\ Gaps # {}
  <2>1. \A x \in t : x \in Nat /\ n - x \in Nat
    OBVIOUS
  <2> QED BY <2>1
<1> HIDE DEF Gaps
<1>2. PICK m \in Gaps : \A x \in Gaps : m <= x
  BY <1>1, MinNat
<1>3. PICK y \in t : m = n - y
  BY DEF Gaps
<1>4. ASSUME NEW x \in t PROVE y >= x
  <2>1. n - x \in Gaps
    BY DEF Gaps
  <2>2. n - y <= n - x /\ x \in Nat /\ y \in Nat
    BY <1>2, <1>3, <2>1
  <2> QED BY <2>2
<1> QED BY <1>4 DEF Max

LEMMA IntervalIs ==
  ASSUME NEW n \in Nat, NEW k \in 1..n
  PROVE  /\ 1..k \in SUBSET (1..n) /\ 1..k # {} /\ (1..k) \ {k} = 1..(k - 1)
         /\ k \in Nat /\ k > 0
OBVIOUS

LEMMA MaxInterval == ASSUME NEW k \in Nat, k > 0 PROVE Max(1..k) = k
<1>1. 1..k \in SUBSET (1..k) /\ 1..k # {} /\ k \in 1..k
  OBVIOUS
<1>2. Max(1..k) \in 1..k /\ \A x \in 1..k : Max(1..k) >= x
  BY <1>1, MaxUpTo
<1> QED BY <1>1, <1>2

\* The loop, step by step: acc[k] is what it has kept of the first k elements.
KeepSteps(acc, list, n, S) ==
  /\ acc[0] = << >>
  /\ \A k \in 1..n : acc[k] = IF list[k] \in S THEN Append(acc[k - 1], list[k]) ELSE acc[k - 1]

LEMMA KeepFolds ==
  ASSUME NEW n \in Nat, NEW list, DOMAIN list = 1..n, NEW S
  PROVE  \E acc : KeepSteps(acc, list, n, S) /\ Keep(list, S) = acc[n]
<1> DEFINE D == 1..n
           Eq(f) == [t \in SUBSET D |->
                       IF t = {} THEN << >>
                       ELSE IF list[Max(t)] \in S THEN Append(f[t \ {Max(t)}], list[Max(t)])
                            ELSE f[t \ {Max(t)}]]
           g == CHOOSE f : f = Eq(f)
<1>1. Keep(list, S) = g[D]
  BY DEF Keep, FoldLeft, MapThenFoldSet
<1>2. ASSUME NEW t \in SUBSET D, t # {} PROVE Max(t) \in t
  BY <1>2, MaxUpTo
<1>3. g = Eq(g)
  <2> DEFINE V == Seq({list[i] : i \in D})
             h == [p \in D \X V |-> IF list[p[1]] \in S THEN Append(p[2], list[p[1]]) ELSE p[2]]
             c == [t \in SUBSET D |-> Max(t)]
  <2>1. h \in [D \X V -> V] /\ << >> \in V
    <3>1. \A p \in D \X V : list[p[1]] \in {list[i] : i \in D} /\ p[2] \in V
      OBVIOUS
    <3>2. \A p \in D \X V : Append(p[2], list[p[1]]) \in V
      BY <3>1
    <3> QED BY <3>1, <3>2
  <2>2. \A t \in SUBSET D : t # {} => c[t] \in t
    BY <1>2
  <2>3. IsFiniteSet(D)
    BY FS_Interval
  <2>4. PICK f \in [SUBSET D -> V] : FoldEq(f, D, << >>, h, c)
    <3> HIDE DEF h, c, V, D
    <3> QED BY <2>1, <2>2, <2>3, FoldExists
  <2>5. f = Eq(f)
    <3> SUFFICES ASSUME NEW t \in SUBSET D
                 PROVE  f[t] = IF t = {} THEN << >>
                               ELSE IF list[Max(t)] \in S THEN Append(f[t \ {Max(t)}], list[Max(t)])
                                    ELSE f[t \ {Max(t)}]
      OBVIOUS
    <3>1. f[t] = IF t = {} THEN << >> ELSE h[<<c[t], f[t \ {c[t]}]>>]
      BY <2>4 DEF FoldEq
    <3>2. CASE t # {}
      <4>1. c[t] = Max(t) /\ Max(t) \in D /\ f[t \ {Max(t)}] \in V
        BY <1>2, <3>2
      <4> DEFINE u == f[t \ {Max(t)}]
                 x == Max(t)
      <4>2. f[t] = h[<<x, u>>]
        BY <3>1, <3>2, <4>1
      <4>3. <<x, u>> \in D \X V
        BY <4>1
      <4> HIDE DEF V, u, x
      <4>4. h[<<x, u>>] = IF list[x] \in S THEN Append(u, list[x]) ELSE u
        BY <4>3
      <4> HIDE DEF h
      <4> QED BY <3>2, <4>2, <4>4, Zenon DEF u, x
    <3>3. CASE t = {}
      BY <3>1, <3>3
    <3> QED BY <3>2, <3>3
  <2> HIDE DEF Eq
  <2> QED BY <2>5
<1> HIDE DEF g
<1> DEFINE acc == [k \in 0..n |-> g[1..k]]
<1>4. acc[0] = << >>
  <2>1. 1..0 = {}
    OBVIOUS
  <2> QED BY <1>3, <2>1
<1>5. ASSUME NEW k \in 1..n
      PROVE  acc[k] = IF list[k] \in S THEN Append(acc[k - 1], list[k]) ELSE acc[k - 1]
  <2>1. 1..k \in SUBSET D /\ 1..k # {} /\ (1..k) \ {k} = 1..(k - 1) /\ k \in Nat /\ k > 0
    BY IntervalIs
  <2>2. Max(1..k) = k
    BY <2>1, MaxInterval
  <2>3. g[1..k] = IF list[Max(1..k)] \in S
                  THEN Append(g[(1..k) \ {Max(1..k)}], list[Max(1..k)])
                  ELSE g[(1..k) \ {Max(1..k)}]
    BY <1>3, <2>1
  <2>4. g[1..k] = IF list[k] \in S THEN Append(g[1..(k - 1)], list[k]) ELSE g[1..(k - 1)]
    BY <2>1, <2>2, <2>3, Zenon
  <2>5. k \in 0..n /\ k - 1 \in 0..n
    OBVIOUS
  <2>6. acc[k] = g[1..k] /\ acc[k - 1] = g[1..(k - 1)]
    BY <2>5
  <2> QED BY <2>4, <2>6, Zenon
<1>6. acc[n] = g[D]
  OBVIOUS
<1> HIDE DEF acc
<1> QED BY <1>1, <1>4, <1>5, <1>6 DEF KeepSteps

\* The positions of a list whose elements are in a set.
Chosen(list, n, S) == {i \in 1..n : list[i] \in S}

\* Keep, by positions.
LEMMA KeepIs ==
  ASSUME NEW n \in Nat, NEW list, DOMAIN list = 1..n, NEW S
  PROVE  Keep(list, S) = At(list, Chosen(list, n, S))
<1> DEFINE P == Chosen(list, n, S)
<1>1. Positions(P, n)
  BY DEF Chosen, Positions
<1>2. \A k \in 1..n : k \in P <=> list[k] \in S
  BY DEF Chosen
<1> HIDE DEF P
<1>3. Grows(list, P, n)
  BY <1>1, AtUpTo
<1>4. PICK acc : KeepSteps(acc, list, n, S) /\ Keep(list, S) = acc[n]
  BY KeepFolds
<1> DEFINE Good == {k \in 0..n : acc[k] = At(list, UpTo(P, k))}
<1>5. 0 \in Good
  BY <1>3, <1>4 DEF KeepSteps, Grows
<1>6. ASSUME NEW k \in 1..n, k - 1 \in Good PROVE k \in Good
  <2>1. acc[k - 1] = At(list, UpTo(P, k - 1)) /\ k \in 0..n
    BY <1>6
  <2>2. acc[k] = IF list[k] \in S THEN Append(acc[k - 1], list[k]) ELSE acc[k - 1]
    BY <1>4 DEF KeepSteps
  <2>3. At(list, UpTo(P, k)) = IF k \in P THEN Append(At(list, UpTo(P, k - 1)), list[k])
                               ELSE At(list, UpTo(P, k - 1))
    BY <1>3 DEF Grows
  <2>4. acc[k] = At(list, UpTo(P, k))
    BY <1>2, <2>1, <2>2, <2>3, Zenon
  <2> QED BY <2>1, <2>4
<1>7. n \in Good
  <2> HIDE DEF Good
  <2> QED BY <1>5, <1>6, Climb
<1> QED BY <1>3, <1>4, <1>7 DEF Grows, P

\* One element more.
KeepsNext(s, x, S) == Keep(Append(s, x), S) = IF x \in S THEN Append(Keep(s, S), x) ELSE Keep(s, S)

LEMMA KeepAppend ==
  ASSUME NEW T, NEW s \in Seq(T), NEW x, NEW S
  PROVE  KeepsNext(s, x, S)
<1> DEFINE t == Append(s, x)
           n == Len(s)
           P == Chosen(s, n, S)
<1>1. /\ n \in Nat /\ DOMAIN s = 1..n /\ DOMAIN t = 1..(n + 1)
      /\ \A i \in 1..n : t[i] = s[i]
      /\ t[n + 1] = x
  OBVIOUS
<1> HIDE DEF t, n
<1>2. Positions(P, n) /\ \A i \in P : i \in 1..n
  BY DEF Chosen, Positions
<1>3. Chosen(t, n + 1, S) = IF x \in S THEN P \cup {n + 1} ELSE P
  <2>1. \A i : i \in 1..(n + 1) <=> i \in 1..n \/ i = n + 1
    BY <1>1
  <2> QED BY <1>1, <2>1 DEF Chosen
<1>4. Keep(s, S) = At(s, P) /\ Keep(t, S) = At(t, Chosen(t, n + 1, S))
  <2>1. n + 1 \in Nat
    BY <1>1
  <2> QED BY <1>1, <2>1, KeepIs
<1>5. At(t, P) = At(s, P)
  <2>1. \A i \in P : t[i] = s[i]
    BY <1>1, <1>2
  <2> HIDE DEF P
  <2> QED BY <1>1, <1>2, <2>1, AtSame
<1>6. At(t, P \cup {n + 1}) = Append(At(t, P), t[n + 1])
  <2>1. n + 1 \in Nat /\ (n + 1) - 1 = n
    BY <1>1
  <2> HIDE DEF P
  <2> QED BY <1>2, <2>1, AtNext
<1> HIDE DEF P
<1>7. CASE x \in S
  <2>1. Keep(t, S) = At(t, P \cup {n + 1})
    BY <1>3, <1>4, <1>7
  <2> QED BY <1>1, <1>4, <1>5, <1>6, <1>7, <2>1, Zenon DEF t, KeepsNext
<1>8. CASE x \notin S
  <2>1. Keep(t, S) = At(t, P)
    BY <1>3, <1>4, <1>8
  <2> QED BY <1>4, <1>5, <1>8, <2>1, Zenon DEF t, KeepsNext
<1> QED BY <1>7, <1>8

\* What is kept of a list by positions.
LEMMA KeepAt ==
  ASSUME NEW list, NEW N \in Nat, NEW P, Positions(P, N), NEW S
  PROVE  LET R == {n \in P : list[n] \in S}
         IN  Keep(At(list, P), S) = At(list, R) /\ Positions(R, N)
<1> DEFINE R == {n \in P : list[n] \in S}
           Good == {k \in 0..N : Keep(At(list, UpTo(P, k)), S) = At(list, UpTo(R, k))}
<1>1. Positions(R, N)
  BY DEF Positions
<1>2. \A k \in 1..N : k \in R <=> k \in P /\ list[k] \in S
  OBVIOUS
<1> HIDE DEF R
<1>3. Grows(list, P, N) /\ Grows(list, R, N)
  BY <1>1, AtUpTo
<1>4. Keep(<< >>, S) = << >>
  <2>1. DOMAIN << >> = 1..0 /\ 0 \in Nat
    OBVIOUS
  <2>2. Keep(<< >>, S) = At(<< >>, Chosen(<< >>, 0, S))
    BY <2>1, KeepIs
  <2>3. Chosen(<< >>, 0, S) = {}
    BY DEF Chosen
  <2> QED BY <2>2, <2>3, AtEmpty
<1>5. 0 \in Good
  BY <1>3, <1>4 DEF Grows
<1>6. ASSUME NEW k \in 1..N, k - 1 \in Good PROVE k \in Good
  <2> DEFINE s == At(list, UpTo(P, k - 1))
             r == At(list, UpTo(R, k - 1))
  <2>1. Keep(s, S) = r /\ k \in 0..N
    BY <1>6
  <2>2. At(list, UpTo(P, k)) = IF k \in P THEN Append(s, list[k]) ELSE s
    BY <1>3 DEF Grows
  <2>3. At(list, UpTo(R, k)) = IF k \in R THEN Append(r, list[k]) ELSE r
    BY <1>3 DEF Grows
  <2>4. PICK T : s \in Seq(T)
    <3>1. UpTo(P, k - 1) \subseteq P
      BY DEF UpTo
    <3>2. Positions(UpTo(P, k - 1), N)
      BY <3>1, Zenon DEF Positions
    <3> QED BY <3>2, AtIn
  <2> HIDE DEF s, r
  <2>5. Keep(Append(s, list[k]), S) = IF list[k] \in S THEN Append(r, list[k]) ELSE r
    <3>1. KeepsNext(s, list[k], S)
      BY <2>4, KeepAppend
    <3> QED BY <2>1, <3>1, Zenon DEF KeepsNext
  <2>6. Keep(At(list, UpTo(P, k)), S) = At(list, UpTo(R, k))
    BY <1>2, <2>1, <2>2, <2>3, <2>5, Zenon
  <2> QED BY <2>1, <2>6
<1>7. N \in Good
  <2> HIDE DEF Good
  <2> QED BY <1>5, <1>6, Climb
<1> QED BY <1>1, <1>3, <1>7 DEF Grows, R

-----------------------------------------------------------------------------
(* The filters, by positions                                                *)

OfSeason(s, season) == season = "ALL" \/ s.season = season
                       \/ (s.season = "" /\ s.month \in MonthsOf(season))

LEMMA SeasonAt ==
  ASSUME NEW list, NEW N \in Nat, NEW P, Positions(P, N), NEW season
  PROVE  LET R == {n \in P : OfSeason(list[n], season)}
         IN  FilterBySeason(At(list, P), season) = At(list, R) /\ Positions(R, N)
<1> DEFINE S == {s \in ToSet(At(list, P)) : OfSeason(s, season)}
<1>1. {n \in P : list[n] \in S} = {n \in P : OfSeason(list[n], season)}
  <2>1. ToSet(At(list, P)) = {list[n] : n \in P}
    BY AtIn
  <2>2. \A n \in P : list[n] \in S <=> OfSeason(list[n], season)
    BY <2>1, Zenon
  <2> QED BY <2>2, Zenon
<1>2. FilterBySeason(At(list, P), season) = Keep(At(list, P), S)
  BY Zenon DEF FilterBySeason, OfSeason
<1> HIDE DEF S
<1>3. /\ Keep(At(list, P), S) = At(list, {n \in P : list[n] \in S})
      /\ Positions({n \in P : list[n] \in S}, N)
  BY KeepAt, Zenon
<1> QED BY <1>1, <1>2, <1>3, Zenon

LEMMA FormatsAt ==
  ASSUME NEW list, NEW N \in Nat, NEW P, Positions(P, N), NEW formats
  PROVE  LET R == {n \in P : list[n].format \in formats}
         IN  FilterByFormats(At(list, P), formats) = At(list, R) /\ Positions(R, N)
<1> DEFINE S == {s \in ToSet(At(list, P)) : s.format \in formats}
<1>1. {n \in P : list[n] \in S} = {n \in P : list[n].format \in formats}
  BY AtIn
<1>2. FilterByFormats(At(list, P), formats) = Keep(At(list, P), S)
  BY Zenon DEF FilterByFormats
<1> HIDE DEF S
<1> QED BY <1>1, <1>2, KeepAt

LEMMA StatsAt ==
  ASSUME NEW list, NEW N \in Nat, NEW P, Positions(P, N), NEW words
  PROVE  LET R == {n \in P : ~SkipByDuration(list[n]) /\ ~hasExcludedTag(list[n], words)}
         IN  FilterWithStats(At(list, P), words) = At(list, R) /\ Positions(R, N)
<1> DEFINE S == {s \in ToSet(At(list, P)) : ~SkipByDuration(s) /\ ~hasExcludedTag(s, words)}
<1>1. {n \in P : list[n] \in S}
        = {n \in P : ~SkipByDuration(list[n]) /\ ~hasExcludedTag(list[n], words)}
  BY AtIn
<1>2. FilterWithStats(At(list, P), words) = Keep(At(list, P), S)
  BY Zenon DEF FilterWithStats
<1> DEFINE R == {n \in P : ~SkipByDuration(list[n]) /\ ~hasExcludedTag(list[n], words)}
<1> HIDE DEF S, R
<1>3. Keep(At(list, P), S) = At(list, R) /\ Positions(R, N)
  BY <1>1, KeepAt DEF R
<1> QED BY <1>2, <1>3 DEF R

LEMMA FutureAt ==
  ASSUME NEW list, NEW N \in Nat, NEW P, Positions(P, N), NEW months
  PROVE  LET R == {n \in P : IsWithinMonths(list[n], months)}
         IN  FilterFutureWithStats(At(list, P), months) = At(list, R) /\ Positions(R, N)
<1> DEFINE S == {s \in ToSet(At(list, P)) : IsWithinMonths(s, months)}
<1>1. {n \in P : list[n] \in S} = {n \in P : IsWithinMonths(list[n], months)}
  BY AtIn
<1>2. FilterFutureWithStats(At(list, P), months) = Keep(At(list, P), S)
  BY Zenon DEF FilterFutureWithStats
<1> HIDE DEF S
<1> QED BY <1>1, <1>2, KeepAt

LEMMA FirstSeasonAt ==
  ASSUME NEW list, NEW N \in Nat, NEW P, Positions(P, N)
  PROVE  LET R == {n \in P : IsNew(list[n])}
         IN  FilterFirstSeason(At(list, P)) = At(list, R) /\ Positions(R, N)
<1> DEFINE S == {s \in ToSet(At(list, P)) : IsNew(s)}
<1>1. {n \in P : list[n] \in S} = {n \in P : IsNew(list[n])}
  BY AtIn
<1>2. FilterFirstSeason(At(list, P)) = Keep(At(list, P), S)
  BY Zenon DEF FilterFirstSeason
<1> HIDE DEF S
<1> QED BY <1>1, <1>2, KeepAt

\* The filters of Process, one after the other.
Stages(list, season, category, c) ==
  LET typed  == FilterByFormats(FilterBySeason(list, season), c.includeTypes)
      tagged == FilterWithStats(typed, c.excludeTags)
      dated  == IF c.filterFuture THEN FilterFutureWithStats(tagged, 3) ELSE tagged
  IN  IF category = "series-new" THEN FilterFirstSeason(dated) ELSE dated

\* A whole list is the list at all its positions.
LEMMA WholeList ==
  ASSUME NEW T, NEW s \in Seq(T)
  PROVE  At(s, 1..Len(s)) = s
<1>1. Len(s) \in Nat /\ DOMAIN s = 1..Len(s)
  OBVIOUS
<1>2. Positions(1..Len(s), Len(s))
  BY DEF Positions
<1>3. Cardinality(1..Len(s)) = Len(s) /\ IsFiniteSet(1..Len(s))
  BY <1>1, FS_Interval
<1> DEFINE at(p) == CHOOSE n \in 1..Len(s) : Cardinality({k \in 1..Len(s) : k <= n}) = p
<1>4. ASSUME NEW n \in 1..Len(s) PROVE Cardinality({k \in 1..Len(s) : k <= n}) = n
  <2>1. {k \in 1..Len(s) : k <= n} = 1..n /\ n \in Nat
    BY <1>1
  <2>2. Cardinality(1..n) = n
    BY <2>1, FS_Interval
  <2> QED BY <2>1, <2>2, Zenon
<1>5. \A p \in 1..Len(s) : at(p) = p
  BY <1>4
<1>6. At(s, 1..Len(s)) = [p \in 1..Len(s) |-> s[at(p)]]
  BY <1>3, Zenon DEF At
<1>7. At(s, 1..Len(s)) = [p \in 1..Len(s) |-> s[p]]
  <2> HIDE DEF at
  <2> QED BY <1>5, <1>6
<1> QED BY <1>1, <1>7

\* What the filters leave is exactly what is wanted.
LEMMA StagesAt ==
  ASSUME NEW all, NEW N \in Nat, NEW P, Positions(P, N), \A n \in P : all[n] \in Show,
         NEW season \in Seasons, NEW category, NEW c \in Settings
  PROVE  LET R == {n \in P : Wanted(all[n], season, category, c)}
         IN  Stages(At(all, P), season, category, c) = At(all, R) /\ Positions(R, N)
<1> DEFINE P1 == {n \in P : OfSeason(all[n], season)}
           P2 == {n \in P1 : all[n].format \in c.includeTypes}
           P3 == {n \in P2 : ~SkipByDuration(all[n]) /\ ~hasExcludedTag(all[n], c.excludeTags)}
           P4 == IF c.filterFuture THEN {n \in P3 : IsWithinMonths(all[n], 3)} ELSE P3
           P5 == IF category = "series-new" THEN {n \in P4 : IsNew(all[n])} ELSE P4
           R  == {n \in P : Wanted(all[n], season, category, c)}
           typed  == FilterByFormats(FilterBySeason(At(all, P), season), c.includeTypes)
           tagged == FilterWithStats(typed, c.excludeTags)
           dated  == IF c.filterFuture THEN FilterFutureWithStats(tagged, 3) ELSE tagged
<1>1. FilterBySeason(At(all, P), season) = At(all, P1) /\ Positions(P1, N)
  BY SeasonAt
<1>2. typed = At(all, P2) /\ Positions(P2, N)
  <2> HIDE DEF P1
  <2> QED BY <1>1, FormatsAt
<1>3. tagged = At(all, P3) /\ Positions(P3, N)
  <2> HIDE DEF P2, typed
  <2> QED BY <1>2, StatsAt
<1>4. dated = At(all, P4) /\ Positions(P4, N)
  <2> HIDE DEF P3, tagged
  <2> QED BY <1>3, FutureAt
<1>5. Stages(At(all, P), season, category, c) = At(all, P5) /\ Positions(P5, N)
  <2>1. Stages(At(all, P), season, category, c)
          = IF category = "series-new" THEN FilterFirstSeason(dated) ELSE dated
    BY Zenon DEF Stages
  <2> HIDE DEF P4, dated
  <2> QED BY <1>4, <2>1, FirstSeasonAt
<1>6. c.filterFuture \in BOOLEAN /\ season \in {"ALL", "WINTER", "SPRING", "SUMMER", "FALL"}
  BY PipelineAssumption
<1>7. ASSUME NEW s \in Show
      PROVE  /\ OfSeason(s, season) <=> Airs(s, season)
             /\ ~SkipByDuration(s) <=> (s.duration = Absent \/ s.duration > 10)
             /\ ~hasExcludedTag(s, c.excludeTags) <=> \A t \in s.tags : t[1] \in c.excludeTags => t[1] = ""
             /\ IsNew(s) <=> "PREQUEL" \notin s.relations /\ "PARENT" \notin s.relations
  <2>1. s.duration \in Int /\ s.month \in Int
    BY DEF Show
  <2>2. OfSeason(s, season) <=> Airs(s, season)
    <3>1. season # "ALL" /\ s.month \in MonthsOf(season) => s.month >= 1
      BY <1>6, <2>1 DEF MonthsOf
    <3> QED BY <3>1 DEF OfSeason, Airs
  <2>3. ~SkipByDuration(s) <=> (s.duration = Absent \/ s.duration > 10)
    BY <2>1 DEF SkipByDuration
  <2>4. ~hasExcludedTag(s, c.excludeTags) <=> \A t \in s.tags : t[1] \in c.excludeTags => t[1] = ""
    BY DEF hasExcludedTag, HasTag
  <2>5. IsNew(s) <=> "PREQUEL" \notin s.relations /\ "PARENT" \notin s.relations
    BY DEF IsNew
  <2> QED BY <2>2, <2>3, <2>4, <2>5
<1>8. ASSUME NEW n \in P PROVE n \in P5 <=> Wanted(all[n], season, category, c)
  <2> DEFINE s == all[n]
  <2>1. s \in Show
    OBVIOUS
  <2>2. n \in P5 <=> /\ OfSeason(s, season) /\ s.format \in c.includeTypes
                     /\ ~SkipByDuration(s) /\ ~hasExcludedTag(s, c.excludeTags)
                     /\ c.filterFuture => IsWithinMonths(s, 3)
                     /\ category = "series-new" => IsNew(s)
    BY <1>6
  <2> HIDE DEF P5, s
  <2> QED BY <1>7, <2>1, <2>2, Zenon DEF Wanted, s
<1>9. P5 = R
  <2>1. \A n \in P5 : n \in P
    BY <1>6
  <2> HIDE DEF P5
  <2> QED BY <1>8, <2>1
<1> HIDE DEF P5
<1> QED BY <1>5, <1>9

-----------------------------------------------------------------------------
(* The winter merge                                                         *)

NewTo(list, s) == s.month = 12 /\ \A n \in DOMAIN list : list[n].id # s.id

\* The loop of WinterOverflow.
Adds(shows, list) ==
  FoldLeft(LAMBDA acc, s : IF s.month = 12 /\ \A n \in DOMAIN acc : acc[n].id # s.id
                           THEN Append(acc, s) ELSE acc,
           shows, list)

AddSteps(acc, shows, list, n) ==
  /\ acc[0] = shows
  /\ \A k \in 1..n :
       acc[k] = IF NewTo(acc[k - 1], list[k]) THEN Append(acc[k - 1], list[k]) ELSE acc[k - 1]

LEMMA AddFolds ==
  ASSUME NEW T, NEW shows \in Seq(T), NEW n \in Nat, NEW list, DOMAIN list = 1..n,
         \A i \in 1..n : list[i] \in T
  PROVE  \E acc : AddSteps(acc, shows, list, n) /\ Adds(shows, list) = acc[n]
<1> DEFINE D == 1..n
           New(a, s) == s.month = 12 /\ \A i \in DOMAIN a : a[i].id # s.id
           Eq(f) == [t \in SUBSET D |->
                       IF t = {} THEN shows
                       ELSE IF New(f[t \ {Max(t)}], list[Max(t)])
                            THEN Append(f[t \ {Max(t)}], list[Max(t)])
                            ELSE f[t \ {Max(t)}]]
           g == CHOOSE f : f = Eq(f)
<1>1. Adds(shows, list) = g[D]
  BY DEF Adds, FoldLeft, MapThenFoldSet
<1>2. ASSUME NEW t \in SUBSET D, t # {} PROVE Max(t) \in t
  BY <1>2, MaxUpTo
<1>n. \A a, s : New(a, s) <=> NewTo(a, s)
  BY DEF NewTo
<1> HIDE DEF New
<1>3. g = Eq(g)
  <2> DEFINE V == Seq(T)
             h == [p \in D \X V |-> IF New(p[2], list[p[1]]) THEN Append(p[2], list[p[1]]) ELSE p[2]]
             c == [t \in SUBSET D |-> Max(t)]
  <2>1. h \in [D \X V -> V] /\ shows \in V
    <3>1. \A p \in D \X V : list[p[1]] \in T /\ p[2] \in V
      OBVIOUS
    <3>2. \A p \in D \X V : Append(p[2], list[p[1]]) \in V
      BY <3>1
    <3> QED BY <3>1, <3>2
  <2>2. \A t \in SUBSET D : t # {} => c[t] \in t
    BY <1>2
  <2>3. IsFiniteSet(D)
    BY FS_Interval
  <2>4. PICK f \in [SUBSET D -> V] : FoldEq(f, D, shows, h, c)
    <3> HIDE DEF h, c, V, D
    <3> QED BY <2>1, <2>2, <2>3, FoldExists
  <2>5. f = Eq(f)
    <3> SUFFICES ASSUME NEW t \in SUBSET D
                 PROVE  f[t] = IF t = {} THEN shows
                               ELSE IF New(f[t \ {Max(t)}], list[Max(t)])
                                    THEN Append(f[t \ {Max(t)}], list[Max(t)])
                                    ELSE f[t \ {Max(t)}]
      OBVIOUS
    <3>1. f[t] = IF t = {} THEN shows ELSE h[<<c[t], f[t \ {c[t]}]>>]
      BY <2>4 DEF FoldEq
    <3>2. CASE t # {}
      <4>1. c[t] = Max(t) /\ Max(t) \in D /\ f[t \ {Max(t)}] \in V
        BY <1>2, <3>2
      <4> DEFINE u == f[t \ {Max(t)}]
                 x == Max(t)
      <4>2. f[t] = h[<<x, u>>]
        BY <3>1, <3>2, <4>1
      <4>3. <<x, u>> \in D \X V
        BY <4>1
      <4> HIDE DEF V, u, x
      <4>4. h[<<x, u>>] = IF New(u, list[x]) THEN Append(u, list[x]) ELSE u
        BY <4>3
      <4> HIDE DEF h
      <4> QED BY <3>2, <4>2, <4>4, Zenon DEF u, x
    <3>3. CASE t = {}
      BY <3>1, <3>3
    <3> QED BY <3>2, <3>3
  <2> HIDE DEF Eq
  <2> QED BY <2>5
<1> HIDE DEF g
<1> DEFINE acc == [k \in 0..n |-> g[1..k]]
<1>4. acc[0] = shows
  <2>1. 1..0 = {}
    OBVIOUS
  <2> QED BY <1>3, <2>1
<1>5. ASSUME NEW k \in 1..n
      PROVE  acc[k] = IF NewTo(acc[k - 1], list[k]) THEN Append(acc[k - 1], list[k]) ELSE acc[k - 1]
  <2>1. 1..k \in SUBSET D /\ 1..k # {} /\ (1..k) \ {k} = 1..(k - 1) /\ k \in Nat /\ k > 0
    BY IntervalIs
  <2>2. Max(1..k) = k
    BY <2>1, MaxInterval
  <2>3. g[1..k] = IF New(g[(1..k) \ {Max(1..k)}], list[Max(1..k)])
                  THEN Append(g[(1..k) \ {Max(1..k)}], list[Max(1..k)])
                  ELSE g[(1..k) \ {Max(1..k)}]
    BY <1>3, <2>1
  <2>4. g[1..k] = IF New(g[1..(k - 1)], list[k]) THEN Append(g[1..(k - 1)], list[k]) ELSE g[1..(k - 1)]
    BY <2>1, <2>2, <2>3, Zenon
  <2>5. k \in 0..n /\ k - 1 \in 0..n
    OBVIOUS
  <2>6. acc[k] = g[1..k] /\ acc[k - 1] = g[1..(k - 1)]
    BY <2>5
  <2> HIDE DEF acc
  <2> QED BY <1>n, <2>4, <2>6, Zenon
<1>6. acc[n] = g[D]
  OBVIOUS
<1> HIDE DEF acc
<1> QED BY <1>1, <1>4, <1>5, <1>6 DEF AddSteps

\* One show more.
AddsNext(shows, s, x) ==
  Adds(shows, Append(s, x)) = IF NewTo(Adds(shows, s), x) THEN Append(Adds(shows, s), x) ELSE Adds(shows, s)

LEMMA AddsAppend ==
  ASSUME NEW T, NEW shows \in Seq(T), NEW s \in Seq(T), NEW x \in T
  PROVE  AddsNext(shows, s, x)
<1> DEFINE t == Append(s, x)
           n == Len(s)
<1>1. /\ n \in Nat /\ n + 1 \in Nat /\ DOMAIN s = 1..n /\ DOMAIN t = 1..(n + 1)
      /\ \A i \in 1..n : s[i] \in T
      /\ \A i \in 1..(n + 1) : t[i] \in T
      /\ \A i \in 1..n : t[i] = s[i] /\ i \in 1..(n + 1)
      /\ t[n + 1] = x /\ n + 1 \in 1..(n + 1) /\ (n + 1) - 1 = n
  OBVIOUS
<1> HIDE DEF t, n
<1>2. PICK a : AddSteps(a, shows, s, n) /\ Adds(shows, s) = a[n]
  <2>1. n \in Nat /\ DOMAIN s = 1..n /\ \A i \in 1..n : s[i] \in T
    BY <1>1
  <2> QED BY <2>1, AddFolds
<1>3. PICK b : AddSteps(b, shows, t, n + 1) /\ Adds(shows, t) = b[n + 1]
  <2>1. n + 1 \in Nat /\ DOMAIN t = 1..(n + 1) /\ \A i \in 1..(n + 1) : t[i] \in T
    BY <1>1
  <2> QED BY <2>1, AddFolds
<1> DEFINE Good == {k \in 0..n : a[k] = b[k]}
<1>4. 0 \in Good
  BY <1>1, <1>2, <1>3 DEF AddSteps
<1>5. ASSUME NEW k \in 1..n, k - 1 \in Good PROVE k \in Good
  <2>1. a[k - 1] = b[k - 1] /\ k \in 0..n
    BY <1>1, <1>5
  <2>2. a[k] = IF NewTo(a[k - 1], s[k]) THEN Append(a[k - 1], s[k]) ELSE a[k - 1]
    BY <1>2 DEF AddSteps
  <2>3. b[k] = IF NewTo(b[k - 1], t[k]) THEN Append(b[k - 1], t[k]) ELSE b[k - 1]
    BY <1>1, <1>3, Zenon DEF AddSteps
  <2>4. t[k] = s[k]
    BY <1>1
  <2>5. a[k] = b[k]
    BY <2>1, <2>2, <2>3, <2>4
  <2> QED BY <2>1, <2>5
<1>6. a[n] = b[n]
  <2>1. n \in Good
    <3>1. n \in Nat /\ n \in 0..n
      BY <1>1
    <3> HIDE DEF Good
    <3>2. \A k \in 0..n : k \in Good
      BY <1>4, <1>5, <3>1, Climb
    <3> QED BY <3>1, <3>2
  <2> QED BY <2>1
<1>7. b[n + 1] = IF NewTo(b[n], x) THEN Append(b[n], x) ELSE b[n]
  BY <1>1, <1>3, Zenon DEF AddSteps
<1> QED BY <1>2, <1>3, <1>6, <1>7, Zenon DEF AddsNext, t

LEMMA AirsIs ==
  ASSUME NEW s \in Show, NEW season \in {"ALL", "WINTER", "SPRING", "SUMMER", "FALL"}
  PROVE  OfSeason(s, season) <=> Airs(s, season)
<1>1. s.month \in Int
  BY DEF Show
<1>2. season # "ALL" /\ s.month \in MonthsOf(season) => s.month >= 1
  BY <1>1 DEF MonthsOf
<1> QED BY <1>2 DEF OfSeason, Airs

\* It is enough that no earlier show that is carried has the ID.
CarriedFirst(shows, prior, k) ==
  Carried(shows, prior, k) <=>
    /\ prior[k].month = 12 /\ Airs(prior[k], "WINTER")
    /\ \A n \in DOMAIN shows : shows[n].id # prior[k].id
    /\ \A j \in 1..(k - 1) : Carried(shows, prior, j) => prior[j].id # prior[k].id

LEMMA CarriedIs ==
  ASSUME NEW shows, NEW prior, NEW k \in Nat \ {0}
  PROVE  CarriedFirst(shows, prior, k)
<1> DEFINE Airing(j) == prior[j].month = 12 /\ Airs(prior[j], "WINTER")
           Free(j) == \A n \in DOMAIN shows : shows[n].id # prior[j].id
<1>1. \A j : Carried(shows, prior, j) <=>
               Airing(j) /\ Free(j) /\ \A i \in 1..(j - 1) : prior[i].id = prior[j].id => ~Airing(i)
  BY Zenon DEF Carried
<1>2. ASSUME Airing(k), Free(k), \A j \in 1..(k - 1) : Carried(shows, prior, j) => prior[j].id # prior[k].id
      PROVE  \A i \in 1..(k - 1) : prior[i].id = prior[k].id => ~Airing(i)
  <2> DEFINE Bad == {i \in 1..(k - 1) : prior[i].id = prior[k].id /\ Airing(i)}
  <2> SUFFICES ASSUME Bad # {} PROVE FALSE
    OBVIOUS
  <2>1. PICK j \in Bad : \A i \in Bad : j <= i
    <3>1. Bad \subseteq Nat
      OBVIOUS
    <3> HIDE DEF Bad
    <3> QED BY <3>1, MinNat
  <2>2. \A i \in 1..(j - 1) : i \in 1..(k - 1) /\ ~(j <= i)
    OBVIOUS
  <2>3. \A i \in 1..(j - 1) : prior[i].id = prior[j].id => ~Airing(i)
    BY <2>1, <2>2
  <2>4. Free(j)
    BY <1>2
  <2> HIDE DEF Airing, Free
  <2>5. Carried(shows, prior, j)
    BY <1>1, <2>3, <2>4
  <2> QED BY <1>2, <2>5
<1> HIDE DEF Free
<1>3. \A j \in 1..(k - 1) : Carried(shows, prior, j) => Airing(j)
  BY <1>1
<1> HIDE DEF Airing
<1>4. Carried(shows, prior, k) <=>
        Airing(k) /\ Free(k) /\ \A j \in 1..(k - 1) : Carried(shows, prior, j) => prior[j].id # prior[k].id
  BY <1>1, <1>2, <1>3
<1> QED BY <1>4 DEF Airing, Free, CarriedFirst

\* Carried shows come after the shows of the year.
Merged(shows, prior) ==
  {n \in 1..(Len(shows) + Len(prior)) : n <= Len(shows) \/ Carried(shows, prior, n - Len(shows))}

LEMMA ConcatIs ==
  ASSUME NEW T, NEW s \in Seq(T), NEW u \in Seq(T)
  PROVE  /\ Len(s) \in Nat /\ Len(u) \in Nat
         /\ DOMAIN s = 1..Len(s) /\ DOMAIN u = 1..Len(u)
         /\ DOMAIN (s \o u) = 1..(Len(s) + Len(u)) /\ s \o u \in Seq(T)
         /\ \A n \in 1..Len(s) : s[n] \in T /\ (s \o u)[n] = s[n]
         /\ \A n \in 1..Len(u) : u[n] \in T /\ (s \o u)[Len(s) + n] = u[n]
OBVIOUS

\* A show is new to what has been merged exactly if it is carried.
LEMMA NewIs ==
  ASSUME NEW shows \in Seq(Show), NEW prior \in Seq(Show), NEW k \in 1..Len(prior),
         OfSeason(prior[k], "WINTER")
  PROVE  NewTo(At(shows \o prior, UpTo(Merged(shows, prior), Len(shows) + k - 1)), prior[k])
           <=> Carried(shows, prior, k)
<1> DEFINE all == shows \o prior
           l == Len(shows)
           m == Len(prior)
           P == UpTo(Merged(shows, prior), l + k - 1)
           x == prior[k]
<1>1. /\ l \in Nat /\ m \in Nat /\ k \in Nat \ {0} /\ DOMAIN shows = 1..l
      /\ \A n \in 1..l : all[n] = shows[n]
      /\ \A n \in 1..m : all[l + n] = prior[n]
      /\ x \in Show
  BY ConcatIs
<1>2. /\ \A n \in 1..l : n \in P
      /\ \A j \in 1..(k - 1) : l + j \in P <=> Carried(shows, prior, j)
      /\ \A n \in P : n \in 1..l \/ n - l \in 1..(k - 1)
  <2>1. \A n : n \in P <=> /\ n \in 1..(l + m) /\ n <= l + k - 1
                           /\ n <= l \/ Carried(shows, prior, n - l)
    BY DEF UpTo, Merged
  <2> HIDE DEF P, l, m
  <2>2. \A j \in 1..(k - 1) : (l + j) - l = j /\ l + j \in 1..(l + m) /\ l + j <= l + k - 1 /\ ~(l + j <= l)
    BY <1>1 DEF m
  <2>3. \A n \in 1..l : n \in 1..(l + m) /\ n <= l + k - 1 /\ n <= l
    BY <1>1
  <2>4. \A n \in P : n \in 1..l \/ n - l \in 1..(k - 1)
    BY <1>1, <2>1
  <2> QED BY <2>1, <2>2, <2>3, <2>4
<1>3. Positions(P, l + m)
  BY DEF Positions, UpTo, Merged
<1>4. NewTo(At(all, P), x) <=> x.month = 12 /\ \A n \in P : all[n].id # x.id
  <2>1. l + m \in Nat
    BY <1>1
  <2> HIDE DEF all, P, l, m
  <2>2. ToSet(At(all, P)) = {all[n] : n \in P}
    BY <1>3, <2>1, AtIn
  <2>3. (\A n \in DOMAIN At(all, P) : At(all, P)[n].id # x.id) <=> (\A s \in ToSet(At(all, P)) : s.id # x.id)
    BY DEF ToSet
  <2>4. (\A s \in ToSet(At(all, P)) : s.id # x.id) <=> (\A n \in P : all[n].id # x.id)
    BY <2>2
  <2> QED BY <2>3, <2>4 DEF NewTo
<1>5. (\A n \in P : all[n].id # x.id)
        <=> /\ \A n \in DOMAIN shows : shows[n].id # x.id
            /\ \A j \in 1..(k - 1) : Carried(shows, prior, j) => prior[j].id # x.id
  <2>0. \A j \in 1..(k - 1) : j \in 1..m
    BY <1>1
  <2> HIDE DEF all, P, l, m, x
  <2>1. ASSUME \A n \in P : all[n].id # x.id
        PROVE  /\ \A n \in DOMAIN shows : shows[n].id # x.id
               /\ \A j \in 1..(k - 1) : Carried(shows, prior, j) => prior[j].id # x.id
    BY <1>1, <1>2, <2>0, <2>1
  <2>2. ASSUME /\ \A n \in DOMAIN shows : shows[n].id # x.id
               /\ \A j \in 1..(k - 1) : Carried(shows, prior, j) => prior[j].id # x.id,
               NEW n \in P
        PROVE  all[n].id # x.id
    <3>1. CASE n \in 1..l
      BY <1>1, <2>2, <3>1
    <3>2. CASE n - l \in 1..(k - 1)
      <4> DEFINE j == n - l
      <4>1. j \in 1..(k - 1) /\ n = l + j /\ j \in 1..m
        <5>1. n \in Int
          BY <1>1, <1>3 DEF Positions
        <5> QED BY <1>1, <2>0, <3>2, <5>1
      <4> HIDE DEF j
      <4>2. Carried(shows, prior, j)
        BY <1>2, <4>1
      <4> QED BY <1>1, <2>2, <4>1, <4>2
    <3> QED BY <1>2, <3>1, <3>2
  <2> QED BY <2>1, <2>2
<1>6. Airs(x, "WINTER")
  BY <1>1, AirsIs
<1>7. Carried(shows, prior, k) <=>
        /\ x.month = 12 /\ Airs(x, "WINTER")
        /\ \A n \in DOMAIN shows : shows[n].id # x.id
        /\ \A j \in 1..(k - 1) : Carried(shows, prior, j) => prior[j].id # x.id
  <2>1. CarriedFirst(shows, prior, k)
    BY <1>1, CarriedIs
  <2> QED BY <2>1, Zenon DEF CarriedFirst, x
<1> HIDE DEF P, x
<1> QED BY <1>4, <1>5, <1>6, <1>7 DEF P, x

\* The winter merge, by positions of the two lists.
LEMMA MergeAt ==
  ASSUME NEW shows \in Seq(Show), NEW prior \in Seq(Show)
  PROVE  WinterOverflow(shows, prior) = At(shows \o prior, Merged(shows, prior))
<1> DEFINE all == shows \o prior
           l == Len(shows)
           m == Len(prior)
           M == Merged(shows, prior)
           A == {n \in 1..m : OfSeason(prior[n], "WINTER")}
           Good == {k \in 0..m : Adds(shows, At(prior, UpTo(A, k))) = At(all, UpTo(M, l + k))}
<1>1. /\ l \in Nat /\ m \in Nat /\ l + m \in Nat /\ DOMAIN shows = 1..l
      /\ \A n \in 1..l : shows[n] \in Show /\ all[n] = shows[n]
      /\ \A n \in 1..m : prior[n] \in Show /\ all[l + n] = prior[n]
  BY ConcatIs
<1>2. Positions(M, l + m) /\ Positions(A, m) /\ Positions(1..l, l) /\ Positions(1..m, m)
  BY DEF Positions, Merged
<1>3. Grows(all, M, l + m) /\ Grows(prior, A, m)
  <2> HIDE DEF all, M, A, l, m
  <2> QED BY <1>1, <1>2, AtUpTo
<1>4. WinterOverflow(shows, prior) = Adds(shows, At(prior, A))
  <2>1. At(prior, 1..m) = prior
    BY WholeList
  <2>2. FilterBySeason(At(prior, 1..m), "WINTER") = At(prior, A)
    <3> HIDE DEF m
    <3> QED BY <1>1, <1>2, SeasonAt
  <2>3. FilterBySeason(prior, "WINTER") = At(prior, A)
    <3> HIDE DEF m, A
    <3> QED BY <2>1, <2>2
  <2>4. WinterOverflow(shows, prior) = Adds(shows, FilterBySeason(prior, "WINTER"))
    BY Zenon DEF WinterOverflow, Adds
  <2> HIDE DEF A
  <2> QED BY <2>3, <2>4
<1>5. ASSUME NEW k \in 1..m PROVE l + k \in M <=> Carried(shows, prior, k)
  <2>1. l + k \in 1..(l + m) /\ ~(l + k <= l) /\ (l + k) - l = k
    BY <1>1
  <2> QED BY <2>1, Zenon DEF Merged
<1>6. UpTo(M, l) = 1..l
  <2>1. \A n : n \in M <=> n \in 1..(l + m) /\ (n <= l \/ Carried(shows, prior, n - l))
    BY DEF Merged
  <2>2. \A n : n \in UpTo(M, l) <=> n \in M /\ n <= l
    BY DEF UpTo
  <2> HIDE DEF M, l, m
  <2>3. \A n : n \in 1..l => n \in 1..(l + m) /\ n <= l
    BY <1>1
  <2>4. \A n \in M : n <= l => n \in 1..l
    BY <1>1, <2>1
  <2>5. \A n : n \in UpTo(M, l) <=> n \in 1..l
    BY <2>1, <2>2, <2>3, <2>4, Zenon
  <2> QED BY <2>5, Zenon
<1>7. ASSUME NEW k \in 1..m, OfSeason(prior[k], "WINTER")
      PROVE  NewTo(At(all, UpTo(M, l + k - 1)), prior[k]) <=> Carried(shows, prior, k)
  BY <1>7, NewIs
<1>8. ASSUME NEW k \in 1..m, k \notin A PROVE ~Carried(shows, prior, k)
  <2>1. ~Airs(prior[k], "WINTER")
    BY <1>1, <1>8, AirsIs
  <2> QED BY <2>1 DEF Carried
<1>9. \A k \in A : k \in 1..m /\ OfSeason(prior[k], "WINTER")
  OBVIOUS
<1> HIDE DEF M, A
<1>10. 0 \in Good
  <2>1. At(prior, UpTo(A, 0)) = << >>
    BY <1>3 DEF Grows
  <2>2. Adds(shows, << >>) = shows
    <3>1. DOMAIN << >> = 1..0 /\ 0 \in Nat /\ \A i \in 1..0 : << >>[i] \in Show
      OBVIOUS
    <3>2. PICK acc : AddSteps(acc, shows, << >>, 0) /\ Adds(shows, << >>) = acc[0]
      BY <3>1, AddFolds
    <3> QED BY <3>2 DEF AddSteps
  <2>3. At(all, UpTo(M, l)) = shows
    <3>1. At(shows, 1..l) = shows
      BY WholeList
    <3>2. At(all, 1..l) = At(shows, 1..l)
      <4> HIDE DEF all, l
      <4> QED BY <1>1, <1>2, AtSame
    <3> QED BY <1>6, <3>1, <3>2
  <2>4. l + 0 = l /\ 0 \in 0..m
    BY <1>1
  <2> HIDE DEF all, l, m
  <2> QED BY <2>1, <2>2, <2>3, <2>4
<1>11. ASSUME NEW k \in 1..m, k - 1 \in Good PROVE k \in Good
  <2> DEFINE s == At(prior, UpTo(A, k - 1))
             r == At(all, UpTo(M, l + k - 1))
             x == prior[k]
  <2>1. /\ k \in 0..m /\ l + (k - 1) = l + k - 1 /\ l + k \in 1..(l + m) /\ (l + k) - 1 = l + k - 1
        /\ x \in Show
    BY <1>1
  <2>2. Adds(shows, s) = r
    BY <1>11, <2>1
  <2>3. At(prior, UpTo(A, k)) = IF k \in A THEN Append(s, x) ELSE s
    BY <1>3 DEF Grows
  <2>4. At(all, UpTo(M, l + k)) = IF Carried(shows, prior, k) THEN Append(r, x) ELSE r
    <3>1. At(all, UpTo(M, l + k)) = IF l + k \in M THEN Append(At(all, UpTo(M, (l + k) - 1)), all[l + k])
                                    ELSE At(all, UpTo(M, (l + k) - 1))
      BY <1>3, <2>1, Zenon DEF Grows
    <3>2. all[l + k] = x
      BY <1>1
    <3> HIDE DEF all, l, m, x
    <3> QED BY <1>5, <2>1, <3>1, <3>2, Zenon
  <2>5. s \in Seq(Show)
    <3>1. Positions(UpTo(A, k - 1), m)
      BY <1>9 DEF Positions, UpTo
    <3>2. s \in Seq({prior[n] : n \in UpTo(A, k - 1)})
      <4> HIDE DEF m
      <4> QED BY <1>1, <3>1, AtIn
    <3>3. {prior[n] : n \in UpTo(A, k - 1)} \subseteq Show
      BY <1>1, <1>9 DEF UpTo
    <3> HIDE DEF s
    <3> QED BY <3>2, <3>3
  <2>6. AddsNext(shows, s, x)
    <3> HIDE DEF s, x
    <3> QED BY <2>1, <2>5, AddsAppend
  <2>7. Adds(shows, Append(s, x)) = IF NewTo(r, x) THEN Append(r, x) ELSE r
    <3> HIDE DEF s, x, r
    <3> QED BY <2>2, <2>6, Zenon DEF AddsNext
  <2>8. k \in A => (NewTo(r, x) <=> Carried(shows, prior, k))
    BY <1>7, <1>9
  <2>9. k \notin A => ~Carried(shows, prior, k)
    BY <1>8
  <2> HIDE DEF s, r, x, all, l
  <2>10. Adds(shows, At(prior, UpTo(A, k))) = At(all, UpTo(M, l + k))
    BY <2>2, <2>3, <2>4, <2>7, <2>8, <2>9, Zenon
  <2> QED BY <2>1, <2>10
<1>12. m \in Good
  <2>1. m \in 0..m
    BY <1>1
  <2> HIDE DEF Good, m
  <2>2. \A k \in 0..m : k \in Good
    BY <1>1, <1>10, <1>11, Climb
  <2> QED BY <2>1, <2>2
<1>13. At(prior, UpTo(A, m)) = At(prior, A) /\ At(all, UpTo(M, l + m)) = At(all, M)
  BY <1>3 DEF Grows
<1> HIDE DEF all, l, m
<1> QED BY <1>4, <1>12, <1>13 DEF all, M

\* What the merge leaves, by positions of the two lists.
Taken(shows, prior, season) ==
  {n \in 1..(Len(shows) + Len(prior)) :
     n <= Len(shows) \/ (season = "WINTER" /\ Carried(shows, prior, n - Len(shows)))}

LEMMA TakenAt ==
  ASSUME NEW shows \in Seq(Show), NEW prior \in Seq(Show), NEW season
  PROVE  (IF season = "WINTER" THEN WinterOverflow(shows, prior) ELSE shows)
           = At(shows \o prior, Taken(shows, prior, season))
<1> DEFINE all == shows \o prior
           l == Len(shows)
           m == Len(prior)
<1>1. /\ l \in Nat /\ m \in Nat /\ DOMAIN shows = 1..l
      /\ \A n \in 1..l : all[n] = shows[n]
  BY ConcatIs
<1>2. CASE season = "WINTER"
  <2>1. Taken(shows, prior, season) = Merged(shows, prior)
    BY <1>2 DEF Taken, Merged
  <2>2. WinterOverflow(shows, prior) = At(shows \o prior, Merged(shows, prior))
    BY MergeAt
  <2> QED BY <1>2, <2>1, <2>2, Zenon
<1>3. CASE season # "WINTER"
  <2>1. Taken(shows, prior, season) = 1..l
    <3>1. \A n : n \in Taken(shows, prior, season) <=> n \in 1..(l + m) /\ n <= l
      BY <1>3 DEF Taken
    <3> HIDE DEF l, m
    <3>2. \A n : n \in 1..(l + m) /\ n <= l <=> n \in 1..l
      BY <1>1
    <3>3. \A n : n \in Taken(shows, prior, season) <=> n \in 1..l
      BY <3>1, <3>2, Zenon
    <3> QED BY <3>3, Zenon
  <2>2. At(shows, 1..l) = shows
    BY WholeList
  <2>3. At(all, 1..l) = At(shows, 1..l)
    <3>1. Positions(1..l, l)
      BY DEF Positions
    <3> HIDE DEF all, l
    <3> QED BY <1>1, <3>1, AtSame
  <2> QED BY <1>3, <2>1, <2>2, <2>3, Zenon
<1> QED BY <1>2, <1>3

\* The merge and the filters make the list that the reference lists.
LEMMA ListedIs ==
  ASSUME NEW shows \in Seq(Show), NEW prior \in Seq(Show), NEW season \in Seasons, NEW category,
         NEW c \in Settings
  PROVE  Stages(IF season = "WINTER" THEN WinterOverflow(shows, prior) ELSE shows, season, category, c)
           = Listed(shows, prior, season, category, c)
<1> DEFINE all == shows \o prior
           l == Len(shows)
           m == Len(prior)
           P == Taken(shows, prior, season)
           R == {n \in P : Wanted(all[n], season, category, c)}
           in(n) == /\ n <= l \/ (season = "WINTER" /\ Carried(shows, prior, n - l))
                    /\ Wanted(all[n], season, category, c)
<1>1. l \in Nat /\ m \in Nat /\ l + m \in Nat /\ DOMAIN all = 1..(l + m) /\ all \in Seq(Show)
  BY ConcatIs
<1>2. \A n \in DOMAIN all : all[n] \in Show
  <2> HIDE DEF all
  <2> QED BY <1>1
<1>3. Positions(P, l + m) /\ \A n \in P : all[n] \in Show
  <2>1. \A n \in P : n \in DOMAIN all
    BY <1>1 DEF Taken
  <2>2. Positions(P, l + m)
    BY DEF Positions, Taken
  <2> QED BY <1>2, <2>1, <2>2
<1>4. Stages(At(all, P), season, category, c) = At(all, R)
  <2> HIDE DEF all, P, l, m
  <2> QED BY <1>1, <1>3, StagesAt
<1>5. R = {n \in DOMAIN all : in(n)}
  BY <1>1, Zenon DEF Taken
<1>6. Listed(shows, prior, season, category, c) = At(all, {n \in DOMAIN all : in(n)})
  BY Zenon DEF Listed
<1>7. (IF season = "WINTER" THEN WinterOverflow(shows, prior) ELSE shows) = At(all, P)
  BY TakenAt
<1> HIDE DEF all, P, R, in
<1> QED BY <1>4, <1>5, <1>6, <1>7, Zenon

-----------------------------------------------------------------------------
(* The lookup and the rows                                                  *)

LastOf(list, i)  == list[Max({n \in DOMAIN list : list[n].id = i})]
Knows(m, s)    == (s.mal > 0 /\ s.mal \in DOMAIN m.mal) \/ s.id \in DOMAIN m.anilist
RowOf(m, s)    == [tvdb |-> IF s.mal \in DOMAIN m.mal THEN m.mal[s.mal] ELSE m.anilist[s.id],
                   title |-> s.title]
KnownAt(list, m) == {n \in DOMAIN list : Knows(m, LastOf(list, list[n].id))}

\* The rows that the reference expects of a list.
Expected(list, m) ==
  LET rows == At(list, KnownAt(list, m))
  IN  [n \in DOMAIN rows |-> RowOf(m, LastOf(list, rows[n].id))]

\* The batch has the last entry of each ID.
LastHere(list, i) ==
  /\ \E n \in DOMAIN list : LastOf(list, i) = list[n] /\ list[n].id = i
  /\ LastOf(list, i) = list[CHOOSE n \in DOMAIN list :
                            /\ list[n].id = i
                            /\ \A k \in n + 1..Len(list) : list[k].id # i]

LEMMA LastIs ==
  ASSUME NEW T, NEW list \in Seq(T), NEW j \in DOMAIN list
  PROVE  LastHere(list, list[j].id)
<1> DEFINE N == Len(list)
           i == list[j].id
           t == {n \in DOMAIN list : list[n].id = i}
           M == Max(t)
           Final(n) == list[n].id = i /\ \A k \in n + 1..N : list[k].id # i
<1>1. N \in Nat /\ DOMAIN list = 1..N /\ j \in t /\ t \in SUBSET (1..N)
  OBVIOUS
<1>2. M \in t /\ \A x \in t : M >= x
  <2> HIDE DEF t, N
  <2> QED BY <1>1, MaxUpTo
<1>3. M \in DOMAIN list /\ list[M].id = i /\ M \in Int
  BY <1>1, <1>2
<1>4. \A n \in DOMAIN list : list[n].id = i => n \in t
  OBVIOUS
<1> HIDE DEF t, M, i, N
<1>5. Final(M)
  <2>1. \A k \in M + 1..N : k \in DOMAIN list /\ ~(M >= k)
    BY <1>1, <1>3
  <2> QED BY <1>2, <1>3, <1>4, <2>1
<1>6. \A n \in DOMAIN list : Final(n) => n = M
  <2> SUFFICES ASSUME NEW n \in DOMAIN list, Final(n) PROVE n = M
    OBVIOUS
  <2>1. n \in 1..N /\ M \in 1..N /\ M >= n
    BY <1>1, <1>2, <1>3, <1>4
  <2>2. M \notin n + 1..N
    BY <1>3
  <2> QED BY <2>1, <2>2
<1> HIDE DEF Final
<1>7. (CHOOSE n \in DOMAIN list : Final(n)) = M
  BY <1>3, <1>5, <1>6
<1>8. LastOf(list, i) = list[M]
  BY Zenon DEF LastOf, M, t
<1>9. LastOf(list, i) = list[CHOOSE n \in DOMAIN list : list[n].id = i /\ \A k \in n + 1..Len(list) : list[k].id # i]
  BY <1>7, <1>8, Zenon DEF Final, N
<1> QED BY <1>3, <1>8, <1>9, Zenon DEF LastHere, i

\* A mapping knows a show, or resolving it gives nothing.
LEMMA ResolveIs ==
  ASSUME NEW m \in Mappings, NEW s \in Show
  PROVE  /\ resolveShow(m, s) # Absent <=> Knows(m, s)
         /\ Knows(m, s) => [tvdb |-> resolveShow(m, s), title |-> s.title] = RowOf(m, s)
<1>1. s.mal \in Int /\ s.id \in Int
  BY DEF Show
<1>2. /\ s.mal \in DOMAIN m.mal => s.mal > 0 /\ m.mal[s.mal] > 0
      /\ s.id \in DOMAIN m.anilist => s.id > 0 /\ m.anilist[s.id] > 0
  BY PipelineAssumption
<1>3. \A v : v > 0 => v # Absent
  BY DEF Absent
<1>4. Knows(m, s) => resolveShow(m, s) = IF s.mal \in DOMAIN m.mal THEN m.mal[s.mal] ELSE m.anilist[s.id]
  BY <1>2, Zenon DEF Knows, resolveShow
<1>5. ~Knows(m, s) => resolveShow(m, s) = Absent
  BY Zenon DEF Knows, resolveShow
<1>6. Knows(m, s) => resolveShow(m, s) # Absent
  BY <1>2, <1>3, <1>4, Zenon DEF Knows
<1> QED BY <1>4, <1>5, <1>6, Zenon DEF RowOf

\* What is looked up for the shows of a list is the rows that are expected of it.
LEMMA AnswerIs ==
  ASSUME NEW list \in Seq(Show), NEW m \in Mappings
  PROVE  responseShows(list, ResolveBatch(m, list)) = Expected(list, m)
<1> DEFINE batch == ResolveBatch(m, list)
           N == Len(list)
           S == {s \in ToSet(list) : batch[s.id].tvdb # Absent}
           R == KnownAt(list, m)
           rows == At(list, R)
<1>1. N \in Nat /\ DOMAIN list = 1..N /\ \A n \in DOMAIN list : list[n] \in Show /\ list[n] \in ToSet(list)
  BY DEF ToSet
<1>2. ASSUME NEW j \in DOMAIN list
      PROVE  LET s == LastOf(list, list[j].id)
             IN  s \in Show /\ batch[list[j].id] = [tvdb |-> resolveShow(m, s), title |-> s.title]
  <2> DEFINE i == list[j].id
             Pos(x) == CHOOSE n \in DOMAIN list :
                         /\ list[n].id = x
                         /\ \A k \in n + 1..Len(list) : list[k].id # x
             IDs == {list[n].id : n \in DOMAIN list}
             s == LastOf(list, i)
  <2>1. LastHere(list, i)
    BY LastIs
  <2>2. i \in IDs
    OBVIOUS
  <2>3. s = list[Pos(i)] /\ s \in Show
    <3> HIDE DEF i
    <3> QED BY <1>1, <2>1, Zenon DEF LastHere
  <2>4. batch = [x \in IDs |-> [tvdb |-> resolveShow(m, list[Pos(x)]), title |-> list[Pos(x)].title]]
    BY Zenon DEF ResolveBatch
  <2> HIDE DEF batch, Pos, IDs, s, i
  <2>5. batch[i] = [tvdb |-> resolveShow(m, list[Pos(i)]), title |-> list[Pos(i)].title]
    BY <2>2, <2>4, Zenon
  <2> QED BY <2>3, <2>5, Zenon DEF s, i
<1> HIDE DEF batch
<1>3. ASSUME NEW j \in DOMAIN list
      PROVE  /\ list[j] \in S <=> j \in R
             /\ j \in R => batch[list[j].id] = RowOf(m, LastOf(list, list[j].id))
  <2> DEFINE s == LastOf(list, list[j].id)
  <2>1. s \in Show /\ batch[list[j].id] = [tvdb |-> resolveShow(m, s), title |-> s.title]
    BY <1>2
  <2>2. j \in R <=> Knows(m, s)
    BY DEF KnownAt
  <2>3. list[j] \in S <=> batch[list[j].id].tvdb # Absent
    BY <1>1
  <2> HIDE DEF s, R, S
  <2>4. batch[list[j].id].tvdb = resolveShow(m, s)
    BY <2>1
  <2>5. resolveShow(m, s) # Absent <=> Knows(m, s)
    BY <2>1, ResolveIs
  <2>6. Knows(m, s) => [tvdb |-> resolveShow(m, s), title |-> s.title] = RowOf(m, s)
    BY <2>1, ResolveIs
  <2> QED BY <2>1, <2>2, <2>3, <2>4, <2>5, <2>6, Zenon DEF s
<1>4. Positions(R, N) /\ \A j \in R : j \in DOMAIN list
  BY <1>1 DEF KnownAt, Positions
<1>5. Keep(list, S) = rows
  <2>1. Chosen(list, N, S) = R
    <3>1. \A n : n \in Chosen(list, N, S) <=> n \in 1..N /\ list[n] \in S
      BY DEF Chosen
    <3> HIDE DEF R, S, N
    <3>2. \A n : n \in Chosen(list, N, S) <=> n \in R
      BY <1>1, <1>3, <1>4, <3>1, Zenon
    <3> QED BY <3>2, Zenon
  <2>2. Keep(list, S) = At(list, Chosen(list, N, S))
    <3> HIDE DEF S, N
    <3> QED BY <1>1, KeepIs
  <2> QED BY <2>1, <2>2, Zenon
<1>6. responseShows(list, batch) = [n \in DOMAIN rows |-> batch[rows[n].id]]
  <2>1. responseShows(list, batch) = [n \in DOMAIN Keep(list, S) |-> batch[Keep(list, S)[n].id]]
    BY Zenon DEF responseShows
  <2> HIDE DEF S, rows
  <2> QED BY <1>5, <2>1, Zenon
<1>7. ASSUME NEW n \in DOMAIN rows PROVE batch[rows[n].id] = RowOf(m, LastOf(list, rows[n].id))
  <2>1. PICK j \in R : rows[n] = list[j]
    <3> HIDE DEF R
    <3>1. ToSet(rows) = {list[j] : j \in R}
      <4> HIDE DEF N
      <4> QED BY <1>1, <1>4, AtIn
    <3>2. rows[n] \in ToSet(rows)
      BY DEF ToSet
    <3> HIDE DEF rows
    <3> QED BY <3>1, <3>2
  <2> HIDE DEF R, rows
  <2> QED BY <1>3, <1>4, <2>1, Zenon
<1>8. Expected(list, m) = [n \in DOMAIN rows |-> RowOf(m, LastOf(list, rows[n].id))]
  BY Zenon DEF Expected
<1> HIDE DEF rows
<1> QED BY <1>6, <1>7, <1>8, Zenon DEF batch

-----------------------------------------------------------------------------
(* The call of Process                                                      *)

Filled(c, p, m, list) == [c EXCEPT !.pc = p, !.mapping = m, !.list = list]

ListOf(c) == Listed(c.shows, c.prior, c.season, c.category, c.settings)

\* Once the filters are done the call has the list of the reference; once the
\* mapping is read it has the rows of that list, too.
PipelineInv ==
  \/ call = NoCall
  \/ call \in Calls
  \/ \E c \in Calls : call = Filled(c, "resolve", NoMapping, ListOf(c))
  \/ \E c \in Calls, m \in Mappings : call = Filled(c, "return", m, Expected(ListOf(c), m))

LEMMA CallsAre ==
  ASSUME NEW c \in Calls
  PROVE  /\ c.pc = "process" /\ c.mapping = NoMapping
         /\ c.shows \in Seq(Show) /\ c.prior \in Seq(Show)
         /\ c.season \in Seasons /\ c.settings \in Settings
<1>1. /\ c.pc = "process" /\ c.mapping = NoMapping
      /\ c.shows \in Lists(Shows, Longest) /\ c.prior \in Lists(PriorShows, Longest)
      /\ c.season \in Seasons /\ c.settings \in Settings
  BY DEF Calls
<1>2. ASSUME NEW S, S \subseteq Show, NEW s \in Lists(S, Longest) PROVE s \in Seq(Show)
  <2>1. PICK n \in 0..Longest : s \in [1..n -> S]
    BY DEF Lists
  <2>2. s \in [1..n -> Show] /\ n \in Nat
    BY <1>2, <2>1, PipelineAssumption
  <2> QED BY <2>2
<1>3. Shows \subseteq Show /\ PriorShows \subseteq Show
  BY PipelineAssumption
<1> QED BY <1>1, <1>2, <1>3

Fills(f, c, p, m, list) ==
  /\ f.pc = p /\ f.mapping = m /\ f.list = list
  /\ f.shows = c.shows /\ f.prior = c.prior /\ f.season = c.season
  /\ f.category = c.category /\ f.settings = c.settings
  /\ \A q, n, l : [f EXCEPT !.pc = q, !.mapping = n, !.list = l] = Filled(c, q, n, l)

LEMMA FilledIs ==
  ASSUME NEW c \in Calls, NEW p, NEW m, NEW list
  PROVE  Fills(Filled(c, p, m, list), c, p, m, list)
<1>1. c \in [pc : {"process"}, shows : Lists(Shows, Longest), prior : Lists(PriorShows, Longest),
             season : Seasons, category : Categories, settings : Settings, mapping : {NoMapping},
             list : {<< >>}]
  BY DEF Calls
<1> QED BY <1>1 DEF Filled, Fills

LEMMA StepOf ==
  ASSUME NEW c \in Calls, NEW p, NEW m, NEW list
  PROVE  Filled(c, p, m, list).pc = p
<1>1. Fills(Filled(c, p, m, list), c, p, m, list)
  BY FilledIs
<1> QED BY <1>1 DEF Fills

LEMMA ListOfType ==
  ASSUME NEW c \in Calls
  PROVE  ListOf(c) \in Seq(Show)
<1> DEFINE shows == c.shows
           prior == c.prior
           all == shows \o prior
           N == Len(shows) + Len(prior)
<1>1. shows \in Seq(Show) /\ prior \in Seq(Show)
  BY CallsAre
<1>2. N \in Nat /\ DOMAIN all = 1..N /\ \A n \in DOMAIN all : all[n] \in Show
  <2> HIDE DEF shows, prior
  <2>1. N \in Nat /\ DOMAIN all = 1..N /\ all \in Seq(Show)
    BY <1>1, ConcatIs
  <2> HIDE DEF all, N
  <2> QED BY <2>1
<1>3. PICK R : ListOf(c) = At(all, R) /\ R \subseteq DOMAIN all
  BY DEF ListOf, Listed
<1>4. Positions(R, N)
  BY <1>2, <1>3 DEF Positions
<1> HIDE DEF all, N
<1>5. At(all, R) \in Seq({all[n] : n \in R})
  BY <1>2, <1>4, AtIn
<1>6. {all[n] : n \in R} \subseteq Show
  BY <1>2, <1>3
<1> QED BY <1>3, <1>5, <1>6

LEMMA ProcessKeeps ==
  ASSUME PipelineInv, Process
  PROVE  PipelineInv'
<1> DEFINE c == call
<1>1. call.pc = "process"
  BY DEF Process
<1>2. c \in Calls
  <2>1. NoCall.pc # "process"
    BY DEF NoCall
  <2>2. \A d \in Calls : \A p, m, l : Filled(d, p, m, l).pc = p
    BY StepOf
  <2> QED BY <1>1, <2>1, <2>2 DEF PipelineInv
<1> DEFINE merged == IF c.season = "WINTER" THEN WinterOverflow(c.shows, c.prior) ELSE c.shows
<1>3. call' = [c EXCEPT !.pc = "resolve", !.list = Stages(merged, c.season, c.category, c.settings)]
  BY Zenon DEF Process, Stages
<1>4. Stages(merged, c.season, c.category, c.settings) = ListOf(c)
  <2>1. c.shows \in Seq(Show) /\ c.prior \in Seq(Show) /\ c.season \in Seasons /\ c.settings \in Settings
    BY <1>2, CallsAre
  <2> HIDE DEF c
  <2> QED BY <2>1, ListedIs DEF ListOf
<1>5. \A l : [c EXCEPT !.pc = "resolve", !.list = l] = Filled(c, "resolve", NoMapping, l)
  <2>1. c \in [pc : {"process"}, shows : Lists(Shows, Longest), prior : Lists(PriorShows, Longest),
               season : Seasons, category : Categories, settings : Settings, mapping : {NoMapping},
               list : {<< >>}]
    BY <1>2 DEF Calls
  <2> HIDE DEF c
  <2> QED BY <2>1 DEF Filled
<1>6. call' = Filled(c, "resolve", NoMapping, ListOf(c))
  BY <1>3, <1>4, <1>5
<1> QED BY <1>2, <1>6 DEF PipelineInv

LEMMA resolveBatchKeeps ==
  ASSUME PipelineInv, resolveBatch
  PROVE  PipelineInv'
<1>1. call.pc = "resolve"
  BY DEF resolveBatch
<1>2. PICK m \in Mappings : call' = [call EXCEPT !.pc = "return", !.mapping = m,
                                     !.list = responseShows(call.list, ResolveBatch(m, call.list))]
  BY DEF resolveBatch
<1>3. PICK c \in Calls : call = Filled(c, "resolve", NoMapping, ListOf(c))
  <2>1. NoCall.pc # "resolve"
    BY DEF NoCall
  <2>2. \A d \in Calls : d.pc # "resolve"
    BY CallsAre
  <2>3. \A d \in Calls : \A p, n, l : Filled(d, p, n, l).pc = p
    BY StepOf
  <2> QED BY <1>1, <2>1, <2>2, <2>3 DEF PipelineInv
<1>4. Fills(call, c, "resolve", NoMapping, ListOf(c))
  BY <1>3, FilledIs
<1>5. responseShows(ListOf(c), ResolveBatch(m, ListOf(c))) = Expected(ListOf(c), m)
  BY ListOfType, AnswerIs
<1>6. call' = [call EXCEPT !.pc = "return", !.mapping = m, !.list = Expected(ListOf(c), m)]
  BY <1>2, <1>4, <1>5, Zenon DEF Fills
<1>7. call' = Filled(c, "return", m, Expected(ListOf(c), m))
  BY <1>4, <1>6, Zenon DEF Fills
<1> QED BY <1>7 DEF PipelineInv

LEMMA PipelineInvRight == PipelineInv => ResponseRight
<1> SUFFICES ASSUME PipelineInv, call.pc = "return" PROVE ResponseRight
  BY DEF ResponseRight
<1>1. PICK c \in Calls, m \in Mappings : call = Filled(c, "return", m, Expected(ListOf(c), m))
  <2>1. NoCall.pc # "return"
    BY DEF NoCall
  <2>2. \A d \in Calls : d.pc # "return"
    BY CallsAre
  <2>3. \A d \in Calls : \A p, n, l : Filled(d, p, n, l).pc = p
    BY StepOf
  <2> QED BY <2>1, <2>2, <2>3 DEF PipelineInv
<1>2. /\ call.mapping = m /\ call.list = Expected(ListOf(c), m)
      /\ call.shows = c.shows /\ call.prior = c.prior /\ call.season = c.season
      /\ call.category = c.category /\ call.settings = c.settings
  <2>1. Fills(call, c, "return", m, Expected(ListOf(c), m))
    BY <1>1, FilledIs
  <2> QED BY <2>1 DEF Fills
<1>3. call.list = Expected(ListOf(call), call.mapping)
  BY <1>2, Zenon DEF ListOf
<1> QED BY <1>3, Zenon DEF ResponseRight, Expected, ListOf, KnownAt, Knows, LastOf, RowOf

(***************************************************************************)
(* Whatever the lists, the settings and the mapping snapshot that a refresh *)
(* leaves, Scheduler.Process answers with exactly the wanted shows that the *)
(* mapping knows, in their order, with a December show of the year before   *)
(* only if no show with its ID is there already.                            *)
(***************************************************************************)
THEOREM ResponseIsRight == PipelineSpec => []ResponseRight
<1>1. PipelineInit => PipelineInv
  BY DEF PipelineInit, PipelineInv
<1>2. PipelineInv /\ [PipelineNext]_call => PipelineInv'
  <2> SUFFICES ASSUME PipelineInv, [PipelineNext]_call PROVE PipelineInv'
    OBVIOUS
  <2>1. CASE Process
    BY <2>1, ProcessKeeps
  <2>2. CASE resolveBatch
    BY <2>2, resolveBatchKeeps
  <2>3. CASE Return
    BY <2>3 DEF Return, PipelineInv
  <2>4. CASE UNCHANGED call
    BY <2>4 DEF PipelineInv, Calls
  <2> QED BY <2>1, <2>2, <2>3, <2>4 DEF PipelineNext
<1>3. PipelineInv => ResponseRight
  BY PipelineInvRight
<1> QED BY <1>1, <1>2, <1>3, PTL DEF PipelineSpec
===============================================================================
