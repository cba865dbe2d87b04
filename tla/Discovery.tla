------------------------------ MODULE Discovery ------------------------------
(***************************************************************************)
(* Seen-mapping discovery: the background task that Scheduler.Process of a  *)
(* request starts beside its answer (trackNewMappings in scheduler.go,      *)
(* MarkSeenMappings in cache.go), composed with the handlers that start it. *)
(* It counts the seen_mappings table, inserts the resolved shows in one     *)
(* transaction that is retried while SQLite is busy, and logs what was new, *)
(* except on the very first run.  Its context ends after five seconds or at *)
(* shutdown; the process may be killed at any moment and started again.     *)
(***************************************************************************)
EXTENDS ListHandler, Sequences, FiniteSets, SequencesExt

CONSTANTS Keys,    \* (tvdb_id, season, year), the primary key of seen_mappings
          Batches  \* what requests may have resolved: sequences, with repetitions

ASSUME BatchAssumption == Batches \subseteq Seq(Keys) \ {<<>>}

VARIABLES
  seen,       \* the table's keys
  task,       \* [pc, batch, at, fresh, first]: off, count, insert, announce
  announced,  \* history: key -> times it was logged as new, counted to 2
  quiet       \* history: keys of a first run, or whose task died before it logged

taskVars == <<seen, task, announced, quiet>>
allVars  == <<vars, taskVars>>

Off == [pc |-> "off", batch |-> <<>>, at |-> 1, fresh |-> <<>>, first |-> FALSE]

DiscoveryInit ==
  /\ Init
  /\ seen = {} /\ quiet = {}
  /\ task = Off
  /\ announced = [k \in Keys |-> 0]

-----------------------------------------------------------------------------
\* Process hands its resolved shows to the task if it could start one.
Serve ==
  /\ HandlerNext
  /\ IF discovery' /\ ~discovery
     THEN \E b \in Batches : task' = [Off EXCEPT !.pc = "count", !.batch = b]
     ELSE UNCHANGED task
  /\ UNCHANGED <<seen, announced, quiet>>

End == task' = Off /\ DiscoveryEnd

\* CountSeenMappings: an empty table makes this a first run.
CountSeenMappings ==
  /\ task.pc = "count"
  /\ \/ /\ task' = [task EXCEPT !.pc = "insert", !.first = (seen = {})]
        /\ UNCHANGED vars
     \/ End
  /\ UNCHANGED <<seen, announced, quiet>>

\* INSERT OR IGNORE of the next entry: new unless the table or this transaction
\* has its key.
Insert ==
  LET k == task.batch[task.at] IN
  /\ task.pc = "insert" /\ task.at <= Len(task.batch)
  /\ task' = [task EXCEPT !.at = @ + 1,
                          !.fresh = IF k \in seen \cup ToSet(@) THEN @ ELSE Append(@, k)]
  /\ UNCHANGED <<vars, seen, announced, quiet>>

RollbackNothing == seen' = seen \cup ToSet(task.fresh)

\* The deferred Rollback.
Rollback == seen' = seen

\* A statement or the commit fails: retried from the start while busy, or over.
InsertFails ==
  /\ task.pc = "insert"
  /\ Rollback
  /\ \/ task' = [task EXCEPT !.at = 1, !.fresh = <<>>] /\ UNCHANGED vars
     \/ End
  /\ UNCHANGED <<announced, quiet>>

Commit ==
  /\ task.pc = "insert" /\ task.at > Len(task.batch)
  /\ seen' = seen \cup ToSet(task.fresh)
  /\ task' = [task EXCEPT !.pc = "announce"]
  /\ UNCHANGED <<vars, announced, quiet>>

\* The first run seeds silently; later ones log every new mapping.
Announce ==
  LET new == ToSet(task.fresh) IN
  /\ task.pc = "announce"
  /\ IF task.first
     THEN quiet' = quiet \cup new /\ UNCHANGED announced
     ELSE /\ announced' = [k \in Keys |-> IF k \in new /\ announced[k] < 2
                                          THEN announced[k] + 1 ELSE announced[k]]
          /\ UNCHANGED quiet
  /\ End
  /\ UNCHANGED seen

\* The process is killed and starts again: rows and seen_mappings remain, an
\* open transaction does not.
Restart ==
  /\ quiet' = quiet \cup (IF task.pc = "announce" THEN ToSet(task.fresh) ELSE {})
  /\ task' = Off
  /\ slots' = {} /\ due' = {} /\ tracking' = FALSE /\ discovery' = FALSE /\ appDone' = FALSE /\ bgClosed' = FALSE
  /\ pc' = [q \in Requests |-> "idle"]
  /\ year' = [q \in Requests |-> None]
  /\ winter' = [q \in Requests |-> FALSE]
  /\ data' = [q \in Requests |-> None]
  /\ reply' = [q \in Requests |-> "none"]
  /\ lacking' = [q \in Requests |-> FALSE]
  /\ UNCHANGED <<row, seen, announced>>

Next == Serve \/ CountSeenMappings \/ Insert \/ InsertFails \/ Commit \/ Announce \/ Restart

Spec == DiscoveryInit /\ [][Next]_allVars

-----------------------------------------------------------------------------
(***************************************************************************)
(* Discovery is exact: a mapping is announced at most once and never if the *)
(* first run seeded it, and every mapping in the table was seeded, has been *)
(* announced, or is about to be; busy retries, cancelled transactions,      *)
(* repeated shows and restarts neither lose nor repeat one.  Only a process *)
(* killed between commit and log stays silent about what it committed.      *)
(***************************************************************************)
DiscoveryExact ==
  \A k \in Keys :
    /\ announced[k] <= (IF k \in quiet THEN 0 ELSE 1)
    /\ k \in seen => \/ announced[k] = 1
                     \/ k \in quiet
                     \/ task.pc = "announce" /\ k \in ToSet(task.fresh)
=============================================================================
