---------------------------- MODULE Service_proofs ----------------------------
(***************************************************************************)
(* Proofs about Service, for every set of handlers and years, every list of *)
(* years to prewarm and any number of background tasks.                     *)
(***************************************************************************)
EXTENDS Service, TLAPS

-----------------------------------------------------------------------------
(* The inductive invariant                                                  *)

Phases == {"open", "load", "listen", "serve", "prewarm", "shutdown", "wait", "close", "exited"}

ServiceType ==
  /\ tasks \in Nat
  /\ failed \in BOOLEAN
  /\ phase \in Phases
  /\ warm \in [pc : {"off", "check", "fetch", "done"}, at : Int]
  /\ maint \in [pc : {"off", "idle", "scan", "years", "fetch", "exited"},
                queue : SUBSET Years, year : Years \cup {None}]
  /\ mapper \in {"off", "idle", "loading", "exited"}

\* Nobody runs before the listener does.
NotStarted ==
  phase \in {"open", "load", "listen"} =>
    busy = {} /\ tasks = 0 /\ warm.pc = "off" /\ maint.pc = "off" /\ mapper = "off"

(***************************************************************************)
(* Each wait of the shutdown that ended in time leaves its party gone: the  *)
(* order matters, since handlers start tasks.  A wait that did not end in   *)
(* time is remembered in failed.                                            *)
(***************************************************************************)
Drained ==
  ~failed =>
    /\ phase \in {"shutdown", "wait", "close", "exited"} => warm.pc \in {"off", "done"}
    /\ phase \in {"wait", "close", "exited"} => busy = {}
    /\ phase \in {"close", "exited"} => ~Background

ServiceInv == ServiceType /\ NotStarted /\ Drained

LEMMA ServiceInit == Init => ServiceInv
<1> SUFFICES ASSUME Init PROVE ServiceInv
  OBVIOUS
<1>1. /\ warm \in [pc : {"off", "check", "fetch", "done"}, at : Int] /\ warm.pc = "off"
      /\ maint \in [pc : {"off", "idle", "scan", "years", "fetch", "exited"},
                    queue : SUBSET Years, year : Years \cup {None}] /\ maint.pc = "off"
  BY DEF Init
<1>2. /\ tasks = 0 /\ failed = FALSE /\ phase = "open" /\ mapper = "off" /\ busy = {}
  BY Zenon DEF Init
<1>3. ServiceType
  BY <1>1, <1>2 DEF ServiceType, Phases
<1>4. NotStarted /\ Drained
  BY <1>1, <1>2 DEF NotStarted, Drained
<1> QED BY <1>3, <1>4 DEF ServiceInv

-----------------------------------------------------------------------------
(***************************************************************************)
(* A step of a goroutine, which leaves runContext where it is, keeps the    *)
(* invariant if it raises nobody from the dead: handlers begin only while   *)
(* connections are served, tasks only under a handler before admission has  *)
(* ended, and what is over stays over.                                      *)
(***************************************************************************)
LEMMA WorkStep ==
  ASSUME ServiceInv, ServiceType', UNCHANGED proc,
         phase \in {"serve", "prewarm", "shutdown"} \/ busy' \subseteq busy,
         tasks' <= tasks \/ busy # {},
         warm.pc \in {"off", "done"} => warm'.pc = warm.pc,
         maint.pc \in {"off", "exited"} => maint'.pc = maint.pc,
         mapper \in {"off", "exited"} => mapper' = mapper
  PROVE  ServiceInv'
<1> USE DEF ServiceInv, ServiceType, proc
<1>1. NotStarted'
  BY DEF NotStarted
<1>2. ASSUME ~failed' PROVE /\ phase' \in {"shutdown", "wait", "close", "exited"} => warm'.pc \in {"off", "done"}
                            /\ phase' \in {"wait", "close", "exited"} => busy' = {}
  BY <1>2 DEF Drained
<1>3. ASSUME ~failed', phase' \in {"close", "exited"} PROVE ~Background'
  BY <1>3 DEF Drained, Background
<1> QED BY <1>1, <1>2, <1>3 DEF Drained

LEMMA ServiceStep == ServiceInv /\ [Next]_vars => ServiceInv'
<1> SUFFICES ASSUME ServiceInv, [Next]_vars PROVE ServiceInv'
  OBVIOUS
<1> USE DEF work, ctl, proc, To, Fails
<1>0. ServiceType /\ NotStarted /\ Drained
  BY DEF ServiceInv
\* runContext
<1>1. CASE OpenCache
  BY <1>0, <1>1 DEF OpenCache, ServiceInv, ServiceType, Phases, NotStarted, Drained, Background
<1>2. CASE LoadResolver
  BY <1>0, <1>2 DEF LoadResolver, ServiceInv, ServiceType, Phases, NotStarted, Drained, Background
<1>3. CASE Listen
  BY <1>0, <1>3 DEF Listen, ServiceInv, ServiceType, Phases, NotStarted, Drained, Background
<1>4. CASE Stop
  BY <1>0, <1>4 DEF Stop, ServiceInv, ServiceType, Phases, NotStarted, Drained, Background
<1>5. CASE AwaitPrewarm
  BY <1>0, <1>5 DEF AwaitPrewarm, ServiceInv, ServiceType, Phases, NotStarted, Drained, Background
<1>6. CASE Shutdown
  BY <1>0, <1>6 DEF Shutdown, ServiceInv, ServiceType, Phases, NotStarted, Drained, Background
<1>7. CASE BeginWait
  BY <1>0, <1>7 DEF BeginWait, ServiceInv, ServiceType, Phases, NotStarted, Drained, Background
<1>8. CASE EndWait
  <2>1. /\ phase = "wait" /\ phase' = "close"
        /\ (failed' = failed /\ ~Background) \/ failed' = TRUE
        /\ UNCHANGED <<tasks, busy, warm, maint, mapper>>
    BY <1>8 DEF EndWait
  <2>2. Background' = Background
    BY <2>1 DEF Background
  <2>3. ServiceType'
    BY <1>0, <2>1 DEF ServiceType, Phases
  <2>4. NotStarted' /\ Drained'
    BY <1>0, <2>1, <2>2 DEF NotStarted, Drained
  <2> QED BY <2>3, <2>4 DEF ServiceInv
<1>9. CASE CloseCache
  BY <1>0, <1>9 DEF CloseCache, ServiceInv, ServiceType, Phases, NotStarted, Drained, Background
<1>10. CASE Signal
  BY <1>0, <1>10 DEF Signal, ServiceInv, ServiceType, Phases, NotStarted, Drained, Background
<1>11. CASE ServerError
  BY <1>0, <1>11 DEF ServerError, ServiceInv, ServiceType, Phases, NotStarted, Drained, Background
\* Handlers and tasks
<1>12. ASSUME NEW q \in Requests, Request(q) PROVE ServiceInv'
  BY <1>0, <1>12, WorkStep DEF Request, ServiceType
<1>13. ASSUME NEW q \in Requests, Reply(q) PROVE ServiceInv'
  BY <1>0, <1>13, WorkStep DEF Reply, ServiceType
<1>14. ASSUME NEW y \in Years, HandlerStores(y) \/ Age(y) PROVE ServiceInv'
  BY <1>0, <1>14, WorkStep DEF HandlerStores, Age, Store, ServiceType
<1>15. CASE HandlerStartsTask
  BY <1>0, <1>15, WorkStep DEF HandlerStartsTask, ServiceType
<1>16. CASE TaskEnd
  BY <1>0, <1>16, WorkStep DEF TaskEnd, ServiceType
<1>17. CASE Clear
  BY <1>0, <1>17, WorkStep DEF Clear, ServiceType
\* Prewarm
<1>18. CASE WarmCheck
  <2>1. ServiceType' /\ warm.pc = "check"
    BY <1>0, <1>18 DEF WarmCheck, NextWarm, ServiceType
  <2> QED BY <1>18, <2>1, WorkStep DEF WarmCheck, ServiceType
<1>19. CASE WarmFetch
  <2>1. ServiceType' /\ warm.pc = "fetch" /\ UNCHANGED <<phase, failed, tasks, busy, maint, mapper>>
    BY <1>0, <1>19 DEF WarmFetch, NextWarm, Store, ServiceType
  <2> QED BY <2>1, WorkStep DEF ServiceType
\* The loops
<1>20. ASSUME NEW Y \in SUBSET Years, Prune(Y) PROVE ServiceInv'
  BY <1>0, <1>20, WorkStep DEF Prune, MaintTo, ServiceType
<1>21. CASE Scan
  <2>1. ServiceType'
    BY <1>0, <1>21 DEF Scan, ServiceType
  <2>2. maint.pc = "scan" /\ UNCHANGED <<phase, failed, tasks, busy, warm, mapper>>
    BY <1>21 DEF Scan
  <2> QED BY <1>0, <2>1, <2>2, WorkStep DEF ServiceType
<1>22. CASE ScanFails
  BY <1>0, <1>22, WorkStep DEF ScanFails, MaintTo, ServiceType
<1>23. CASE NextYear
  <2>1. /\ maint.pc = "years" /\ UNCHANGED <<phase, failed, tasks, busy, warm, mapper>>
        /\ \/ maint' = [maint EXCEPT !.pc = "idle", !.queue = {}]
           \/ \E y \in maint.queue : maint' = [pc |-> "fetch", queue |-> maint.queue \ {y}, year |-> y]
    BY <1>23 DEF NextYear
  <2>2. maint' \in [pc : {"off", "idle", "scan", "years", "fetch", "exited"},
                    queue : SUBSET Years, year : Years \cup {None}]
    <3>1. CASE maint' = [maint EXCEPT !.pc = "idle", !.queue = {}]
      BY <1>0, <3>1 DEF ServiceType
    <3>2. ASSUME NEW y \in maint.queue,
                 maint' = [pc |-> "fetch", queue |-> maint.queue \ {y}, year |-> y]
          PROVE  maint' \in [pc : {"off", "idle", "scan", "years", "fetch", "exited"},
                              queue : SUBSET Years, year : Years \cup {None}]
      <4>1. maint.queue \in SUBSET Years
        BY <1>0 DEF ServiceType
      <4>2. maint.queue \ {y} \in SUBSET Years /\ y \in Years \cup {None}
        BY <4>1
      <4> QED BY <3>2, <4>2
    <3> QED BY <2>1, <3>1, <3>2
  <2>3. ServiceType'
    BY <1>0, <2>1, <2>2 DEF ServiceType
  <2> QED BY <1>0, <2>1, <2>3, WorkStep DEF ServiceType
<1>24. CASE MaintFetch
  <2>1. ServiceType' /\ maint.pc = "fetch" /\ UNCHANGED <<phase, failed, tasks, busy, warm, mapper>>
    BY <1>0, <1>24 DEF MaintFetch, Store, ServiceType
  <2> QED BY <2>1, WorkStep DEF ServiceType
<1>25. CASE MaintExit
  BY <1>0, <1>25, WorkStep DEF MaintExit, MaintTo, ServiceType
<1>26. CASE Mapper
  BY <1>0, <1>26, WorkStep DEF Mapper, RefreshMapping, MappingLoaded, MappingFails, MapperExit, ServiceType
<1>27. CASE UNCHANGED vars
  BY <1>0, <1>27, WorkStep DEF vars, ServiceType
<1> QED
  BY <1>1, <1>2, <1>3, <1>4, <1>5, <1>6, <1>7, <1>8, <1>9, <1>10, <1>11, <1>12, <1>13, <1>14,
     <1>15, <1>16, <1>17, <1>18, <1>19, <1>20, <1>21, <1>22, <1>23, <1>24, <1>25, <1>26, <1>27
  DEF Next, Lifecycle, Maintain

(***************************************************************************)
(* A runContext that ends without an error closes the cache under nobody's  *)
(* feet: no handler, prewarm, task or loop is left when it does.            *)
(***************************************************************************)
THEOREM ExitIsClean == Spec => []CleanExit
<1>1. ServiceInv => CleanExit
  BY DEF ServiceInv, ServiceType, Drained, CleanExit, Quiet
<1> QED BY <1>1, ServiceInit, ServiceStep, PTL DEF Spec
=============================================================================
