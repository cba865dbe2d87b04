--------------------------- MODULE YearFetch_proofs ---------------------------
(***************************************************************************)
(* Proofs about YearFetch, for every set of requests, loops, tasks and      *)
(* years.                                                                   *)
(***************************************************************************)
EXTENDS YearFetch, FiniteSetTheorems, TLAPS

-----------------------------------------------------------------------------
(* The inductive invariant                                                  *)

FetchType ==
  /\ row \in [Years -> {"missing", "fresh", "stale"}]
  /\ cooling \in [Years -> BOOLEAN]
  /\ leader \in [Years -> Callers \cup {None}]
  /\ published \in [Years -> Outcomes \cup {None}]
  /\ pc \in [Callers -> Alive \cup {"idle", "exited"}]
  /\ target \in [Callers -> Years \cup {None}]
  /\ outcome \in [Callers -> Outcomes \cup {None}]
  /\ ctx \in [Callers -> {"live", "canceled", "deadline"}]
  /\ attempted \in [Callers -> BOOLEAN]
  /\ yearTasks \in [Years -> Tasks \cup {None}]
  /\ bgClosed \in BOOLEAN /\ appDone \in BOOLEAN
  /\ waiter \in {"no", "waiting", "done", "expired"}

\* Who may be where, and that a call knows its year.
Roles ==
  /\ \A t \in Tasks : pc[t] \in Alive \cup {"idle"}
  /\ \A c \in Requests \cup Loops : pc[c] \in Calling \cup {"idle", "exited"}
  /\ \A c \in Callers : pc[c] \in Calling => target[c] \in Years

\* A year's entry in inflight is there exactly while its leader leads.
OneLeader ==
  /\ \A c \in Callers : pc[c] \in Leading => leader[target[c]] = c
  /\ \A y \in Years : leader[y] # None => pc[leader[y]] \in Leading /\ target[leader[y]] = y

\* A call has an outcome exactly from its decision to its return.
Settling == {"settle", "publish", "delete", "woken", "return"}
Decided == \A c \in Callers : pc[c] \in Settling <=> outcome[c] # None

\* A result is published between close(done) and Delete, and it is the leader's.
PublishedByLeader ==
  /\ \A y \in Years : published[y] # None => leader[y] # None /\ pc[leader[y]] = "delete"
  /\ \A c \in Callers : pc[c] = "delete" => published[target[c]] = outcome[c]

FlightInv == FetchType /\ Roles /\ OneLeader /\ Decided /\ PublishedByLeader

-----------------------------------------------------------------------------
LEMMA FlightInit == Init => FlightInv
<1> SUFFICES ASSUME Init PROVE FlightInv
  OBVIOUS
<1>1. FetchType
  <2>1. cooling \in [Years -> BOOLEAN] /\ attempted \in [Callers -> BOOLEAN]
        /\ bgClosed \in BOOLEAN /\ appDone \in BOOLEAN
    BY Zenon DEF Init
  <2> QED BY <2>1 DEF Init, FetchType, Alive
<1>2. Roles /\ OneLeader /\ Decided /\ PublishedByLeader
  BY DEF Init, Roles, OneLeader, Decided, PublishedByLeader, Settling, Alive, Calling, Leading, Fetching, Callers
<1> QED BY <1>1, <1>2 DEF FlightInv

\* The error a call's context has is one of the two a caller may give up with.
LEMMA CtxErrType ==
  ASSUME FetchType, NEW c \in Callers
  PROVE  CtxErr(c) \in {"live", "canceled", "deadline"}
BY DEF FetchType, CtxErr

(***************************************************************************)
(* A caller moves within its call, neither gaining nor losing leadership,   *)
(* and settles on outcome o (None while undecided).                         *)
(***************************************************************************)
LEMMA Move ==
  ASSUME FlightInv, FetchType', NEW c \in Callers, NEW l \in Calling \ {"delete"},
         NEW o \in Outcomes \cup {None},
         pc[c] \in Calling \ {"delete"}, pc[c] \in Leading <=> l \in Leading,
         pc' = [pc EXCEPT ![c] = l],
         outcome' = [outcome EXCEPT ![c] = o],
         l \in Settling <=> o # None,
         UNCHANGED <<leader, published, target>>
  PROVE  FlightInv'
<1> USE DEF FlightInv
<1>0. /\ \A d \in Callers : pc'[d] = IF d = c THEN l ELSE pc[d]
      /\ \A d \in Callers : outcome'[d] = IF d = c THEN o ELSE outcome[d]
  BY DEF FetchType
<1>1. Roles'
  BY <1>0 DEF Roles, Alive, Callers
<1>2. OneLeader'
  BY <1>0 DEF OneLeader, FetchType
<1>3. Decided'
  BY <1>0 DEF Decided
<1>4. PublishedByLeader'
  <2>1. ASSUME NEW y \in Years, published'[y] # None
        PROVE  leader'[y] # None /\ pc'[leader'[y]] = "delete"
    BY <1>0, <2>1 DEF PublishedByLeader, FetchType
  <2>2. ASSUME NEW d \in Callers, pc'[d] = "delete" PROVE published'[target'[d]] = outcome'[d]
    BY <1>0, <2>2 DEF PublishedByLeader
  <2> QED BY <2>1, <2>2 DEF PublishedByLeader
<1> QED BY <1>1, <1>2, <1>3, <1>4

-----------------------------------------------------------------------------
(* Every step keeps the invariant                                           *)

LEMMA DecideType ==
  ASSUME FetchType, NEW c \in Callers, NEW o \in Outcomes, NEW l \in Alive, Decide(c, o, l)
  PROVE  /\ pc' \in [Callers -> Alive \cup {"idle", "exited"}]
         /\ outcome' \in [Callers -> Outcomes \cup {None}]
         /\ ctx' \in [Callers -> {"live", "canceled", "deadline"}]
BY DEF FetchType, Decide, Goto

LEMMA TypeCallStep ==
  ASSUME FetchType, Roles, NEW c \in Callers, CallStep(c)
  PROVE  FetchType'
<1> USE DEF FetchType, flightVars, callVars, bgVars, Goto
<1>0. Outcomes = {"fetched", "fresh", "canceled", "deadline", "failed", "cooldown"}
      /\ Alive = {"peek", "cooldown", "upstream", "store", "settle", "publish", "delete",
                  "join", "wait", "woken", "return", "track", "done"}
      /\ Calling \subseteq Alive
  BY DEF Outcomes, Successes, Alive, Calling, Leading, Fetching
<1>1. CASE Lead(c)
  BY <1>0, <1>1 DEF Lead
<1>2. CASE Follow(c)
  <2>1. target[c] \in Years
    BY <1>2 DEF Follow, Roles, Calling
  <2> QED BY <1>0, <1>2, <2>1 DEF Follow
<1>3. CASE Abandon(c)
  <2>1. CtxErr(c) \in Outcomes
    BY <1>0, <1>3, CtxErrType DEF Abandon
  <2>2. pc' \in [Callers -> Alive \cup {"idle", "exited"}]
         /\ outcome' \in [Callers -> Outcomes \cup {None}]
         /\ ctx' \in [Callers -> {"live", "canceled", "deadline"}]
    BY <1>0, <1>3, <2>1, DecideType DEF Abandon
  <2> QED BY <1>3, <2>2 DEF Abandon
<1>4. CASE Wake(c)
  BY <1>0, <1>4 DEF Wake, Decide
<1>5. CASE Peek(c)
  BY <1>0, <1>5, CtxErrType DEF Peek, Finish, Proceed, Decide
<1>6. CASE CheckCooldown(c)
  <2>1. attempted' \in [Callers -> BOOLEAN]
    BY <1>6, Zenon DEF CheckCooldown
  <2> QED BY <1>0, <1>6, <2>1 DEF CheckCooldown, Finish, Proceed, Decide
<1>7. CASE Upstream(c)
  BY <1>0, <1>7 DEF Upstream, Finish, Proceed, Decide, FetchErrors, FetchCtxErrors
<1>8. CASE Store(c)
  <2>1. \A o \in {"fetched", "failed", "deadline", "canceled"} : o \in Outcomes
    BY <1>0
  <2> QED BY <1>0, <2>1, <1>8 DEF Store, Finish, Decide, FetchErrors, FetchCtxErrors
<1>9. CASE Settle(c)
  <2>1. attempted' \in [Callers -> BOOLEAN]
    BY <1>9, Zenon DEF Settle
  <2>2. cooling' \in [Years -> BOOLEAN]
    BY <1>9 DEF Settle
  <2> QED BY <1>0, <1>9, <2>1, <2>2 DEF Settle
<1>10. CASE Publish(c)
  BY <1>0, <1>10 DEF Publish
<1>11. CASE Delete(c)
  BY <1>0, <1>11 DEF Delete
<1>12. CASE Return(c)
  BY <1>0, <1>12 DEF Return
<1> QED BY <1>1, <1>2, <1>3, <1>4, <1>5, <1>6, <1>7, <1>8, <1>9, <1>10, <1>11, <1>12
           DEF CallStep, LeaderStep

\* A caller moves between two places outside every call, or from one into a call
\* it has not decided yet.
LEMMA Outside ==
  ASSUME FlightInv, FetchType', Roles', NEW c \in Callers, NEW l \in {"idle", "join", "exited", "track", "done"},
         pc[c] \in {"idle", "track", "done"},
         pc' = [pc EXCEPT ![c] = l],
         \A d \in Callers : d # c => target'[d] = target[d],
         UNCHANGED <<leader, published, outcome>>
  PROVE  FlightInv'
<1> USE DEF FlightInv
<1>0. \A d \in Callers : pc'[d] = IF d = c THEN l ELSE pc[d]
  BY DEF FetchType
<1>1. pc[c] \notin Leading /\ l \notin Leading /\ pc[c] \notin Settling /\ l \notin Settling
      /\ "delete" \in Leading
  BY DEF Leading, Fetching, Settling
<1>2. OneLeader'
  BY <1>0, <1>1 DEF OneLeader, FetchType
<1>3. Decided'
  BY <1>0, <1>1 DEF Decided
<1>4. PublishedByLeader'
  <2>1. ASSUME NEW y \in Years, published'[y] # None
        PROVE  leader'[y] # None /\ pc'[leader'[y]] = "delete"
    BY <1>0, <2>1 DEF PublishedByLeader, FetchType
  <2>2. ASSUME NEW d \in Callers, pc'[d] = "delete" PROVE published'[target'[d]] = outcome'[d]
    BY <1>0, <2>2 DEF PublishedByLeader
  <2> QED BY <2>1, <2>2 DEF PublishedByLeader
<1> QED BY <1>2, <1>3, <1>4

\* The call is over: the caller forgets its year and its outcome.
LEMMA Ended ==
  ASSUME FlightInv, FetchType', NEW c \in Callers, NEW l \in {"idle", "done"},
         l = "done" => c \in Tasks,
         pc[c] = "return",
         pc' = [pc EXCEPT ![c] = l],
         target' = [target EXCEPT ![c] = None],
         outcome' = [outcome EXCEPT ![c] = None],
         UNCHANGED <<leader, published>>
  PROVE  FlightInv'
<1> USE DEF FlightInv
<1>0. /\ \A d \in Callers : pc'[d] = IF d = c THEN l ELSE pc[d]
      /\ \A d \in Callers : outcome'[d] = IF d = c THEN None ELSE outcome[d]
      /\ \A d \in Callers : target'[d] = IF d = c THEN None ELSE target[d]
  BY DEF FetchType
<1>1. pc[c] \notin Leading /\ l \notin Leading /\ l \notin Settling /\ l \notin Calling
      /\ l \in Alive \cup {"idle"} /\ (l = "done" => c \notin Requests \cup Loops)
  BY CallerAssumption DEF Leading, Fetching, Settling, Calling, Alive
<1>2. Roles'
  BY <1>0, <1>1 DEF Roles, Callers
<1>3. OneLeader'
  BY <1>0, <1>1 DEF OneLeader, FetchType
<1>4. Decided'
  BY <1>0, <1>1 DEF Decided
<1>5. PublishedByLeader'
  <2>1. ASSUME NEW y \in Years, published'[y] # None
        PROVE  leader'[y] # None /\ pc'[leader'[y]] = "delete"
    BY <1>0, <2>1 DEF PublishedByLeader, FetchType
  <2>2. ASSUME NEW d \in Callers, pc'[d] = "delete" PROVE published'[target'[d]] = outcome'[d]
    BY <1>0, <1>1, <2>2 DEF PublishedByLeader
  <2> QED BY <2>1, <2>2 DEF PublishedByLeader
<1> QED BY <1>2, <1>3, <1>4, <1>5

LEMMA FlightCallStep ==
  ASSUME FlightInv, NEW c \in Callers, CallStep(c)
  PROVE  FlightInv'
<1>t. FetchType'
  BY TypeCallStep DEF FlightInv
<1> USE DEF flightVars, callVars, bgVars, Goto
<1>0. /\ Outcomes = {"fetched", "fresh", "canceled", "deadline", "failed", "cooldown"}
      /\ None \notin Outcomes
      /\ Fetching = {"peek", "cooldown", "upstream", "store", "settle"}
      /\ Leading = Fetching \cup {"publish", "delete"}
      /\ Calling = Leading \cup {"join", "wait", "woken", "return"}
      /\ Settling = {"settle", "publish", "delete", "woken", "return"}
  BY OutcomeAssumption DEF Outcomes, Successes, Calling, Leading, Fetching, Settling
<1>00. /\ outcome = [outcome EXCEPT ![c] = outcome[c]] /\ outcome[c] \in Outcomes \cup {None}
       /\ pc[c] \in Settling <=> outcome[c] # None
       /\ pc[c] \in Calling => target[c] \in Years
  BY DEF FlightInv, FetchType, Decided, Roles
<1>1. CASE Lead(c)
  <2> DEFINE y == target[c]
  <2>1. y \in Years /\ leader[y] = None /\ pc[c] = "join"
    BY <1>0, <1>00, <1>1 DEF Lead
  <2>2. /\ \A d \in Callers : pc'[d] = IF d = c THEN "peek" ELSE pc[d]
        /\ \A z \in Years : leader'[z] = IF z = y THEN c ELSE leader[z]
        /\ \A z \in Years : published'[z] = IF z = y THEN None ELSE published[z]
        /\ target' = target /\ outcome' = outcome
    BY <1>1 DEF Lead, FlightInv, FetchType
  <2>3. Roles'
    BY <1>0, <2>1, <2>2 DEF FlightInv, Roles, Callers, Alive
  <2>4. ASSUME NEW d \in Callers, pc[d] \in Leading PROVE target[d] \in Years /\ target[d] # y
    BY <1>0, <2>1, <2>4, CallerAssumption DEF FlightInv, Roles, OneLeader
  <2>5. OneLeader'
    BY <1>0, <2>1, <2>2, <2>4 DEF FlightInv, OneLeader, FetchType
  <2>6. Decided'
    BY <1>0, <2>1, <2>2 DEF FlightInv, Decided
  <2>7. PublishedByLeader'
    <3>1. ASSUME NEW z \in Years, published'[z] # None
          PROVE  leader'[z] # None /\ pc'[leader'[z]] = "delete"
      BY <2>1, <2>2, <3>1 DEF FlightInv, PublishedByLeader, FetchType
    <3>2. ASSUME NEW d \in Callers, pc'[d] = "delete" PROVE published'[target'[d]] = outcome'[d]
      BY <1>0, <2>2, <2>4, <3>2 DEF FlightInv, PublishedByLeader
    <3> QED BY <3>1, <3>2 DEF PublishedByLeader
  <2> QED BY <1>t, <2>3, <2>5, <2>6, <2>7 DEF FlightInv
<1>2. CASE Follow(c)
  BY <1>t, <1>0, <1>00, <1>2, Move DEF Follow, FlightInv, FetchType
<1>3. CASE Abandon(c)
  <2>1. CtxErr(c) \in Outcomes
    BY <1>0, <1>3, CtxErrType DEF Abandon, FlightInv
  <2> QED BY <1>t, <1>0, <1>3, <2>1, Move DEF Abandon, Decide
<1>4. CASE Wake(c)
  BY <1>t, <1>0, <1>00, <1>4, Move DEF Wake, Decide
<1>5. CASE Peek(c)
  <2>1. \E l \in {"settle", "cooldown"}, o \in Outcomes \cup {None} :
           /\ pc' = [pc EXCEPT ![c] = l] /\ outcome' = [outcome EXCEPT ![c] = o]
           /\ l \in Settling <=> o # None
    BY <1>0, <1>00, <1>5, CtxErrType DEF Peek, Finish, Proceed, Decide, FlightInv
  <2>2. pc[c] = "peek" /\ UNCHANGED <<leader, published, target>>
    BY <1>5 DEF Peek
  <2> QED BY <1>t, <1>0, <2>1, <2>2, Move
<1>6. CASE CheckCooldown(c)
  <2>1. \E l \in {"settle", "upstream"}, o \in Outcomes \cup {None} :
           /\ pc' = [pc EXCEPT ![c] = l] /\ outcome' = [outcome EXCEPT ![c] = o]
           /\ l \in Settling <=> o # None
    BY <1>0, <1>00, <1>6 DEF CheckCooldown, Finish, Proceed, Decide
  <2> QED BY <1>t, <1>0, <1>6, <2>1, Move DEF CheckCooldown
<1>7. CASE Upstream(c)
  <2>1. \E l \in {"settle", "store"}, o \in Outcomes \cup {None} :
           /\ pc' = [pc EXCEPT ![c] = l] /\ outcome' = [outcome EXCEPT ![c] = o]
           /\ l \in Settling <=> o # None
    BY <1>0, <1>00, <1>7 DEF Upstream, FetchErrors, FetchCtxErrors, Finish, Proceed, Decide
  <2> QED BY <1>t, <1>0, <1>7, <2>1, Move DEF Upstream
<1>8. CASE Store(c)
  <2>1. \E o \in Outcomes :
           pc' = [pc EXCEPT ![c] = "settle"] /\ outcome' = [outcome EXCEPT ![c] = o]
    BY <1>0, <1>8 DEF Store, FetchErrors, FetchCtxErrors, Finish, Decide
  <2> QED BY <1>t, <1>0, <1>8, <2>1, Move DEF Store
<1>9. CASE Settle(c)
  BY <1>t, <1>0, <1>00, <1>9, Move DEF Settle
<1>10. CASE Publish(c)
  <2> DEFINE y == target[c]
             waiting(d) == pc[d] = "wait" /\ target[d] = y
  <2>1. y \in Years /\ leader[y] = c /\ pc[c] = "publish" /\ outcome[c] \in Outcomes
    BY <1>0, <1>00, <1>10 DEF Publish, FlightInv, OneLeader
  <2>2. /\ \A d \in Callers : pc'[d] = IF d = c THEN "delete" ELSE IF waiting(d) THEN "woken" ELSE pc[d]
        /\ \A d \in Callers : outcome'[d] = IF waiting(d) THEN outcome[c] ELSE outcome[d]
        /\ \A z \in Years : published'[z] = IF z = y THEN outcome[c] ELSE published[z]
        /\ target' = target /\ leader' = leader
    BY <1>10 DEF Publish, FlightInv, FetchType
  <2>3. Roles'
    BY <1>0, <2>1, <2>2 DEF FlightInv, Roles, Callers, Alive
  <2>4. OneLeader'
    BY <1>0, <2>1, <2>2 DEF FlightInv, OneLeader, FetchType
  <2>5. Decided'
    BY <1>0, <2>1, <2>2 DEF FlightInv, Decided
  <2>6. PublishedByLeader'
    <3>1. ASSUME NEW z \in Years, published'[z] # None
          PROVE  leader'[z] # None /\ pc'[leader'[z]] = "delete"
      BY <2>1, <2>2, <3>1, CallerAssumption DEF FlightInv, PublishedByLeader, FetchType
    <3>2. ASSUME NEW d \in Callers, pc'[d] = "delete" PROVE published'[target'[d]] = outcome'[d]
      <4>1. CASE d = c
        BY <2>1, <2>2, <4>1
      <4>2. CASE d # c
        <5>1. pc[d] = "delete" /\ target[d] \in Years /\ target[d] # y
          BY <1>0, <2>1, <2>2, <3>2, <4>2 DEF FlightInv, OneLeader, Roles
        <5> QED BY <2>2, <5>1 DEF FlightInv, PublishedByLeader
      <4> QED BY <4>1, <4>2
    <3> QED BY <3>1, <3>2 DEF PublishedByLeader
  <2> QED BY <1>t, <2>3, <2>4, <2>5, <2>6 DEF FlightInv
<1>11. CASE Delete(c)
  <2> DEFINE y == target[c]
  <2>1. y \in Years /\ leader[y] = c /\ pc[c] = "delete"
    BY <1>0, <1>00, <1>11 DEF Delete, FlightInv, OneLeader
  <2>2. /\ \A d \in Callers : pc'[d] = IF d = c THEN "return" ELSE pc[d]
        /\ \A z \in Years : leader'[z] = IF z = y THEN None ELSE leader[z]
        /\ \A z \in Years : published'[z] = IF z = y THEN None ELSE published[z]
        /\ target' = target /\ outcome' = outcome
    BY <1>11 DEF Delete, FlightInv, FetchType
  <2>3. Roles'
    BY <1>0, <2>1, <2>2 DEF FlightInv, Roles, Callers, Alive
  <2>4. ASSUME NEW d \in Callers, pc'[d] \in Leading PROVE pc[d] \in Leading /\ target[d] \in Years /\ target[d] # y
    BY <1>0, <2>1, <2>2, <2>4 DEF FlightInv, Roles, OneLeader
  <2>5. OneLeader'
    BY <1>0, <2>1, <2>2, <2>4 DEF FlightInv, OneLeader, FetchType
  <2>6. Decided'
    BY <1>0, <2>1, <2>2 DEF FlightInv, Decided
  <2>7. PublishedByLeader'
    <3>1. ASSUME NEW z \in Years, published'[z] # None
          PROVE  leader'[z] # None /\ pc'[leader'[z]] = "delete"
      <4>1. z # y /\ leader[z] # None /\ pc[leader[z]] = "delete" /\ leader[z] \in Callers /\ target[leader[z]] = z
        BY <2>2, <3>1 DEF FlightInv, PublishedByLeader, OneLeader, FetchType
      <4> QED BY <2>1, <2>2, <4>1
    <3>2. ASSUME NEW d \in Callers, pc'[d] = "delete" PROVE published'[target'[d]] = outcome'[d]
      BY <1>0, <2>2, <2>4, <3>2 DEF FlightInv, PublishedByLeader
    <3> QED BY <3>1, <3>2 DEF PublishedByLeader
  <2> QED BY <1>t, <2>3, <2>5, <2>6, <2>7 DEF FlightInv
<1>12. CASE Return(c)
  BY <1>t, <1>12, Ended DEF Return
<1> QED BY <1>1, <1>2, <1>3, <1>4, <1>5, <1>6, <1>7, <1>8, <1>9, <1>10, <1>11, <1>12
           DEF CallStep, LeaderStep

\* The steps outside fetchAndStore.
OtherStep ==
  \/ \E c \in Callers, how \in {"canceled", "deadline"} : EndContext(c, how)
  \/ \E t \in Tasks : TaskStep(t) \/ StartTracking(t) \/ \E y \in Years : ScheduleYearFetch(t, y)
  \/ \E c \in Requests \cup Loops, y \in Years : Call(c, y)
  \/ \E l \in Loops : LoopExit(l)
  \/ CancelApp \/ BeginWait \/ EndWait \/ ExpireWait
  \/ \E y \in Years : Age(y) \/ Remove(y) \/ Expire(y)
  \/ UNCHANGED vars

LEMMA StepCases ==
  ASSUME [Next]_vars
  PROVE  OtherStep \/ \E c \in Callers : CallStep(c)
BY DEF Next, FetchNext, OtherStep

LEMMA FlightOtherStep ==
  ASSUME FlightInv, OtherStep
  PROVE  FlightInv'
<1> USE DEF flightVars, callVars, bgVars, Goto
<1>0. /\ Alive = Calling \cup {"track", "done"} /\ "join" \in Calling
      /\ \A c \in Requests \cup Loops : c \in Callers /\ c \notin Tasks
      /\ \A t \in Tasks : t \in Callers /\ t \notin Requests /\ t \notin Loops
      /\ "track" \notin Calling /\ "done" \notin Calling /\ "idle" \notin Calling /\ "exited" \notin Calling
  BY CallerAssumption DEF Alive, Calling, Leading, Fetching, Callers
<1>s. ASSUME UNCHANGED <<leader, published, pc, target, outcome>>, FetchType'
      PROVE  FlightInv'
  BY <1>s DEF FlightInv, Roles, OneLeader, Decided, PublishedByLeader
<1>1. ASSUME NEW c \in Callers, NEW how \in {"canceled", "deadline"}, EndContext(c, how)
      PROVE  FlightInv'
  BY <1>s, <1>1 DEF EndContext, FlightInv, FetchType
<1>2. ASSUME NEW t \in Tasks, ReleaseSlot(t) PROVE FlightInv'
  <2>1. FetchType'
    BY <1>0, <1>2 DEF ReleaseSlot, FlightInv, FetchType
  <2> QED BY <1>0, <1>2, <2>1, Ended DEF ReleaseSlot
<1>3. ASSUME NEW t \in Tasks, EndTracking(t) PROVE FlightInv'
  <2>1. FetchType'
    BY <1>0, <1>3 DEF EndTracking, FlightInv, FetchType
  <2>2. Roles'
    BY <1>0, <1>3 DEF EndTracking, FlightInv, Roles, FetchType
  <2> QED BY <1>0, <1>3, <2>1, <2>2, Outside DEF EndTracking
<1>4. ASSUME NEW t \in Tasks, Done(t) PROVE FlightInv'
  <2>1. FetchType'
    BY <1>0, <1>4 DEF Done, FlightInv, FetchType
  <2>2. Roles'
    BY <1>0, <1>4 DEF Done, FlightInv, Roles, FetchType
  <2> QED BY <1>0, <1>4, <2>1, <2>2, Outside DEF Done
<1>5. ASSUME NEW t \in Tasks, StartTracking(t) PROVE FlightInv'
  <2>1. FetchType'
    BY <1>0, <1>5 DEF StartTracking, FlightInv, FetchType
  <2>2. CASE Admitting
    <3>1. Roles'
      BY <1>0, <1>5, <2>2 DEF StartTracking, FlightInv, Roles, FetchType
    <3> QED BY <1>0, <1>5, <2>1, <2>2, <3>1, Outside DEF StartTracking
  <2>3. CASE ~Admitting
    BY <1>s, <1>5, <2>1, <2>3 DEF StartTracking
  <2> QED BY <2>2, <2>3
<1>6. ASSUME NEW t \in Tasks, NEW y \in Years, ScheduleYearFetch(t, y) PROVE FlightInv'
  <2>1. FetchType'
    BY <1>0, <1>6 DEF ScheduleYearFetch, FlightInv, FetchType
  <2>2. Roles'
    BY <1>0, <1>6 DEF ScheduleYearFetch, FlightInv, Roles, FetchType
  <2>3. \A d \in Callers : d # t => target'[d] = target[d]
    BY <1>6 DEF ScheduleYearFetch, FlightInv, FetchType
  <2> QED BY <1>0, <1>6, <2>1, <2>2, <2>3, Outside DEF ScheduleYearFetch
<1>7. ASSUME NEW c \in Requests \cup Loops, NEW y \in Years, Call(c, y) PROVE FlightInv'
  <2>1. FetchType'
    BY <1>0, <1>7 DEF Call, FlightInv, FetchType
  <2>2. Roles'
    BY <1>0, <1>7 DEF Call, FlightInv, Roles, FetchType
  <2>3. \A d \in Callers : d # c => target'[d] = target[d]
    BY <1>7 DEF Call, FlightInv, FetchType
  <2> QED BY <1>0, <1>7, <2>1, <2>2, <2>3, Outside DEF Call
<1>8. ASSUME NEW l \in Loops, LoopExit(l) PROVE FlightInv'
  <2>1. FetchType'
    BY <1>0, <1>8 DEF LoopExit, FlightInv, FetchType
  <2>2. Roles'
    BY <1>0, <1>8 DEF LoopExit, FlightInv, Roles, FetchType
  <2> QED BY <1>0, <1>8, <2>1, <2>2, Outside DEF LoopExit
<1>9. ASSUME CancelApp \/ BeginWait \/ EndWait \/ ExpireWait PROVE FlightInv'
  BY <1>s, <1>9 DEF CancelApp, BeginWait, EndWait, ExpireWait, FlightInv, FetchType
<1>10. ASSUME NEW y \in Years, Age(y) \/ Remove(y) PROVE FlightInv'
  BY <1>s, <1>10 DEF Age, Remove, FlightInv, FetchType
<1>11. ASSUME NEW y \in Years, Expire(y) PROVE FlightInv'
  <2>1. cooling' \in [Years -> BOOLEAN]
    BY <1>11, Zenon DEF Expire, FlightInv, FetchType
  <2> QED BY <1>s, <1>11, <2>1 DEF Expire, FlightInv, FetchType
<1>12. CASE UNCHANGED vars
  BY <1>s, <1>12 DEF vars, FlightInv, FetchType
<1> QED BY <1>1, <1>2, <1>3, <1>4, <1>5, <1>6, <1>7, <1>8, <1>9, <1>10, <1>11, <1>12
           DEF OtherStep, TaskStep

LEMMA FlightStep == FlightInv /\ [Next]_vars => FlightInv'
BY StepCases, FlightCallStep, FlightOtherStep

LEMMA FlightAlways == Spec => []FlightInv
<1> QED BY FlightInit, FlightStep, PTL DEF Spec

-----------------------------------------------------------------------------
(* A fresh year is not fetched again, and a cooldown is honoured            *)

\* A year has one leader.
LEMMA LeadersApart ==
  ASSUME FlightInv, NEW c \in Callers, NEW d \in Callers,
         pc[c] \in Leading, pc[d] \in Leading, c # d
  PROVE  target[c] \in Years /\ target[d] \in Years /\ target[c] # target[d]
BY DEF FlightInv, OneLeader, Roles, Calling

LEMMA FetchesStep ==
  ASSUME FlightInv, FreshNotRefetched, CooldownHonoured, [Next]_vars
  PROVE  FreshNotRefetched' /\ CooldownHonoured'
<1> USE DEF flightVars, callVars, bgVars, Goto
<1> DEFINE Attempting == {"cooldown", "upstream", "store"}
<1>0. /\ Attempting \subseteq Leading /\ "settle" \in Leading
      /\ \A c \in Requests \cup Loops \cup Tasks : c \in Callers
  BY DEF Leading, Fetching, Callers
<1>t. FetchType
  BY DEF FlightInv
<1>s. ASSUME \A d \in Callers : pc'[d] \in Attempting => pc'[d] = pc[d] /\ target'[d] = target[d],
             \A y \in Years : row'[y] = "fresh" => row[y] = "fresh",
             \A y \in Years : cooling'[y] => cooling[y]
      PROVE  FreshNotRefetched' /\ CooldownHonoured'
  <2>1. \A d \in Callers : pc[d] \in Attempting => target[d] \in Years
    BY <1>0 DEF FlightInv, Roles, Calling
  <2> QED BY <1>s, <2>1 DEF FreshNotRefetched, CooldownHonoured
<1>1. ASSUME NEW c \in Callers, CallStep(c) PROVE FreshNotRefetched' /\ CooldownHonoured'
  <2>1. CASE Lead(c) \/ Follow(c) \/ Abandon(c) \/ Wake(c) \/ Publish(c) \/ Delete(c) \/ Return(c)
    BY <1>s, <1>t, <2>1 DEF Lead, Follow, Abandon, Wake, Publish, Delete, Return, Decide, FetchType
  <2>2. CASE Peek(c)
    <3>1. ASSUME NEW d \in Callers, pc'[d] \in Attempting
          PROVE  row'[target'[d]] # "fresh" /\ (pc'[d] # "cooldown" => d # c)
      BY <1>t, <2>2, <3>1 DEF Peek, Finish, Proceed, Decide, FreshNotRefetched, FetchType
    <3>2. ASSUME NEW d \in Callers, pc'[d] \in {"upstream", "store"} PROVE ~cooling'[target'[d]]
      <4>1. d # c
        BY <3>1, <3>2
      <4>2. pc'[d] = pc[d]
        BY <1>t, <2>2, <4>1 DEF Peek, Finish, Proceed, Decide, FetchType
      <4> QED BY <2>2, <3>2, <4>2 DEF Peek, CooldownHonoured
    <3> QED BY <3>1, <3>2 DEF FreshNotRefetched, CooldownHonoured
  <2>3. CASE CheckCooldown(c)
    <3>1. \A d \in Callers : d # c => pc'[d] = pc[d]
      BY <1>t, <2>3 DEF CheckCooldown, Finish, Proceed, Decide, FetchType
    <3>2. pc[c] = "cooldown" /\ (pc'[c] = "upstream" => ~cooling[target[c]])
          /\ pc'[c] \in {"upstream", "settle"} /\ UNCHANGED <<row, cooling, target>>
      BY <1>t, <2>3 DEF CheckCooldown, Finish, Proceed, Decide, FetchType, HeldBack
    <3> QED BY <3>1, <3>2 DEF FreshNotRefetched, CooldownHonoured
  <2>4. CASE Upstream(c)
    <3>1. \A d \in Callers : d # c => pc'[d] = pc[d]
      BY <1>t, <2>4 DEF Upstream, Finish, Proceed, Decide, FetchType
    <3>2. pc[c] = "upstream" /\ pc'[c] \in {"store", "settle"} /\ UNCHANGED <<row, cooling, target>>
      BY <1>t, <2>4 DEF Upstream, Finish, Proceed, Decide, FetchType
    <3> QED BY <3>1, <3>2 DEF FreshNotRefetched, CooldownHonoured
  <2>5. CASE Store(c)
    <3>1. \A d \in Callers : pc'[d] = IF d = c THEN "settle" ELSE pc[d]
      BY <1>t, <2>5 DEF Store, Finish, Decide, FetchType
    <3>2. pc[c] = "store" /\ UNCHANGED <<cooling, target>>
          /\ \A y \in Years : y # target[c] => row'[y] = row[y]
      BY <1>t, <2>5 DEF Store, FetchType
    <3>3. ASSUME NEW d \in Callers, pc'[d] \in Attempting
          PROVE  row'[target[d]] = row[target[d]] /\ d # c
      BY <1>0, <3>1, <3>2, <3>3, LeadersApart
    <3> QED BY <3>1, <3>2, <3>3 DEF FreshNotRefetched, CooldownHonoured
  <2>6. CASE Settle(c)
    <3>1. \A d \in Callers : pc'[d] = IF d = c THEN "publish" ELSE pc[d]
      BY <1>t, <2>6 DEF Settle, FetchType
    <3>2. pc[c] = "settle" /\ UNCHANGED <<row, target>>
          /\ \A y \in Years : y # target[c] => cooling'[y] = cooling[y]
      BY <1>t, <2>6 DEF Settle, FetchType
    <3>3. ASSUME NEW d \in Callers, pc'[d] \in Attempting
          PROVE  cooling'[target[d]] = cooling[target[d]] /\ d # c
      BY <1>0, <3>1, <3>2, <3>3, LeadersApart
    <3> QED BY <3>1, <3>2, <3>3 DEF FreshNotRefetched, CooldownHonoured
  <2> QED BY <1>1, <2>1, <2>2, <2>3, <2>4, <2>5, <2>6 DEF CallStep, LeaderStep
<1>2. CASE OtherStep
  <2>1. \A d \in Callers : pc'[d] \in Attempting => pc'[d] = pc[d] /\ target'[d] = target[d]
    BY <1>t, <1>0, <1>2 DEF OtherStep, TaskStep, EndContext, ReleaseSlot, EndTracking, Done, StartTracking,
       ScheduleYearFetch, Call, LoopExit, CancelApp, BeginWait, EndWait, ExpireWait, Age, Remove,
       Expire, vars, FetchType
  <2>2. \A y \in Years : row'[y] = "fresh" => row[y] = "fresh"
    BY <1>t, <1>2 DEF OtherStep, TaskStep, EndContext, ReleaseSlot, EndTracking, Done, StartTracking,
       ScheduleYearFetch, Call, LoopExit, CancelApp, BeginWait, EndWait, ExpireWait, Age, Remove,
       Expire, vars, FetchType
  <2>3. \A y \in Years : cooling'[y] => cooling[y]
    BY <1>t, <1>2 DEF OtherStep, TaskStep, EndContext, ReleaseSlot, EndTracking, Done, StartTracking,
       ScheduleYearFetch, Call, LoopExit, CancelApp, BeginWait, EndWait, ExpireWait, Age, Remove,
       Expire, vars, FetchType
  <2> QED BY <1>s, <2>1, <2>2, <2>3
<1> QED BY <1>1, <1>2, StepCases

(***************************************************************************)
(* FreshNotRefetched: a year stored fresh is not fetched again, because     *)
(* only the year's one leader stores it.                                    *)
(***************************************************************************)
THEOREM FreshIsNotRefetched == Spec => []FreshNotRefetched
<1>1. Init => FreshNotRefetched /\ CooldownHonoured
  BY DEF Init, FreshNotRefetched, CooldownHonoured
<1> QED BY <1>1, FetchesStep, FlightAlways, PTL DEF Spec

(***************************************************************************)
(* CooldownHonoured: nobody has an attempt under way for a year in          *)
(* cooldown, because only the year's one leader starts its cooldown.        *)
(***************************************************************************)
THEOREM CooldownIsHonoured == Spec => []CooldownHonoured
<1>1. Init => FreshNotRefetched /\ CooldownHonoured
  BY DEF Init, FreshNotRefetched, CooldownHonoured
<1> QED BY <1>1, FetchesStep, FlightAlways, PTL DEF Spec

-----------------------------------------------------------------------------
(* Slots, the WaitGroup and Wait                                            *)

\* The goroutines SlotsMatchTasks has the WaitGroup count.
Live == {c \in Counted : \/ c \in Tasks /\ pc[c] \in Alive
                         \/ c \in Loops /\ pc[c] # "exited"}

LEMMA LiveFinite == IsFiniteSet(Live) /\ IsFiniteSet(Live') /\ Cardinality(Live) \in Nat
<1>1. Live \subseteq Counted /\ Live' \subseteq Counted
  BY DEF Live
<1> QED BY <1>1, CallerAssumption, FS_Subset, FS_CardinalityType

\* One goroutine more, one less, or the same ones.
LEMMA LiveMoves ==
  ASSUME wg = Cardinality(Live), NEW g
  PROVE  /\ Live' = Live /\ wg' = wg => wg' = Cardinality(Live')
         /\ g \notin Live /\ Live' = Live \cup {g} /\ wg' = wg + 1 => wg' = Cardinality(Live')
         /\ g \in Live /\ Live' = Live \ {g} /\ wg' = wg - 1 => wg' = Cardinality(Live')
BY LiveFinite, FS_AddElement, FS_RemoveElement

SlotHeld == \A y \in Years, t \in Tasks : yearTasks[y] = t <=> pc[t] \in Calling /\ target[t] = y

\* How a call under way may move.
LEMMA CallMoves ==
  ASSUME FlightInv, NEW c \in Callers, CallStep(c), NEW d \in Callers
  PROVE  /\ pc[c] \in Calling
         /\ pc'[d] # pc[d] => pc[d] \in Calling
         /\ pc'[d] # pc[d] => pc'[d] \in Calling \/ (pc'[d] = "idle" /\ d \notin Tasks)
         /\ d \in Tasks => target'[d] = target[d]
         /\ UNCHANGED bgVars
<1> USE DEF flightVars, callVars, bgVars, Goto
<1>0. /\ Calling = {"peek", "cooldown", "upstream", "store", "settle", "publish", "delete",
                    "join", "wait", "woken", "return"}
  BY DEF Calling, Leading, Fetching
<1>t. FetchType
  BY DEF FlightInv
<1>1. CASE Lead(c) \/ Follow(c) \/ Abandon(c) \/ Wake(c)
  BY <1>0, <1>t, <1>1 DEF Lead, Follow, Abandon, Wake, Decide, FetchType
<1>2. CASE Peek(c)
  BY <1>0, <1>t, <1>2 DEF Peek, Finish, Proceed, Decide, FetchType
<1>3. CASE CheckCooldown(c) \/ Upstream(c) \/ Store(c) \/ Settle(c)
  BY <1>0, <1>t, <1>3 DEF CheckCooldown, Upstream, Store, Settle, Finish, Proceed, Decide, FetchType
<1>4. CASE Publish(c) \/ Delete(c)
  BY <1>0, <1>t, <1>4 DEF Publish, Delete, FetchType
<1>5. CASE Return(c)
  BY <1>0, <1>t, <1>5 DEF Return, FetchType
<1> QED BY <1>1, <1>2, <1>3, <1>4, <1>5 DEF CallStep, LeaderStep

LEMMA SlotsStep ==
  ASSUME FlightInv, SlotHeld, wg = Cardinality(Live), [Next]_vars
  PROVE  SlotHeld' /\ wg' = Cardinality(Live')
<1> USE DEF flightVars, callVars, bgVars, Goto
<1>0. /\ Alive = Calling \cup {"track", "done"} /\ "join" \in Calling /\ "return" \in Calling
      /\ "track" \notin Calling /\ "done" \notin Calling /\ "idle" \notin Calling /\ "exited" \notin Calling
      /\ \A c \in Requests \cup Loops : c \in Callers /\ c \notin Tasks
      /\ \A t \in Tasks : t \in Callers /\ t \in Counted /\ t \notin Loops
      /\ \A l \in Loops : l \in Counted
      /\ None \notin Tasks
  BY CallerAssumption DEF Alive, Calling, Leading, Fetching, Callers, Counted
<1>t. FetchType
  BY DEF FlightInv
<1>s. ASSUME UNCHANGED <<pc, target, yearTasks, wg>> PROVE SlotHeld' /\ wg' = Cardinality(Live')
  BY <1>s DEF SlotHeld, Live
<1>1. ASSUME NEW c \in Callers, CallStep(c) PROVE SlotHeld' /\ wg' = Cardinality(Live')
  <2>1. SlotHeld'
    BY <1>0, <1>1, CallMoves DEF SlotHeld
  <2>2. Live' = Live
    BY <1>0, <1>1, CallMoves DEF Live
  <2> QED BY <1>1, <2>1, <2>2, CallMoves
<1>2. ASSUME NEW t \in Tasks, ReleaseSlot(t) PROVE SlotHeld' /\ wg' = Cardinality(Live')
  <2>1. pc[t] = "return" /\ target[t] \in Years /\ yearTasks[target[t]] = t
    BY <1>0, <1>2 DEF ReleaseSlot, FlightInv, Roles, SlotHeld
  <2>2. /\ \A d \in Callers : pc'[d] = IF d = t THEN "done" ELSE pc[d]
        /\ \A d \in Callers : target'[d] = IF d = t THEN None ELSE target[d]
        /\ \A y \in Years : yearTasks'[y] = IF y = target[t] THEN None ELSE yearTasks[y]
    BY <1>t, <1>2 DEF ReleaseSlot, FetchType
  <2>3. SlotHeld'
    BY <1>0, <2>1, <2>2 DEF SlotHeld
  <2>4. Live' = Live
    BY <1>0, <2>1, <2>2 DEF Live
  <2> QED BY <1>2, <2>3, <2>4 DEF ReleaseSlot
<1>3. ASSUME NEW t \in Tasks, EndTracking(t) PROVE SlotHeld' /\ wg' = Cardinality(Live')
  <2>1. pc[t] = "track" /\ \A d \in Callers : pc'[d] = IF d = t THEN "done" ELSE pc[d]
    BY <1>t, <1>3 DEF EndTracking, FetchType
  <2>2. SlotHeld'
    BY <1>0, <1>3, <2>1 DEF SlotHeld, EndTracking
  <2>3. Live' = Live
    BY <1>0, <2>1 DEF Live
  <2> QED BY <1>3, <2>2, <2>3 DEF EndTracking
<1>4. ASSUME NEW t \in Tasks, Done(t) PROVE SlotHeld' /\ wg' = Cardinality(Live')
  <2>1. pc[t] = "done" /\ \A d \in Callers : pc'[d] = IF d = t THEN "idle" ELSE pc[d]
    BY <1>t, <1>0, <1>4 DEF Done, FetchType
  <2>2. SlotHeld'
    BY <1>0, <1>4, <2>1 DEF SlotHeld, Done
  <2>3. t \in Live /\ Live' = Live \ {t}
    BY <1>0, <2>1 DEF Live
  <2> QED BY <1>4, <2>2, <2>3, LiveMoves DEF Done
<1>5. ASSUME NEW t \in Tasks, StartTracking(t) PROVE SlotHeld' /\ wg' = Cardinality(Live')
  <2>1. CASE Admitting
    <3>1. pc[t] = "idle" /\ \A d \in Callers : pc'[d] = IF d = t THEN "track" ELSE pc[d]
      BY <1>t, <1>0, <1>5, <2>1 DEF StartTracking, FetchType
    <3>2. SlotHeld'
      BY <1>0, <1>5, <3>1 DEF SlotHeld, StartTracking
    <3>3. t \notin Live /\ Live' = Live \cup {t}
      BY <1>0, <3>1 DEF Live
    <3> QED BY <1>5, <2>1, <3>2, <3>3, LiveMoves DEF StartTracking
  <2>2. CASE ~Admitting
    BY <1>s, <1>5, <2>2 DEF StartTracking
  <2> QED BY <2>1, <2>2
<1>6. ASSUME NEW t \in Tasks, NEW y \in Years, ScheduleYearFetch(t, y) PROVE SlotHeld' /\ wg' = Cardinality(Live')
  <2>1. pc[t] = "idle" /\ yearTasks[y] = None /\ wg' = wg + 1
    BY <1>6 DEF ScheduleYearFetch, Schedule
  <2>2. /\ \A d \in Callers : pc'[d] = IF d = t THEN "join" ELSE pc[d]
        /\ \A d \in Callers : target'[d] = IF d = t THEN y ELSE target[d]
        /\ \A z \in Years : yearTasks'[z] = IF z = y THEN t ELSE yearTasks[z]
    BY <1>t, <1>6 DEF ScheduleYearFetch, FetchType
  <2>3. SlotHeld'
    BY <1>0, <2>1, <2>2 DEF SlotHeld
  <2>4. t \notin Live /\ Live' = Live \cup {t}
    BY <1>0, <2>1, <2>2 DEF Live
  <2> QED BY <2>1, <2>3, <2>4, LiveMoves
<1>7. ASSUME NEW c \in Requests \cup Loops, NEW y \in Years, Call(c, y) PROVE SlotHeld' /\ wg' = Cardinality(Live')
  <2>1. /\ pc[c] = "idle"
        /\ \A d \in Callers : pc'[d] = IF d = c THEN "join" ELSE pc[d]
        /\ \A d \in Callers : target'[d] = IF d = c THEN y ELSE target[d]
    BY <1>t, <1>7 DEF Call, FetchType
  <2>2. SlotHeld'
    BY <1>0, <1>7, <2>1 DEF SlotHeld, Call
  <2>3. Live' = Live
    BY <1>0, <2>1 DEF Live
  <2> QED BY <1>7, <2>2, <2>3 DEF Call
<1>8. ASSUME NEW l \in Loops, LoopExit(l) PROVE SlotHeld' /\ wg' = Cardinality(Live')
  <2>1. pc[l] = "idle" /\ \A d \in Callers : pc'[d] = IF d = l THEN "exited" ELSE pc[d]
    BY <1>t, <1>8 DEF LoopExit, FetchType
  <2>2. SlotHeld'
    BY <1>0, <1>8, <2>1 DEF SlotHeld, LoopExit
  <2>3. l \in Live /\ Live' = Live \ {l}
    BY <1>0, <2>1 DEF Live
  <2> QED BY <1>8, <2>2, <2>3, LiveMoves DEF LoopExit
<1>9. ASSUME \/ \E c \in Callers, how \in {"canceled", "deadline"} : EndContext(c, how)
             \/ CancelApp \/ BeginWait \/ EndWait \/ ExpireWait
             \/ \E y \in Years : Age(y) \/ Remove(y) \/ Expire(y)
             \/ UNCHANGED vars
      PROVE  SlotHeld' /\ wg' = Cardinality(Live')
  BY <1>s, <1>9 DEF EndContext, CancelApp, BeginWait, EndWait, ExpireWait, Age, Remove, Expire, vars
<1> QED BY <1>1, <1>2, <1>3, <1>4, <1>5, <1>6, <1>7, <1>8, <1>9, StepCases DEF OtherStep, TaskStep

(***************************************************************************)
(* SlotsMatchTasks: a year's slot is held exactly while its task runs, and  *)
(* the WaitGroup counts exactly the live goroutines.                        *)
(***************************************************************************)
THEOREM SlotsAlwaysMatch == Spec => []SlotsMatchTasks
<1>1. Init => SlotHeld /\ wg = Cardinality(Live)
  <2> SUFFICES ASSUME Init PROVE SlotHeld /\ wg = Cardinality(Live)
    OBVIOUS
  <2>1. "idle" \notin Calling /\ "idle" \notin Alive /\ None \notin Tasks
    BY CallerAssumption DEF Alive, Calling, Leading, Fetching, Callers
  <2>2. Live = Loops
    BY <2>1 DEF Init, Live, Callers, Counted
  <2> QED BY <2>1, <2>2 DEF Init, SlotHeld, Callers
<1>2. Init => SlotsMatchTasks
  BY <1>1 DEF SlotHeld, Live, SlotsMatchTasks
<1>3. FlightInv /\ SlotsMatchTasks /\ [Next]_vars => SlotsMatchTasks'
  BY SlotsStep DEF SlotHeld, Live, SlotsMatchTasks
<1> QED BY <1>2, <1>3, FlightAlways, PTL DEF Spec

\* Wait returns after admission is closed.
WaitClosed == waiter # "no" => bgClosed

LEMMA QuietStep ==
  ASSUME FlightInv, SlotsMatchTasks, WaitClosed, QuietAfterWait, [Next]_vars
  PROVE  WaitClosed' /\ QuietAfterWait'
<1> USE DEF flightVars, callVars, bgVars, Goto
<1>0. /\ "track" \notin Calling /\ "done" \notin Calling /\ "idle" \notin Calling /\ "exited" \notin Calling
      /\ \A c \in Requests \cup Loops : c \in Callers /\ c \notin Tasks
      /\ \A t \in Tasks : t \in Callers /\ t \in Counted /\ t \notin Loops
      /\ \A l \in Loops : l \in Counted
  BY CallerAssumption DEF Alive, Calling, Leading, Fetching, Callers, Counted
<1>t. FetchType
  BY DEF FlightInv
<1>1. WaitClosed'
  <2>1. CASE OtherStep
    BY <2>1 DEF OtherStep, TaskStep, EndContext, ReleaseSlot, EndTracking, Done, StartTracking,
       ScheduleYearFetch, Call, LoopExit, CancelApp, BeginWait, EndWait, ExpireWait, Age, Remove,
       Expire, vars, WaitClosed
  <2>2. CASE \E c \in Callers : CallStep(c)
    BY <2>2, CallMoves DEF WaitClosed
  <2> QED BY <2>1, <2>2, StepCases
<1>2. ASSUME waiter = "done", waiter' = "done" PROVE QuietAfterWait'
  <2>1. /\ bgClosed
        /\ \A t \in Tasks : pc[t] = "idle"
        /\ \A l \in Loops : pc[l] = "exited"
    BY <1>2 DEF WaitClosed, QuietAfterWait
  <2>2. ASSUME OtherStep, NEW d \in Counted PROVE pc'[d] = pc[d]
    <3>1. ASSUME NEW t \in Tasks, TaskStep(t) PROVE FALSE
      BY <2>1, <3>1 DEF TaskStep, ReleaseSlot, EndTracking, Done
    <3>2. ASSUME NEW t \in Tasks, StartTracking(t) \/ \E y \in Years : ScheduleYearFetch(t, y)
          PROVE  pc' = pc
      BY <2>1, <3>2 DEF StartTracking, ScheduleYearFetch, Schedule, Admitting
    <3>3. ASSUME NEW l \in Loops, LoopExit(l) PROVE FALSE
      BY <2>1, <3>3 DEF LoopExit
    <3>4. ASSUME NEW c \in Requests \cup Loops, NEW y \in Years, Call(c, y) PROVE pc'[d] = pc[d]
      BY <1>t, <1>0, <2>1, <3>4 DEF Call, FetchType, Counted
    <3>5. CASE \/ \E c \in Callers, how \in {"canceled", "deadline"} : EndContext(c, how)
               \/ CancelApp \/ BeginWait \/ EndWait \/ ExpireWait
               \/ \E y \in Years : Age(y) \/ Remove(y) \/ Expire(y)
               \/ UNCHANGED vars
      BY <3>5 DEF EndContext, CancelApp, BeginWait, EndWait, ExpireWait, Age, Remove, Expire, vars
    <3> QED BY <2>2, <3>1, <3>2, <3>3, <3>4, <3>5 DEF OtherStep
  <2>3. ASSUME NEW c \in Callers, CallStep(c), NEW d \in Counted PROVE pc'[d] = pc[d]
    BY <1>0, <2>1, <2>3, CallMoves DEF Counted
  <2>4. \A d \in Counted : pc'[d] = pc[d]
    BY <2>2, <2>3, StepCases
  <2> QED BY <1>0, <2>1, <2>4 DEF QuietAfterWait
<1>3. ASSUME waiter # "done", waiter' = "done" PROVE QuietAfterWait'
  <2>1. CASE OtherStep
    <3>1. wg = 0 /\ pc' = pc
      BY <1>3, <2>1 DEF OtherStep, TaskStep, EndContext, ReleaseSlot, EndTracking, Done, StartTracking,
         ScheduleYearFetch, Call, LoopExit, CancelApp, BeginWait, EndWait, ExpireWait, Age, Remove,
         Expire, vars
    <3>2. Live = {}
      BY <3>1, LiveFinite, FS_EmptySet DEF SlotsMatchTasks, Live
    <3> QED BY <1>0, <3>1, <3>2 DEF Live, QuietAfterWait, FlightInv, Roles
  <2>2. CASE \E c \in Callers : CallStep(c)
    BY <1>3, <2>2, CallMoves
  <2> QED BY <2>1, <2>2, StepCases
<1>4. waiter' # "done" => QuietAfterWait'
  BY DEF QuietAfterWait
<1> QED BY <1>1, <1>2, <1>3, <1>4

(***************************************************************************)
(* QuietAfterWait: after Wait has returned nil no background goroutine      *)
(* runs, whatever tries to start one.                                       *)
(***************************************************************************)
THEOREM WaitLeavesQuiet == Spec => []QuietAfterWait
<1>1. Init => WaitClosed /\ QuietAfterWait
  BY DEF Init, WaitClosed, QuietAfterWait
<1> QED BY <1>1, QuietStep, FlightAlways, SlotsAlwaysMatch, PTL DEF Spec

-----------------------------------------------------------------------------
(* fetchAndStore implements YearFlights                                     *)

Answer(c) == IF Stage(c) \in {"landed", "answered"} THEN outcome[c] ELSE None

\* The two views without CASE, before and after a step.
LEMMA StageIs ==
  ASSUME NEW c
  PROVE  /\ Stage(c) = IF pc[c] = "join" THEN "asked"
                       ELSE IF pc[c] \in Fetching \cup {"publish", "wait"} THEN "aboard"
                       ELSE IF pc[c] = "woken" THEN "landed"
                       ELSE IF pc[c] \in {"delete", "return"} THEN "answered" ELSE "out"
         /\ Stage(c)' = IF pc'[c] = "join" THEN "asked"
                        ELSE IF pc'[c] \in Fetching \cup {"publish", "wait"} THEN "aboard"
                        ELSE IF pc'[c] = "woken" THEN "landed"
                        ELSE IF pc'[c] \in {"delete", "return"} THEN "answered" ELSE "out"
BY DEF Stage, Fetching

LEMMA FlightIs ==
  ASSUME NEW y
  PROVE  /\ leader[y] = None \/ published[y] # None => Flight(y) = published[y]
         /\ leader[y] # None /\ published[y] = None
               => Flight(y) = Course(outcome[leader[y]])
BY DEF Flight

LEMMA FlightIsNext ==
  ASSUME NEW y
  PROVE  /\ leader'[y] = None \/ published'[y] # None => Flight(y)' = published'[y]
         /\ leader'[y] # None /\ published'[y] = None
               => Flight(y)' = Course(outcome'[leader'[y]])
BY DEF Flight

LEMMA CourseIs ==
  /\ Course(None) = "open"
  /\ Course("fetched") = "stored" /\ Course("fresh") = "found"
  /\ Course("deadline") = "unsure" /\ Course("canceled") = "unsure"
  /\ Course("failed") = "failing" /\ Course("cooldown") = "failing"
BY OutcomeAssumption DEF Course, CtxErrors, Outcomes, Successes

\* A step of somebody who leads no flight leaves every flight as it is.
LEMMA FlightSame ==
  ASSUME FlightInv, NEW y \in Years, UNCHANGED <<leader, published>>,
         leader[y] # None => outcome'[leader[y]] = outcome[leader[y]]
  PROVE  Flight(y)' = Flight(y)
BY DEF Flight

\* Where nothing is to be seen from outside.
LEMMA Unseen ==
  ASSUME UNCHANGED <<row, target>>,
         \A y \in Years : Flight(y)' = Flight(y),
         \A d \in Callers : Stage(d)' = Stage(d) /\ Answer(d)' = Answer(d)
  PROVE  UNCHANGED Flights!vars
BY DEF Flights!vars, Answer

\* c moves on within the flight, its outcome being what it was.
LEMMA FlyOn ==
  ASSUME FlightInv, NEW c \in Callers, NEW l \in Fetching \cup {"publish"},
         pc[c] \in Fetching, pc' = [pc EXCEPT ![c] = l],
         UNCHANGED <<row, leader, published, target, outcome>>
  PROVE  UNCHANGED Flights!vars
<1>1. \A d \in Callers : pc'[d] = IF d = c THEN l ELSE pc[d]
  BY DEF FlightInv, FetchType
<1>2. \A d \in Callers : Stage(d)' = Stage(d)
  BY <1>1, StageIs DEF Fetching
<1>3. \A d \in Callers : Answer(d)' = Answer(d)
  BY <1>2 DEF Answer
<1>4. \A y \in Years : Flight(y)' = Flight(y)
  BY FlightSame
<1> QED BY <1>2, <1>3, <1>4, Unseen

LEMMA FlightsLeave ==
  ASSUME FlightInv, NEW c \in Callers, NEW l \in {"idle", "done"}, pc[c] = "return",
         pc' = [pc EXCEPT ![c] = l],
         target' = [target EXCEPT ![c] = None],
         outcome' = [outcome EXCEPT ![c] = None],
         UNCHANGED <<row, leader, published>>
  PROVE  Flights!Leave(c)
<1>1. /\ \A d \in Callers : pc'[d] = IF d = c THEN l ELSE pc[d]
      /\ \A d \in Callers : outcome'[d] = IF d = c THEN None ELSE outcome[d]
  BY DEF FlightInv, FetchType
<1>2. \A y \in Years : leader[y] # None => leader[y] \in Callers /\ leader[y] # c
  BY DEF FlightInv, OneLeader, FetchType, Leading, Fetching
<1>3. \A y \in Years : Flight(y)' = Flight(y)
  BY <1>1, <1>2, FlightSame
<1>4. Stage(c) = "answered"
  BY StageIs DEF Fetching
<1>5. \A d \in Callers : Stage(d)' = IF d = c THEN "out" ELSE Stage(d)
  BY <1>1, StageIs DEF Fetching
<1>6. \A d \in Callers : Answer(d)' = IF d = c THEN None ELSE Answer(d)
  BY <1>1, <1>5 DEF Answer
<1> QED BY <1>3, <1>4, <1>5, <1>6 DEF Flights!Leave, Answer

LEMMA FlightsCallStep ==
  ASSUME FlightInv, FreshNotRefetched, NEW c \in Callers, CallStep(c)
  PROVE  [Flights!Next]_(Flights!vars)
<1> USE DEF flightVars, callVars, bgVars, Goto
<1>t. FetchType
  BY DEF FlightInv
<1>0. /\ Outcomes = {"fetched", "fresh", "canceled", "deadline", "failed", "cooldown"}
      /\ Successes = {"fetched", "fresh"}
      /\ None \notin Outcomes /\ None \notin {"open", "stored", "found", "unsure", "failing"}
      /\ Fetching = {"peek", "cooldown", "upstream", "store", "settle"}
      /\ Leading = Fetching \cup {"publish", "delete"}
      /\ Calling = Leading \cup {"join", "wait", "woken", "return"}
      /\ Settling = {"settle", "publish", "delete", "woken", "return"}
  BY OutcomeAssumption DEF Outcomes, Successes, Calling, Leading, Fetching, Settling
<1>00. /\ outcome = [outcome EXCEPT ![c] = outcome[c]] /\ outcome[c] \in Outcomes \cup {None}
       /\ pc[c] \in Settling <=> outcome[c] # None
       /\ pc[c] \in Calling => target[c] \in Years
       /\ pc[c] \in Leading <=> pc[c] \in Calling /\ leader[target[c]] = c
  BY <1>0, CallerAssumption DEF FlightInv, FetchType, Decided, Roles, OneLeader
<1>a. ASSUME NEW y \in Years, leader[y] = c PROVE pc[c] \in Leading /\ target[c] = y
  BY <1>a, CallerAssumption DEF FlightInv, OneLeader
<1> DEFINE y == target[c]
<1>1. CASE Lead(c)
  <2>1. y \in Years /\ leader[y] = None /\ pc[c] = "join" /\ published[y] = None /\ outcome[c] = None
    BY <1>0, <1>00, <1>1 DEF Lead, FlightInv, PublishedByLeader
  <2>2. /\ \A d \in Callers : pc'[d] = IF d = c THEN "peek" ELSE pc[d]
        /\ \A z \in Years : leader'[z] = IF z = y THEN c ELSE leader[z]
        /\ \A z \in Years : published'[z] = IF z = y THEN None ELSE published[z]
        /\ target' = target /\ outcome' = outcome /\ row' = row
    BY <1>t, <1>1 DEF Lead, FetchType
  <2>3. Flight(y) = None /\ Flight(y)' = "open"
    BY <1>0, <2>1, <2>2, FlightIs, FlightIsNext, CourseIs, CallerAssumption
  <2>4. ASSUME NEW z \in Years, z # y PROVE Flight(z)' = Flight(z)
    BY <2>2, <2>4 DEF Flight
  <2>5. \A d \in Callers : Stage(d)' = IF d = c THEN "aboard" ELSE Stage(d)
    BY <1>0, <2>2, StageIs
  <2>6. Stage(c) = "asked"
    BY <2>1, StageIs
  <2>7. \A d \in Callers : Answer(d)' = Answer(d)
    BY <2>2, <2>5, <2>6 DEF Answer
  <2>8. Flights!Board(c)
    BY <1>0, <2>1, <2>2, <2>3, <2>4, <2>5, <2>6, <2>7 DEF Flights!Board, Flights!Landed, Answer
  <2> QED BY <2>8 DEF Flights!Next
<1>2. CASE Follow(c)
  <2>1. y \in Years /\ leader[y] # None /\ pc[c] = "join" /\ leader[y] # c /\ outcome[c] = None
    BY <1>0, <1>00, <1>2 DEF Follow
  <2>2. /\ \A d \in Callers : pc'[d] = IF d = c THEN IF published[y] = None THEN "wait" ELSE "woken" ELSE pc[d]
        /\ \A d \in Callers : outcome'[d] = IF d = c THEN published[y] ELSE outcome[d]
        /\ UNCHANGED <<row, leader, published, target>>
    BY <1>t, <1>2 DEF Follow, FetchType
  <2>3. \A z \in Years : Flight(z)' = Flight(z)
    BY <1>t, <1>0, <1>a, <2>1, <2>2, FlightSame DEF FetchType
  <2>4. Stage(c) = "asked"
    BY <2>1, StageIs
  <2>5. CASE published[y] = None
    <3>1. \A d \in Callers : Stage(d)' = IF d = c THEN "aboard" ELSE Stage(d)
      BY <1>0, <2>2, <2>5, StageIs
    <3>2. \A d \in Callers : Answer(d)' = Answer(d)
      BY <2>2, <2>4, <3>1 DEF Answer
    <3>3. Flight(y) \in {"open", "stored", "found", "unsure", "failing"}
      <4>1. outcome[leader[y]] \in Outcomes \cup {None}
        BY <1>t, <2>1 DEF FetchType
      <4> QED BY <1>0, <4>1, <2>1, <2>5, FlightIs, CourseIs
    <3>4. Flights!Board(c)
      BY <1>0, <2>1, <2>2, <2>3, <2>4, <3>1, <3>2, <3>3 DEF Flights!Board, Flights!Landed, Answer
    <3> QED BY <3>4 DEF Flights!Next
  <2>6. CASE published[y] # None
    <3>1. \A d \in Callers : Stage(d)' = IF d = c THEN "landed" ELSE Stage(d)
      BY <1>0, <2>2, <2>6, StageIs
    <3>2. \A d \in Callers : Answer(d)' = IF d = c THEN published[y] ELSE Answer(d)
      BY <2>2, <2>4, <3>1 DEF Answer
    <3>3. Flight(y) = published[y] /\ published[y] \in Outcomes
      BY <1>t, <2>1, <2>6, FlightIs DEF FetchType
    <3>4. Flights!BoardLate(c)
      BY <1>0, <2>1, <2>2, <2>3, <2>4, <3>1, <3>2, <3>3 DEF Flights!BoardLate, Flights!Landed, Answer
    <3> QED BY <3>4 DEF Flights!Next
  <2> QED BY <2>5, <2>6
<1>3. CASE Abandon(c)
  <2>1. CtxErr(c) \in {"canceled", "deadline"} /\ pc[c] \in {"wait", "woken"}
    BY <1>t, <1>3, CtxErrType DEF Abandon
  <2>2. /\ \A d \in Callers : pc'[d] = IF d = c THEN "return" ELSE pc[d]
        /\ \A d \in Callers : outcome'[d] = IF d = c THEN CtxErr(c) ELSE outcome[d]
        /\ UNCHANGED <<row, leader, published, target>>
    BY <1>t, <1>3 DEF Abandon, Decide, FetchType
  <2>3. \A z \in Years : Flight(z)' = Flight(z)
    BY <1>t, <1>0, <1>a, <2>1, <2>2, FlightSame DEF FetchType
  <2>4. Stage(c) \in {"aboard", "landed"}
    BY <2>1, StageIs
  <2>5. \A d \in Callers : Stage(d)' = IF d = c THEN "answered" ELSE Stage(d)
    BY <1>0, <2>2, StageIs
  <2>6. \A d \in Callers : Answer(d)' = IF d = c THEN CtxErr(c) ELSE Answer(d)
    BY <2>2, <2>5 DEF Answer
  <2>7. Flights!GiveUp(c)
    BY <2>1, <2>2, <2>3, <2>4, <2>5, <2>6 DEF Flights!GiveUp, CtxErrors, Answer
  <2> QED BY <2>7 DEF Flights!Next
<1>4. CASE Wake(c)
  <2>1. pc[c] = "woken"
    BY <1>4 DEF Wake
  <2>2. /\ \A d \in Callers : pc'[d] = IF d = c THEN "return" ELSE pc[d]
        /\ UNCHANGED <<row, leader, published, target, outcome>>
    BY <1>t, <1>4 DEF Wake, Decide, FetchType
  <2>3. \A z \in Years : Flight(z)' = Flight(z)
    BY <2>2, FlightSame
  <2>4. Stage(c) = "landed"
    BY <1>0, <2>1, StageIs
  <2>5. \A d \in Callers : Stage(d)' = IF d = c THEN "answered" ELSE Stage(d)
    BY <1>0, <2>2, StageIs
  <2>6. \A d \in Callers : Answer(d)' = Answer(d)
    BY <2>2, <2>4, <2>5 DEF Answer
  <2>7. Flights!Collect(c)
    BY <2>1, <2>2, <2>3, <2>4, <2>5, <2>6 DEF Flights!Collect, Answer
  <2> QED BY <2>7 DEF Flights!Next
\* The leader decides on outcome o: y's flight, so far open, takes that course.
<1>b. ASSUME pc[c] \in Fetching, outcome[c] = None, NEW o \in Outcomes, Finish(c, o),
             UNCHANGED <<leader, published, target>>
      PROVE  /\ y \in Years /\ Flight(y) = "open"
             /\ \A z \in Years : Flight(z)' = IF z = y THEN Course(o) ELSE Flight(z)
             /\ \A d \in Callers : Stage(d)' = Stage(d) /\ Answer(d)' = Answer(d)
  <2>1. y \in Years /\ leader[y] = c /\ leader[y] # None /\ published[y] = None
    BY <1>0, <1>00, <1>b, CallerAssumption DEF FlightInv, PublishedByLeader
  <2>2. /\ \A d \in Callers : pc'[d] = IF d = c THEN "settle" ELSE pc[d]
        /\ \A d \in Callers : outcome'[d] = IF d = c THEN o ELSE outcome[d]
    BY <1>t, <1>b DEF FetchType, Finish, Decide
  <2>3. Flight(y) = "open"
    BY <1>0, <1>b, <2>1, FlightIs, CourseIs
  <2>4. Flight(y)' = Course(o)
    <3>1. leader'[y] = c /\ c # None /\ published'[y] = None /\ outcome'[c] = o
      BY <1>b, <2>1, <2>2
    <3>2. \A z \in Years : z = y => Flight(z)' = Course(o)
      BY <2>1, <3>1, FlightIsNext
    <3> QED BY <1>b, <2>1, <3>2
  <2>5. ASSUME NEW z \in Years, z # y PROVE Flight(z)' = Flight(z)
    BY <1>t, <1>a, <1>b, <2>2, <2>5, FlightSame DEF FetchType
  <2>6. \A d \in Callers : Stage(d)' = Stage(d)
    BY <1>0, <1>b, <2>2, StageIs
  <2>7. Stage(c) = "aboard"
    BY <1>0, <1>b, StageIs
  <2>8. \A d \in Callers : Answer(d)' = Answer(d)
    BY <2>2, <2>6, <2>7 DEF Answer
  <2> QED BY <1>b, <2>1, <2>3, <2>4, <2>5, <2>6, <2>8
\* ... an error, with the row as it is.
<1>c. ASSUME pc[c] \in Fetching, outcome[c] = None, NEW o \in Outcomes \ Successes, Finish(c, o),
             UNCHANGED <<row, leader, published, target>>
      PROVE  Flights!Next
  <2>1. o \in Outcomes /\ o \in {"canceled", "deadline", "failed", "cooldown"}
    BY <1>0, <1>c
  <2>2. Course(o) \in {"unsure", "failing"}
    BY <2>1, CourseIs
  <2>3. Flights!Abort(y) /\ y \in Years
    <3>1. /\ y \in Years /\ Flight(y) = "open" /\ UNCHANGED <<row, target>>
          /\ \A z \in Years : Flight(z)' = IF z = y THEN Course(o) ELSE Flight(z)
          /\ \A d \in Callers : Stage(d)' = Stage(d) /\ Answer(d)' = Answer(d)
      BY <1>b, <1>c, <2>1, Zenon
    <3> QED BY <2>2, <3>1 DEF Flights!Abort, Answer
  <2> QED BY <2>3 DEF Flights!Next
<1>5. CASE Peek(c)
  <2>1. pc[c] = "peek" /\ outcome[c] = None /\ UNCHANGED <<row, leader, published, target>>
    BY <1>0, <1>00, <1>5 DEF Peek
  <2>2. CASE row[y] = "fresh" /\ Finish(c, "fresh")
    <3>1. Flights!Find(y) /\ y \in Years
      BY <1>0, <1>b, <2>1, <2>2, CourseIs DEF Flights!Find, Answer
    <3> QED BY <3>1 DEF Flights!Next
  <2>3. ASSUME NEW o \in Outcomes \ Successes, Finish(c, o) PROVE Flights!Next
    BY <1>0, <1>c, <2>1, <2>3
  <2>4. CASE Proceed(c, "cooldown")
    BY <1>0, <2>1, <2>4, FlyOn DEF Proceed
  <2>5. CtxErr(c) # "live" => CtxErr(c) \in Outcomes \ Successes
    BY <1>0, <1>t, CtxErrType
  <2>6. "failed" \in Outcomes \ Successes
    BY <1>0
  <2> QED BY <1>5, <2>2, <2>3, <2>4, <2>5, <2>6 DEF Peek
<1>6. CASE CheckCooldown(c)
  <2>1. pc[c] = "cooldown" /\ outcome[c] = None /\ UNCHANGED <<row, leader, published, target>>
    BY <1>0, <1>00, <1>6 DEF CheckCooldown
  <2>2. CASE Finish(c, "cooldown")
    BY <1>0, <1>c, <2>1, <2>2
  <2>3. CASE Proceed(c, "upstream")
    BY <1>0, <2>1, <2>3, FlyOn DEF Proceed
  <2> QED BY <1>6, <2>2, <2>3 DEF CheckCooldown
<1>7. CASE Upstream(c)
  <2>1. pc[c] = "upstream" /\ outcome[c] = None /\ UNCHANGED <<row, leader, published, target>>
    BY <1>0, <1>00, <1>7 DEF Upstream
  <2>2. ASSUME NEW o \in Outcomes \ Successes, Finish(c, o) PROVE Flights!Next
    BY <1>0, <1>c, <2>1, <2>2
  <2>3. CASE Proceed(c, "store")
    BY <1>0, <2>1, <2>3, FlyOn DEF Proceed
  <2> QED BY <1>0, <1>7, <2>2, <2>3 DEF Upstream, FetchErrors, FetchCtxErrors
<1>8. CASE Store(c)
  <2>1. pc[c] = "store" /\ outcome[c] = None /\ UNCHANGED <<leader, published, target>>
    BY <1>0, <1>00, <1>8 DEF Store
  \* The row is stored: the flight knows, or its context ended in between.
  <2>2. ASSUME row' = [row EXCEPT ![y] = "fresh"],
               NEW o \in {"fetched", "deadline", "canceled"}, Finish(c, o)
        PROVE  Flights!Next
    <3>1. row[y] # "fresh"
      BY <2>1 DEF FreshNotRefetched
    <3>2. Course(o) \in {"stored", "unsure"} /\ o \in Outcomes
      BY <1>0, <2>2, CourseIs
    <3>3. Flights!Store(y) /\ y \in Years
      BY <1>0, <1>b, <2>1, <2>2, <3>1, <3>2 DEF Flights!Store, Answer
    <3> QED BY <3>3 DEF Flights!Next
  <2>3. ASSUME UNCHANGED row, NEW o \in Outcomes \ Successes, Finish(c, o) PROVE Flights!Next
    BY <1>0, <1>c, <2>1, <2>3
  <2>4. /\ \A o \in {"fetched"} \cup FetchCtxErrors(c) : o \in {"fetched", "deadline", "canceled"}
        /\ \A o \in FetchErrors(c) : o \in Outcomes \ Successes
    BY <1>0 DEF FetchErrors, FetchCtxErrors
  <2> QED BY <1>8, <2>2, <2>3, <2>4 DEF Store
<1>9. CASE Settle(c)
  BY <1>0, <1>9, FlyOn DEF Settle
<1>10. CASE Publish(c)
  <2> DEFINE waiting(d) == pc[d] = "wait" /\ target[d] = y
  <2>1. /\ y \in Years /\ leader[y] = c /\ pc[c] = "publish" /\ outcome[c] \in Outcomes
        /\ leader[y] # None /\ published[y] = None
    BY <1>0, <1>00, <1>10, CallerAssumption DEF Publish, FlightInv, PublishedByLeader
  <2>2. /\ \A d \in Callers : pc'[d] = IF d = c THEN "delete" ELSE IF waiting(d) THEN "woken" ELSE pc[d]
        /\ \A d \in Callers : outcome'[d] = IF waiting(d) THEN outcome[c] ELSE outcome[d]
        /\ \A z \in Years : published'[z] = IF z = y THEN outcome[c] ELSE published[z]
        /\ UNCHANGED <<row, target, leader>>
    BY <1>t, <1>10 DEF Publish, FetchType
  <2>3. Flight(y) = Course(outcome[c])
    BY <2>1, FlightIs
  <2>4. Flight(y)' = outcome[c]
    BY <1>0, <2>1, <2>2, FlightIsNext
  <2>5. ASSUME NEW z \in Years, z # y PROVE Flight(z)' = Flight(z)
    <3>1. leader[z] # None => leader[z] \in Callers /\ pc[leader[z]] \in Leading
      BY <1>t DEF FlightInv, OneLeader, FetchType
    <3>2. leader[z] # None => outcome'[leader[z]] = outcome[leader[z]]
      BY <1>0, <2>2, <3>1
    <3> QED BY <2>2, <2>5, <3>2 DEF Flight
  <2>6. ASSUME NEW d \in Callers
        PROVE  Stage(d) = "aboard" /\ target[d] = y <=> d = c \/ waiting(d)
    BY <1>0, <2>1, StageIs DEF FlightInv, OneLeader
  <2>7. \A d \in Callers : Stage(d)' = IF d = c THEN "answered" ELSE IF waiting(d) THEN "landed" ELSE Stage(d)
    BY <1>0, <2>2, StageIs
  <2>8. \A d \in Callers : Answer(d)' = IF d = c \/ waiting(d) THEN outcome[c] ELSE Answer(d)
    BY <2>1, <2>2, <2>7 DEF Answer
  <2>9. outcome[c] \in Flights!LandsWith(y)
    BY <1>0, <2>1, <2>3, CourseIs DEF Flights!LandsWith, CtxErrors
  <2>10. ASSUME NEW o, o = outcome[c] PROVE Flights!Land(c, o)
    BY <2>10, <2>1, <2>2, <2>4, <2>5, <2>6, <2>7, <2>8, <2>9 DEF Flights!Land, Answer
  <2>11. outcome[c] \in (Outcomes \ Successes) \cup {"fetched", "fresh"}
    BY <1>0, <2>1
  <2> QED BY <2>10, <2>11 DEF Flights!Next
<1>11. CASE Delete(c)
  <2>1. /\ y \in Years /\ leader[y] = c /\ pc[c] = "delete" /\ outcome[c] \in Outcomes
        /\ published[y] = outcome[c]
    BY <1>0, <1>00, <1>11 DEF Delete, FlightInv, PublishedByLeader
  <2>2. /\ \A d \in Callers : pc'[d] = IF d = c THEN "return" ELSE pc[d]
        /\ \A z \in Years : leader'[z] = IF z = y THEN None ELSE leader[z]
        /\ \A z \in Years : published'[z] = IF z = y THEN None ELSE published[z]
        /\ UNCHANGED <<row, target, outcome>>
    BY <1>t, <1>11 DEF Delete, FetchType
  <2>3. Flight(y) \in Outcomes /\ Flight(y)' = None
    BY <1>0, <2>1, <2>2, FlightIs, FlightIsNext
  <2>4. ASSUME NEW z \in Years, z # y PROVE Flight(z)' = Flight(z)
    BY <2>2, <2>4 DEF Flight
  <2>5. \A d \in Callers : Stage(d)' = Stage(d)
    BY <1>0, <2>1, <2>2, StageIs
  <2>6. \A d \in Callers : Answer(d)' = Answer(d)
    BY <2>2, <2>5 DEF Answer
  <2>7. Flights!CloseFlight(y)
    BY <1>0, <2>1, <2>2, <2>3, <2>4, <2>5, <2>6 DEF Flights!CloseFlight, Flights!Landed, Answer
  <2> QED BY <2>1, <2>7 DEF Flights!Next
<1>12. CASE Return(c)
  <2>1. Flights!Leave(c)
    BY <1>12, FlightsLeave DEF Return
  <2> QED BY <2>1 DEF Flights!Next
<1> QED BY <1>1, <1>2, <1>3, <1>4, <1>5, <1>6, <1>7, <1>8, <1>9, <1>10, <1>11, <1>12
           DEF CallStep, LeaderStep

\* A caller starts a call.
LEMMA FlightsAsk ==
  ASSUME FlightInv, NEW c \in Callers, NEW y \in Years, pc[c] = "idle",
         pc' = [pc EXCEPT ![c] = "join"],
         target' = [target EXCEPT ![c] = y],
         UNCHANGED <<row, leader, published, outcome>>
  PROVE  Flights!Ask(c, y)
<1>1. \A d \in Callers : pc'[d] = IF d = c THEN "join" ELSE pc[d]
  BY DEF FlightInv, FetchType
<1>2. \A z \in Years : Flight(z)' = Flight(z)
  BY FlightSame
<1>3. Stage(c) = "out"
  BY StageIs DEF Fetching
<1>4. \A d \in Callers : Stage(d)' = IF d = c THEN "asked" ELSE Stage(d)
  BY <1>1, StageIs DEF Fetching
<1>5. \A d \in Callers : Answer(d)' = Answer(d)
  BY <1>3, <1>4 DEF Answer
<1> QED BY <1>2, <1>3, <1>4, <1>5 DEF Flights!Ask, Answer

LEMMA FlightsOtherStep ==
  ASSUME FlightInv, OtherStep
  PROVE  [Flights!Next]_(Flights!vars)
<1> USE DEF flightVars, callVars, bgVars, Goto
<1>t. FetchType
  BY DEF FlightInv
<1>0. \A c \in Requests \cup Loops \cup Tasks : c \in Callers
  BY DEF Callers
<1>s. ASSUME UNCHANGED <<row, leader, published, target, outcome>>,
             \A d \in Callers : pc'[d] = pc[d] \/ (pc[d] \in {"idle", "track", "done"}
                                                   /\ pc'[d] \in {"idle", "track", "done", "exited"})
      PROVE  UNCHANGED Flights!vars
  <2>1. \A z \in Years : Flight(z)' = Flight(z)
    BY <1>s, FlightSame
  <2>2. \A d \in Callers : Stage(d)' = Stage(d)
    BY <1>s, StageIs DEF Fetching
  <2>3. \A d \in Callers : Answer(d)' = Answer(d)
    BY <1>s, <2>2 DEF Answer
  <2> QED BY <1>s, <2>1, <2>2, <2>3, Unseen
<1>1. CASE \/ \E c \in Callers, how \in {"canceled", "deadline"} : EndContext(c, how)
           \/ CancelApp \/ BeginWait \/ EndWait \/ ExpireWait
           \/ \E y \in Years : Expire(y)
           \/ UNCHANGED vars
  BY <1>s, <1>1 DEF EndContext, CancelApp, BeginWait, EndWait, ExpireWait, Expire, vars
<1>2. CASE \E t \in Tasks : EndTracking(t) \/ Done(t) \/ StartTracking(t)
  BY <1>0, <1>t, <1>s, <1>2 DEF EndTracking, Done, StartTracking, FetchType
<1>3. CASE \E l \in Loops : LoopExit(l)
  BY <1>0, <1>t, <1>s, <1>3 DEF LoopExit, FetchType
<1>4. ASSUME NEW t \in Tasks, ReleaseSlot(t) PROVE Flights!Next
  <2>1. Flights!Leave(t) /\ t \in Callers
    BY <1>0, <1>4, FlightsLeave DEF ReleaseSlot
  <2> QED BY <2>1 DEF Flights!Next
<1>5. ASSUME NEW t \in Tasks, NEW y \in Years, ScheduleYearFetch(t, y) PROVE Flights!Next
  <2>1. Flights!Ask(t, y) /\ t \in Callers
    BY <1>0, <1>5, FlightsAsk DEF ScheduleYearFetch
  <2> QED BY <2>1 DEF Flights!Next
<1>6. ASSUME NEW c \in Requests \cup Loops, NEW y \in Years, Call(c, y) PROVE Flights!Next
  <2>1. Flights!Ask(c, y) /\ c \in Callers
    BY <1>0, <1>6, FlightsAsk DEF Call
  <2> QED BY <2>1 DEF Flights!Next
<1>7. ASSUME NEW y \in Years, Age(y) \/ Remove(y) PROVE Flights!Next
  <2>1. UNCHANGED <<leader, published, pc, target, outcome>>
    BY <1>7 DEF Age, Remove
  <2>2. \A z \in Years : Flight(z)' = Flight(z)
    BY <2>1, FlightSame
  <2>3. \A d \in Callers : Stage(d)' = Stage(d)
    BY <2>1, StageIs
  <2>4. \A d \in Callers : Answer(d)' = Answer(d)
    BY <2>1, <2>3 DEF Answer
  <2>5. Flights!Decay(y)
    BY <1>7, <2>1, <2>2, <2>3, <2>4 DEF Flights!Decay, Age, Remove, Answer
  <2> QED BY <2>5 DEF Flights!Next
<1> QED BY <1>1, <1>2, <1>3, <1>4, <1>5, <1>6, <1>7 DEF OtherStep, TaskStep

(***************************************************************************)
(* FlightsKept: fetchAndStore implements YearFlights.  Leading opens a      *)
(* flight, a fresh row or SetYear decides it, close(done) lands it with the *)
(* leader's outcome for everybody on board, and Delete closes it.           *)
(***************************************************************************)
THEOREM FetchKeepsFlights == Spec => FlightsKept
<1>1. Init => Flights!Init
  <2> SUFFICES ASSUME Init PROVE Flights!Init
    OBVIOUS
  <2>1. \A y \in Years : Flight(y) = None
    BY FlightIs DEF Init
  <2>2. \A c \in Callers : Stage(c) = "out"
    BY StageIs DEF Init, Fetching
  <2> QED BY <2>1, <2>2 DEF Init, Flights!Init
<1>2. FlightInv /\ FreshNotRefetched /\ [Next]_vars => [Flights!Next]_(Flights!vars)
  BY StepCases, FlightsCallStep, FlightsOtherStep
<1> QED BY <1>1, <1>2, FlightAlways, FreshIsNotRefetched, PTL DEF Spec, FlightsKept, Flights!Spec
=============================================================================
