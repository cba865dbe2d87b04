---------------------------- MODULE LastHit_proofs ----------------------------
(***************************************************************************)
(* Proofs about access accounting and retention, for any number of readers  *)
(* and years, any debounce and retention, and any bound on the clock.       *)
(***************************************************************************)
EXTENDS LastHit, TLAPS

Maybe(S) == {None} \cup S

HitType ==
  /\ now \in Nat \ {0}
  /\ row \in [Years -> Maybe([fetched : 0..1, hit : 0..now])]
  /\ lastHitTimes \in [Years -> Maybe(0..now)]
  /\ pending \in [Years -> Maybe(1..now)]
  /\ batch \in [Years -> Maybe(1..now)]
  /\ owed \in [Years -> Maybe(1..now)]
  /\ used \in [Years -> Nat] /\ snapUsed \in [Years -> Nat]
  /\ reader \in [Readers -> [pc : {"idle", "stamp", "queue"}, year : Maybe(Years),
                             persisted : 0..now, at : 0..now]]
  /\ prune \in [pc : {"idle", "delete"}, cutoff : Int, keep : SUBSET Years]

\* A reader under way has a year, whose row has not gone back behind what the
\* reader found in it.
ReadersCurrent ==
  \A r \in Readers : reader[r].pc # "idle" =>
    /\ reader[r].year \in Years
    /\ reader[r].pc = "queue" => reader[r].at >= 1
    /\ row[reader[r].year] # None => reader[r].persisted <= Effective(row[reader[r].year])

\* What queueLastHit debounces against is known to the cache, and is the
\* pending access if there is one.
Scheduled ==
  \A y \in Years :
    /\ pending[y] # None => lastHitTimes[y] = pending[y]
    /\ row[y] # None /\ lastHitTimes[y] # None => lastHitTimes[y] <= Known(y)

\* Only what happened is counted: the row and the queue tell no access that
\* the history does not have.
Counted ==
  \A y \in Years : row[y] # None =>
    /\ Effective(row[y]) <= used[y]
    /\ pending[y] # None => pending[y] <= used[y]

\* Between the UPDATE and the settlement the rows hold the batch.
Written ==
  worker = "settle" => \A y \in Years : row[y] # None /\ batch[y] # None => batch[y] <= Effective(row[y])

\* What Close found pending is in the row or pending still, and in the last
\* flush in the row or in the batch.
OwedKnown == \A y \in Years : row[y] # None /\ owed[y] # None => owed[y] <= Known(y)
OwedCovered ==
  /\ final => stopping
  /\ final /\ worker \in {"write", "settle"} =>
       \A y \in Years : row[y] # None /\ owed[y] # None =>
          owed[y] <= Effective(row[y]) \/ (batch[y] # None /\ owed[y] <= batch[y])

Slack == IF Debounce = 0 THEN 1 ELSE Debounce

\* A prune under way deletes no row used since its cutoff, and keeps none that
\* was not.
Pruning ==
  prune.pc = "delete" =>
    /\ prune.cutoff <= now
    /\ \A y \in Prunable : snapUsed[y] < prune.cutoff + Slack
    /\ \A y \in prune.keep : row[y] # None =>
         snapUsed[y] >= prune.cutoff \/ Effective(row[y]) >= prune.cutoff

HitInv == /\ HitType /\ ReadersCurrent /\ Scheduled /\ Counted /\ Written
          /\ OwedKnown /\ OwedCovered /\ Pruning /\ HitsAccounted

-----------------------------------------------------------------------------
(* Facts about timestamps                                                   *)

LEMMA EffectiveIs ==
  ASSUME NEW n \in Nat \ {0}, NEW x \in Maybe([fetched : 0..1, hit : 0..n]), x # None
  PROVE  /\ x \in [fetched : 0..1, hit : 0..n]
         /\ Effective(x) \in Nat /\ Effective(x) <= n /\ x.hit <= Effective(x)
  BY DEF Maybe, Effective

LEMMA RowIs ==
  ASSUME HitType, NEW y \in Years, row[y] # None
  PROVE  /\ row[y] \in [fetched : 0..1, hit : 0..now]
         /\ Effective(row[y]) \in Nat /\ Effective(row[y]) <= now
         /\ row[y].hit <= Effective(row[y])
<1>1. now \in Nat \ {0} /\ row[y] \in Maybe([fetched : 0..1, hit : 0..now])
  BY DEF HitType
<1> QED BY <1>1, EffectiveIs

\* Known is the later of the row's and the pending timestamp.
LEMMA LaterOf ==
  ASSUME NEW e \in Nat, NEW t, t # None => t \in Nat,
         NEW k, k = IF t # None /\ t > e THEN t ELSE e
  PROVE  /\ k \in Nat /\ e <= k /\ (t # None => t <= k)
         /\ k = e \/ (t # None /\ k = t)
  OBVIOUS

LEMMA KnownIs ==
  ASSUME HitType, NEW y \in Years, row[y] # None
  PROVE  /\ Known(y) \in Nat /\ Effective(row[y]) <= Known(y)
         /\ pending[y] # None => pending[y] <= Known(y)
         /\ Known(y) = Effective(row[y]) \/ (pending[y] # None /\ Known(y) = pending[y])
<1>1. Effective(row[y]) \in Nat
  BY RowIs
<1>2. pending[y] # None => pending[y] \in Nat
  BY DEF HitType, Maybe
<1> QED BY <1>1, <1>2, LaterOf DEF Known

LEMMA RowIsNext ==
  ASSUME HitType', NEW y \in Years, row'[y] # None
  PROVE  /\ row'[y] \in [fetched : 0..1, hit : 0..now']
         /\ Effective(row'[y]) \in Nat /\ Effective(row'[y]) <= now'
         /\ row'[y].hit <= Effective(row'[y])
<1>1. now' \in Nat \ {0} /\ row'[y] \in Maybe([fetched : 0..1, hit : 0..now'])
  BY DEF HitType
<1> QED BY <1>1, EffectiveIs

LEMMA KnownIsNext ==
  ASSUME HitType', NEW y \in Years, row'[y] # None
  PROVE  /\ Known(y)' \in Nat /\ Effective(row'[y]) <= Known(y)'
         /\ pending'[y] # None => pending'[y] <= Known(y)'
         /\ Known(y)' = Effective(row'[y]) \/ (pending'[y] # None /\ Known(y)' = pending'[y])
<1>1. Effective(row'[y]) \in Nat
  BY RowIsNext
<1>2. pending'[y] # None => pending'[y] \in Nat
  BY DEF HitType, Maybe
<1> QED BY <1>1, <1>2, LaterOf DEF Known

\* The timestamps, one at a time.
LEMMA StampsAre ==
  ASSUME HitType, NEW y \in Years
  PROVE  /\ now \in Nat \ {0}
         /\ lastHitTimes[y] # None => lastHitTimes[y] \in 0..now
         /\ pending[y] # None => pending[y] \in 1..now
         /\ batch[y] # None => batch[y] \in 1..now
         /\ owed[y] # None => owed[y] \in 1..now
         /\ used[y] \in Nat /\ snapUsed[y] \in Nat
  BY DEF HitType, Maybe

\* No row goes back: what a table operation leaves tells of a use no earlier
\* than before, and what it inserts of one at this moment.
NoRowGoesBack ==
  \A y \in Years : row'[y] # None =>
    \/ row[y] # None /\ Effective(row[y]) <= Effective(row'[y])
    \/ now <= Effective(row'[y])

LEMMA NothingForgotten ==
  ASSUME HitInv, HitType', NoRowGoesBack,
         UNCHANGED <<now, memVars, reader, prune, snapUsed, owed>>
  PROVE  (ReadersCurrent /\ Scheduled /\ OwedKnown /\ Pruning)'
<1> USE DEF memVars
<1>0. HitType /\ ReadersCurrent /\ Scheduled /\ OwedKnown /\ Pruning
  BY DEF HitInv
<1>1. ASSUME NEW y \in Years, row'[y] # None
      PROVE  /\ Effective(row'[y]) \in Nat
             /\ \/ row[y] # None /\ Effective(row[y]) \in Nat /\ Effective(row[y]) <= Effective(row'[y])
                \/ now <= Effective(row'[y])
  BY <1>0, <1>1, RowIs, RowIsNext DEF NoRowGoesBack
<1>2. ASSUME NEW y \in Years, row'[y] # None
      PROVE  /\ Known(y)' \in Nat
             /\ \/ row[y] # None /\ Known(y) \in Nat /\ Known(y) <= Known(y)'
                \/ now <= Known(y)'
  <2>1. now \in Nat
    BY <1>0 DEF HitType
  <2>2. Known(y)' \in Nat /\ Effective(row'[y]) <= Known(y)' /\ (pending[y] # None => pending[y] <= Known(y)')
    BY <1>2, KnownIsNext
  <2>3. CASE now <= Effective(row'[y])
    BY <1>1, <1>2, <2>1, <2>2, <2>3
  <2>4. CASE row[y] # None /\ Effective(row[y]) <= Effective(row'[y])
    BY <1>0, <1>1, <1>2, <2>2, <2>4, KnownIs, RowIs
  <2> QED BY <1>1, <1>2, <2>3, <2>4
<1>3. ReadersCurrent'
  <2> SUFFICES ASSUME NEW r \in Readers, reader[r].pc # "idle", row'[reader[r].year] # None
               PROVE  reader[r].persisted <= Effective(row'[reader[r].year])
    BY <1>0 DEF ReadersCurrent
  <2>1. reader[r].year \in Years /\ reader[r].persisted \in 0..now /\ now \in Nat
    BY <1>0 DEF ReadersCurrent, HitType
  <2> QED BY <1>0, <1>1, <2>1 DEF ReadersCurrent
<1>4. Scheduled'
  <2> SUFFICES ASSUME NEW y \in Years, row'[y] # None, lastHitTimes[y] # None
               PROVE  lastHitTimes[y] <= Known(y)'
    BY <1>0 DEF Scheduled
  <2> QED BY <1>0, <1>2, StampsAre DEF Scheduled
<1>5. OwedKnown'
  <2> SUFFICES ASSUME NEW y \in Years, row'[y] # None, owed[y] # None
               PROVE  owed[y] <= Known(y)'
    BY DEF OwedKnown
  <2> QED BY <1>0, <1>2, StampsAre DEF OwedKnown
<1>6. Pruning'
  <2> SUFFICES ASSUME prune.pc = "delete"
               PROVE  /\ prune.cutoff <= now
                      /\ \A y \in Prunable' : snapUsed[y] < prune.cutoff + Slack
                      /\ \A y \in prune.keep : row'[y] # None =>
                           snapUsed[y] >= prune.cutoff \/ Effective(row'[y]) >= prune.cutoff
    BY DEF Pruning
  <2>1. prune.cutoff \in Int /\ now \in Nat /\ prune.keep \subseteq Years /\ prune.cutoff <= now
    BY <1>0 DEF HitType, Pruning
  <2>2. ASSUME NEW y \in Prunable' PROVE y \in Prunable
    BY <1>1, <2>1, <2>2 DEF Prunable
  <2>3. ASSUME NEW y \in prune.keep, row'[y] # None
        PROVE  snapUsed[y] >= prune.cutoff \/ Effective(row'[y]) >= prune.cutoff
    BY <1>0, <1>1, <2>1, <2>3 DEF Pruning
  <2> QED BY <1>0, <2>1, <2>2, <2>3 DEF Pruning
<1> QED BY <1>3, <1>4, <1>5, <1>6

-----------------------------------------------------------------------------
(* One lemma per operation                                                  *)

LEMMA HitInitially == Init => HitInv
<1> SUFFICES ASSUME Init PROVE HitInv
  OBVIOUS
<1>1. /\ HitType
      /\ \A y \in Years : row[y] # None => used[y] = Effective(row[y]) /\ Known(y) = Effective(row[y])
      /\ \A y \in Years : pending[y] = None /\ lastHitTimes[y] = None /\ owed[y] = None
  BY NoneAssumption DEF Init, HitType, Maybe, NoTimes, NoUse, Idle, NoPrune, Persisted, Effective, Known
<1>2. ReadersCurrent /\ Written /\ OwedCovered /\ Pruning
  BY DEF Init, ReadersCurrent, Written, OwedCovered, Pruning, Idle, NoPrune
<1>3. Scheduled /\ Counted /\ OwedKnown /\ HitsAccounted
  BY <1>1, RowIs DEF Scheduled, Counted, OwedKnown, HitsAccounted
<1> QED BY <1>1, <1>2, <1>3 DEF HitInv

\* Steps that change at most a reader, or a flag no part of the invariant reads.
LEMMA ReaderSteps ==
  ASSUME HitInv, HitType', ReadersCurrent',
         UNCHANGED <<now, row, lastHitTimes, pending, stopping, worker, final, batch, prune, histVars>>
  PROVE  HitInv'
  BY DEF HitInv, Scheduled, Counted, Written, OwedKnown, OwedCovered, Pruning, HitsAccounted, Known,
         Prunable, histVars

LEMMA NoStep ==
  ASSUME HitInv, UNCHANGED <<now, row, lastHitTimes, pending, workVars, reader, prune, histVars>>
  PROVE  HitInv'
<1>1. HitType' /\ ReadersCurrent'
  BY DEF HitInv, HitType, ReadersCurrent, workVars, histVars
<1> QED BY <1>1, ReaderSteps DEF workVars

LEMMA TickKeeps == ASSUME HitInv, Tick PROVE HitInv'
<1> USE DEF Tick, storeVars, memVars, workVars, histVars
<1>1. HitType'
  <2>1. now \in Nat \ {0} /\ now' = now + 1
    BY DEF HitInv, HitType
  <2>2. now' \in Nat \ {0} /\ 0..now \subseteq 0..now' /\ 1..now \subseteq 1..now'
    BY <2>1
  <2>3. [fetched : 0..1, hit : 0..now] \subseteq [fetched : 0..1, hit : 0..now']
    BY <2>2
  <2>4. /\ row' \in [Years -> Maybe([fetched : 0..1, hit : 0..now'])]
        /\ lastHitTimes' \in [Years -> Maybe(0..now')] /\ pending' \in [Years -> Maybe(1..now')]
        /\ batch' \in [Years -> Maybe(1..now')] /\ owed' \in [Years -> Maybe(1..now')]
    BY <2>2, <2>3 DEF HitInv, HitType, Maybe
  <2>5. reader' \in [Readers -> [pc : {"idle", "stamp", "queue"}, year : Maybe(Years),
                                 persisted : 0..now', at : 0..now']]
    BY <2>2 DEF HitInv, HitType
  <2> QED BY <2>2, <2>4, <2>5 DEF HitInv, HitType
<1>2. (ReadersCurrent /\ Scheduled /\ Counted /\ Written /\ OwedKnown /\ OwedCovered /\ HitsAccounted)'
  BY DEF HitInv, ReadersCurrent, Scheduled, Counted, Written, OwedKnown, OwedCovered, HitsAccounted, Known
<1>3. Pruning'
  BY DEF HitInv, HitType, Pruning, Prunable
<1> QED BY <1>1, <1>2, <1>3 DEF HitInv

\* A reader that moves on.
LEMMA ReaderMoves ==
  ASSUME HitInv, NEW r \in Readers,
         NEW new \in [pc : {"idle", "stamp", "queue"}, year : Maybe(Years), persisted : 0..now, at : 0..now],
         reader' = [reader EXCEPT ![r] = new],
         new.pc # "idle" => /\ new.year \in Years
                            /\ new.pc = "queue" => new.at >= 1
                            /\ row[new.year] # None => new.persisted <= Effective(row[new.year]),
         UNCHANGED <<now, row, lastHitTimes, pending, stopping, worker, final, batch, prune, histVars>>
  PROVE  HitInv'
<1>0. HitType /\ ReadersCurrent
  BY DEF HitInv
<1>1. HitType'
  BY <1>0 DEF HitType, histVars
<1>2. ReadersCurrent'
  <2> SUFFICES ASSUME NEW q \in Readers, reader'[q].pc # "idle"
               PROVE  /\ reader'[q].year \in Years
                      /\ reader'[q].pc = "queue" => reader'[q].at >= 1
                      /\ row[reader'[q].year] # None => reader'[q].persisted <= Effective(row[reader'[q].year])
    BY DEF ReadersCurrent
  <2>1. CASE q = r
    BY <1>0, <2>1 DEF HitType
  <2>2. CASE q # r
    <3>1. reader'[q] = reader[q]
      BY <1>0, <2>2 DEF HitType
    <3> QED BY <1>0, <3>1 DEF ReadersCurrent
  <2> QED BY <2>1, <2>2
<1> QED BY <1>1, <1>2, ReaderSteps

LEMMA ReadKeeps == ASSUME HitInv, NEW r \in Readers, NEW y \in Years, Read(r, y) PROVE HitInv'
<1> DEFINE new == [Idle EXCEPT !.pc = "stamp", !.year = y, !.persisted = row[y].hit]
<1>1. /\ row[y] # None /\ reader' = [reader EXCEPT ![r] = new]
      /\ UNCHANGED <<now, row, lastHitTimes, pending, stopping, worker, final, batch, prune, histVars>>
  BY DEF Read, storeVars, memVars, workVars
<1>2. HitType /\ now \in Nat
  BY DEF HitInv, HitType
<1>3. row[y].hit \in 0..now /\ row[y].hit <= Effective(row[y])
  BY <1>1, <1>2, RowIs
<1>4. new \in [pc : {"idle", "stamp", "queue"}, year : Maybe(Years), persisted : 0..now, at : 0..now]
  <2>1. y \in Maybe(Years) /\ 0 \in 0..now
    BY <1>2 DEF Maybe
  <2> QED BY <1>3, <2>1 DEF Idle
<1>5. new.pc = "stamp" /\ new.year = y /\ new.persisted = row[y].hit
  BY DEF Idle
<1> HIDE DEF new
<1> QED BY <1>1, <1>3, <1>4, <1>5, ReaderMoves

LEMMA StampKeeps == ASSUME HitInv, NEW r \in Readers, Stamp(r) PROVE HitInv'
<1> DEFINE old == reader[r]
           new == [old EXCEPT !.pc = "queue", !.at = now]
<1>0. /\ ReadersCurrent /\ now \in Nat \ {0}
      /\ old \in [pc : {"idle", "stamp", "queue"}, year : Maybe(Years), persisted : 0..now, at : 0..now]
  BY DEF HitInv, HitType
<1>1. /\ old.pc = "stamp" /\ reader' = [reader EXCEPT ![r] = new]
      /\ UNCHANGED <<now, row, lastHitTimes, pending, stopping, worker, final, batch, prune, histVars>>
  BY DEF Stamp, storeVars, memVars, workVars
<1>2. /\ old.year \in Years
      /\ row[old.year] # None => old.persisted <= Effective(row[old.year])
  BY <1>0, <1>1 DEF ReadersCurrent
<1> HIDE DEF old
<1>3. now \in 0..now /\ now >= 1
  BY <1>0
<1>4. /\ new \in [pc : {"idle", "stamp", "queue"}, year : Maybe(Years), persisted : 0..now, at : 0..now]
      /\ new.pc = "queue" /\ new.at = now /\ new.year = old.year /\ new.persisted = old.persisted
  <2> SUFFICES ASSUME NEW Y, NEW T, NEW n \in T,
                      old \in [pc : {"idle", "stamp", "queue"}, year : Y, persisted : T, at : T]
               PROVE  LET x == [old EXCEPT !.pc = "queue", !.at = n]
                      IN  /\ x \in [pc : {"idle", "stamp", "queue"}, year : Y, persisted : T, at : T]
                          /\ x.pc = "queue" /\ x.at = n /\ x.year = old.year /\ x.persisted = old.persisted
    BY <1>0, <1>3
  <2> QED OBVIOUS
<1>5. new.at >= 1 /\ new.year \in Years /\ (row[new.year] # None => new.persisted <= Effective(row[new.year]))
  BY <1>2, <1>3, <1>4
<1> HIDE DEF new
<1> QED BY <1>1, <1>4, <1>5, ReaderMoves

LEMMA QueueKeeps == ASSUME HitInv, NEW r \in Readers, queueLastHit(r) PROVE HitInv'
<1> SUFFICES ASSUME NEW y, NEW at, NEW persisted, NEW base,
                    y = reader[r].year, at = reader[r].at, persisted = reader[r].persisted,
                    base = IF lastHitTimes[y] # None THEN lastHitTimes[y] ELSE persisted
             PROVE  HitInv'
  OBVIOUS
<1>0. /\ HitType /\ ReadersCurrent /\ Scheduled /\ Counted /\ Written /\ OwedKnown /\ OwedCovered
      /\ Pruning /\ HitsAccounted
  BY DEF HitInv
<1>1. /\ y \in Years /\ at \in 1..now /\ persisted \in 0..now /\ now \in Nat \ {0}
      /\ row[y] # None => persisted <= Effective(row[y])
  BY <1>0 DEF queueLastHit, ReadersCurrent, HitType
<1>2. /\ UNCHANGED <<now, row, stopping, worker, final, batch, prune, snapUsed, owed>>
      /\ reader' = [reader EXCEPT ![r] = Idle]
      /\ used' = [used EXCEPT ![y] = IF row[y] # None /\ at > used[y] THEN at ELSE used[y]]
  BY DEF queueLastHit, storeVars, workVars
<1>3. \/ /\ lastHitTimes' = [lastHitTimes EXCEPT ![y] = base]
         /\ UNCHANGED pending /\ at - base < Debounce
      \/ /\ lastHitTimes' = [lastHitTimes EXCEPT ![y] = at]
         /\ pending' = [pending EXCEPT ![y] = at] /\ ~(at - base < Debounce)
  BY DEF queueLastHit, Debounced
<1>4. base \in 0..now /\ Debounce \in Nat /\ (row[y] # None => base <= Known(y) /\ Known(y) \in Nat)
  BY <1>0, <1>1, StampsAre, KnownIs, RowIs, TimingAssumption DEF Scheduled
<1>5. pending[y] # None => pending[y] = base
  BY <1>0, <1>1, StampsAre DEF Scheduled
<1>6. /\ lastHitTimes' \in [Years -> Maybe(0..now)] /\ pending' \in [Years -> Maybe(1..now)]
      /\ used' \in [Years -> Nat]
      /\ \A z \in Years \ {y} : /\ lastHitTimes'[z] = lastHitTimes[z] /\ pending'[z] = pending[z]
                                /\ used'[z] = used[z]
      /\ used'[y] = IF row[y] # None /\ at > used[y] THEN at ELSE used[y]
      /\ \/ lastHitTimes'[y] = base /\ pending'[y] = pending[y] /\ at - base < Debounce
         \/ lastHitTimes'[y] = at /\ pending'[y] = at /\ ~(at - base < Debounce)
  <2>1. /\ lastHitTimes \in [Years -> Maybe(0..now)] /\ pending \in [Years -> Maybe(1..now)]
        /\ used \in [Years -> Nat]
    BY <1>0 DEF HitType
  <2>2. base \in Maybe(0..now) /\ at \in Maybe(0..now) /\ at \in Maybe(1..now) /\ at \in Nat
    BY <1>1, <1>4 DEF Maybe
  <2>3. /\ used' \in [Years -> Nat] /\ \A z \in Years \ {y} : used'[z] = used[z]
        /\ used'[y] = IF row[y] # None /\ at > used[y] THEN at ELSE used[y]
    BY <1>1, <1>2, <2>1, <2>2
  <2>4. CASE /\ lastHitTimes' = [lastHitTimes EXCEPT ![y] = base]
             /\ UNCHANGED pending /\ at - base < Debounce
    BY <1>1, <2>1, <2>2, <2>3, <2>4
  <2>5. CASE /\ lastHitTimes' = [lastHitTimes EXCEPT ![y] = at]
             /\ pending' = [pending EXCEPT ![y] = at] /\ ~(at - base < Debounce)
    BY <1>1, <2>1, <2>2, <2>3, <2>5
  <2> QED BY <1>3, <2>4, <2>5
<1>7. Idle \in [pc : {"idle", "stamp", "queue"}, year : Maybe(Years), persisted : 0..now, at : 0..now]
      /\ Idle.pc = "idle"
  BY <1>1 DEF Idle, Maybe
<1>8. HitType'
  BY <1>0, <1>2, <1>6, <1>7 DEF HitType
<1>9. ReadersCurrent'
  BY <1>0, <1>2, <1>7 DEF ReadersCurrent, HitType
<1>10. ASSUME NEW z \in Years \ {y}, row[z] # None PROVE Known(z)' = Known(z)
  BY <1>2, <1>6, <1>10 DEF Known
<1>11. ASSUME row[y] # None
       PROVE  /\ Known(y) \in Nat /\ Known(y)' \in Nat /\ Known(y) <= Known(y)'
              /\ pending'[y] # None => pending'[y] <= Known(y)'
  <2>1. /\ Known(y)' \in Nat /\ Effective(row[y]) <= Known(y)'
        /\ pending'[y] # None => pending'[y] <= Known(y)'
    BY <1>1, <1>2, <1>8, <1>11, KnownIsNext
  <2>2. Known(y) = Effective(row[y]) \/ (pending[y] # None /\ Known(y) = base)
    BY <1>0, <1>1, <1>5, <1>11, KnownIs
  <2>3. Effective(row[y]) \in Nat
    BY <1>0, <1>1, <1>11, RowIs
  <2>4. pending[y] # None => pending'[y] # None /\ base <= pending'[y]
    BY <1>1, <1>4, <1>5, <1>6, NoneAssumption
  <2>5. pending'[y] # None => pending'[y] \in Nat
    BY <1>1, <1>6 DEF Maybe
  <2> QED BY <1>4, <1>11, <2>1, <2>2, <2>3, <2>4, <2>5
<1>12. Scheduled'
  <2> SUFFICES ASSUME NEW z \in Years
               PROVE  /\ pending'[z] # None => lastHitTimes'[z] = pending'[z]
                      /\ row[z] # None /\ lastHitTimes'[z] # None => lastHitTimes'[z] <= Known(z)'
    BY <1>2 DEF Scheduled
  <2>1. CASE z # y
    BY <1>0, <1>6, <1>10, <2>1 DEF Scheduled
  <2>2. CASE z = y
    <3>1. pending'[y] # None => lastHitTimes'[y] = pending'[y]
      BY <1>5, <1>6
    <3>2. ASSUME row[y] # None PROVE lastHitTimes'[y] <= Known(y)'
      BY <1>1, <1>4, <1>6, <1>11, <3>2, NoneAssumption
    <3> QED BY <2>2, <3>1, <3>2
  <2> QED BY <2>1, <2>2
<1>13. Counted'
  <2> SUFFICES ASSUME NEW z \in Years, row[z] # None
               PROVE  Effective(row[z]) <= used'[z] /\ (pending'[z] # None => pending'[z] <= used'[z])
    BY <1>2 DEF Counted
  <2>1. CASE z # y
    BY <1>0, <1>6, <2>1 DEF Counted
  <2>2. CASE z = y
    BY <1>0, <1>1, <1>6, <2>2, RowIs, StampsAre DEF Counted
  <2> QED BY <2>1, <2>2
<1>14. HitsAccounted'
  <2> SUFFICES ASSUME NEW z \in Years, row[z] # None
               PROVE  used'[z] <= Known(z)' \/ used'[z] - Known(z)' < Debounce
    BY <1>2 DEF HitsAccounted
  <2>1. CASE z # y
    BY <1>0, <1>6, <1>10, <2>1 DEF HitsAccounted
  <2>2. CASE z = y
    <3>0. used[y] \in Nat /\ (used[y] <= Known(y) \/ used[y] - Known(y) < Debounce)
      BY <1>0, <1>1, <2>2, StampsAre DEF HitsAccounted
    <3>1. used'[y] = used[y] \/ used'[y] = at
      BY <1>6
    <3>2. CASE used'[y] = used[y]
      BY <1>4, <1>11, <2>2, <3>0, <3>2
    <3>3. CASE used'[y] = at
      BY <1>1, <1>4, <1>6, <1>11, <2>2, <3>3, NoneAssumption
    <3> QED BY <2>2, <3>1, <3>2, <3>3
  <2> QED BY <2>1, <2>2
<1>15. OwedKnown'
  <2> SUFFICES ASSUME NEW z \in Years, row[z] # None, owed[z] # None PROVE owed[z] <= Known(z)'
    BY <1>2 DEF OwedKnown
  <2>1. CASE z # y
    BY <1>0, <1>10, <2>1 DEF OwedKnown
  <2>2. CASE z = y
    BY <1>0, <1>1, <1>11, <2>2, StampsAre DEF OwedKnown
  <2> QED BY <2>1, <2>2
<1>16. (Written /\ OwedCovered /\ Pruning)'
  BY <1>0, <1>2 DEF Written, OwedCovered, Pruning, Prunable
<1> QED BY <1>8, <1>9, <1>12, <1>13, <1>14, <1>15, <1>16 DEF HitInv

\* The snapshot of a flush: the last one covers what Close found pending.
LEMMA BeginKeeps ==
  ASSUME HitInv, NEW f \in BOOLEAN, BeginFlush(f), f => stopping,
         UNCHANGED <<now, row, lastHitTimes, pending, stopping, reader, prune, histVars>>
  PROVE  HitInv'
<1> USE DEF histVars
<1>0. HitType /\ OwedKnown
  BY DEF HitInv
<1>1. batch' = pending /\ final' = f /\ worker' \in {"write", "select", "stopped"}
  BY DEF BeginFlush
<1>2. HitType'
  BY <1>0, <1>1 DEF HitType
<1>3. (ReadersCurrent /\ Scheduled /\ Counted /\ OwedKnown /\ Pruning /\ HitsAccounted)'
  BY DEF HitInv, ReadersCurrent, Scheduled, Counted, OwedKnown, Pruning, HitsAccounted, Known, Prunable
<1>4. Written'
  BY <1>1 DEF Written
<1>5. OwedCovered'
  <2>1. ASSUME NEW y \in Years, row[y] # None, owed[y] # None
        PROVE  owed[y] <= Effective(row[y]) \/ (pending[y] # None /\ owed[y] <= pending[y])
    BY <1>0, <2>1, KnownIs DEF OwedKnown
  <2> QED BY <1>1, <2>1 DEF OwedCovered
<1> QED BY <1>2, <1>3, <1>4, <1>5 DEF HitInv

LEMMA WorkerStarts == ASSUME HitInv, OnWake \/ OnTicker \/ OnDone PROVE HitInv'
<1>1. CASE OnWake /\ stopping
  BY <1>1, NoStep DEF OnWake, workVars, storeVars
<1>2. CASE OnWake /\ ~stopping
  BY <1>2, BeginKeeps DEF OnWake, storeVars
<1>3. CASE OnTicker
  BY <1>3, BeginKeeps DEF OnTicker, storeVars, memVars
<1>4. CASE OnDone
  BY <1>4, BeginKeeps DEF OnDone, storeVars, memVars
<1> QED BY <1>1, <1>2, <1>3, <1>4

\* last_hit = MAX(last_hit, t): the row is at least as recent as before and as t.
LEMMA RewrittenIs ==
  ASSUME NEW n \in Nat \ {0}, NEW x \in Maybe([fetched : 0..1, hit : 0..n]), x # None, NEW t \in Maybe(1..n)
  PROVE  /\ Rewritten(x, t) \in [fetched : 0..1, hit : 0..n]
         /\ Effective(x) <= Effective(Rewritten(x, t))
         /\ t # None => t <= Effective(Rewritten(x, t))
         /\ Effective(Rewritten(x, t)) = Rewritten(x, t).hit \/ Rewritten(x, t) = x
<1>1. x \in [fetched : 0..1, hit : 0..n] /\ Effective(x) \in Nat /\ x.hit <= Effective(x)
  BY EffectiveIs
<1>2. CASE t = None
  BY <1>1, <1>2 DEF Rewritten
<1>3. CASE t # None
  <2>1. t \in 1..n
    BY <1>3 DEF Maybe
  <2>2. CASE t <= x.hit
    BY <1>1, <2>1, <2>2 DEF Rewritten
  <2>3. CASE ~(t <= x.hit)
    <3> DEFINE z == [fetched |-> 0, hit |-> t]
    <3>1. Rewritten(x, t) = z
      BY <1>3, <2>3 DEF Rewritten
    <3>2. z \in [fetched : 0..1, hit : 0..n] /\ z.hit = t /\ Effective(z) = t
      BY <2>1 DEF Effective
    <3>3. Effective(x) <= t
      BY <1>1, <2>1, <2>3 DEF Effective
    <3> HIDE DEF z
    <3> QED BY <2>1, <3>1, <3>2, <3>3
  <2> QED BY <2>2, <2>3
<1> QED BY <1>2, <1>3

LEMMA WriteKeeps == ASSUME HitInv, NEW ok \in BOOLEAN, FlushWrite(ok) PROVE HitInv'
<1>0. HitType /\ Counted /\ OwedCovered /\ HitsAccounted /\ now \in Nat \ {0}
  BY DEF HitInv, HitType
<1>1. /\ row' = [y \in Years |-> Rewritten(row[y], batch[y])]
      /\ used' = [y \in Years |-> IF row'[y] # None /\ row'[y].hit > used[y] THEN row'[y].hit ELSE used[y]]
      /\ worker = "write" /\ (worker' = "settle" => ok) /\ worker' # "write"
      /\ batch' = IF ok THEN batch ELSE NoTimes
      /\ UNCHANGED <<now, memVars, stopping, final, reader, prune, snapUsed, owed>>
  BY DEF FlushWrite
<1>2. ASSUME NEW y \in Years
      PROVE  IF row[y] = None THEN row'[y] = None
             ELSE /\ row'[y] \in [fetched : 0..1, hit : 0..now]
                  /\ Effective(row[y]) <= Effective(row'[y])
                  /\ batch[y] # None => batch[y] <= Effective(row'[y])
                  /\ Effective(row'[y]) = row'[y].hit \/ row'[y] = row[y]
  <2>1. row[y] \in Maybe([fetched : 0..1, hit : 0..now]) /\ batch[y] \in Maybe(1..now)
    BY <1>0 DEF HitType
  <2>2. CASE row[y] = None
    BY <1>1, <2>2 DEF Rewritten
  <2>3. CASE row[y] # None
    BY <1>0, <1>1, <2>1, <2>3, RewrittenIs
  <2> QED BY <2>2, <2>3
<1>3. HitType'
  <2>1. row' \in [Years -> Maybe([fetched : 0..1, hit : 0..now])]
    <3>1. ASSUME NEW y \in Years PROVE Rewritten(row[y], batch[y]) \in Maybe([fetched : 0..1, hit : 0..now])
      BY <1>1, <1>2 DEF Maybe
    <3> QED BY <1>1, <3>1
  <2>2. batch' \in [Years -> Maybe(1..now)]
    BY <1>0, <1>1 DEF HitType, Maybe, NoTimes
  <2>3. used' \in [Years -> Nat]
    BY <1>0, <1>1, <1>2 DEF HitType
  <2> QED BY <1>0, <1>1, <2>1, <2>2, <2>3 DEF HitType, memVars
<1>4. NoRowGoesBack
  BY <1>2 DEF NoRowGoesBack
<1>5. (ReadersCurrent /\ Scheduled /\ OwedKnown /\ Pruning)'
  BY <1>1, <1>3, <1>4, NothingForgotten
<1>6. ASSUME NEW y \in Years, row'[y] # None
      PROVE  /\ row[y] # None /\ Effective(row[y]) \in Nat /\ Effective(row'[y]) \in Nat
             /\ Effective(row[y]) <= Effective(row'[y]) /\ row'[y].hit <= Effective(row'[y])
             /\ Known(y) \in Nat /\ Known(y)' \in Nat /\ Known(y) <= Known(y)'
             /\ Effective(row'[y]) <= Known(y)' /\ row'[y].hit \in Nat
  <2>1. row[y] # None /\ Effective(row[y]) <= Effective(row'[y])
    BY <1>2, <1>6
  <2>2. /\ Effective(row[y]) \in Nat /\ Effective(row'[y]) \in Nat /\ row'[y].hit <= Effective(row'[y])
        /\ row'[y].hit \in Nat
    BY <1>0, <1>3, <1>6, <2>1, RowIs, RowIsNext
  <2>3. /\ Known(y) \in Nat
        /\ Known(y) = Effective(row[y]) \/ (pending[y] # None /\ Known(y) = pending[y])
    BY <1>0, <2>1, KnownIs
  <2>4. /\ Known(y)' \in Nat /\ Effective(row'[y]) <= Known(y)' /\ (pending[y] # None => pending[y] <= Known(y)')
    BY <1>1, <1>3, <1>6, KnownIsNext DEF memVars
  <2> QED BY <2>1, <2>2, <2>3, <2>4
<1>7. Counted'
  <2> SUFFICES ASSUME NEW y \in Years, row'[y] # None
               PROVE  Effective(row'[y]) <= used'[y] /\ (pending[y] # None => pending[y] <= used'[y])
    BY <1>1 DEF Counted, memVars
  <2>1. used'[y] = IF row'[y].hit > used[y] THEN row'[y].hit ELSE used[y]
    BY <1>1
  <2>2. /\ Effective(row[y]) <= used[y] /\ (pending[y] # None => pending[y] <= used[y] /\ pending[y] \in Nat)
        /\ used[y] \in Nat
    BY <1>0, <1>6, StampsAre DEF Counted
  <2>3. Effective(row'[y]) = row'[y].hit \/ Effective(row'[y]) = Effective(row[y])
    BY <1>2, <1>6
  <2> QED BY <1>6, <2>1, <2>2, <2>3
<1>8. HitsAccounted'
  <2> SUFFICES ASSUME NEW y \in Years, row'[y] # None
               PROVE  used'[y] <= Known(y)' \/ used'[y] - Known(y)' < Debounce
    BY DEF HitsAccounted
  <2>1. used'[y] = row'[y].hit \/ used'[y] = used[y]
    BY <1>1
  <2>2. used[y] \in Nat /\ (used[y] <= Known(y) \/ used[y] - Known(y) < Debounce)
    BY <1>0, <1>6, StampsAre DEF HitsAccounted
  <2> QED BY <1>6, <2>1, <2>2, TimingAssumption
<1>9. Written'
  BY <1>1, <1>2 DEF Written
<1>10. OwedCovered'
  <2> SUFFICES ASSUME final, worker' = "settle", NEW y \in Years, row'[y] # None, owed[y] # None
               PROVE  owed[y] <= Effective(row'[y]) \/ (batch'[y] # None /\ owed[y] <= batch'[y])
    BY <1>0, <1>1 DEF OwedCovered
  <2>1. owed[y] <= Effective(row[y]) \/ (batch[y] # None /\ owed[y] <= batch[y])
    BY <1>0, <1>1, <1>6 DEF OwedCovered
  <2>2. owed[y] \in Nat
    BY <1>0, StampsAre
  <2> QED BY <1>1, <1>6, <2>1, <2>2
<1> QED BY <1>3, <1>5, <1>7, <1>8, <1>9, <1>10 DEF HitInv

LEMMA FailKeeps == ASSUME HitInv, FlushFail PROVE HitInv'
<1> USE DEF FlushFail, storeVars, memVars, histVars
<1>1. HitType'
  BY DEF HitInv, HitType, NoTimes, Maybe
<1>2. (ReadersCurrent /\ Scheduled /\ Counted /\ OwedKnown /\ Pruning /\ HitsAccounted)'
  BY DEF HitInv, ReadersCurrent, Scheduled, Counted, OwedKnown, Pruning, HitsAccounted, Known, Prunable
<1>3. Written' /\ OwedCovered'
  BY DEF HitInv, Written, OwedCovered
<1> QED BY <1>1, <1>2, <1>3 DEF HitInv

LEMMA SettleKeeps == ASSUME HitInv, FlushSettle PROVE HitInv'
<1>0. /\ HitType /\ ReadersCurrent /\ Scheduled /\ Counted /\ Written /\ OwedKnown /\ OwedCovered
      /\ Pruning /\ HitsAccounted
  BY DEF HitInv
<1>1. /\ worker = "settle" /\ worker' \in {"stopped", "select"} /\ batch' = NoTimes
      /\ pending' = [y \in Years |-> IF Settled(y) THEN None ELSE pending[y]]
      /\ UNCHANGED <<now, row, lastHitTimes, stopping, final, reader, prune, histVars>>
  BY DEF FlushSettle, storeVars
<1>2. \A y \in Years : pending'[y] = pending[y] \/ (Settled(y) /\ pending'[y] = None)
  BY <1>1
<1>3. HitType'
  <2>1. pending' \in [Years -> Maybe(1..now)] /\ batch' \in [Years -> Maybe(1..now)]
    BY <1>0, <1>1 DEF HitType, Maybe, NoTimes
  <2> QED BY <1>0, <1>1, <2>1 DEF HitType, histVars
<1>4. ASSUME NEW y \in Years, row[y] # None PROVE Known(y)' = Known(y)
  <2>1. CASE pending'[y] = pending[y]
    BY <1>1, <2>1 DEF Known
  <2>2. CASE Settled(y) /\ pending'[y] = None
    <3>1. /\ pending[y] # None /\ pending[y] \in Nat /\ batch[y] \in Nat
          /\ pending[y] <= batch[y] /\ batch[y] <= Effective(row[y]) /\ Effective(row[y]) \in Nat
      BY <1>0, <1>1, <1>4, <2>2, StampsAre, RowIs DEF Settled, Written
    <3>2. Known(y) = Effective(row[y])
      BY <3>1 DEF Known
    <3>3. Known(y)' = Effective(row[y])
      BY <1>1, <2>2 DEF Known
    <3> QED BY <3>2, <3>3
  <2> QED BY <1>2, <2>1, <2>2
<1>5. Scheduled'
  BY <1>0, <1>1, <1>2, <1>4 DEF Scheduled
<1>6. Counted'
  BY <1>0, <1>1, <1>2 DEF Counted, histVars
<1>7. OwedKnown' /\ HitsAccounted'
  BY <1>0, <1>1, <1>4 DEF OwedKnown, HitsAccounted, histVars
<1>8. (ReadersCurrent /\ Pruning /\ Written /\ OwedCovered)'
  BY <1>0, <1>1 DEF ReadersCurrent, Pruning, Prunable, Written, OwedCovered, histVars
<1> QED BY <1>3, <1>5, <1>6, <1>7, <1>8 DEF HitInv

LEMMA SetYearKeeps == ASSUME HitInv, NEW y \in Years, SetYear(y) PROVE HitInv'
<1> DEFINE hit == IF row[y] = None THEN now ELSE Effective(row[y])
           new == [fetched |-> 0, hit |-> hit]
<1>0. /\ HitType /\ Counted /\ Written /\ OwedCovered /\ HitsAccounted /\ now \in Nat \ {0}
      /\ row \in [Years -> Maybe([fetched : 0..1, hit : 0..now])] /\ used \in [Years -> Nat]
  BY DEF HitInv, HitType
<1>1. /\ used' = [used EXCEPT ![y] = IF row[y] = None THEN now ELSE used[y]]
      /\ row' = [row EXCEPT ![y] = new]
      /\ UNCHANGED <<now, memVars, workVars, reader, prune, snapUsed, owed>>
  BY DEF SetYear
<1>2. hit \in Nat /\ hit <= now
  BY <1>0, RowIs
<1> HIDE DEF hit
<1>3. new \in Maybe([fetched : 0..1, hit : 0..now]) /\ new # None /\ Effective(new) = hit
  BY <1>0, <1>2, NoneAssumption DEF Maybe, Effective
<1> HIDE DEF new
<1>4. /\ row' \in [Years -> Maybe([fetched : 0..1, hit : 0..now])] /\ used' \in [Years -> Nat]
      /\ row'[y] = new /\ used'[y] = (IF row[y] = None THEN now ELSE used[y])
      /\ \A z \in Years \ {y} : row'[z] = row[z] /\ used'[z] = used[z]
  BY <1>0, <1>1, <1>3
<1>5. HitType'
  BY <1>0, <1>1, <1>4 DEF HitType, memVars, workVars
<1>6. Effective(row'[y]) = hit /\ (row[y] = None => hit = now) /\ (row[y] # None => hit = Effective(row[y]))
  BY <1>3, <1>4 DEF hit
<1>7. NoRowGoesBack
  <2> SUFFICES ASSUME NEW z \in Years, row'[z] # None
               PROVE  \/ row[z] # None /\ Effective(row[z]) <= Effective(row'[z])
                      \/ now <= Effective(row'[z])
    BY DEF NoRowGoesBack
  <2>1. CASE z = y
    BY <1>0, <1>2, <1>6, <2>1
  <2>2. CASE z # y
    BY <1>0, <1>4, <2>2, RowIs
  <2> QED BY <2>1, <2>2
<1>8. (ReadersCurrent /\ Scheduled /\ OwedKnown /\ Pruning)'
  BY <1>1, <1>5, <1>7, NothingForgotten
<1>9. Counted'
  <2> SUFFICES ASSUME NEW z \in Years, row'[z] # None
               PROVE  Effective(row'[z]) <= used'[z] /\ (pending[z] # None => pending[z] <= used'[z])
    BY <1>1 DEF Counted, memVars
  <2>1. CASE z # y
    BY <1>0, <1>4, <2>1 DEF Counted
  <2>2. CASE z = y /\ row[y] = None
    BY <1>0, <1>4, <1>6, <2>2, StampsAre
  <2>3. CASE z = y /\ row[y] # None
    BY <1>0, <1>4, <1>6, <2>3 DEF Counted
  <2> QED BY <2>1, <2>2, <2>3
<1>10. HitsAccounted'
  <2> SUFFICES ASSUME NEW z \in Years, row'[z] # None
               PROVE  used'[z] <= Known(z)' \/ used'[z] - Known(z)' < Debounce
    BY DEF HitsAccounted
  <2>1. CASE z # y
    <3>1. Known(z)' = Known(z)
      BY <1>1, <1>4, <2>1 DEF Known, memVars
    <3> QED BY <1>0, <1>4, <2>1, <3>1 DEF HitsAccounted
  <2>2. CASE z = y /\ row[y] = None
    BY <1>0, <1>4, <1>5, <1>6, <2>2, KnownIsNext
  <2>3. CASE z = y /\ row[y] # None
    <3>1. Known(z)' = Known(z)
      BY <1>1, <1>6, <2>3 DEF Known, memVars
    <3> QED BY <1>0, <1>4, <2>3, <3>1 DEF HitsAccounted
  <2> QED BY <2>1, <2>2, <2>3
<1>11. \A z \in Years : row'[z] # None => \/ row[z] # None /\ Effective(row'[z]) = Effective(row[z])
                                          \/ Effective(row'[z]) = now
  BY <1>4, <1>6
<1>12. Written'
  <2> SUFFICES ASSUME worker = "settle", NEW z \in Years, row'[z] # None, batch[z] # None
               PROVE  batch[z] <= Effective(row'[z])
    BY <1>1 DEF Written, workVars
  <2> QED BY <1>0, <1>11, StampsAre DEF Written
<1>13. OwedCovered'
  <2> SUFFICES ASSUME final, worker \in {"write", "settle"}, NEW z \in Years, row'[z] # None, owed[z] # None
               PROVE  owed[z] <= Effective(row'[z]) \/ (batch[z] # None /\ owed[z] <= batch[z])
    BY <1>0, <1>1 DEF OwedCovered, workVars
  <2> QED BY <1>0, <1>11, StampsAre DEF OwedCovered
<1> QED BY <1>5, <1>8, <1>9, <1>10, <1>12, <1>13 DEF HitInv

LEMMA ClearRowsKeeps == ASSUME HitInv, ClearRows PROVE HitInv'
<1> USE DEF ClearRows, memVars, workVars
<1>1. \A y \in Years : row'[y] = None
  BY DEF NoTimes
<1>2. HitType'
  BY DEF HitInv, HitType, NoTimes, NoUse, Maybe
<1>3. ReadersCurrent' /\ Scheduled'
  BY <1>1 DEF HitInv, ReadersCurrent, Scheduled
<1>4. (Counted /\ Written /\ OwedKnown /\ OwedCovered /\ HitsAccounted)'
  BY <1>1 DEF HitInv, Counted, Written, OwedKnown, OwedCovered, HitsAccounted
<1>5. Pruning'
  BY <1>1 DEF HitInv, HitType, Pruning, Prunable
<1> QED BY <1>2, <1>3, <1>4, <1>5 DEF HitInv

LEMMA ClearAccountingKeeps == ASSUME HitInv, ClearAccounting PROVE HitInv'
<1>0. HitType /\ ReadersCurrent /\ Written /\ OwedCovered /\ Pruning
  BY DEF HitInv
<1>1. /\ lastHitTimes' = NoTimes /\ pending' = NoTimes /\ owed' = NoTimes /\ used' = Persisted
      /\ UNCHANGED <<now, row, workVars, reader, prune, snapUsed>>
  BY DEF ClearAccounting, storeVars
<1>2. \A y \in Years : /\ lastHitTimes'[y] = None /\ pending'[y] = None /\ owed'[y] = None
                       /\ used'[y] = IF row[y] = None THEN 0 ELSE Effective(row[y])
  BY <1>1 DEF NoTimes, Persisted
<1>3. HitType'
  <2>1. used' \in [Years -> Nat]
    BY <1>0, <1>1, RowIs DEF Persisted
  <2>2. NoTimes \in [Years -> Maybe(0..now)] /\ NoTimes \in [Years -> Maybe(1..now)]
    BY DEF NoTimes, Maybe
  <2> QED BY <1>0, <1>1, <2>1, <2>2 DEF HitType, workVars
<1>4. \A y \in Years : row[y] # None => Known(y)' = Effective(row[y]) /\ Effective(row[y]) \in Nat
  BY <1>0, <1>1, <1>2, RowIs DEF Known
<1>5. (Scheduled /\ Counted /\ OwedKnown /\ HitsAccounted)'
  BY <1>1, <1>2, <1>4 DEF Scheduled, Counted, OwedKnown, HitsAccounted
<1>6. ReadersCurrent' /\ Written' /\ Pruning'
  BY <1>0, <1>1 DEF ReadersCurrent, Written, Pruning, Prunable, workVars
<1>7. OwedCovered'
  BY <1>0, <1>1, <1>2 DEF OwedCovered, workVars
<1> QED BY <1>3, <1>5, <1>6, <1>7 DEF HitInv

LEMMA SnapshotKeeps == ASSUME HitInv, PruneSnapshot PROVE HitInv'
<1>0. HitType /\ Counted /\ HitsAccounted /\ now \in Nat \ {0}
  BY DEF HitInv, HitType
<1> SUFFICES ASSUME NEW cutoff, cutoff = now - Retention PROVE HitInv'
  OBVIOUS
<1>1. /\ prune' = [pc |-> "delete", cutoff |-> cutoff, keep |-> KeepPending(cutoff)]
      /\ snapUsed' = used
      /\ UNCHANGED <<now, row, memVars, workVars, reader, used, owed>>
  BY DEF PruneSnapshot, storeVars
<1>2. cutoff \in Int /\ cutoff <= now /\ KeepPending(cutoff) \subseteq Years
  BY <1>0, TimingAssumption DEF KeepPending
<1>3. HitType'
  BY <1>0, <1>1, <1>2 DEF HitType, memVars, workVars
<1>4. (ReadersCurrent /\ Scheduled /\ Counted /\ Written /\ OwedKnown /\ OwedCovered /\ HitsAccounted)'
  BY <1>1 DEF HitInv, ReadersCurrent, Scheduled, Counted, Written, OwedKnown, OwedCovered, HitsAccounted,
              Known, memVars, workVars
<1>5. ASSUME NEW y \in Years, row[y] # None, Effective(row[y]) < cutoff, y \notin KeepPending(cutoff)
      PROVE  used[y] < cutoff + Slack
  <2>1. Known(y) \in Nat /\ Known(y) < cutoff
    BY <1>0, <1>2, <1>5, KnownIs, RowIs, StampsAre DEF KeepPending
  <2>2. used[y] \in Nat /\ (used[y] <= Known(y) \/ used[y] - Known(y) < Debounce)
    BY <1>0, <1>5, StampsAre DEF HitsAccounted
  <2> QED BY <1>2, <2>1, <2>2, TimingAssumption DEF Slack
<1>6. ASSUME NEW y \in KeepPending(cutoff), row[y] # None PROVE used[y] >= cutoff
  <2>1. y \in Years /\ pending[y] # None /\ pending[y] >= cutoff
    BY <1>6 DEF KeepPending
  <2> QED BY <1>0, <1>2, <1>6, <2>1, StampsAre DEF Counted
<1>7. Pruning'
  BY <1>1, <1>2, <1>5, <1>6 DEF Pruning, Prunable
<1> QED BY <1>3, <1>4, <1>7 DEF HitInv

LEMMA NoPruneIs ==
  /\ NoPrune \in [pc : {"idle", "delete"}, cutoff : Int, keep : SUBSET Years] /\ NoPrune.pc = "idle"
  /\ NoUse \in [Years -> Nat]
  BY DEF NoPrune, NoUse

LEMMA DeleteKeeps == ASSUME HitInv, PruneDelete PROVE HitInv'
<1>0. /\ HitType /\ ReadersCurrent /\ Scheduled /\ Counted /\ Written /\ OwedKnown /\ OwedCovered
      /\ HitsAccounted
  BY DEF HitInv
<1>1. /\ row' = [y \in Years |-> IF y \in Prunable THEN None ELSE row[y]]
      /\ used' = [y \in Years |-> IF y \in Prunable THEN 0 ELSE used[y]]
      /\ prune' = NoPrune /\ snapUsed' = NoUse
      /\ UNCHANGED <<now, memVars, workVars, reader, owed>>
  BY DEF PruneDelete
<1>2. \A y \in Years : row'[y] # None => row'[y] = row[y] /\ used'[y] = used[y] /\ Known(y)' = Known(y)
  BY <1>1 DEF Known, memVars
<1>3. HitType'
  <2>1. row' \in [Years -> Maybe([fetched : 0..1, hit : 0..now])] /\ used' \in [Years -> Nat]
    BY <1>0, <1>1 DEF HitType, Maybe
  <2> QED BY <1>0, <1>1, <2>1, NoPruneIs DEF HitType, memVars, workVars
<1>4. ReadersCurrent'
  BY <1>0, <1>1, <1>2 DEF ReadersCurrent
<1>5. (Scheduled /\ Counted /\ OwedKnown /\ HitsAccounted)'
  BY <1>0, <1>1, <1>2 DEF Scheduled, Counted, OwedKnown, HitsAccounted, memVars
<1>6. Written' /\ OwedCovered'
  BY <1>0, <1>1, <1>2 DEF Written, OwedCovered, workVars
<1>7. Pruning'
  BY <1>1 DEF Pruning, NoPrune
<1> QED BY <1>3, <1>4, <1>5, <1>6, <1>7 DEF HitInv

LEMMA PruneFailKeeps == ASSUME HitInv, PruneFail PROVE HitInv'
<1> USE DEF PruneFail, storeVars, memVars, workVars
<1>1. HitType'
  BY NoPruneIs DEF HitInv, HitType
<1>2. (ReadersCurrent /\ Scheduled /\ Counted /\ Written /\ OwedKnown /\ OwedCovered /\ HitsAccounted)'
  BY DEF HitInv, ReadersCurrent, Scheduled, Counted, Written, OwedKnown, OwedCovered, HitsAccounted, Known
<1>3. Pruning'
  BY DEF Pruning, NoPrune
<1> QED BY <1>1, <1>2, <1>3 DEF HitInv

LEMMA CancelKeeps == ASSUME HitInv, CloseCancel PROVE HitInv'
<1>0. HitType /\ OwedCovered
  BY DEF HitInv
<1>1. /\ ~stopping /\ owed' = pending
      /\ UNCHANGED <<now, row, memVars, worker, final, batch, reader, prune, used, snapUsed>>
  BY DEF CloseCancel, storeVars
<1>2. HitType'
  BY <1>0, <1>1 DEF HitType, memVars
<1>3. (ReadersCurrent /\ Scheduled /\ Counted /\ Written /\ Pruning /\ HitsAccounted)'
  BY <1>1 DEF HitInv, ReadersCurrent, Scheduled, Counted, Written, Pruning, Prunable, HitsAccounted, Known,
              memVars
<1>4. OwedKnown'
  BY <1>1, <1>2, KnownIsNext DEF OwedKnown, memVars
<1>5. OwedCovered'
  BY <1>0, <1>1 DEF OwedCovered
<1> QED BY <1>2, <1>3, <1>4, <1>5 DEF HitInv

LEMMA HitStep == HitInv /\ [Next]_vars => HitInv'
<1> SUFFICES ASSUME HitInv, [Next]_vars PROVE HitInv'
  OBVIOUS
<1>1. ASSUME NEW r \in Readers, NEW y \in Years, Read(r, y) PROVE HitInv'
  BY <1>1, ReadKeeps
<1>2. ASSUME NEW r \in Readers, Stamp(r) \/ queueLastHit(r) PROVE HitInv'
  BY <1>2, StampKeeps, QueueKeeps
<1>3. CASE WorkerStep
  BY <1>3, WorkerStarts, WriteKeeps, FailKeeps, SettleKeeps DEF WorkerStep
<1>4. ASSUME NEW y \in Years, SetYear(y) PROVE HitInv'
  BY <1>4, SetYearKeeps
<1>5. CASE CloseDB \/ UNCHANGED vars
  BY <1>5, NoStep DEF CloseDB, vars, storeVars, memVars
<1> QED BY <1>1, <1>2, <1>3, <1>4, <1>5, TickKeeps, ClearRowsKeeps, ClearAccountingKeeps, SnapshotKeeps,
           DeleteKeeps, PruneFailKeeps, CancelKeeps DEF Next

LEMMA HitAlways == Spec => []HitInv
  BY HitInitially, HitStep, PTL DEF Spec

-----------------------------------------------------------------------------
(***************************************************************************)
(* For any debounce, any readers whose timestamps reach queueLastHit in any *)
(* order, failing writes and any clears, prunes and refreshes between them: *)
(* the cache knows every access of a row up to the debounce window.         *)
(***************************************************************************)
THEOREM HitsAreAccounted == Spec => []HitsAccounted
<1>1. HitInv => HitsAccounted
  BY DEF HitInv
<1> QED BY <1>1, HitAlways, PTL

(***************************************************************************)
(* PruneStaleYearsContext deletes no year that was used, when it took its   *)
(* snapshot, a debounce window or more after the cutoff.                    *)
(***************************************************************************)
THEOREM PruneSparesHits == Spec => PruneRespectsHits
<1>1. ASSUME HitInv, NEW y \in Years, PruneDelete, y \in Prunable
      PROVE  snapUsed[y] < prune.cutoff + (IF Debounce = 0 THEN 1 ELSE Debounce)
  BY <1>1 DEF HitInv, Pruning, PruneDelete, Slack
<1>2. HitInv /\ [Next]_vars =>
        [\A y \in Years : PruneDelete /\ y \in Prunable =>
           snapUsed[y] < prune.cutoff + (IF Debounce = 0 THEN 1 ELSE Debounce)]_vars
  BY <1>1
<1> QED BY <1>2, HitAlways, PTL DEF Spec, PruneRespectsHits

(***************************************************************************)
(* What PruneStaleYearsContext leaves was used since its cutoff.            *)
(***************************************************************************)
THEOREM PruneLeavesUsed == Spec => PruneForgets
<1>1. ASSUME HitInv, NEW y \in Years, PruneDelete, row'[y] # None
      PROVE  used[y] >= prune.cutoff \/ snapUsed[y] >= prune.cutoff
  <2>0. HitType /\ Counted /\ Pruning /\ prune.cutoff \in Int /\ prune.pc = "delete"
    BY <1>1 DEF HitInv, HitType, PruneDelete
  <2>1. row[y] # None /\ y \notin Prunable
    BY <1>1 DEF PruneDelete
  <2>2. Effective(row[y]) \in Nat /\ Effective(row[y]) <= used[y] /\ used[y] \in Nat /\ snapUsed[y] \in Nat
    BY <2>0, <2>1, RowIs, StampsAre DEF Counted
  <2>3. CASE Effective(row[y]) >= prune.cutoff
    BY <2>0, <2>2, <2>3
  <2>4. CASE y \in prune.keep
    BY <2>0, <2>1, <2>2, <2>4 DEF Pruning
  <2> QED BY <2>0, <2>1, <2>2, <2>3, <2>4 DEF Prunable
<1>2. HitInv /\ [Next]_vars =>
        [\A y \in Years : PruneDelete /\ row'[y] # None =>
           used[y] >= prune.cutoff \/ snapUsed[y] >= prune.cutoff]_vars
  BY <1>1
<1> QED BY <1>2, HitAlways, PTL DEF Spec, PruneForgets

(***************************************************************************)
(* Close loses no access its last flush could write: what was pending when  *)
(* it cancelled the worker is in the row when the worker settles and stops. *)
(***************************************************************************)
THEOREM CloseWritesOwed == Spec => CloseFlushes
<1> DEFINE Ends == worker # "stopped" /\ worker' = "stopped" /\ ~FlushFail /\ ~FlushWrite(FALSE)
<1>1. ASSUME HitInv, Next, Ends, NEW y \in Years, row[y] # None, owed[y] # None
      PROVE  Effective(row[y]) >= owed[y]
  <2>0. /\ HitType /\ Written /\ OwedKnown /\ OwedCovered
        /\ owed[y] \in Nat /\ Effective(row[y]) \in Nat
    BY <1>1, StampsAre, RowIs DEF HitInv
  <2>1. CASE OnDone
    <3>1. pending[y] = None
      BY <1>1, <2>1 DEF OnDone, BeginFlush, NoTimes
    <3> QED BY <1>1, <2>0, <3>1, KnownIs DEF OwedKnown
  <2>2. CASE FlushSettle
    <3>1. final /\ worker = "settle"
      BY <1>1, <2>2 DEF FlushSettle
    <3>2. owed[y] <= Effective(row[y]) \/ (batch[y] # None /\ owed[y] <= batch[y])
      BY <1>1, <2>0, <3>1 DEF OwedCovered
    <3>3. batch[y] # None => batch[y] \in Nat /\ batch[y] <= Effective(row[y])
      BY <1>1, <2>0, <3>1, StampsAre DEF Written
    <3> QED BY <2>0, <3>2, <3>3
  <2>3. OnDone \/ FlushSettle
    <3>1. worker' # worker
      BY <1>1
    <3>2. ~(OnWake \/ OnTicker)
      BY <1>1 DEF OnWake, OnTicker, BeginFlush
    <3>3. ASSUME NEW ok \in BOOLEAN, FlushWrite(ok) PROVE FALSE
      BY <1>1, <3>3 DEF FlushWrite
    <3>4. WorkerStep
      BY <1>1, <3>1 DEF Next, Tick, Read, Stamp, queueLastHit, SetYear, ClearRows, ClearAccounting,
                        PruneSnapshot, PruneDelete, PruneFail, CloseCancel, CloseDB, workVars
    <3> QED BY <1>1, <3>2, <3>3, <3>4 DEF WorkerStep
  <2> QED BY <2>1, <2>2, <2>3
<1>2. HitInv /\ [Next]_vars =>
        [Ends => \A y \in Years : row[y] # None /\ owed[y] # None => Effective(row[y]) >= owed[y]]_vars
  BY <1>1
<1> QED BY <1>2, HitAlways, PTL DEF Spec, CloseFlushes
=============================================================================
