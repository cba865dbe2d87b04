------------------------ MODULE FetchCooldown_proofs ------------------------
(***************************************************************************)
(* Proofs about FetchCooldown, for every set of years, every pair of delays *)
(* and every size of the failure table.                                     *)
(***************************************************************************)
EXTENDS FetchCooldown, FiniteSetTheorems, WellFoundedInduction, TLAPS

-----------------------------------------------------------------------------
(***************************************************************************)
(* The inductive invariant: the table is a function from some of the years  *)
(* to well-formed entries, and a failing leader's timestamp is not ahead of *)
(* the clock, which is what bounds the retryAt it will write.               *)
(***************************************************************************)
Entry == [retryAt : Nat, delay : Base .. MaxDelay]

TableType ==
  /\ now \in Nat
  /\ Tracked \subseteq Years
  /\ failures \in [Tracked -> Entry]
  /\ attempt \in [Years -> {"no", "upstream", "failed"}]
  /\ stamp \in [Years -> Nat]

StampsPast == \A y \in Years : stamp[y] <= now

CooldownInv == TableType /\ StampsPast /\ TableBounded

-----------------------------------------------------------------------------
(* Helpers                                                                  *)

\* A nonempty set of natural numbers has a least element.
LEMMA LeastNat ==
  ASSUME NEW S, S \subseteq Nat, S # {}
  PROVE  \E m \in S : \A x \in S : m <= x
<1> DEFINE R == {ss \in Nat \X Nat : ss[1] < ss[2]}
<1>1. IsWellFoundedOn(R, Nat)
  BY NatLessThanWellFounded DEF OpToRel
<1>2. \A i, j \in Nat : i < j => <<i, j>> \in R
  OBVIOUS
<1> HIDE DEF R
<1>3. PICK m \in S : \A x \in S : ~(<<x, m>> \in R)
  BY <1>1, WFMin, Zenon
<1>4. ASSUME NEW x \in S PROVE m <= x
  <2>1. m \in Nat /\ x \in Nat
    OBVIOUS
  <2>2. ~(x < m)
    BY <1>2, <1>3, <2>1, Zenon
  <2> QED BY <2>1, <2>2
<1> QED BY <1>4

\* A full table has an entry to evict: the one with the oldest retryAt.
LEMMA LeastExists ==
  ASSUME TableType, NEW S \in SUBSET Tracked, S # {}
  PROVE  Least(S, failures) # {} /\ Least(S, failures) \subseteq S
<1> DEFINE T == {failures[y].retryAt : y \in S}
<1>1. T \subseteq Nat /\ T # {}
  BY DEF TableType, Entry
<1>2. PICK m \in T : \A x \in T : m <= x
  <2> HIDE DEF T
  <2> QED BY <1>1, LeastNat
<1>3. PICK y \in S : failures[y].retryAt = m
  OBVIOUS
<1>4. y \in Least(S, failures)
  BY <1>2, <1>3 DEF Least
<1> QED BY <1>4 DEF Least

\* The table is finite, and so is every part of it.
LEMMA TrackedFinite ==
  ASSUME TableType, NEW S \in SUBSET Tracked
  PROVE  /\ IsFiniteSet(Tracked) /\ IsFiniteSet(S)
         /\ Cardinality(S) \in Nat /\ Cardinality(S) <= Cardinality(Tracked)
         /\ Cardinality(Tracked) \in Nat
         /\ S # Tracked => Cardinality(S) < Cardinality(Tracked)
<1>1. IsFiniteSet(Tracked)
  BY CooldownAssumption, FS_Subset DEF TableType
<1> QED BY <1>1, FS_Subset, FS_CardinalityType

\* NextDelay stays within its bounds.
LEMMA NextDelayBounded ==
  ASSUME TableType, NEW y \in Years
  PROVE  NextDelay(y) \in Base .. MaxDelay
BY CooldownAssumption DEF NextDelay, TableType, Entry

(***************************************************************************)
(* What recordFetchFailure leaves in the table: the kept entries without    *)
(* the victim, if one had to go, and the failing year.                      *)
(***************************************************************************)
LEMMA RecordEffect ==
  ASSUME TableType, NEW y \in Years, recordFetchFailure(y)
  PROVE  \E gone \in SUBSET Kept(stamp[y]) :
           /\ \/ gone = {} /\ (y \in Kept(stamp[y]) \/ Cardinality(Kept(stamp[y])) < MaxTracked)
              \/ \E v \in Least(Kept(stamp[y]), failures) :
                    /\ gone = {v}
                    /\ y \notin Kept(stamp[y])
                    /\ Cardinality(Kept(stamp[y])) >= MaxTracked
           /\ failures' = [z \in (Kept(stamp[y]) \ gone) \cup {y} |->
                             IF z = y THEN [retryAt |-> stamp[y] + NextDelay(y), delay |-> NextDelay(y)]
                             ELSE failures[z]]
<1> DEFINE K == Kept(stamp[y])
           V == Victims(y, K)
<1>1. PICK gone \in IF V = {} THEN {{}} ELSE {{v} : v \in V} :
         failures' = [z \in (K \ gone) \cup {y} |->
                        IF z = y THEN [retryAt |-> stamp[y] + NextDelay(y), delay |-> NextDelay(y)]
                        ELSE failures[z]]
  BY Zenon DEF recordFetchFailure
<1>2. K \in SUBSET Tracked
  BY DEF Kept
<1>3. Cardinality(K) \in Nat
  BY <1>2, TrackedFinite
<1>4. CASE y \notin K /\ Cardinality(K) >= MaxTracked
  <2>1. V = Least(K, failures)
    BY <1>4 DEF Victims
  <2>2. K # {}
    BY <1>4, FS_EmptySet, CooldownAssumption
  <2>3. V # {} /\ V \subseteq K
    BY <1>2, <2>1, <2>2, LeastExists
  <2> HIDE DEF V, K
  <2>4. PICK v \in V : gone = {v}
    BY <1>1, <2>3
  <2> QED BY <1>1, <1>4, <2>1, <2>3, <2>4 DEF K
<1>5. CASE ~(y \notin K /\ Cardinality(K) >= MaxTracked)
  <2>1. V = {}
    BY <1>5 DEF Victims
  <2>2. gone = {}
    BY <1>1, <2>1
  <2>3. y \in K \/ Cardinality(K) < MaxTracked
    BY <1>3, <1>5, CooldownAssumption
  <2> QED BY <1>1, <2>2, <2>3
<1> QED BY <1>4, <1>5

-----------------------------------------------------------------------------
(* The bounds of the table                                                  *)

LEMMA CooldownInit == Init => CooldownInv
<1> SUFFICES ASSUME Init PROVE CooldownInv
  OBVIOUS
<1>1. Tracked = {}
  BY DEF Init, Tracked
<1>2. TableType /\ StampsPast
  BY <1>1 DEF Init, TableType, StampsPast, Entry, Tracked
<1>3. TableBounded
  BY <1>1, FS_EmptySet, CooldownAssumption DEF TableBounded
<1> QED BY <1>2, <1>3 DEF CooldownInv

LEMMA CooldownStep == CooldownInv /\ [Next]_vars => CooldownInv'
<1> SUFFICES ASSUME CooldownInv, [Next]_vars PROVE CooldownInv'
  OBVIOUS
<1> USE CooldownAssumption
<1>1. ASSUME NEW y \in Years, Attempt(y) PROVE CooldownInv'
  BY <1>1 DEF Attempt, CooldownInv, TableType, StampsPast, TableBounded, Tracked
<1>2. ASSUME NEW y \in Years, Stamp(y) PROVE CooldownInv'
  BY <1>2 DEF Stamp, CooldownInv, TableType, StampsPast, TableBounded, Tracked
<1>3. ASSUME NEW y \in Years, recordFetchFailure(y) PROVE CooldownInv'
  <2> DEFINE K == Kept(stamp[y])
  <2>0. TableType /\ StampsPast /\ TableBounded
    BY DEF CooldownInv
  <2>1. PICK gone \in SUBSET K :
           /\ \/ gone = {} /\ (y \in K \/ Cardinality(K) < MaxTracked)
              \/ \E v \in Least(K, failures) :
                    /\ gone = {v} /\ y \notin K /\ Cardinality(K) >= MaxTracked
           /\ failures' = [z \in (K \ gone) \cup {y} |->
                             IF z = y THEN [retryAt |-> stamp[y] + NextDelay(y), delay |-> NextDelay(y)]
                             ELSE failures[z]]
    BY <1>3, <2>0, RecordEffect
  <2>2. NextDelay(y) \in Base .. MaxDelay
    BY <2>0, NextDelayBounded
  <2>3. K \in SUBSET Tracked /\ K \subseteq Years
    BY <2>0 DEF Kept, TableType
  <2>4. /\ IsFiniteSet(K) /\ Cardinality(K) \in Nat
        /\ Cardinality(K) <= Cardinality(Tracked) /\ Cardinality(Tracked) \in Nat
    BY <2>0, <2>3, TrackedFinite
  <2>5. /\ now' = now /\ stamp' = [stamp EXCEPT ![y] = 0]
        /\ attempt' = [attempt EXCEPT ![y] = "no"]
    BY <1>3 DEF recordFetchFailure
  <2>6. Tracked' = (K \ gone) \cup {y}
    BY <2>1 DEF Tracked
  <2> HIDE DEF K
  <2>7. Cardinality(Tracked') <= MaxTracked
    <3>1. CASE gone = {} /\ y \in K
      BY <2>0, <2>4, <2>6, <3>1 DEF TableBounded
    <3>2. CASE gone = {} /\ y \notin K /\ Cardinality(K) < MaxTracked
      <4>1. Cardinality(K \cup {y}) = Cardinality(K) + 1
        BY <2>4, <3>2, FS_AddElement
      <4> QED BY <2>4, <2>6, <3>2, <4>1
    <3>3. ASSUME NEW v \in K, gone = {v}, y \notin K PROVE Cardinality(Tracked') <= MaxTracked
      <4>1. IsFiniteSet(K \ {v}) /\ Cardinality(K \ {v}) = Cardinality(K) - 1
        BY <2>4, FS_RemoveElement
      <4>2. Cardinality((K \ {v}) \cup {y}) = Cardinality(K \ {v}) + 1
        BY <3>3, <4>1, FS_AddElement
      <4> QED BY <2>0, <2>4, <2>6, <3>3, <4>1, <4>2 DEF TableBounded
    <3> QED BY <2>1, <3>1, <3>2, <3>3 DEF Least
  <2>8. failures' \in [Tracked' -> Entry] /\ Tracked' \subseteq Years
    BY <2>0, <2>1, <2>2, <2>3, <2>6 DEF TableType, Entry
  <2>9. \A z \in Tracked' : /\ failures'[z].delay \in Base .. MaxDelay
                            /\ failures'[z].retryAt <= now' + MaxDelay
    BY <2>0, <2>1, <2>2, <2>3, <2>5, <2>6 DEF TableType, Entry, TableBounded, StampsPast
  <2>10. TableType'
    BY <2>0, <2>5, <2>8 DEF TableType
  <2>11. StampsPast'
    BY <2>0, <2>5 DEF TableType, StampsPast
  <2> QED BY <2>7, <2>9, <2>10, <2>11 DEF CooldownInv, TableBounded
<1>4. ASSUME NEW y \in Years, Cancelled(y) PROVE CooldownInv'
  BY <1>4 DEF Cancelled, CooldownInv, TableType, StampsPast, TableBounded, Tracked
<1>5. ASSUME NEW y \in Years, clearFetchFailure(y) PROVE CooldownInv'
  <2>0. TableType /\ StampsPast /\ TableBounded
    BY DEF CooldownInv
  <2>1. /\ Tracked' = Tracked \ {y}
        /\ failures' = [z \in Tracked \ {y} |-> failures[z]]
        /\ attempt' = [attempt EXCEPT ![y] = "no"] /\ now' = now /\ stamp' = stamp
    BY <1>5 DEF clearFetchFailure, Restrict, Tracked
  <2>2. Cardinality(Tracked') \in Nat /\ Cardinality(Tracked') <= Cardinality(Tracked)
        /\ Cardinality(Tracked) \in Nat
    BY <2>0, <2>1, TrackedFinite
  <2>3. TableType' /\ StampsPast'
    BY <2>0, <2>1 DEF TableType, StampsPast
  <2>4. TableBounded'
    BY <2>0, <2>1, <2>2 DEF TableBounded
  <2> QED BY <2>3, <2>4 DEF CooldownInv
<1>6. ASSUME Tick PROVE CooldownInv'
  <2>1. /\ failures' = failures /\ attempt' = attempt /\ stamp' = stamp /\ now' = now + 1
        /\ Tracked' = Tracked
    BY <1>6 DEF Tick, Tracked
  <2>2. TableType'
    BY <2>1 DEF CooldownInv, TableType
  <2>3. StampsPast'
    BY <2>1 DEF CooldownInv, TableType, StampsPast
  <2>4. TableBounded'
    BY <2>1 DEF CooldownInv, TableType, TableBounded, Entry
  <2> QED BY <2>2, <2>3, <2>4 DEF CooldownInv
<1>7. CASE UNCHANGED vars
  BY <1>7 DEF vars, CooldownInv, TableType, StampsPast, TableBounded, Tracked
<1> QED BY <1>1, <1>2, <1>3, <1>4, <1>5, <1>6, <1>7 DEF Next

(***************************************************************************)
(* The failure table is bounded, whatever fails in whatever order: at most  *)
(* MaxTracked years, delays between Base and MaxDelay, no year held back    *)
(* for longer than MaxDelay from now.                                       *)
(***************************************************************************)
THEOREM TableStaysBounded == Spec => []TableBounded
<1>1. CooldownInv => TableBounded
  BY DEF CooldownInv
<1> QED BY <1>1, CooldownInit, CooldownStep, PTL DEF Spec

-----------------------------------------------------------------------------
(* What eviction costs                                                      *)

LEMMA EvictionStep ==
  ASSUME CooldownInv, [Next]_vars,
         NEW y \in Tracked \ DOMAIN failures',
         Active(y, now), ~(DOMAIN failures' \subseteq Tracked)
  PROVE  \A z \in Tracked : failures[y].retryAt <= failures[z].retryAt
<1> USE CooldownAssumption
<1>0. TableType /\ StampsPast /\ TableBounded
  BY DEF CooldownInv
<1>1. PICK w \in Years : recordFetchFailure(w)
  BY <1>0 DEF Next, Attempt, Stamp, Cancelled, clearFetchFailure, Restrict, Tick, vars, Tracked
<1> DEFINE K == Kept(stamp[w])
<1>2. PICK gone \in SUBSET K :
         /\ \/ gone = {} /\ (w \in K \/ Cardinality(K) < MaxTracked)
            \/ \E v \in Least(K, failures) :
                  /\ gone = {v} /\ w \notin K /\ Cardinality(K) >= MaxTracked
         /\ failures' = [z \in (K \ gone) \cup {w} |->
                           IF z = w THEN [retryAt |-> stamp[w] + NextDelay(w), delay |-> NextDelay(w)]
                           ELSE failures[z]]
  BY <1>0, <1>1, RecordEffect
<1>3. DOMAIN failures' = (K \ gone) \cup {w}
  BY <1>2
<1>4. y \in K
  <2>1. failures[y].retryAt \in Nat /\ stamp[w] \in Nat /\ now \in Nat /\ stamp[w] <= now
        /\ failures[y].retryAt > now
    BY <1>0 DEF TableType, Entry, StampsPast, Active
  <2> QED BY <2>1 DEF Kept
<1>5. PICK v \in Least(K, failures) : gone = {v} /\ Cardinality(K) >= MaxTracked
  BY <1>2, <1>3, <1>4
<1>6. v = y
  BY <1>3, <1>4, <1>5
<1>7. K = Tracked
  <2>1. K \in SUBSET Tracked
    BY DEF Kept
  <2>2. Cardinality(Tracked) <= MaxTracked
    BY <1>0 DEF TableBounded
  <2> QED BY <1>0, <1>5, <2>1, <2>2, TrackedFinite
<1> QED BY <1>5, <1>6, <1>7 DEF Least

(***************************************************************************)
(* The bound of the table takes a running cooldown only when every tracked  *)
(* year is in cooldown, and then one that ends first, although failures may *)
(* reach the lock out of the order of their timestamps.                     *)
(***************************************************************************)
THEOREM ActiveStaysKept == Spec => ActiveKept
<1>1. CooldownInv /\ [Next]_vars =>
        [\A y \in Tracked \ DOMAIN failures' :
            Active(y, now) /\ ~(DOMAIN failures' \subseteq Tracked)
              => \A z \in Tracked : failures[y].retryAt <= failures[z].retryAt]_vars
  BY EvictionStep
<1> QED BY <1>1, CooldownInit, CooldownStep, PTL DEF Spec, ActiveKept
=============================================================================
