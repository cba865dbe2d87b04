-------------------------- MODULE DecodedYear_proofs --------------------------
(***************************************************************************)
(* Proofs about DecodedYear, for every set of readers, mutators, years and  *)
(* BLOBs and every pair of retention bounds.                                *)
(***************************************************************************)
EXTENDS DecodedYear, FiniteSetTheorems, SequenceTheorems, WellFoundedInduction, TLAPS

-----------------------------------------------------------------------------
(* Helpers                                                                  *)

\* A nonempty set of naturals has the minimum that Min picks.
LEMMA MinNat ==
  ASSUME NEW S, S \subseteq Nat, S # {}
  PROVE  Min(S) \in S /\ \A x \in S : Min(S) =< x
<1> DEFINE R == {ss \in Nat \X Nat : ss[1] < ss[2]}
<1>1. IsWellFoundedOn(R, Nat)
  BY NatLessThanWellFounded DEF OpToRel
<1>2. \A i, j \in Nat : i < j => <<i, j>> \in R
  OBVIOUS
<1> HIDE DEF R
<1>3. PICK m \in S : \A x \in S : ~(<<x, m>> \in R)
  BY <1>1, WFMin, Zenon
<1>4. ASSUME NEW x \in S PROVE m =< x
  <2>1. m \in Nat /\ x \in Nat
    OBVIOUS
  <2>2. ~(x < m)
    BY <1>2, <1>3, <2>1, Zenon
  <2> QED BY <2>1, <2>2
<1> QED BY <1>4 DEF Min

\* Unlinking an element of the recency list leaves a list of years.
LEMMA UnlinkSeq ==
  ASSUME NEW s \in Seq(Years), NEW y
  PROVE  Unlink(s, y) \in Seq(Years)
<1>1. CASE \E i \in 1..Len(s) : s[i] = y
  <2>1. PICK i \in 1..Len(s) : i = CHOOSE j \in 1..Len(s) : s[j] = y
    BY <1>1
  <2>2. /\ SubSeq(s, 1, i - 1) \in Seq(Years)
        /\ SubSeq(s, i + 1, Len(s)) \in Seq(Years)
    <3>1. Len(s) \in Nat /\ i \in 1..Len(s)
      OBVIOUS
    <3>2. /\ 1 \in Int /\ i - 1 \in Int /\ i + 1 \in Int /\ Len(s) \in Int
          /\ 1..(i - 1) \subseteq 1..Len(s)
          /\ (i + 1)..Len(s) \subseteq 1..Len(s)
      BY <3>1
    <3>3. /\ \A j \in 1..(i - 1) : s[j] \in Years
          /\ \A j \in (i + 1)..Len(s) : s[j] \in Years
      BY <3>2, ElementOfSeq, Zenon
    <3> QED BY <3>2, <3>3, SubSeqProperties, Zenon
  <2>3. RemoveAt(s, i) \in Seq(Years)
    BY <2>2, ConcatProperties, Zenon DEF RemoveAt
  <2> QED BY <1>1, <2>1, <2>3 DEF Unlink
<1>2. CASE ~\E i \in 1..Len(s) : s[i] = y
  BY <1>2 DEF Unlink
<1> QED BY <1>1, <1>2

(***************************************************************************)
(* What remove and admit may do to the resident entries: nothing appears    *)
(* except, under admit, the entry of the reader's own year with its BLOB,   *)
(* and only when the cache is open and the reader has not been overtaken.   *)
(***************************************************************************)
LEMMA RemoveEffect ==
  ASSUME TypeOK, NEW y \in Years, remove(y)
  PROVE  /\ entries' = [entries EXCEPT ![y] = NoRow]
         /\ entries' \in [Years -> Valid \cup {NoRow}]
         /\ lru' \in Seq(Years)
BY UnlinkSeq DEF remove, TypeOK

LEMMA AdmitEffect ==
  ASSUME TypeOK, NEW r \in Readers, admit(r), raw[r] \in Valid
  PROVE  /\ entries' \in [Years -> Valid \cup {NoRow}]
         /\ lru' \in Seq(Years)
         /\ \A z \in Years : z # year[r] => entries'[z] \in {entries[z], NoRow}
         /\ entries'[year[r]] \in {entries[year[r]], raw[r]}
         /\ entries' # entries => ~closed /\ gen[r] = generation /\ entries'[year[r]] = raw[r]
<1>1. CASE Refused(r)
  BY <1>1, SMT DEF admit, TypeOK
<1>2. CASE ~Refused(r)
  <2> DEFINE l == Unlink(lru, year[r])
             n == IF entries[year[r]] = NoRow THEN bytes
                  ELSE bytes - Size[entries[year[r]]]
             After(k) == n - SizeAt(l, (k + 1)..Len(l))
             E == {e \in 0..Len(l) :
                     LET k == Len(l) - e IN HasRoom(k, After(k) + Size[raw[r]])}
             kept == Len(l) - Min(E \cup {Len(l)})
  <2>1. l \in Seq(Years)
    BY UnlinkSeq DEF TypeOK
  <2>2. Min(E \cup {Len(l)}) \in E \cup {Len(l)}
    <3>1. E \cup {Len(l)} \subseteq Nat /\ E \cup {Len(l)} # {}
      BY <2>1
    <3> HIDE DEF E, l
    <3> QED BY <3>1, MinNat
  <2>3. /\ entries' = [z \in Years |->
                         IF z = year[r] THEN raw[r]
                         ELSE IF \E i \in 1..kept : l[i] = z THEN entries[z] ELSE NoRow]
        /\ lru' = <<year[r]>> \o SubSeq(l, 1, kept)
    BY <1>2, Zenon DEF admit
  <2>4. kept \in 0..Len(l)
    <3>1. Len(l) \in Nat
      BY <2>1, LenProperties
    <3>2. E \cup {Len(l)} \subseteq 0..Len(l)
      BY <3>1
    <3>3. Min(E \cup {Len(l)}) \in 0..Len(l)
      BY <2>2, <3>2, Zenon
    <3>4. ASSUME NEW m \in 0..Len(l) PROVE Len(l) - m \in 0..Len(l)
      BY <3>1
    <3> QED BY <3>3, <3>4, Zenon
  <2> HIDE DEF kept, l
  <2>5. lru' \in Seq(Years)
    BY <2>1, <2>3, <2>4 DEF TypeOK
  <2>6. ~closed /\ gen[r] = generation
    BY <1>2 DEF Refused
  <2> QED BY <2>3, <2>5, <2>6 DEF TypeOK
<1> QED BY <1>1, <1>2

\* A lookup under r's own year: which entries survive it.
LEMMA LookupMissEffect ==
  ASSUME TypeOK, NEW r \in Readers, LookupMiss(r)
  PROVE  /\ entries' \in [Years -> Valid \cup {NoRow}]
         /\ lru' \in Seq(Years)
         /\ \A z \in Years : z # year[r] => entries'[z] = entries[z]
         /\ entries'[year[r]] \in {entries[year[r]], NoRow}
         /\ entries'[year[r]] # raw[r] \/ raw[r] = NoRow
         /\ entries' # entries => gen[r] = generation
         /\ generation' = generation /\ closed' = closed
<1>1. CASE MayEvict(r)
  <2>1. remove(year[r]) /\ year[r] \in Years
    BY <1>1, Zenon DEF LookupMiss, TypeOK
  <2>2. /\ entries' = [entries EXCEPT ![year[r]] = NoRow]
        /\ entries' \in [Years -> Valid \cup {NoRow}]
        /\ lru' \in Seq(Years)
    BY <2>1, RemoveEffect, Zenon
  <2>3. entries \in [Years -> Valid \cup {NoRow}]
    BY DEF TypeOK
  <2> QED BY <1>1, <2>1, <2>2, <2>3 DEF LookupMiss, MayEvict
<1>2. CASE ~MayEvict(r)
  <2>1. entries' = entries /\ lru' = lru
    BY <1>2, Zenon DEF LookupMiss
  <2> QED BY <2>1 DEF LookupMiss, Matches, TypeOK
<1> QED BY <1>1, <1>2

LEMMA LookupHitEffect ==
  ASSUME TypeOK, NEW r \in Readers, LookupHit(r)
  PROVE  /\ entries' = entries
         /\ lru' \in Seq(Years)
         /\ generation' = generation /\ closed' = closed
         /\ entries[year[r]] = raw[r] /\ raw[r] \in Valid
         /\ shows' = [shows EXCEPT ![r] = raw[r]]
<1>1. Unlink(lru, year[r]) \in Seq(Years)
  BY UnlinkSeq DEF TypeOK
<1>2. lru' \in Seq(Years)
  BY <1>1 DEF LookupHit, TypeOK
<1> QED BY <1>2 DEF LookupHit, Matches, TypeOK

\* What an invalidation does to the entries.
LEMMA DropEffect ==
  ASSUME TypeOK, NEW Y \in SUBSET Years, NEW close \in BOOLEAN, Drop(Y, close),
         Y = Years \/ \E y \in Years : Y = {y}
  PROVE  /\ entries' \in [Years -> Valid \cup {NoRow}]
         /\ lru' \in Seq(Years)
         /\ \A z \in Years : entries'[z] = IF z \in Y THEN NoRow ELSE entries[z]
         /\ generation' = generation + 1
         /\ closed' = (closed \/ close)
         /\ closed' \in BOOLEAN
         /\ foreign' = foreign \ Y
         /\ UNCHANGED <<gateVars, readerVars, db>>
<1>0. /\ generation' = generation + 1 /\ closed' = (closed \/ close)
      /\ foreign' = foreign \ Y /\ UNCHANGED <<gateVars, readerVars, db>>
      /\ closed' \in BOOLEAN
  BY Zenon DEF Drop
<1>1. CASE Y = Years
  <2>1. entries' = [y \in Years |-> NoRow] /\ lru' = <<>>
    BY <1>1, Zenon DEF Drop
  <2> QED BY <1>0, <1>1, <2>1 DEF TypeOK
<1>2. CASE Y # Years
  <2>1. PICK y \in Years : /\ Y = {y}
                           /\ IF entries[y] # NoRow THEN remove(y)
                              ELSE UNCHANGED <<entries, lru, bytes>>
    BY <1>2 DEF Drop
  <2>2. CASE entries[y] # NoRow
    <3>1. /\ entries' = [entries EXCEPT ![y] = NoRow]
          /\ entries' \in [Years -> Valid \cup {NoRow}]
          /\ lru' \in Seq(Years)
      BY <2>1, <2>2, RemoveEffect, Zenon
    <3>2. entries \in [Years -> Valid \cup {NoRow}]
      BY DEF TypeOK
    <3> QED BY <1>0, <2>1, <3>1, <3>2
  <2>3. CASE entries[y] = NoRow
    BY <1>0, <2>1, <2>3 DEF TypeOK
  <2> QED BY <2>2, <2>3
<1> QED BY <1>1, <1>2

-----------------------------------------------------------------------------
(* Type correctness                                                         *)

LEMMA InitType == Init => TypeOK
<1> SUFFICES ASSUME Init PROVE TypeOK
  OBVIOUS
<1>1. /\ entries \in [Years -> Valid \cup {NoRow}]
      /\ lru \in Seq(Years)
      /\ cover \in [Mutators -> SUBSET Years]
      /\ \A m \in Mutators : cover[m] \in {{}, Years} \/ \E y \in Years : cover[m] = {y}
  BY DEF Init
<1>2. /\ pc \in [Readers -> PCs] /\ year \in [Readers -> Years] /\ gen \in [Readers -> Nat]
      /\ raw \in [Readers -> Row] /\ shows \in [Readers -> Row \cup {Failed}]
      /\ cancelled \in [Readers -> BOOLEAN]
  BY DEF Init, PCs, Row
<1>3. /\ db \in [Years -> Row] /\ dbOpen \in BOOLEAN /\ foreign \subseteq Years
      /\ generation \in Nat /\ refs \in [Years -> Int]
  BY DEF Init
<1>4. closed \in BOOLEAN /\ token \in [Years -> BOOLEAN]
  BY Zenon DEF Init
<1> QED BY <1>1, <1>2, <1>3, <1>4 DEF TypeOK

LEMMA CommitType ==
  ASSUME TypeOK, NEW next \in [Years -> Row], Commit(next)
  PROVE  /\ db' = next /\ dbOpen' = dbOpen
         /\ UNCHANGED <<memVars, gateVars, readerVars>>
BY DEF Commit

LEMMA NextType == TypeOK /\ [Next]_vars => TypeOK'
<1> SUFFICES ASSUME TypeOK, [Next]_vars PROVE TypeOK'
  OBVIOUS
<1> USE DEF dbVars, memVars, gateVars, readerVars, Goto, Settle, PCs
<1>1. ASSUME NEW r \in Readers, NEW y \in Years, Begin(r, y) PROVE TypeOK'
  <2>1. db[y] \in Row
    BY DEF TypeOK
  <2> QED BY <1>1, <2>1 DEF Begin, TypeOK
<1>2. ASSUME NEW r \in Readers, Cancel(r) PROVE TypeOK'
  BY <1>2 DEF Cancel, TypeOK
<1>3. ASSUME NEW r \in Readers, Query(r) PROVE TypeOK'
  BY <1>3 DEF Query, TypeOK
<1>4. ASSUME NEW r \in Readers, QueryError(r) PROVE TypeOK'
  BY <1>4 DEF QueryError, TypeOK
<1>5. ASSUME NEW r \in Readers, Lookup(r) PROVE TypeOK'
  <2>1. CASE LookupHit(r) /\ Goto(r, "copy")
    BY <1>5, <2>1, LookupHitEffect, RawAssumption DEF Lookup, TypeOK, Row
  <2>2. CASE LookupMiss(r) /\ raw[r] = NoRow /\ Settle(r, NoRow) /\ Goto(r, "done")
    BY <1>5, <2>2, LookupMissEffect DEF Lookup, TypeOK, Row
  <2>3. CASE LookupMiss(r) /\ raw[r] # NoRow /\ Goto(r, "enter") /\ UNCHANGED shows
    BY <1>5, <2>3, LookupMissEffect DEF Lookup, TypeOK
  <2> QED BY <1>5, <2>1, <2>2, <2>3 DEF Lookup
<1>6. ASSUME NEW r \in Readers, EnterGate(r) PROVE TypeOK'
  <2>1. year[r] \in Years /\ refs[year[r]] + 1 \in Int
    BY DEF TypeOK
  <2> QED BY <1>6, <2>1 DEF EnterGate, TypeOK
<1>7. ASSUME NEW r \in Readers, TakeToken(r) PROVE TypeOK'
  BY <1>7 DEF TakeToken, TypeOK
<1>8. ASSUME NEW r \in Readers, AbandonWait(r) PROVE TypeOK'
  <2>1. year[r] \in Years /\ refs[year[r]] - 1 \in Int
    BY DEF TypeOK
  <2> QED BY <1>8, <2>1 DEF AbandonWait, TypeOK
<1>9. ASSUME NEW r \in Readers, Recheck(r) PROVE TypeOK'
  <2>1. CASE cancelled[r] /\ Settle(r, Failed) /\ Goto(r, "release") /\ UNCHANGED memVars
    BY <1>9, <2>1 DEF Recheck, TypeOK
  <2>2. CASE ~cancelled[r] /\ LookupHit(r) /\ Goto(r, "heldCopy")
    BY <1>9, <2>2, LookupHitEffect, RawAssumption DEF Recheck, TypeOK, Row
  <2>3. CASE ~cancelled[r] /\ LookupMiss(r) /\ Goto(r, "decode") /\ UNCHANGED shows
    BY <1>9, <2>3, LookupMissEffect DEF Recheck, TypeOK
  <2> QED BY <1>9, <2>1, <2>2, <2>3 DEF Recheck
<1>10. ASSUME NEW r \in Readers, Decode(r) PROVE TypeOK'
  <2>1. CASE cancelled[r]
    BY <1>10, <2>1 DEF Decode, TypeOK
  <2>2. CASE ~cancelled[r] /\ raw[r] \in Valid
    BY <1>10, <2>2, AdmitEffect DEF Decode, Retainable, TypeOK
  <2>3. CASE ~cancelled[r] /\ raw[r] \notin Valid
    BY <1>10, <2>3 DEF Decode, Retainable, TypeOK
  <2> QED BY <2>1, <2>2, <2>3
<1>11. ASSUME NEW r \in Readers, Copy(r) PROVE TypeOK'
  BY <1>11 DEF Copy, TypeOK
<1>12. ASSUME NEW r \in Readers, ReleaseToken(r) PROVE TypeOK'
  BY <1>12 DEF ReleaseToken, TypeOK
<1>13. ASSUME NEW r \in Readers, Unref(r) PROVE TypeOK'
  <2>1. year[r] \in Years /\ refs[year[r]] - 1 \in Int
    BY DEF TypeOK
  <2> QED BY <1>13, <2>1 DEF Unref, TypeOK
<1>14. ASSUME NEW r \in Readers, Return(r) PROVE TypeOK'
  BY <1>14 DEF Return, TypeOK, Row
<1>15. ASSUME NEW m \in Mutators, NEW y \in Years, NEW b \in Raw, SetYear(m, y, b)
       PROVE  TypeOK'
  <2>1. [db EXCEPT ![y] = b] \in [Years -> Row]
    BY DEF TypeOK, Row
  <2> QED BY <1>15, <2>1, CommitType DEF SetYear, TypeOK
<1>16. ASSUME NEW m \in Mutators, Clear(m) PROVE TypeOK'
  <2>1. [y \in Years |-> NoRow] \in [Years -> Row]
    BY DEF Row
  <2> QED BY <1>16, <2>1, CommitType DEF Clear, TypeOK
<1>17. ASSUME NEW m \in Mutators, NEW Y \in SUBSET Years, PruneStaleYears(m, Y)
       PROVE  TypeOK'
  <2>1. [y \in Years |-> IF y \in Y THEN NoRow ELSE db[y]] \in [Years -> Row]
    BY DEF TypeOK, Row
  <2> QED BY <1>17, <2>1, CommitType DEF PruneStaleYears, TypeOK
<1>18. ASSUME NEW m \in Mutators, Invalidate(m) PROVE TypeOK'
  <2>1. cover[m] \in SUBSET Years /\ (cover[m] = Years \/ \E y \in Years : cover[m] = {y})
    BY <1>18 DEF Invalidate, TypeOK
  <2>2. /\ entries' \in [Years -> Valid \cup {NoRow}] /\ lru' \in Seq(Years)
        /\ generation' = generation + 1 /\ closed' \in BOOLEAN
        /\ foreign' = foreign \ cover[m]
        /\ UNCHANGED <<gateVars, readerVars, db>>
    BY <1>18, <2>1, DropEffect, Zenon DEF Invalidate
  <2>3. /\ cover' \in [Mutators -> SUBSET Years]
        /\ \A k \in Mutators : cover'[k] \in {{}, Years} \/ \E y \in Years : cover'[k] = {y}
    BY <1>18 DEF Invalidate, TypeOK
  <2>4. foreign' \subseteq Years /\ generation' \in Nat /\ dbOpen' = dbOpen
    BY <1>18, <2>2 DEF Invalidate, TypeOK
  <2> QED BY <2>2, <2>3, <2>4 DEF TypeOK
<1>19. ASSUME NEW y \in Years, NEW b \in Row, ForeignWrite(y, b) PROVE TypeOK'
  <2>1. [db EXCEPT ![y] = b] \in [Years -> Row]
    BY DEF TypeOK
  <2> QED BY <1>19, <2>1, CommitType DEF ForeignWrite, TypeOK
<1>20. ASSUME Close PROVE TypeOK'
  <2>1. /\ entries' \in [Years -> Valid \cup {NoRow}] /\ lru' \in Seq(Years)
        /\ generation' = generation + 1 /\ closed' \in BOOLEAN
        /\ foreign' = foreign \ Years
        /\ UNCHANGED <<gateVars, readerVars, db>>
    BY <1>20, DropEffect, Zenon DEF Close
  <2>2. /\ foreign' \subseteq Years /\ generation' \in Nat
        /\ dbOpen' = dbOpen /\ cover' = cover
    BY <1>20, <2>1 DEF Close, TypeOK
  <2> QED BY <2>1, <2>2 DEF TypeOK
<1>21. ASSUME CloseDB PROVE TypeOK'
  BY <1>21 DEF CloseDB, TypeOK
<1>22. CASE UNCHANGED vars
  BY <1>22 DEF vars, TypeOK
<1> QED
  BY <1>1, <1>2, <1>3, <1>4, <1>5, <1>6, <1>7, <1>8, <1>9, <1>10, <1>11, <1>12,
     <1>13, <1>14, <1>15, <1>16, <1>17, <1>18, <1>19, <1>20, <1>21, <1>22
  DEF Next, ReaderStep, MutatorStep

(***************************************************************************)
(* Type correctness of the decoded-year cache: in every reachable state     *)
(* only BLOBs DecodeYearData accepts are resident.                          *)
(***************************************************************************)
THEOREM TypeCorrect == Spec => []TypeOK
<1>1. Init => TypeOK
  BY InitType
<1>2. TypeOK /\ [Next]_vars => TypeOK'
  BY NextType
<1> QED BY <1>1, <1>2, PTL DEF Spec

-----------------------------------------------------------------------------
(* Coherence of memory with SQLite                                          *)

CoherenceInv == ReadsFenced /\ Coherent /\ ClosedEmpty

(***************************************************************************)
(* A step that leaves SQLite, the generation and the pending invalidations  *)
(* alone keeps the invariant when no reader gains a row by it and every     *)
(* entry it adds comes from a read that is still current.                   *)
(***************************************************************************)
LEMMA QuietStep ==
  ASSUME TypeOK, TypeOK', CoherenceInv,
         UNCHANGED <<db, foreign, generation, closed, cover>>,
         \A s \in Readers : gen'[s] <= generation,
         \A s \in Readers : pc'[s] \in HasRow =>
            \/ raw'[s] = db[year'[s]]
            \/ /\ pc[s] \in HasRow /\ raw'[s] = raw[s]
               /\ year'[s] = year[s] /\ gen'[s] = gen[s],
         \A y \in Years : \/ entries'[y] \in {entries[y], NoRow}
                          \/ /\ ~closed
                             /\ \E s \in Readers : /\ pc[s] \in HasRow /\ year[s] = y
                                                   /\ gen[s] = generation
                                                   /\ entries'[y] = raw[s]
  PROVE  CoherenceInv'
<1>1. \A y \in Years : Unannounced(y)' = Unannounced(y)
  BY DEF Unannounced
<1>2. ReadsFenced'
  BY <1>1 DEF CoherenceInv, ReadsFenced, TypeOK
<1>3. Coherent'
  <2> SUFFICES ASSUME NEW y \in Years, ~Unannounced(y)
               PROVE  entries'[y] \in {NoRow, db[y]}
    BY <1>1 DEF Coherent
  <2>1. entries[y] \in {NoRow, db[y]}
    BY DEF CoherenceInv, Coherent
  <2>2. \A s \in Readers : pc[s] \in HasRow /\ year[s] = y /\ gen[s] = generation
                          => raw[s] = db[y]
    BY DEF CoherenceInv, ReadsFenced
  <2> QED BY <2>1, <2>2
<1>4. ClosedEmpty'
  BY DEF CoherenceInv, ClosedEmpty, Resident, TypeOK
<1> QED BY <1>2, <1>3, <1>4 DEF CoherenceInv

(***************************************************************************)
(* A commit leaves memory alone and announces, in cover or foreign, every   *)
(* year whose row it changed.                                               *)
(***************************************************************************)
LEMMA CommitStep ==
  ASSUME TypeOK, TypeOK', CoherenceInv, UNCHANGED <<memVars, pc, year, gen, raw>>,
         \A y \in Years : Unannounced(y) => Unannounced(y)',
         \A y \in Years : db'[y] # db[y] => Unannounced(y)'
  PROVE  CoherenceInv'
<1> USE DEF memVars
<1>1. ReadsFenced'
  BY DEF CoherenceInv, ReadsFenced, TypeOK
<1>2. Coherent'
  BY DEF CoherenceInv, Coherent
<1>3. ClosedEmpty'
  BY DEF CoherenceInv, ClosedEmpty, Resident
<1> QED BY <1>1, <1>2, <1>3 DEF CoherenceInv

(***************************************************************************)
(* An invalidation moves the generation, so that every read under way is    *)
(* fenced off, and drops what it no longer announces.                       *)
(***************************************************************************)
LEMMA DropStep ==
  ASSUME TypeOK, TypeOK', CoherenceInv, NEW Y \in SUBSET Years,
         \A z \in Years : entries'[z] = IF z \in Y THEN NoRow ELSE entries[z],
         generation' = generation + 1,
         closed' => closed \/ Y = Years,
         UNCHANGED <<pc, year, gen, raw, db>>,
         \A z \in Years \ Y : Unannounced(z)' = Unannounced(z)
  PROVE  CoherenceInv'
<1>1. ReadsFenced'
  BY DEF CoherenceInv, ReadsFenced, TypeOK
<1>2. Coherent'
  BY DEF CoherenceInv, Coherent, TypeOK
<1>3. ClosedEmpty'
  BY DEF CoherenceInv, ClosedEmpty, Resident, TypeOK
<1> QED BY <1>1, <1>2, <1>3 DEF CoherenceInv

LEMMA CoherenceStep == TypeOK /\ TypeOK' /\ CoherenceInv /\ [Next]_vars => CoherenceInv'
<1> SUFFICES ASSUME TypeOK, TypeOK', CoherenceInv, [Next]_vars PROVE CoherenceInv'
  OBVIOUS
<1> USE DEF dbVars, memVars, gateVars, readerVars, Goto, HasRow
<1>0. \A s \in Readers : gen[s] \in Nat /\ gen[s] <= generation /\ generation \in Nat
  BY DEF CoherenceInv, ReadsFenced, TypeOK
<1>1. ASSUME NEW r \in Readers, NEW y \in Years, Begin(r, y) PROVE CoherenceInv'
  <2>1. \A s \in Readers : gen'[s] <= generation
    BY <1>0, <1>1 DEF Begin, TypeOK
  <2>2. \A s \in Readers : pc'[s] \in HasRow =>
           pc[s] \in HasRow /\ raw'[s] = raw[s] /\ year'[s] = year[s] /\ gen'[s] = gen[s]
    BY <1>1 DEF Begin, TypeOK
  <2>3. UNCHANGED <<db, foreign, generation, closed, cover, entries>>
    BY <1>1 DEF Begin
  <2> QED BY <2>1, <2>2, <2>3, QuietStep
<1>2. ASSUME NEW r \in Readers, Cancel(r) PROVE CoherenceInv'
  BY <1>0, <1>2, QuietStep DEF Cancel
<1>3. ASSUME NEW r \in Readers, Query(r) PROVE CoherenceInv'
  BY <1>0, <1>3, QuietStep DEF Query, TypeOK
<1>4. ASSUME NEW r \in Readers, QueryError(r) PROVE CoherenceInv'
  BY <1>0, <1>4, QuietStep DEF QueryError, TypeOK
<1>5. ASSUME NEW r \in Readers, Lookup(r) PROVE CoherenceInv'
  <2>1. CASE LookupHit(r) /\ Goto(r, "copy")
    BY <1>0, <1>5, <2>1, LookupHitEffect, QuietStep DEF Lookup, TypeOK
  <2>2. CASE LookupMiss(r) /\ raw[r] = NoRow /\ Settle(r, NoRow) /\ Goto(r, "done")
    BY <1>0, <1>5, <2>2, LookupMissEffect, QuietStep DEF Lookup, TypeOK
  <2>3. CASE LookupMiss(r) /\ raw[r] # NoRow /\ Goto(r, "enter") /\ UNCHANGED shows
    BY <1>0, <1>5, <2>3, LookupMissEffect, QuietStep DEF Lookup, TypeOK
  <2> QED BY <1>5, <2>1, <2>2, <2>3 DEF Lookup
<1>6. ASSUME NEW r \in Readers, EnterGate(r) PROVE CoherenceInv'
  BY <1>0, <1>6, QuietStep DEF EnterGate, TypeOK
<1>7. ASSUME NEW r \in Readers, TakeToken(r) PROVE CoherenceInv'
  BY <1>0, <1>7, QuietStep DEF TakeToken, TypeOK
<1>8. ASSUME NEW r \in Readers, AbandonWait(r) PROVE CoherenceInv'
  BY <1>0, <1>8, QuietStep DEF AbandonWait, TypeOK
<1>9. ASSUME NEW r \in Readers, Recheck(r) PROVE CoherenceInv'
  <2>1. CASE cancelled[r] /\ Settle(r, Failed) /\ Goto(r, "release") /\ UNCHANGED memVars
    BY <1>0, <1>9, <2>1, QuietStep DEF Recheck, TypeOK
  <2>2. CASE ~cancelled[r] /\ LookupHit(r) /\ Goto(r, "heldCopy")
    BY <1>0, <1>9, <2>2, LookupHitEffect, QuietStep DEF Recheck, TypeOK
  <2>3. CASE ~cancelled[r] /\ LookupMiss(r) /\ Goto(r, "decode") /\ UNCHANGED shows
    BY <1>0, <1>9, <2>3, LookupMissEffect, QuietStep DEF Recheck, TypeOK
  <2> QED BY <1>9, <2>1, <2>2, <2>3 DEF Recheck
<1>10. ASSUME NEW r \in Readers, Decode(r) PROVE CoherenceInv'
  <2>1. CASE cancelled[r]
    BY <1>0, <1>10, <2>1, QuietStep DEF Decode, TypeOK
  <2>2. CASE ~cancelled[r] /\ raw[r] \in Valid
    <3>1. admit(r) /\ pc[r] = "decode"
      BY <1>10, <2>2, Zenon DEF Decode, Retainable
    <3>2. /\ \A z \in Years : z # year[r] => entries'[z] \in {entries[z], NoRow}
          /\ entries'[year[r]] \in {entries[year[r]], raw[r]}
          /\ entries' # entries => ~closed /\ gen[r] = generation /\ entries'[year[r]] = raw[r]
      BY <2>2, <3>1, AdmitEffect, Zenon
    <3>3. \A y \in Years : \/ entries'[y] \in {entries[y], NoRow}
                           \/ /\ ~closed
                              /\ \E s \in Readers : /\ pc[s] \in HasRow /\ year[s] = y
                                                    /\ gen[s] = generation
                                                    /\ entries'[y] = raw[s]
      BY <3>1, <3>2
    <3>4. \A s \in Readers : pc'[s] \in HasRow =>
             pc[s] \in HasRow /\ raw'[s] = raw[s] /\ year'[s] = year[s] /\ gen'[s] = gen[s]
      BY <1>10, <2>2 DEF Decode, TypeOK
    <3>5. UNCHANGED <<db, foreign, generation, closed, cover, gen>>
      BY <1>10, <2>2 DEF Decode
    <3> QED BY <1>0, <3>3, <3>4, <3>5, QuietStep
  <2>3. CASE ~cancelled[r] /\ raw[r] \notin Valid
    BY <1>0, <1>10, <2>3, QuietStep DEF Decode, Retainable, TypeOK
  <2> QED BY <2>1, <2>2, <2>3
<1>11. ASSUME NEW r \in Readers, Copy(r) PROVE CoherenceInv'
  BY <1>0, <1>11, QuietStep DEF Copy, TypeOK
<1>12. ASSUME NEW r \in Readers, ReleaseToken(r) PROVE CoherenceInv'
  BY <1>0, <1>12, QuietStep DEF ReleaseToken, TypeOK
<1>13. ASSUME NEW r \in Readers, Unref(r) PROVE CoherenceInv'
  BY <1>0, <1>13, QuietStep DEF Unref, TypeOK
<1>14. ASSUME NEW r \in Readers, Return(r) PROVE CoherenceInv'
  <2>1. \A s \in Readers : gen'[s] <= generation
    BY <1>0, <1>14 DEF Return, TypeOK
  <2>2. \A s \in Readers : pc'[s] \in HasRow =>
           pc[s] \in HasRow /\ raw'[s] = raw[s] /\ year'[s] = year[s] /\ gen'[s] = gen[s]
    BY <1>14 DEF Return, TypeOK
  <2>3. UNCHANGED <<db, foreign, generation, closed, cover, entries>>
    BY <1>14 DEF Return
  <2> QED BY <2>1, <2>2, <2>3, QuietStep
<1>15. ASSUME NEW m \in Mutators, NEW y \in Years, NEW b \in Raw, SetYear(m, y, b)
       PROVE  CoherenceInv'
  BY <1>15, CommitStep DEF SetYear, MayMutate, Commit, Unannounced, TypeOK
<1>16. ASSUME NEW m \in Mutators, Clear(m) PROVE CoherenceInv'
  BY <1>16, CommitStep DEF Clear, MayMutate, Commit, Unannounced, TypeOK
<1>17. ASSUME NEW m \in Mutators, NEW Y \in SUBSET Years, PruneStaleYears(m, Y)
       PROVE  CoherenceInv'
  BY <1>17, CommitStep DEF PruneStaleYears, MayMutate, Commit, Unannounced, TypeOK
<1>18. ASSUME NEW m \in Mutators, Invalidate(m) PROVE CoherenceInv'
  <2>1. cover[m] \in SUBSET Years /\ (cover[m] = Years \/ \E y \in Years : cover[m] = {y})
    BY <1>18 DEF Invalidate, TypeOK
  <2>2. /\ \A z \in Years : entries'[z] = IF z \in cover[m] THEN NoRow ELSE entries[z]
        /\ generation' = generation + 1 /\ closed' = (closed \/ FALSE)
        /\ foreign' = foreign \ cover[m]
        /\ UNCHANGED <<gateVars, readerVars, db>>
    BY <1>18, <2>1, DropEffect, Zenon DEF Invalidate
  <2>3. \A z \in Years \ cover[m] : Unannounced(z)' = Unannounced(z)
    BY <1>18, <2>2 DEF Invalidate, Unannounced, TypeOK
  <2> QED BY <2>1, <2>2, <2>3, DropStep
<1>19. ASSUME NEW y \in Years, NEW b \in Row, ForeignWrite(y, b) PROVE CoherenceInv'
  BY <1>19, CommitStep DEF ForeignWrite, Commit, Unannounced, TypeOK
<1>20. ASSUME Close PROVE CoherenceInv'
  <2>1. /\ \A z \in Years : entries'[z] = IF z \in Years THEN NoRow ELSE entries[z]
        /\ generation' = generation + 1
        /\ UNCHANGED <<gateVars, readerVars, db>>
    BY <1>20, DropEffect, Zenon DEF Close
  <2> QED BY <2>1, DropStep
<1>21. ASSUME CloseDB PROVE CoherenceInv'
  BY <1>0, <1>21, QuietStep DEF CloseDB
<1>22. CASE UNCHANGED vars
  BY <1>0, <1>22, QuietStep DEF vars
<1> QED
  BY <1>1, <1>2, <1>3, <1>4, <1>5, <1>6, <1>7, <1>8, <1>9, <1>10, <1>11, <1>12,
     <1>13, <1>14, <1>15, <1>16, <1>17, <1>18, <1>19, <1>20, <1>21, <1>22
  DEF Next, ReaderStep, MutatorStep

(***************************************************************************)
(* Once SetYearContext, ClearContext or a prune has invalidated, memory     *)
(* holds no decoding of a replaced row; reads are fenced by the generation  *)
(* and a closed cache stays empty.                                          *)
(***************************************************************************)
THEOREM Coherence == Spec => [](Coherent /\ ReadsFenced /\ ClosedEmpty)
<1>1. Init => TypeOK /\ CoherenceInv
  BY InitType DEF Init, CoherenceInv, ReadsFenced, Coherent, ClosedEmpty, Resident, HasRow
<1>2. TypeOK /\ CoherenceInv /\ [Next]_vars => TypeOK' /\ CoherenceInv'
  BY NextType, CoherenceStep
<1>3. CoherenceInv => Coherent /\ ReadsFenced /\ ClosedEmpty
  BY DEF CoherenceInv
<1> QED BY <1>1, <1>2, <1>3, PTL DEF Spec
-----------------------------------------------------------------------------
(* Decode gates                                                             *)

Users(y) == {r \in Readers : pc[r] \in Referencing /\ year[r] = y}

\* At most one owner; the token is away exactly while somebody owns it.
GateOwned ==
  /\ \A r, s \in Readers : pc[r] \in Owning /\ pc[s] \in Owning /\ year[r] = year[s] => r = s
  /\ \A r \in Readers : pc[r] \in Owning => ~token[year[r]]
  /\ \A y \in Years : refs[y] > 0 /\ ~token[y] => \E r \in Readers : pc[r] \in Owning /\ year[r] = y

RefsCounted == \A y \in Years : refs[y] = Cardinality(Users(y))

\* A reader bound for the decoder has a row, and the decoder's is not resident.
DecodesAnew ==
  \A r \in Readers : /\ pc[r] \in {"enter", "wait", "held", "decode"} => raw[r] # NoRow
                     /\ pc[r] = "decode" => entries[year[r]] # raw[r]

GateInv == GateOwned /\ RefsCounted /\ DecodesAnew

LEMMA UsersFinite ==
  ASSUME NEW y
  PROVE  IsFiniteSet(Users(y)) /\ IsFiniteSet(Users(y)') /\ Cardinality(Users(y)) \in Nat
<1>1. Users(y) \subseteq Readers /\ Users(y)' \subseteq Readers
  BY DEF Users
<1> QED BY <1>1, ReadersAssumption, FS_Subset, FS_CardinalityType

\* Nobody joins or leaves a gate.
LEMMA GatesAlone ==
  ASSUME TypeOK, GateOwned, RefsCounted, UNCHANGED gateVars,
         \A s \in Readers : /\ pc'[s] \in Owning <=> pc[s] \in Owning
                            /\ pc'[s] \in Referencing <=> pc[s] \in Referencing
                            /\ pc[s] \in Referencing => year'[s] = year[s]
  PROVE  GateOwned' /\ RefsCounted'
<1>1. \A y \in Years : Users(y)' = Users(y)
  BY DEF Users
<1>2. RefsCounted'
  BY <1>1 DEF RefsCounted, gateVars
<1>3. GateOwned'
  BY DEF GateOwned, gateVars, Referencing
<1> QED BY <1>2, <1>3

\* A reference more or less.
LEMMA RefsMove ==
  ASSUME TypeOK, RefsCounted, NEW r \in Readers, UNCHANGED year,
         \A s \in Readers : s # r => (pc'[s] \in Referencing <=> pc[s] \in Referencing),
         \/ /\ pc[r] \notin Referencing /\ pc'[r] \in Referencing
            /\ refs' = [refs EXCEPT ![year[r]] = @ + 1]
         \/ /\ pc[r] \in Referencing /\ pc'[r] \notin Referencing
            /\ refs' = [refs EXCEPT ![year[r]] = @ - 1]
  PROVE  RefsCounted'
<1> SUFFICES ASSUME NEW y \in Years PROVE refs'[y] = Cardinality(Users(y)')
  BY DEF RefsCounted
<1>0. refs[y] = Cardinality(Users(y)) /\ refs[y] \in Nat
  BY UsersFinite DEF RefsCounted
<1>1. CASE y # year[r]
  <2>1. Users(y)' = Users(y)
    BY <1>1 DEF Users
  <2> QED BY <1>0, <1>1, <2>1 DEF TypeOK
<1>2. CASE y = year[r] /\ pc[r] \notin Referencing
  <2>1. r \notin Users(y) /\ Users(y)' = Users(y) \cup {r}
    BY <1>2 DEF Users
  <2>2. Cardinality(Users(y) \cup {r}) = Cardinality(Users(y)) + 1
    BY <2>1, UsersFinite, FS_AddElement
  <2>3. refs'[y] = refs[y] + 1
    BY <1>2 DEF TypeOK
  <2> QED BY <1>0, <2>1, <2>2, <2>3
<1>3. CASE y = year[r] /\ pc[r] \in Referencing
  <2>1. r \in Users(y) /\ Users(y)' = Users(y) \ {r}
    BY <1>3 DEF Users
  <2>2. Cardinality(Users(y) \ {r}) = Cardinality(Users(y)) - 1
    BY <2>1, UsersFinite, FS_RemoveElement
  <2>3. refs'[y] = refs[y] - 1
    BY <1>3 DEF TypeOK
  <2> QED BY <1>0, <2>1, <2>2, <2>3
<1> QED BY <1>1, <1>2, <1>3

\* A gate somebody refers to is counted.
LEMMA ReferencedCounted ==
  ASSUME TypeOK, RefsCounted, NEW r \in Readers, pc[r] \in Referencing
  PROVE  refs[year[r]] > 0
<1>1. r \in Users(year[r]) /\ year[r] \in Years
  BY DEF Users, TypeOK
<1>2. Cardinality(Users(year[r])) # 0
  BY <1>1, UsersFinite, FS_EmptySet
<1> QED BY <1>1, <1>2, UsersFinite DEF RefsCounted

LEMMA GateStep ==
  ASSUME TypeOK, TypeOK', GateOwned, RefsCounted, [Next]_vars
  PROVE  GateOwned' /\ RefsCounted'
<1> USE DEF dbVars, memVars, gateVars, readerVars, Goto
<1>0. /\ Owning = {"held", "decode", "heldCopy", "release"}
      /\ Referencing = Owning \cup {"wait", "unref"}
  BY DEF Owning, Referencing
<1>1. ASSUME NEW r \in Readers, \E y \in Years : Begin(r, y) PROVE GateOwned' /\ RefsCounted'
  BY <1>0, <1>1, GatesAlone DEF Begin, TypeOK
<1>2. ASSUME NEW r \in Readers, Cancel(r) PROVE GateOwned' /\ RefsCounted'
  BY <1>2, GatesAlone DEF Cancel
<1>3. ASSUME NEW r \in Readers, Query(r) \/ QueryError(r) \/ Lookup(r) \/ Return(r)
      PROVE  GateOwned' /\ RefsCounted'
  BY <1>0, <1>3, GatesAlone DEF Query, QueryError, Lookup, Return, TypeOK
<1>4. ASSUME NEW r \in Readers, Recheck(r) \/ Decode(r) PROVE GateOwned' /\ RefsCounted'
  BY <1>0, <1>4, GatesAlone DEF Recheck, Decode, TypeOK
<1>5. ASSUME NEW r \in Readers, Copy(r) PROVE GateOwned' /\ RefsCounted'
  BY <1>0, <1>5, GatesAlone DEF Copy, TypeOK
<1>6. ASSUME NEW r \in Readers, EnterGate(r) PROVE GateOwned' /\ RefsCounted'
  <2>1. /\ \A s \in Readers : pc'[s] = IF s = r THEN "wait" ELSE pc[s]
        /\ pc[r] = "enter" /\ year' = year /\ year[r] \in Years
    BY <1>6 DEF EnterGate, TypeOK
  <2>2. RefsCounted'
    <3>1. /\ \A s \in Readers : s # r => (pc'[s] \in Referencing <=> pc[s] \in Referencing)
          /\ pc[r] \notin Referencing /\ pc'[r] \in Referencing
      BY <1>0, <2>1
    <3>2. refs' = [refs EXCEPT ![year[r]] = @ + 1] /\ UNCHANGED year
      BY <1>6 DEF EnterGate
    <3> QED BY <3>1, <3>2, RefsMove, Zenon
  <2>3. \A s \in Readers : pc[s] \in Owning => refs[year[s]] > 0
    BY <1>0, ReferencedCounted
  <2>4. \A y \in Years : /\ y = year[r] /\ refs[y] = 0 => token'[y]
                         /\ ~(y = year[r] /\ refs[y] = 0) => token'[y] = token[y]
    <3>1. token' = [token EXCEPT ![year[r]] = IF refs[year[r]] = 0 THEN TRUE ELSE token[year[r]]]
      BY <1>6 DEF EnterGate
    <3>2. DOMAIN token = Years
      BY DEF TypeOK
    <3> QED BY <2>1, <3>1, <3>2, Zenon
  <2>5. \A y \in Years : refs'[y] = IF y = year[r] THEN refs[y] + 1 ELSE refs[y]
    BY <1>6 DEF EnterGate, TypeOK
  <2>6. \A s \in Readers : pc'[s] \in Owning <=> pc[s] \in Owning
    BY <1>0, <2>1
  <2>7. ASSUME NEW s \in Readers, pc'[s] \in Owning PROVE ~token'[year'[s]]
    <3>1. pc[s] \in Owning /\ refs[year[s]] > 0 /\ year[s] \in Years
      BY <2>3, <2>6, <2>7 DEF TypeOK
    <3>2. refs[year[s]] # 0
      BY <3>1 DEF TypeOK
    <3> QED BY <2>1, <2>4, <3>1, <3>2 DEF GateOwned
  <2>8. ASSUME NEW y \in Years, refs'[y] > 0, ~token'[y]
        PROVE  \E s \in Readers : pc'[s] \in Owning /\ year'[s] = y
    <3>1. refs[y] > 0 /\ ~token[y]
      <4>1. refs[y] \in Nat
        BY UsersFinite DEF RefsCounted
      <4>2. CASE y = year[r]
        <5>1. refs[y] # 0 /\ ~token[y]
          BY <2>4, <2>8, <4>2
        <5> QED BY <4>1, <5>1
      <4>3. CASE y # year[r]
        BY <2>4, <2>5, <2>8, <4>3
      <4> QED BY <4>2, <4>3
    <3> QED BY <2>1, <2>6, <3>1 DEF GateOwned
  <2>9. GateOwned'
    BY <2>1, <2>6, <2>7, <2>8 DEF GateOwned
  <2> QED BY <2>2, <2>9
<1>7. ASSUME NEW r \in Readers, TakeToken(r) PROVE GateOwned' /\ RefsCounted'
  <2>1. /\ \A s \in Readers : pc'[s] = IF s = r THEN "held" ELSE pc[s]
        /\ pc[r] = "wait" /\ year' = year /\ year[r] \in Years /\ refs' = refs /\ token[year[r]]
    BY <1>7 DEF TakeToken, TypeOK
  <2>2. \A y \in Years : Users(y)' = Users(y)
    BY <1>0, <2>1 DEF Users
  <2>3. \A y \in Years : token'[y] = IF y = year[r] THEN FALSE ELSE token[y]
    BY <1>7 DEF TakeToken, TypeOK
  <2>4. \A s \in Readers : pc[s] \in Owning => year[s] # year[r]
    BY <2>1 DEF GateOwned
  <2>5. GateOwned'
    <3>1. \A s, t \in Readers : pc'[s] \in Owning /\ pc'[t] \in Owning /\ year'[s] = year'[t] => s = t
      BY <2>1, <2>4 DEF GateOwned
    <3>2. \A s \in Readers : pc'[s] \in Owning => ~token'[year'[s]]
      BY <2>1, <2>3 DEF GateOwned, TypeOK
    <3>3. ASSUME NEW y \in Years, refs'[y] > 0, ~token'[y]
          PROVE  \E s \in Readers : pc'[s] \in Owning /\ year'[s] = y
      <4>1. CASE y = year[r]
        BY <1>0, <2>1, <4>1
      <4>2. CASE y # year[r]
        <5>1. PICK s \in Readers : pc[s] \in Owning /\ year[s] = y
          BY <2>1, <2>3, <3>3, <4>2 DEF GateOwned
        <5>2. s # r
          BY <4>2, <5>1
        <5> QED BY <2>1, <5>1, <5>2
      <4> QED BY <4>1, <4>2
    <3> QED BY <3>1, <3>2, <3>3 DEF GateOwned
  <2> QED BY <2>1, <2>2, <2>5 DEF RefsCounted
<1>8. ASSUME NEW r \in Readers, AbandonWait(r) \/ Unref(r) PROVE GateOwned' /\ RefsCounted'
  <2>1. /\ \A s \in Readers : pc'[s] = IF s = r THEN "done" ELSE pc[s]
        /\ pc[r] \in {"wait", "unref"} /\ year' = year /\ year[r] \in Years /\ token' = token
    BY <1>8 DEF AbandonWait, Unref, TypeOK
  <2>2. RefsCounted'
    BY <1>0, <1>8, <2>1, RefsMove DEF AbandonWait, Unref
  <2>3. \A y \in Years : refs'[y] = IF y = year[r] THEN refs[y] - 1 ELSE refs[y]
    BY <1>8 DEF AbandonWait, Unref, TypeOK
  <2>4. \A s \in Readers : pc'[s] \in Owning <=> pc[s] \in Owning
    BY <1>0, <2>1
  <2>5. ASSUME NEW y \in Years, refs'[y] > 0 PROVE refs[y] > 0
    <3>1. refs[y] \in Int
      BY DEF TypeOK
    <3> QED BY <2>3, <2>5, <3>1
  <2>6. GateOwned'
    BY <2>1, <2>4, <2>5 DEF GateOwned
  <2> QED BY <2>2, <2>6
<1>9. ASSUME NEW r \in Readers, ReleaseToken(r) PROVE GateOwned' /\ RefsCounted'
  <2>1. /\ \A s \in Readers : pc'[s] = IF s = r THEN "unref" ELSE pc[s]
        /\ pc[r] = "release" /\ year' = year /\ year[r] \in Years /\ refs' = refs
    BY <1>9 DEF ReleaseToken, TypeOK
  <2>2. \A y \in Years : Users(y)' = Users(y)
    BY <1>0, <2>1 DEF Users
  <2>3. \A y \in Years : token'[y] = IF y = year[r] THEN TRUE ELSE token[y]
    BY <1>9 DEF ReleaseToken, TypeOK
  <2>4. \A s \in Readers : pc'[s] \in Owning => pc[s] \in Owning /\ year[s] # year[r]
    BY <1>0, <2>1 DEF GateOwned
  <2>5. GateOwned'
    <3>1. \A s, t \in Readers : pc'[s] \in Owning /\ pc'[t] \in Owning /\ year'[s] = year'[t] => s = t
      BY <2>1, <2>4 DEF GateOwned
    <3>2. \A s \in Readers : pc'[s] \in Owning => ~token'[year'[s]]
      BY <2>1, <2>3, <2>4 DEF GateOwned, TypeOK
    <3>3. ASSUME NEW y \in Years, refs'[y] > 0, ~token'[y]
          PROVE  \E s \in Readers : pc'[s] \in Owning /\ year'[s] = y
      <4>1. PICK s \in Readers : pc[s] \in Owning /\ year[s] = y
        BY <2>1, <2>3, <3>3 DEF GateOwned
      <4>2. s # r
        BY <2>3, <3>3, <4>1
      <4> QED BY <2>1, <4>1, <4>2
    <3> QED BY <3>1, <3>2, <3>3 DEF GateOwned
  <2> QED BY <2>1, <2>2, <2>5 DEF RefsCounted
<1>10. ASSUME NEW m \in Mutators, MutatorStep(m) PROVE GateOwned' /\ RefsCounted'
  <2>1. UNCHANGED <<gateVars, readerVars>>
    BY <1>10 DEF MutatorStep, SetYear, Clear, PruneStaleYears, Invalidate, Commit, Drop
  <2> QED BY <2>1, GatesAlone
<1>11. CASE \E y \in Years, b \in Row : ForeignWrite(y, b)
  BY <1>11, GatesAlone DEF ForeignWrite, Commit
<1>12. CASE Close \/ CloseDB \/ UNCHANGED vars
  BY <1>12, GatesAlone DEF Close, CloseDB, Drop, vars
<1> QED BY <1>1, <1>2, <1>3, <1>4, <1>5, <1>6, <1>7, <1>8, <1>9, <1>10, <1>11, <1>12
        DEF Next, ReaderStep

LEMMA AnewStep ==
  ASSUME TypeOK, TypeOK', GateOwned, DecodesAnew, [Next]_vars
  PROVE  DecodesAnew'
<1> USE DEF dbVars, memVars, gateVars, readerVars, Goto
<1> DEFINE Bound == {"enter", "wait", "held", "decode"}
<1>t. pc \in [Readers -> PCs] /\ raw \in [Readers -> Row] /\ year \in [Readers -> Years]
  BY DEF TypeOK
\* Nothing becomes resident and nobody starts to decode.
<1>q. ASSUME \A s \in Readers : /\ pc'[s] \in Bound => raw'[s] # NoRow
                                /\ pc'[s] = "decode" => /\ pc[s] = "decode" /\ raw'[s] = raw[s]
                                                        /\ year'[s] = year[s],
             \A y \in Years : entries'[y] \in {entries[y], NoRow}
      PROVE  DecodesAnew'
  BY <1>q DEF DecodesAnew, TypeOK
<1>1. ASSUME NEW r \in Readers, \E y \in Years : Begin(r, y) PROVE DecodesAnew'
  BY <1>1, <1>q DEF Begin, TypeOK, DecodesAnew
<1>2. ASSUME NEW r \in Readers, Cancel(r) PROVE DecodesAnew'
  BY <1>2, <1>q DEF Cancel, TypeOK, DecodesAnew
<1>3. ASSUME NEW r \in Readers, Query(r) \/ QueryError(r) \/ Return(r) PROVE DecodesAnew'
  <2>1. /\ entries' = entries
        /\ \A s \in Readers : pc'[s] \in Bound =>
             /\ pc[s] \in Bound /\ raw'[s] = raw[s] /\ year'[s] = year[s]
             /\ pc'[s] = "decode" => pc[s] = "decode"
    BY <1>3, <1>t DEF Query, QueryError, Return
  <2> QED BY <1>q, <2>1 DEF DecodesAnew
<1>4. ASSUME NEW r \in Readers, EnterGate(r) \/ TakeToken(r) \/ AbandonWait(r) PROVE DecodesAnew'
  <2>1. /\ entries' = entries
        /\ \A s \in Readers : pc'[s] \in Bound =>
             /\ pc[s] \in Bound /\ raw'[s] = raw[s] /\ year'[s] = year[s]
             /\ pc'[s] = "decode" => pc[s] = "decode"
    BY <1>4, <1>t DEF EnterGate, TakeToken, AbandonWait
  <2> QED BY <1>q, <2>1 DEF DecodesAnew
<1>5. ASSUME NEW r \in Readers, Copy(r) \/ ReleaseToken(r) \/ Unref(r) PROVE DecodesAnew'
  <2>1. /\ entries' = entries
        /\ \A s \in Readers : pc'[s] \in Bound =>
             /\ pc[s] \in Bound /\ raw'[s] = raw[s] /\ year'[s] = year[s]
             /\ pc'[s] = "decode" => pc[s] = "decode"
    BY <1>5, <1>t DEF Copy, ReleaseToken, Unref
  <2> QED BY <1>q, <2>1 DEF DecodesAnew
<1>6. ASSUME NEW r \in Readers, Lookup(r) PROVE DecodesAnew'
  <2>1. \A y \in Years : entries'[y] \in {entries[y], NoRow}
    <3>1. CASE LookupHit(r)
      BY <3>1, LookupHitEffect
    <3>2. CASE LookupMiss(r)
      BY <3>2, LookupMissEffect DEF TypeOK
    <3> QED BY <1>6, <3>1, <3>2 DEF Lookup
  <2>2. \A s \in Readers : pc'[s] \in Bound => /\ raw'[s] = raw[s] /\ year'[s] = year[s]
                                               /\ pc'[s] = pc[s] \/ (raw[s] # NoRow /\ pc'[s] = "enter")
    BY <1>6 DEF Lookup, TypeOK
  <2> QED BY <1>q, <2>1, <2>2 DEF DecodesAnew
<1>7. ASSUME NEW r \in Readers, Recheck(r) PROVE DecodesAnew'
  <2>0. pc[r] = "held" /\ raw[r] # NoRow /\ raw' = raw /\ year' = year
    BY <1>7 DEF Recheck, DecodesAnew
  <2>1. CASE cancelled[r] \/ LookupHit(r)
    <3>1. entries' = entries /\ pc'[r] \notin Bound /\ \A s \in Readers : s # r => pc'[s] = pc[s]
      BY <1>7, <2>1, LookupHitEffect DEF Recheck, TypeOK, LookupHit, LookupMiss
    <3> QED BY <1>q, <2>0, <3>1 DEF DecodesAnew
  <2>2. CASE ~cancelled[r] /\ LookupMiss(r) /\ Goto(r, "decode") /\ UNCHANGED shows
    <3>1. \A s \in Readers : pc'[s] = IF s = r THEN "decode" ELSE pc[s]
      BY <2>2 DEF TypeOK
    <3>2. /\ \A y \in Years : entries'[y] \in {entries[y], NoRow}
          /\ entries'[year[r]] # raw[r]
      BY <2>0, <2>2, LookupMissEffect DEF TypeOK
    <3> QED BY <2>0, <3>1, <3>2 DEF DecodesAnew, TypeOK
  <2> QED BY <1>7, <2>1, <2>2 DEF Recheck
<1>8. ASSUME NEW r \in Readers, Decode(r) PROVE DecodesAnew'
  <2>0. /\ pc[r] = "decode" /\ raw' = raw /\ year' = year /\ pc'[r] \notin Bound
        /\ \A s \in Readers : s # r => pc'[s] = pc[s]
    BY <1>8 DEF Decode, TypeOK
  <2>1. CASE cancelled[r] \/ raw[r] \notin Valid
    <3>1. entries' = entries
      BY <1>8, <2>1 DEF Decode, Retainable
    <3> QED BY <1>q, <2>0, <3>1 DEF DecodesAnew
  <2>2. CASE ~cancelled[r] /\ raw[r] \in Valid
    <3>1. \A z \in Years : z # year[r] => entries'[z] \in {entries[z], NoRow}
      BY <1>8, <2>2, AdmitEffect, Zenon DEF Decode, Retainable
    <3>2. ASSUME NEW s \in Readers, pc'[s] = "decode"
          PROVE  pc[s] = "decode" /\ year[s] \in Years /\ year[s] # year[r]
      BY <2>0, <3>2 DEF GateOwned, Owning, TypeOK
    <3> QED BY <2>0, <3>1, <3>2 DEF DecodesAnew
  <2> QED BY <2>1, <2>2
<1>9. ASSUME NEW m \in Mutators, MutatorStep(m) PROVE DecodesAnew'
  <2>1. UNCHANGED readerVars
    BY <1>9 DEF MutatorStep, SetYear, Clear, PruneStaleYears, Invalidate, Commit, Drop
  <2>2. \A y \in Years : entries'[y] \in {entries[y], NoRow}
    <3>1. CASE Invalidate(m)
      <4>1. cover[m] \in SUBSET Years /\ (cover[m] = Years \/ \E y \in Years : cover[m] = {y})
        BY <3>1 DEF Invalidate, TypeOK
      <4>2. \A z \in Years : entries'[z] = IF z \in cover[m] THEN NoRow ELSE entries[z]
        BY <3>1, <4>1, DropEffect, Zenon DEF Invalidate
      <4> QED BY <4>2
    <3>2. CASE ~Invalidate(m)
      BY <1>9, <3>2 DEF MutatorStep, SetYear, Clear, PruneStaleYears, Commit
    <3> QED BY <3>1, <3>2
  <2> QED BY <1>q, <2>1, <2>2 DEF DecodesAnew
<1>10. CASE \E y \in Years, b \in Row : ForeignWrite(y, b)
  BY <1>10, <1>q DEF ForeignWrite, Commit, DecodesAnew
<1>11. CASE Close
  <2>1. \A z \in Years : entries'[z] = IF z \in Years THEN NoRow ELSE entries[z]
    BY <1>11, DropEffect, Zenon DEF Close
  <2>2. UNCHANGED readerVars
    BY <1>11 DEF Close, Drop
  <2> QED BY <1>q, <2>1, <2>2 DEF DecodesAnew
<1>12. CASE CloseDB \/ UNCHANGED vars
  BY <1>12, <1>q DEF CloseDB, vars, DecodesAnew
<1> QED BY <1>1, <1>2, <1>3, <1>4, <1>5, <1>6, <1>7, <1>8, <1>9, <1>10, <1>11, <1>12
        DEF Next, ReaderStep

LEMMA GateAlways == Spec => [](TypeOK /\ GateInv)
<1>1. Init => TypeOK /\ GateInv
  <2> SUFFICES ASSUME Init PROVE GateInv
    BY InitType
  <2>1. \A y \in Years : Users(y) = {}
    BY DEF Init, Users, Referencing, Owning
  <2>2. RefsCounted
    BY <2>1, FS_EmptySet DEF Init, RefsCounted
  <2>3. GateOwned /\ DecodesAnew
    BY DEF Init, GateOwned, DecodesAnew, Owning
  <2> QED BY <2>2, <2>3 DEF GateInv
<1>2. TypeOK /\ GateInv /\ [Next]_vars => TypeOK' /\ GateInv'
  BY NextType, GateStep, AnewStep DEF GateInv
<1> QED BY <1>1, <1>2, PTL DEF Spec

(***************************************************************************)
(* GatesSound: one decoder per year and never of a resident version; refs   *)
(* counts the goroutines at the gate, and the token is in the channel or    *)
(* owned by exactly one of them.                                            *)
(***************************************************************************)
THEOREM GatesAlwaysSound == Spec => []GatesSound
<1>1. TypeOK /\ GateInv => GatesSound
  <2> SUFFICES ASSUME TypeOK, GateInv PROVE GatesSound
    OBVIOUS
  <2>1. DecodeOnce
    BY DEF GateInv, GateOwned, DecodesAnew, DecodeOnce, Owning
  <2>2. ASSUME NEW y \in Years
        PROVE  LET owners == {r \in Readers : pc[r] \in Owning /\ year[r] = y}
               IN refs[y] > 0 => Cardinality(owners) = (IF token[y] THEN 0 ELSE 1)
    <3> DEFINE owners == {r \in Readers : pc[r] \in Owning /\ year[r] = y}
    <3>1. CASE token[y]
      <4>1. owners = {}
        BY <3>1 DEF GateInv, GateOwned
      <4> QED BY <3>1, <4>1, FS_EmptySet
    <3>2. CASE ~token[y] /\ refs[y] > 0
      <4>1. PICK r \in Readers : pc[r] \in Owning /\ year[r] = y
        BY <3>2 DEF GateInv, GateOwned
      <4>2. owners = {r}
        BY <4>1 DEF GateInv, GateOwned
      <4> QED BY <3>2, <4>2, FS_Singleton
    <3> QED BY <3>1, <3>2
  <2>3. GatesCounted
    BY <2>2 DEF GatesCounted, GateInv, RefsCounted, Users
  <2> QED BY <2>1, <2>3 DEF GatesSound
<1> QED BY <1>1, GateAlways, PTL

-----------------------------------------------------------------------------
(* Old reads evict nothing current                                          *)

LEMMA KeptStep ==
  ASSUME TypeOK, CoherenceInv, GateInv, Next, NEW y \in Years,
         entries[y] # NoRow, entries[y] = db[y], entries'[y] = NoRow,
         generation' = generation,
         ~\E z \in Years : entries'[z] \notin {entries[z], NoRow}
  PROVE  Unannounced(y)
<1> USE DEF dbVars, memVars, gateVars, readerVars
<1>0. entries'[y] # entries[y] /\ entries' # entries
  OBVIOUS
<1>m. ASSUME NEW r \in Readers, LookupMiss(r), pc[r] \in HasRow PROVE Unannounced(y)
  <2>1. y = year[r] /\ gen[r] = generation
    BY <1>0, <1>m, LookupMissEffect
  <2>2. raw[r] # entries[y]
    BY <1>m, <2>1 DEF LookupMiss, Matches
  <2> QED BY <1>m, <2>1, <2>2 DEF CoherenceInv, ReadsFenced
<1>1. ASSUME NEW r \in Readers, Lookup(r) PROVE Unannounced(y)
  <2>1. ~LookupHit(r)
    BY <1>0, LookupHitEffect
  <2> QED BY <1>1, <1>m, <2>1 DEF Lookup, HasRow
<1>2. ASSUME NEW r \in Readers, Recheck(r) PROVE Unannounced(y)
  <2>1. ~LookupHit(r)
    BY <1>0, LookupHitEffect
  <2> QED BY <1>2, <1>m, <1>0, <2>1 DEF Recheck, HasRow
<1>3. ASSUME NEW r \in Readers, Decode(r) PROVE FALSE
  <2>1. admit(r) /\ raw[r] \in Valid
    BY <1>0, <1>3 DEF Decode, Retainable
  <2>2. entries'[year[r]] = raw[r] /\ year[r] \in Years
    BY <1>0, <2>1, AdmitEffect, Zenon DEF TypeOK
  <2>3. entries[year[r]] # raw[r] /\ raw[r] # NoRow
    BY <1>3 DEF GateInv, DecodesAnew, Decode
  <2> QED BY <2>2, <2>3
<1>4. ASSUME NEW m \in Mutators, MutatorStep(m) PROVE FALSE
  <2>1. ~Invalidate(m)
    BY DEF Invalidate, Drop, TypeOK
  <2> QED BY <1>0, <1>4, <2>1 DEF MutatorStep, SetYear, Clear, PruneStaleYears, Commit
<1>5. ~Close
  BY DEF Close, Drop, TypeOK
<1>6. ~CloseDB /\ ~\E z \in Years, b \in Row : ForeignWrite(z, b)
  BY <1>0 DEF CloseDB, ForeignWrite, Commit
<1>7. ASSUME NEW r \in Readers,
             \/ \E z \in Years : Begin(r, z)
             \/ Cancel(r) \/ Query(r) \/ QueryError(r) \/ EnterGate(r) \/ TakeToken(r)
             \/ AbandonWait(r) \/ Copy(r) \/ ReleaseToken(r) \/ Unref(r) \/ Return(r)
      PROVE  FALSE
  BY <1>0, <1>7 DEF Begin, Cancel, Query, QueryError, EnterGate, TakeToken, AbandonWait, Copy,
                    ReleaseToken, Unref, Return
<1> QED BY <1>1, <1>2, <1>3, <1>4, <1>5, <1>6, <1>7 DEF Next, ReaderStep

(***************************************************************************)
(* CurrentEntryKept: a lookup that disagrees with an entry evicts it only   *)
(* while a change of the row is unannounced, because the reader's row is    *)
(* fenced; and an admission, whose capacity evictions are exempt, always    *)
(* shows, because nobody decodes what is resident.                          *)
(***************************************************************************)
THEOREM CurrentIsKept == Spec => CurrentEntryKept
<1>1. TypeOK /\ CoherenceInv /\ GateInv /\ [Next]_vars
      => [\A y \in Years :
            (/\ entries[y] # NoRow /\ entries[y] = db[y] /\ entries'[y] = NoRow
             /\ generation' = generation
             /\ ~\E z \in Years : entries'[z] \notin {entries[z], NoRow})
            => Unannounced(y)]_vars
  BY KeptStep
<1>2. CoherenceInv <=> Coherent /\ ReadsFenced /\ ClosedEmpty
  BY DEF CoherenceInv
<1> QED BY <1>1, <1>2, GateAlways, Coherence, PTL DEF Spec, CurrentEntryKept

-----------------------------------------------------------------------------
(* Reads are atomic                                                         *)

\* What the call will answer is the row it read, or an error.
Answering ==
  \A r \in Readers : /\ pc[r] \in {"copy", "heldCopy"} => shows[r] = raw[r]
                     /\ pc[r] \in {"release", "unref"} => shows[r] \in {raw[r], Failed}

LEMMA StageOf ==
  ASSUME NEW r
  PROVE  /\ ReadStage(r) = IF pc[r] = "idle" THEN "idle" ELSE IF pc[r] = "query" THEN "asked"
                           ELSE IF pc[r] = "done" THEN "answered" ELSE "taken"
         /\ ReadStage(r)' = IF pc'[r] = "idle" THEN "idle" ELSE IF pc'[r] = "query" THEN "asked"
                            ELSE IF pc'[r] = "done" THEN "answered" ELSE "taken"
BY DEF ReadStage

LEMMA ValueOf ==
  ASSUME NEW r
  PROVE  /\ ReadValue(r) = IF pc[r] \in {"idle", "query"} THEN NoRow
                           ELSE IF pc[r] = "done" THEN shows[r] ELSE raw[r]
         /\ ReadValue(r)' = IF pc'[r] \in {"idle", "query"} THEN NoRow
                            ELSE IF pc'[r] = "done" THEN shows'[r] ELSE raw'[r]
<1>1. ReadValue(r) = IF pc[r] \in {"idle", "query"} THEN NoRow
                     ELSE IF pc[r] = "done" THEN shows[r] ELSE raw[r]
  BY StageOf DEF ReadValue
<1>2. ReadValue(r)' = IF pc'[r] \in {"idle", "query"} THEN NoRow
                      ELSE IF pc'[r] = "done" THEN shows'[r] ELSE raw'[r]
  BY StageOf DEF ReadValue
<1> QED BY <1>1, <1>2

\* One reader moves; which step of YearReads it takes.
LEMMA ReadMoves ==
  ASSUME TypeOK, NEW r \in Readers, UNCHANGED <<db, year>>,
         \A s \in Readers : s # r => pc'[s] = pc[s] /\ raw'[s] = raw[s] /\ shows'[s] = shows[s],
         \/ ReadStage(r) = "asked" /\ ReadStage(r)' = "taken" /\ ReadValue(r)' = db[year[r]]
         \/ ReadStage(r) = "taken" /\ ReadStage(r)' = "answered" /\ ReadValue(r)' = ReadValue(r)
         \/ ReadStage(r) \in {"asked", "taken"} /\ ReadStage(r)' = "answered" /\ ReadValue(r)' = Failed
         \/ ReadStage(r) = "answered" /\ ReadStage(r)' = "idle" /\ ReadValue(r)' = NoRow
         \/ ReadStage(r)' = ReadStage(r) /\ ReadValue(r)' = ReadValue(r)
  PROVE  [Reads!Next]_(Reads!vars)
<1>1. \A s \in Readers : s # r => ReadStage(s)' = ReadStage(s) /\ ReadValue(s)' = ReadValue(s)
  BY StageOf, ValueOf
<1>2. CASE ReadStage(r) = "asked" /\ ReadStage(r)' = "taken" /\ ReadValue(r)' = db[year[r]]
  <2>1. Reads!Take(r)
    BY <1>1, <1>2 DEF Reads!Take, Reads!Move
  <2> QED BY <2>1 DEF Reads!Next
<1>3. CASE ReadStage(r) = "taken" /\ ReadStage(r)' = "answered" /\ ReadValue(r)' = ReadValue(r)
  <2>1. Reads!Answer(r)
    BY <1>1, <1>3 DEF Reads!Answer, Reads!Move
  <2> QED BY <2>1 DEF Reads!Next
<1>4. CASE ReadStage(r) \in {"asked", "taken"} /\ ReadStage(r)' = "answered" /\ ReadValue(r)' = Failed
  <2>1. Reads!Refuse(r)
    BY <1>1, <1>4 DEF Reads!Refuse, Reads!Move
  <2> QED BY <2>1 DEF Reads!Next
<1>5. CASE ReadStage(r) = "answered" /\ ReadStage(r)' = "idle" /\ ReadValue(r)' = NoRow
  <2>1. Reads!Leave(r)
    BY <1>1, <1>5 DEF Reads!Leave, Reads!Move
  <2> QED BY <2>1 DEF Reads!Next
<1>6. CASE ReadStage(r)' = ReadStage(r) /\ ReadValue(r)' = ReadValue(r)
  BY <1>1, <1>6 DEF Reads!vars
<1> QED BY <1>2, <1>3, <1>4, <1>5, <1>6

\* The row and the answer of a reader that does not move.
LEMMA AnsweringMoves ==
  ASSUME Answering, NEW r \in Readers,
         \A s \in Readers : s # r => pc'[s] = pc[s] /\ raw'[s] = raw[s] /\ shows'[s] = shows[s],
         pc'[r] \in {"copy", "heldCopy"} => shows'[r] = raw'[r],
         pc'[r] \in {"release", "unref"} => shows'[r] \in {raw'[r], Failed}
  PROVE  Answering'
BY DEF Answering

LEMMA ReadsStep ==
  ASSUME TypeOK, TypeOK', Answering, [Next]_vars
  PROVE  Answering' /\ [Reads!Next]_(Reads!vars)
<1> USE DEF dbVars, memVars, gateVars, readerVars, Goto
<1>t. /\ pc \in [Readers -> PCs] /\ raw \in [Readers -> Row] /\ year \in [Readers -> Years]
      /\ shows \in [Readers -> Row \cup {Failed}]
  BY DEF TypeOK
\* A step of r, after which only r's own place, row and answer may differ.
<1> DEFINE Alone(r) == /\ UNCHANGED <<db, year>>
                       /\ \A s \in Readers : s # r => /\ pc'[s] = pc[s] /\ raw'[s] = raw[s]
                                                      /\ shows'[s] = shows[s]
<1>1. ASSUME NEW r \in Readers, NEW y \in Years, Begin(r, y) PROVE Answering' /\ Reads!Next
  <2>1. /\ pc[r] = "idle" /\ pc'[r] = "query" /\ raw' = raw /\ shows' = shows
        /\ \A s \in Readers : s # r => pc'[s] = pc[s]
    BY <1>1, <1>t DEF Begin
  <2>2. /\ \A s \in Readers : ReadStage(s)' = IF s = r THEN "asked" ELSE ReadStage(s)
        /\ \A s \in Readers : ReadValue(s)' = ReadValue(s)
        /\ ReadStage(r) = "idle"
    BY <2>1, StageOf, ValueOf
  <2>3. Reads!Ask(r, y)
    BY <1>1, <2>2 DEF Reads!Ask, Reads!Move, Begin
  <2> QED BY <2>1, <2>3, AnsweringMoves DEF Reads!Next
<1>2. ASSUME NEW r \in Readers, Query(r) PROVE Answering' /\ [Reads!Next]_(Reads!vars)
  <2>1. /\ Alone(r) /\ pc[r] = "query" /\ pc'[r] = "lookup" /\ raw'[r] = db[year[r]]
    BY <1>2, <1>t DEF Query
  <2> QED BY <2>1, AnsweringMoves, ReadMoves, StageOf, ValueOf
<1>3. ASSUME NEW r \in Readers, QueryError(r) \/ AbandonWait(r)
      PROVE  Answering' /\ [Reads!Next]_(Reads!vars)
  <2>1. Alone(r) /\ pc[r] \in {"query", "wait"} /\ pc'[r] = "done" /\ shows'[r] = Failed
    BY <1>3, <1>t DEF QueryError, AbandonWait
  <2> QED BY <2>1, AnsweringMoves, ReadMoves, StageOf, ValueOf
<1>4. ASSUME NEW r \in Readers, Return(r) PROVE Answering' /\ [Reads!Next]_(Reads!vars)
  <2>1. Alone(r) /\ pc[r] = "done" /\ pc'[r] = "idle"
    BY <1>4, <1>t DEF Return
  <2> QED BY <2>1, AnsweringMoves, ReadMoves, StageOf, ValueOf
<1>5. ASSUME NEW r \in Readers, Lookup(r) PROVE Answering' /\ [Reads!Next]_(Reads!vars)
  <2>1. CASE LookupHit(r) /\ Goto(r, "copy")
    <3>1. Alone(r) /\ pc[r] = "lookup" /\ pc'[r] = "copy" /\ raw' = raw /\ shows'[r] = raw'[r]
      BY <1>5, <1>t, <2>1, LookupHitEffect DEF Lookup
    <3> QED BY <3>1, AnsweringMoves, ReadMoves, StageOf, ValueOf
  <2>2. CASE LookupMiss(r) /\ raw[r] = NoRow /\ Settle(r, NoRow) /\ Goto(r, "done")
    <3>1. /\ Alone(r) /\ pc[r] = "lookup" /\ pc'[r] = "done" /\ raw' = raw
          /\ shows'[r] \in {raw[r], Failed}
      BY <1>5, <1>t, <2>2 DEF Lookup, Settle
    <3> QED BY <3>1, AnsweringMoves, ReadMoves, StageOf, ValueOf
  <2>3. CASE LookupMiss(r) /\ raw[r] # NoRow /\ Goto(r, "enter") /\ UNCHANGED shows
    <3>1. Alone(r) /\ pc[r] = "lookup" /\ pc'[r] = "enter" /\ raw' = raw
      BY <1>5, <1>t, <2>3 DEF Lookup
    <3> QED BY <3>1, AnsweringMoves, ReadMoves, StageOf, ValueOf
  <2> QED BY <1>5, <2>1, <2>2, <2>3 DEF Lookup
<1>6. ASSUME NEW r \in Readers, EnterGate(r) \/ TakeToken(r) PROVE Answering' /\ [Reads!Next]_(Reads!vars)
  <2>1. Alone(r) /\ pc[r] \in {"enter", "wait"} /\ pc'[r] \in {"wait", "held"} /\ raw' = raw
    BY <1>6, <1>t DEF EnterGate, TakeToken
  <2> QED BY <2>1, AnsweringMoves, ReadMoves, StageOf, ValueOf
<1>7. ASSUME NEW r \in Readers, Recheck(r) PROVE Answering' /\ [Reads!Next]_(Reads!vars)
  <2>1. /\ Alone(r) /\ pc[r] = "held" /\ raw' = raw
        /\ \/ pc'[r] = "release" /\ shows'[r] = Failed
           \/ pc'[r] = "heldCopy" /\ shows'[r] = raw[r]
           \/ pc'[r] = "decode"
    BY <1>7, <1>t, LookupHitEffect DEF Recheck, Settle
  <2> QED BY <2>1, AnsweringMoves, ReadMoves, StageOf, ValueOf
<1>8. ASSUME NEW r \in Readers, Decode(r) PROVE Answering' /\ [Reads!Next]_(Reads!vars)
  <2>1. /\ Alone(r) /\ pc[r] = "decode" /\ raw' = raw
        /\ \/ pc'[r] = "release" /\ shows'[r] = Failed
           \/ pc'[r] = "heldCopy" /\ shows'[r] = raw[r]
    BY <1>8, <1>t DEF Decode, Settle
  <2> QED BY <2>1, AnsweringMoves, ReadMoves, StageOf, ValueOf
<1>9. ASSUME NEW r \in Readers, Copy(r) PROVE Answering' /\ [Reads!Next]_(Reads!vars)
  <2>1. /\ Alone(r) /\ pc[r] \in {"copy", "heldCopy"} /\ raw' = raw
        /\ pc'[r] = IF pc[r] = "copy" THEN "done" ELSE "release"
        /\ shows'[r] \in {shows[r], Failed}
    BY <1>9, <1>t DEF Copy, Settle
  <2>2. shows'[r] \in {raw[r], Failed}
    BY <2>1 DEF Answering
  <2> QED BY <2>1, <2>2, AnsweringMoves, ReadMoves, StageOf, ValueOf
<1>10. ASSUME NEW r \in Readers, ReleaseToken(r) \/ Unref(r) PROVE Answering' /\ [Reads!Next]_(Reads!vars)
  <2>1. /\ Alone(r) /\ raw' = raw /\ shows' = shows
        /\ \/ pc[r] = "release" /\ pc'[r] = "unref"
           \/ pc[r] = "unref" /\ pc'[r] = "done"
    BY <1>10, <1>t DEF ReleaseToken, Unref
  <2>2. shows'[r] \in {raw[r], Failed}
    BY <2>1 DEF Answering
  <2> QED BY <2>1, <2>2, AnsweringMoves, ReadMoves, StageOf, ValueOf
<1>11. ASSUME UNCHANGED <<pc, raw, shows, year>> PROVE Answering' /\ [Reads!Next]_(Reads!vars)
  <2>1. Answering'
    BY <1>11 DEF Answering
  <2>2. \A s \in Readers : ReadStage(s)' = ReadStage(s) /\ ReadValue(s)' = ReadValue(s)
    BY <1>11, StageOf, ValueOf
  <2>3. db' \in [Years -> Row]
    BY DEF TypeOK
  <2>4. Reads!Change
    BY <1>11, <2>2, <2>3 DEF Reads!Change
  <2> QED BY <2>1, <2>4 DEF Reads!Next
<1>12. ASSUME NEW m \in Mutators, MutatorStep(m) PROVE UNCHANGED readerVars
  BY <1>12 DEF MutatorStep, SetYear, Clear, PruneStaleYears, Invalidate, Commit, Drop
<1>13. ASSUME \/ \E y \in Years, b \in Row : ForeignWrite(y, b)
              \/ Close \/ CloseDB \/ UNCHANGED vars
              \/ \E r \in Readers : Cancel(r)
       PROVE  UNCHANGED <<pc, raw, shows, year>>
  BY <1>13 DEF ForeignWrite, Commit, Close, Drop, CloseDB, vars, Cancel
<1> QED BY <1>1, <1>2, <1>3, <1>4, <1>5, <1>6, <1>7, <1>8, <1>9, <1>10, <1>11, <1>12, <1>13
        DEF Next, ReaderStep

(***************************************************************************)
(* ReadsAtomic: with the memory, the gates and all mutators in place,       *)
(* readDecodedYearContext implements YearReads.                             *)
(***************************************************************************)
THEOREM ReadsAreAtomic == Spec => ReadsAtomic
<1>1. Init => Answering /\ Reads!Init
  <2> SUFFICES ASSUME Init PROVE Answering /\ Reads!Init
    OBVIOUS
  <2>1. \A r \in Readers : ReadStage(r) = "idle" /\ ReadValue(r) = NoRow
    BY StageOf, ValueOf DEF Init
  <2> QED BY <2>1 DEF Init, Answering, Reads!Init
<1>2. TypeOK /\ TypeOK' /\ Answering /\ [Next]_vars => Answering' /\ [Reads!Next]_(Reads!vars)
  BY ReadsStep
<1> QED BY <1>1, <1>2, TypeCorrect, PTL DEF Spec, ReadsAtomic, Reads!Spec
-----------------------------------------------------------------------------
(* The recency list                                                         *)

\* No year twice.
Distinct(s) == \A i, j \in 1..Len(s) : s[i] = s[j] => i = j
In(s, y) == \E i \in 1..Len(s) : s[i] = y

\* The list without its i-th element.
LEMMA CutOut ==
  ASSUME NEW s \in Seq(Years), NEW i \in 1..Len(s)
  PROVE  /\ RemoveAt(s, i) \in Seq(Years)
         /\ Len(RemoveAt(s, i)) = Len(s) - 1
         /\ \A j \in 1..(Len(s) - 1) : RemoveAt(s, i)[j] = IF j < i THEN s[j] ELSE s[j + 1]
<1> DEFINE a == SubSeq(s, 1, i - 1)
           b == SubSeq(s, i + 1, Len(s))
<1>1. Len(s) \in Nat /\ i \in Nat /\ i >= 1 /\ i <= Len(s)
  OBVIOUS
<1>2. /\ a \in Seq(Years) /\ Len(a) = i - 1
      /\ \A j \in 1..(i - 1) : a[j] = s[j]
  BY <1>1
<1>3. /\ b \in Seq(Years) /\ Len(b) = Len(s) - i
      /\ \A j \in 1..(Len(s) - i) : b[j] = s[i + j]
  BY <1>1
<1> HIDE DEF a, b
<1>4. /\ a \o b \in Seq(Years) /\ Len(a \o b) = Len(a) + Len(b)
      /\ \A j \in 1..(Len(a) + Len(b)) : (a \o b)[j] = IF j <= Len(a) THEN a[j] ELSE b[j - Len(a)]
  <2>1. a \in Seq(Years) /\ b \in Seq(Years)
    BY <1>2, <1>3
  <2> QED BY <2>1, ConcatProperties, Zenon
<1>5. RemoveAt(s, i) = a \o b
  BY DEF RemoveAt, a, b
<1>6. ASSUME NEW j \in 1..(Len(s) - 1)
      PROVE  RemoveAt(s, i)[j] = IF j < i THEN s[j] ELSE s[j + 1]
  <2>1. CASE j < i
    BY <1>1, <1>2, <1>3, <1>4, <1>5, <2>1
  <2>2. CASE ~(j < i)
    <3>1. j - (i - 1) \in 1..(Len(s) - i) /\ i + (j - (i - 1)) = j + 1
      BY <1>1, <2>2
    <3>2. (a \o b)[j] = b[j - (i - 1)]
      BY <1>1, <1>2, <1>3, <1>4, <2>2
    <3> QED BY <1>3, <1>5, <2>2, <3>1, <3>2
  <2> QED BY <2>1, <2>2
<1>7. Len(a) + Len(b) = Len(s) - 1
  BY <1>1, <1>2, <1>3
<1> QED BY <1>4, <1>5, <1>6, <1>7

\* Unlink removes its year from a list without repetitions, and nothing else.
LEMMA UnlinkDrops ==
  ASSUME NEW s \in Seq(Years), Distinct(s), NEW y
  PROVE  /\ Distinct(Unlink(s, y))
         /\ \A z : In(Unlink(s, y), z) <=> z # y /\ In(s, z)
         /\ Len(Unlink(s, y)) = IF In(s, y) THEN Len(s) - 1 ELSE Len(s)
<1>1. CASE In(s, y)
  <2>1. PICK i \in 1..Len(s) : i = (CHOOSE j \in 1..Len(s) : s[j] = y) /\ s[i] = y
    BY <1>1 DEF In
  <2> DEFINE u == RemoveAt(s, i)
  <2>2. Unlink(s, y) = u
    BY <1>1, <2>1 DEF Unlink, In
  <2>3. /\ u \in Seq(Years) /\ Len(u) = Len(s) - 1
        /\ \A j \in 1..(Len(s) - 1) : u[j] = IF j < i THEN s[j] ELSE s[j + 1]
    BY CutOut
  <2> HIDE DEF u
  <2>4. Len(s) \in Nat /\ i \in 1..Len(s)
    OBVIOUS
  <2>5. Distinct(u)
    BY <2>3, <2>4 DEF Distinct
  <2>6. ASSUME NEW z, In(u, z) PROVE z # y /\ In(s, z)
    <3>1. PICK j \in 1..(Len(s) - 1) : u[j] = z
      BY <2>3, <2>6 DEF In
    <3>2. PICK k \in 1..Len(s) : s[k] = z /\ k # i
      BY <2>3, <2>4, <3>1
    <3> QED BY <2>1, <3>2 DEF Distinct, In
  <2>7. ASSUME NEW z, z # y, In(s, z) PROVE In(u, z)
    <3>1. PICK k \in 1..Len(s) : s[k] = z
      BY <2>7 DEF In
    <3>2. k # i
      BY <2>1, <2>7, <3>1
    <3>3. CASE k < i
      <4>1. k \in 1..(Len(s) - 1) /\ u[k] = z
        BY <2>3, <2>4, <3>1, <3>3
      <4> QED BY <2>3, <4>1 DEF In
    <3>4. CASE k > i
      <4>1. k - 1 \in 1..(Len(s) - 1) /\ ~(k - 1 < i) /\ (k - 1) + 1 = k
        BY <2>4, <3>4
      <4>2. u[k - 1] = z
        BY <2>3, <3>1, <4>1
      <4> QED BY <2>3, <4>1, <4>2 DEF In
    <3> QED BY <2>4, <3>2, <3>3, <3>4
  <2> QED BY <1>1, <2>2, <2>3, <2>5, <2>6, <2>7
<1>2. CASE ~In(s, y)
  <2>1. Unlink(s, y) = s
    BY <1>2 DEF Unlink, In
  <2> QED BY <1>2, <2>1 DEF In
<1> QED BY <1>1, <1>2

\* The first k years of a list, with a new one in front.
LEMMA PushFront ==
  ASSUME NEW l \in Seq(Years), Distinct(l), NEW y \in Years, ~In(l, y), NEW k \in 0..Len(l)
  PROVE  LET p == <<y>> \o SubSeq(l, 1, k)
         IN /\ p \in Seq(Years) /\ Distinct(p) /\ Len(p) = k + 1
            /\ \A z : In(p, z) <=> z = y \/ \E i \in 1..k : l[i] = z
<1> DEFINE f == SubSeq(l, 1, k)
           p == <<y>> \o f
<1>1. f \in Seq(Years) /\ Len(f) = k /\ \A i \in 1..k : f[i] = l[i]
  OBVIOUS
<1> HIDE DEF f
<1>2. /\ p \in Seq(Years) /\ Len(p) = k + 1
      /\ p[1] = y /\ \A i \in 2..(k + 1) : p[i] = f[i - 1]
  BY <1>1
<1> HIDE DEF p
<1>3. \A i \in 2..(k + 1) : i - 1 \in 1..k /\ i - 1 \in 1..Len(l) /\ p[i] = l[i - 1]
  BY <1>1, <1>2
<1>4. Distinct(p)
  <2>1. \A i \in 2..(k + 1) : p[i] # y
    BY <1>3 DEF In
  <2> SUFFICES ASSUME NEW i \in 1..(k + 1), NEW j \in 1..(k + 1), p[i] = p[j] PROVE i = j
    BY <1>2 DEF Distinct
  <2>2. CASE i = 1 \/ j = 1
    BY <1>2, <2>1, <2>2
  <2>3. CASE i # 1 /\ j # 1
    <3>1. i \in 2..(k + 1) /\ j \in 2..(k + 1)
      BY <2>3
    <3>2. i - 1 = j - 1
      BY <1>3, <3>1 DEF Distinct
    <3> QED BY <3>1, <3>2
  <2> QED BY <2>2, <2>3
<1>5. ASSUME NEW z PROVE In(p, z) <=> z = y \/ \E i \in 1..k : l[i] = z
  <2>1. In(p, z) => z = y \/ \E i \in 1..k : l[i] = z
    <3> SUFFICES ASSUME NEW j \in 1..(k + 1), p[j] = z
                 PROVE  z = y \/ \E i \in 1..k : l[i] = z
      BY <1>2 DEF In
    <3>1. CASE j = 1
      BY <1>2, <3>1
    <3>2. CASE j # 1
      <4>1. j \in 2..(k + 1)
        BY <3>2
      <4>2. j - 1 \in 1..k /\ l[j - 1] = z
        BY <1>3, <4>1
      <4> QED BY <4>2
    <3> QED BY <3>1, <3>2
  <2>2. z = y => In(p, z)
    BY <1>2 DEF In
  <2>3. ASSUME NEW i \in 1..k, l[i] = z PROVE In(p, z)
    <3>1. i + 1 \in 2..(k + 1) /\ (i + 1) - 1 = i /\ i + 1 \in 1..(k + 1)
      OBVIOUS
    <3>2. p[i + 1] = z
      BY <1>3, <2>3, <3>1
    <3> QED BY <1>2, <3>1, <3>2 DEF In
  <2> QED BY <2>1, <2>2, <2>3
<1> QED BY <1>2, <1>4, <1>5 DEF p, f

\* The list names every resident year once.
ListInv ==
  /\ Distinct(lru)
  /\ \A y \in Years : entries[y] # NoRow <=> In(lru, y)
  /\ Len(lru) <= MaxYears

LEMMA ListRemove ==
  ASSUME TypeOK, ListInv, NEW y \in Years, remove(y)
  PROVE  ListInv'
<1>1. lru \in Seq(Years) /\ Len(lru) \in Nat /\ lru' = Unlink(lru, y) /\ MaxYears \in Nat
  BY BoundAssumption DEF TypeOK, remove
<1>2. \A z \in Years : entries'[z] = IF z = y THEN NoRow ELSE entries[z]
  BY DEF remove, TypeOK
<1>3. /\ Distinct(lru')
      /\ \A z : In(lru', z) <=> z # y /\ In(lru, z)
      /\ Len(lru') = IF In(lru, y) THEN Len(lru) - 1 ELSE Len(lru)
  BY <1>1, UnlinkDrops DEF ListInv
<1>4. Len(lru') <= MaxYears
  BY <1>1, <1>3 DEF ListInv
<1>5. \A z \in Years : entries'[z] # NoRow <=> In(lru', z)
  BY <1>2, <1>3 DEF ListInv
<1> QED BY <1>3, <1>4, <1>5 DEF ListInv, Distinct, In

LEMMA ListHit ==
  ASSUME TypeOK, ListInv, NEW r \in Readers, LookupHit(r)
  PROVE  ListInv'
<1> DEFINE y == year[r]
           l == Unlink(lru, y)
<1>1. /\ y \in Years /\ lru \in Seq(Years) /\ Len(lru) \in Nat
      /\ lru' = <<y>> \o l /\ entries' = entries /\ entries[y] # NoRow
  BY DEF TypeOK, LookupHit, Matches
<1>2. /\ l \in Seq(Years) /\ Distinct(l) /\ Len(l) = Len(lru) - 1 /\ ~In(l, y)
      /\ \A z : In(l, z) <=> z # y /\ In(lru, z)
  BY <1>1, UnlinkSeq, UnlinkDrops DEF ListInv
<1> HIDE DEF l
<1>3. Len(l) \in 0..Len(l) /\ SubSeq(l, 1, Len(l)) = l
  BY <1>1, <1>2
<1>4. /\ Distinct(lru') /\ Len(lru') = Len(l) + 1
      /\ \A z : In(lru', z) <=> z = y \/ In(l, z)
  <2>1. /\ Distinct(<<y>> \o SubSeq(l, 1, Len(l))) /\ Len(<<y>> \o SubSeq(l, 1, Len(l))) = Len(l) + 1
        /\ \A z : In(<<y>> \o SubSeq(l, 1, Len(l)), z) <=> z = y \/ \E i \in 1..Len(l) : l[i] = z
    BY <1>1, <1>2, <1>3, PushFront
  <2>2. lru' = <<y>> \o SubSeq(l, 1, Len(l))
    BY <1>1, <1>3
  <2> QED BY <2>1, <2>2 DEF In
<1>5. Len(lru') <= MaxYears
  BY <1>1, <1>2, <1>4 DEF ListInv
<1>6. \A z \in Years : entries'[z] # NoRow <=> In(lru', z)
  BY <1>1, <1>2, <1>4 DEF ListInv
<1> QED BY <1>4, <1>5, <1>6 DEF ListInv, Distinct, In

LEMMA ListAdmit ==
  ASSUME TypeOK, ListInv, NEW r \in Readers, raw[r] \in Valid, admit(r)
  PROVE  ListInv'
<1>1. CASE Refused(r)
  BY <1>1 DEF admit, ListInv, Distinct, In
<1>2. CASE ~Refused(r)
  <2> DEFINE y == year[r]
             l == Unlink(lru, year[r])
             n == IF entries[year[r]] = NoRow THEN bytes
                  ELSE bytes - Size[entries[year[r]]]
             After(k) == n - SizeAt(l, (k + 1)..Len(l))
             E == {e \in 0..Len(l) :
                     LET k == Len(l) - e IN HasRoom(k, After(k) + Size[raw[r]])}
             kept == Len(l) - Min(E \cup {Len(l)})
  <2>0. lru \in Seq(Years) /\ y \in Years /\ MaxYears \in Nat /\ MaxYears # 0
    BY <1>2, BoundAssumption DEF TypeOK, Refused
  <2>1. /\ l \in Seq(Years) /\ Distinct(l) /\ ~In(l, y)
        /\ \A z : In(l, z) <=> z # y /\ In(lru, z)
    BY <2>0, UnlinkSeq, UnlinkDrops DEF ListInv
  <2>2. /\ entries' = [z \in Years |->
                         IF z = year[r] THEN raw[r]
                         ELSE IF \E i \in 1..kept : l[i] = z THEN entries[z] ELSE NoRow]
        /\ lru' = <<year[r]>> \o SubSeq(l, 1, kept)
    BY <1>2, Zenon DEF admit
  <2>3. kept \in 0..Len(l) /\ kept < MaxYears
    <3>1. Len(l) \in Nat
      BY <2>1, LenProperties
    <3>2. \A e \in E : e \in 0..Len(l) /\ Len(l) - e < MaxYears
      BY DEF HasRoom
    <3> HIDE DEF E, l
    <3>3. E \cup {Len(l)} \subseteq Nat /\ E \cup {Len(l)} # {}
      BY <3>1, <3>2
    <3>4. Min(E \cup {Len(l)}) \in E \cup {Len(l)}
      BY <3>3, MinNat
    <3>5. ASSUME NEW m \in E \cup {Len(l)} PROVE Len(l) - m \in 0..Len(l) /\ Len(l) - m < MaxYears
      <4>1. CASE m \in E
        BY <3>1, <3>2, <4>1
      <4>2. CASE m = Len(l)
        BY <2>0, <3>1, <4>2
      <4> QED BY <4>1, <4>2
    <3> QED BY <3>4, <3>5, Zenon
  <2> HIDE DEF kept, l
  <2>4. /\ Distinct(lru') /\ Len(lru') = kept + 1
        /\ \A z : In(lru', z) <=> z = y \/ \E i \in 1..kept : l[i] = z
    BY <2>0, <2>1, <2>2, <2>3, PushFront
  <2>5. Len(lru') <= MaxYears
    BY <2>0, <2>1, <2>3, <2>4
  <2>6. ASSUME NEW z \in Years PROVE entries'[z] # NoRow <=> In(lru', z)
    <3>1. CASE z = y
      BY <2>2, <2>4, <3>1, RawAssumption
    <3>2. CASE z # y /\ \E i \in 1..kept : l[i] = z
      <4>1. In(l, z)
        BY <2>1, <2>3, <3>2 DEF In
      <4> QED BY <2>1, <2>2, <2>4, <3>2, <4>1 DEF ListInv
    <3>3. CASE z # y /\ ~\E i \in 1..kept : l[i] = z
      BY <2>2, <2>4, <3>3
    <3> QED BY <3>1, <3>2, <3>3
  <2> QED BY <2>4, <2>5, <2>6 DEF ListInv, Distinct, In
<1> QED BY <1>1, <1>2

LEMMA ListDrop ==
  ASSUME TypeOK, ListInv, NEW Y \in SUBSET Years, NEW close \in BOOLEAN, Drop(Y, close)
  PROVE  ListInv'
<1>1. CASE Y = Years
  <2>1. \A y \in Years : entries'[y] = NoRow
    BY <1>1 DEF Drop
  <2>2. lru' = <<>> /\ Len(<<>>) = 0
    BY <1>1 DEF Drop
  <2> QED BY <2>1, <2>2, BoundAssumption DEF ListInv, Distinct, In
<1>2. CASE Y # Years
  <2>1. PICK y \in Years : IF entries[y] # NoRow THEN remove(y)
                           ELSE UNCHANGED <<entries, lru, bytes>>
    BY <1>2 DEF Drop
  <2>2. CASE entries[y] # NoRow
    BY <2>1, <2>2, ListRemove
  <2>3. CASE entries[y] = NoRow
    BY <2>1, <2>3 DEF ListInv, Distinct, In
  <2> QED BY <2>2, <2>3
<1> QED BY <1>1, <1>2

LEMMA ListStep ==
  ASSUME TypeOK, ListInv, [Next]_vars
  PROVE  ListInv'
<1> USE DEF dbVars, memVars, gateVars, readerVars
<1>s. ASSUME UNCHANGED <<entries, lru>> PROVE ListInv'
  BY <1>s DEF ListInv, Distinct, In
<1>m. ASSUME NEW r \in Readers, LookupMiss(r) PROVE ListInv'
  <2>1. CASE MayEvict(r)
    <3>1. remove(year[r]) /\ year[r] \in Years
      BY <1>m, <2>1 DEF LookupMiss, TypeOK
    <3> QED BY <3>1, ListRemove
  <2>2. CASE ~MayEvict(r)
    BY <1>m, <1>s, <2>2 DEF LookupMiss
  <2> QED BY <2>1, <2>2
<1>1. ASSUME NEW r \in Readers, Lookup(r) PROVE ListInv'
  BY <1>1, <1>m, ListHit DEF Lookup
<1>2. ASSUME NEW r \in Readers, Recheck(r) PROVE ListInv'
  BY <1>2, <1>m, <1>s, ListHit DEF Recheck
<1>3. ASSUME NEW r \in Readers, Decode(r) PROVE ListInv'
  <2>1. CASE ~cancelled[r] /\ raw[r] \in Valid
    BY <1>3, <2>1, ListAdmit DEF Decode, Retainable
  <2>2. CASE cancelled[r] \/ raw[r] \notin Valid
    BY <1>3, <1>s, <2>2 DEF Decode, Retainable
  <2> QED BY <2>1, <2>2
<1>4. ASSUME NEW m \in Mutators, Invalidate(m) PROVE ListInv'
  <2>1. cover[m] \in SUBSET Years
    BY DEF TypeOK
  <2> QED BY <1>4, <2>1, ListDrop DEF Invalidate
<1>5. ASSUME NEW m \in Mutators, MutatorStep(m), ~Invalidate(m) PROVE ListInv'
  BY <1>5, <1>s DEF MutatorStep, SetYear, Clear, PruneStaleYears, Commit
<1>6. CASE Close
  BY <1>6, ListDrop DEF Close
<1>7. CASE \/ \E y \in Years, b \in Row : ForeignWrite(y, b)
           \/ CloseDB \/ UNCHANGED vars
  BY <1>7, <1>s DEF ForeignWrite, Commit, CloseDB, vars
<1>8. ASSUME NEW r \in Readers,
             \/ \E z \in Years : Begin(r, z)
             \/ Cancel(r) \/ Query(r) \/ QueryError(r) \/ EnterGate(r) \/ TakeToken(r)
             \/ AbandonWait(r) \/ Copy(r) \/ ReleaseToken(r) \/ Unref(r) \/ Return(r)
      PROVE  ListInv'
  BY <1>s, <1>8 DEF Begin, Cancel, Query, QueryError, EnterGate, TakeToken, AbandonWait, Copy,
                    ReleaseToken, Unref, Return
<1> QED BY <1>1, <1>2, <1>3, <1>4, <1>5, <1>6, <1>7, <1>8 DEF Next, ReaderStep

(***************************************************************************)
(* YearsBounded, the part of Bounded that does not speak of bytes: after    *)
(* every lookup, admission, eviction and invalidation the recency list      *)
(* names each resident year once, and there are at most maxYears.           *)
(***************************************************************************)
THEOREM YearsStayBounded == Spec => []YearsBounded
<1>1. Init => ListInv
  <2> SUFFICES ASSUME Init PROVE ListInv
    OBVIOUS
  <2>1. \A y \in Years : entries[y] = NoRow
    BY DEF Init
  <2>2. lru = <<>> /\ Len(<<>>) = 0
    BY DEF Init
  <2> QED BY <2>1, <2>2, BoundAssumption DEF ListInv, Distinct, In
<1>2. TypeOK /\ ListInv /\ [Next]_vars => ListInv'
  BY ListStep
<1>3. TypeOK /\ ListInv => YearsBounded
  <2> SUFFICES ASSUME TypeOK, ListInv PROVE YearsBounded
    OBVIOUS
  <2>1. lru \in Seq(Years) /\ Len(lru) \in Nat /\ DOMAIN lru = 1..Len(lru)
    BY DEF TypeOK
  <2>2. Range(lru) = Resident
    BY <2>1 DEF Range, Resident, ListInv, In
  <2>3. lru \in Bijection(1..Len(lru), Resident)
    <3>1. lru \in [1..Len(lru) -> Resident]
      BY <2>1, <2>2 DEF Range
    <3>2. \A y \in Resident : \E i \in 1..Len(lru) : lru[i] = y
      BY DEF Resident, ListInv, In
    <3> QED BY <3>1, <3>2 DEF Bijection, Injection, Surjection, IsInjective, ListInv, Distinct
  <2>4. IsFiniteSet(1..Len(lru)) /\ Cardinality(1..Len(lru)) = Len(lru)
    BY <2>1, FS_Interval
  <2>5. Cardinality(Resident) = Len(lru)
    BY <2>3, <2>4, FS_Bijection DEF ExistsBijection
  <2> QED BY <2>2, <2>5 DEF YearsBounded, ListInv
<1> QED BY <1>1, <1>2, <1>3, TypeCorrect, PTL DEF Spec

-----------------------------------------------------------------------------
(* Sums over finite sets                                                    *)

\* The sum of the weights w[x], x \in S, and the equation its fold solves.
SumOf(w, S) == MapThenSumSet(LAMBDA x : w[x], S)
AnyOf(t) == CHOOSE x \in t : TRUE
Partial(w, f, S) ==
  [t \in SUBSET S |-> IF t = {} THEN 0 ELSE w[AnyOf(t)] + f[t \ {AnyOf(t)}]]

\* Taking an element out of a finite set.
LEMMA LessOne ==
  ASSUME NEW S, IsFiniteSet(S), NEW x \in S
  PROVE  /\ IsFiniteSet(S \ {x})
         /\ Cardinality(S) \in Nat /\ Cardinality(S \ {x}) \in Nat
         /\ Cardinality(S \ {x}) = Cardinality(S) - 1
BY FS_RemoveElement, FS_CardinalityType

\* The equation has a solution ...
LEMMA PartialExists ==
  ASSUME NEW w, NEW S, IsFiniteSet(S)
  PROVE  \E f : f = Partial(w, f, S)
<1> DEFINE Small(n) == {t \in SUBSET S : Cardinality(t) <= n}
           Step(f, t) == IF t = {} THEN 0 ELSE w[AnyOf(t)] + f[t \ {AnyOf(t)}]
           Good(n) == \E f : f = [t \in Small(n) |-> Step(f, t)]
           Bad == {n \in Nat : ~Good(n)}
<1>1. \A t \in SUBSET S : IsFiniteSet(t) /\ Cardinality(t) \in Nat
  BY FS_Subset, FS_CardinalityType
<1>2. Bad = {}
  <2> SUFFICES ASSUME Bad # {} PROVE FALSE
    OBVIOUS
  <2>1. PICK n \in Bad : \A m \in Bad : n <= m
    <3>1. Bad \subseteq Nat
      OBVIOUS
    <3> HIDE DEF Bad
    <3> QED BY <3>1, MinNat
  <2>2. CASE n = 0
    <3>1. \A t \in Small(0) : t = {}
      BY <1>1, FS_EmptySet
    <3>2. [t \in Small(0) |-> 0] = [t \in Small(0) |-> Step([u \in Small(0) |-> 0], t)]
      BY <3>1
    <3> QED BY <2>2, <3>2
  <2>3. CASE n # 0
    <3>1. n - 1 \in Nat /\ ~(n <= n - 1)
      BY <2>3
    <3>2. Good(n - 1)
      BY <2>1, <3>1
    <3>3. PICK f : f = [t \in Small(n - 1) |-> Step(f, t)]
      BY <3>2
    <3> DEFINE g == [t \in Small(n) |-> Step(f, t)]
    <3>4. ASSUME NEW t \in Small(n) PROVE Step(f, t) = Step(g, t)
      <4>1. CASE t = {}
        BY <4>1
      <4>2. CASE t # {}
        <5> DEFINE u == t \ {AnyOf(t)}
        <5>1. AnyOf(t) \in t
          BY <4>2 DEF AnyOf
        <5>2. u \in Small(n - 1) /\ u \in Small(n)
          <6>1. IsFiniteSet(t) /\ u \in SUBSET S
            BY <1>1
          <6>2. Cardinality(u) \in Nat /\ Cardinality(t) \in Nat /\ Cardinality(u) = Cardinality(t) - 1
            BY <5>1, <6>1, LessOne
          <6> QED BY <6>1, <6>2, <2>3
        <5> HIDE DEF u
        <5>3. f[u] = Step(f, u)
          BY <3>3, <5>2
        <5>4. g[u] = Step(f, u)
          BY <5>2
        <5> QED BY <4>2, <5>3, <5>4 DEF u
      <4> QED BY <4>1, <4>2
    <3>5. g = [t \in Small(n) |-> Step(g, t)]
      BY <3>4
    <3> QED BY <3>5
  <2> QED BY <2>2, <2>3
<1>3. PICK f : f = [t \in Small(Cardinality(S)) |-> Step(f, t)]
  BY <1>1, <1>2
<1>4. Small(Cardinality(S)) = SUBSET S
  BY <1>1, FS_Subset
<1> QED BY <1>3, <1>4 DEF Partial

\* ... and what a solution says of a set depends on nothing but its weights.
LEMMA PartialUnique ==
  ASSUME NEW w, NEW v, NEW S, NEW T, NEW f, NEW g,
         f = Partial(w, f, S), g = Partial(v, g, T),
         NEW u, IsFiniteSet(u), u \subseteq S, u \subseteq T, \A x \in u : w[x] = v[x]
  PROVE  f[u] = g[u]
<1> DEFINE Bad == {n \in Nat : \E t \in SUBSET u : Cardinality(t) = n /\ f[t] # g[t]}
<1>1. Bad = {}
  <2> SUFFICES ASSUME Bad # {} PROVE FALSE
    OBVIOUS
  <2>1. PICK n \in Bad : \A m \in Bad : n <= m
    <3>1. Bad \subseteq Nat
      OBVIOUS
    <3> HIDE DEF Bad
    <3> QED BY <3>1, MinNat
  <2>2. PICK t \in SUBSET u : Cardinality(t) = n /\ f[t] # g[t]
    OBVIOUS
  <2>3. /\ f[t] = IF t = {} THEN 0 ELSE w[AnyOf(t)] + f[t \ {AnyOf(t)}]
        /\ g[t] = IF t = {} THEN 0 ELSE v[AnyOf(t)] + g[t \ {AnyOf(t)}]
    <3>1. t \in SUBSET S /\ t \in SUBSET T
      OBVIOUS
    <3>2. f[t] = Partial(w, f, S)[t] /\ g[t] = Partial(v, g, T)[t]
      OBVIOUS
    <3> QED BY <3>1, <3>2, Zenon DEF Partial
  <2>4. t # {} /\ AnyOf(t) \in t
    BY <2>2, <2>3 DEF AnyOf
  <2>5. IsFiniteSet(t)
    BY FS_Subset
  <2>6. /\ Cardinality(t \ {AnyOf(t)}) \in Nat
        /\ Cardinality(t \ {AnyOf(t)}) = n - 1
        /\ t \ {AnyOf(t)} \in SUBSET u
    BY <2>2, <2>4, <2>5, LessOne
  <2>7. f[t \ {AnyOf(t)}] = g[t \ {AnyOf(t)}]
    BY <2>1, <2>6
  <2> QED BY <2>2, <2>3, <2>4, <2>7
<1> QED BY <1>1, FS_CardinalityType

\* So the fold is the value of any solution, and equal weights give equal sums.
LEMMA SumIs ==
  ASSUME NEW w, NEW S, IsFiniteSet(S), NEW v, NEW T, S \subseteq T, NEW f, f = Partial(v, f, T),
         \A x \in S : w[x] = v[x]
  PROVE  SumOf(w, S) = f[S]
<1> DEFINE g == CHOOSE g : g = Partial(w, g, S)
<1>1. SumOf(w, S) = g[S]
  BY Zenon DEF SumOf, MapThenSumSet, MapThenFoldSet, Partial, AnyOf
<1>2. g = Partial(w, g, S)
  BY PartialExists
<1> HIDE DEF g
<1> QED BY <1>1, <1>2, PartialUnique

LEMMA SumSame ==
  ASSUME NEW w, NEW v, NEW S, IsFiniteSet(S), \A x \in S : w[x] = v[x]
  PROVE  SumOf(w, S) = SumOf(v, S)
<1>1. PICK f : f = Partial(v, f, S)
  BY PartialExists
<1> QED BY <1>1, SumIs

LEMMA SumEmpty == ASSUME NEW w PROVE SumOf(w, {}) = 0
<1>1. IsFiniteSet({})
  BY FS_EmptySet
<1>2. PICK f : f = Partial(w, f, {})
  BY <1>1, PartialExists
<1>3. f[{}] = Partial(w, f, {})[{}]
  BY <1>2
<1>4. f[{}] = 0
  BY <1>3 DEF Partial
<1> QED BY <1>1, <1>2, <1>4, SumIs

LEMMA SumAny ==
  ASSUME NEW w, NEW S, IsFiniteSet(S), S # {}
  PROVE  AnyOf(S) \in S /\ SumOf(w, S) = w[AnyOf(S)] + SumOf(w, S \ {AnyOf(S)})
<1>1. AnyOf(S) \in S
  BY DEF AnyOf
<1>2. PICK f : f = Partial(w, f, S)
  BY PartialExists
<1>3. f[S] = Partial(w, f, S)[S]
  BY <1>2
<1>4. f[S] = w[AnyOf(S)] + f[S \ {AnyOf(S)}]
  BY <1>3 DEF Partial
<1>5. IsFiniteSet(S \ {AnyOf(S)})
  BY <1>1, LessOne
<1>6. SumOf(w, S) = f[S] /\ SumOf(w, S \ {AnyOf(S)}) = f[S \ {AnyOf(S)}]
  BY <1>2, <1>5, SumIs
<1> QED BY <1>1, <1>4, <1>6

\* A sum of naturals is a natural.
LEMMA SumType ==
  ASSUME NEW w, NEW S, IsFiniteSet(S), \A x \in S : w[x] \in Nat
  PROVE  SumOf(w, S) \in Nat
<1> DEFINE Bad == {n \in Nat : \E t \in SUBSET S : Cardinality(t) = n /\ SumOf(w, t) \notin Nat}
<1>1. Bad = {}
  <2> SUFFICES ASSUME Bad # {} PROVE FALSE
    OBVIOUS
  <2>1. PICK n \in Bad : \A m \in Bad : n <= m
    <3>1. Bad \subseteq Nat
      OBVIOUS
    <3> HIDE DEF Bad
    <3> QED BY <3>1, MinNat
  <2>2. PICK t \in SUBSET S : Cardinality(t) = n /\ SumOf(w, t) \notin Nat
    OBVIOUS
  <2>3. IsFiniteSet(t) /\ t # {}
    <3>1. SumOf(w, {}) \in Nat
      BY SumEmpty
    <3> QED BY <2>2, <3>1, FS_Subset
  <2>4. AnyOf(t) \in t /\ SumOf(w, t) = w[AnyOf(t)] + SumOf(w, t \ {AnyOf(t)})
    BY <2>3, SumAny
  <2>5. /\ Cardinality(t \ {AnyOf(t)}) \in Nat /\ Cardinality(t \ {AnyOf(t)}) = n - 1
        /\ t \ {AnyOf(t)} \in SUBSET S
    BY <2>2, <2>3, <2>4, LessOne
  <2>6. SumOf(w, t \ {AnyOf(t)}) \in Nat
    BY <2>1, <2>5
  <2> QED BY <2>2, <2>4, <2>6
<1> QED BY <1>1, FS_CardinalityType

\* Any element may be counted first: the order of the summands is immaterial.
LEMMA SumRemove ==
  ASSUME NEW w, NEW S, IsFiniteSet(S), \A x \in S : w[x] \in Nat, NEW y \in S
  PROVE  SumOf(w, S) = w[y] + SumOf(w, S \ {y})
<1> DEFINE Bad == {n \in Nat : \E t \in SUBSET S : /\ Cardinality(t) = n
                                 /\ \E x \in t : SumOf(w, t) # w[x] + SumOf(w, t \ {x})}
<1>1. Bad = {}
  <2> SUFFICES ASSUME Bad # {} PROVE FALSE
    OBVIOUS
  <2>1. PICK n \in Bad : \A m \in Bad : n <= m
    <3>1. Bad \subseteq Nat
      OBVIOUS
    <3> HIDE DEF Bad
    <3> QED BY <3>1, MinNat
  <2>2. PICK t \in SUBSET S : Cardinality(t) = n /\ \E x \in t : SumOf(w, t) # w[x] + SumOf(w, t \ {x})
    OBVIOUS
  <2>0. PICK x \in t : SumOf(w, t) # w[x] + SumOf(w, t \ {x})
    BY <2>2
  <2> DEFINE a == AnyOf(t)
  <2>3. IsFiniteSet(t) /\ t # {}
    BY <2>2, FS_Subset
  <2>4. a \in t /\ SumOf(w, t) = w[a] + SumOf(w, t \ {a})
    BY <2>3, SumAny
  <2> HIDE DEF a
  <2>5. a # x
    BY <2>0, <2>4
  <2>6. /\ IsFiniteSet(t \ {a}) /\ t \ {a} \in SUBSET S /\ Cardinality(t \ {a}) = n - 1
        /\ IsFiniteSet(t \ {x}) /\ t \ {x} \in SUBSET S /\ Cardinality(t \ {x}) = n - 1
        /\ n - 1 \in Nat
    BY <2>2, <2>3, <2>4, LessOne
  <2>7. n - 1 \notin Bad
    BY <2>1, <2>6
  <2>8. /\ SumOf(w, t \ {a}) = w[x] + SumOf(w, (t \ {a}) \ {x})
        /\ SumOf(w, t \ {x}) = w[a] + SumOf(w, (t \ {x}) \ {a})
    <3>1. x \in t \ {a} /\ a \in t \ {x}
      BY <2>4, <2>5
    <3> QED BY <2>6, <2>7, <3>1
  <2>9. (t \ {a}) \ {x} = (t \ {x}) \ {a}
    OBVIOUS
  <2>10. w[a] \in Nat /\ w[x] \in Nat /\ SumOf(w, (t \ {x}) \ {a}) \in Nat
    <3>1. IsFiniteSet((t \ {x}) \ {a}) /\ \A z \in (t \ {x}) \ {a} : w[z] \in Nat
      BY <2>6, FS_Subset
    <3> QED BY <2>4, <3>1, SumType
  <2>11. SumOf(w, t) = w[a] + (w[x] + SumOf(w, (t \ {x}) \ {a}))
    BY <2>4, <2>8, <2>9, Zenon
  <2>12. SumOf(w, t) # w[x] + (w[a] + SumOf(w, (t \ {x}) \ {a}))
    BY <2>0, <2>8, Zenon
  <2> QED BY <2>10, <2>11, <2>12
<1> QED BY <1>1, FS_CardinalityType

LEMMA SumAdd ==
  ASSUME NEW w, NEW S, IsFiniteSet(S), NEW y, y \notin S, \A x \in S \cup {y} : w[x] \in Nat
  PROVE  IsFiniteSet(S \cup {y}) /\ SumOf(w, S \cup {y}) = w[y] + SumOf(w, S)
<1>1. IsFiniteSet(S \cup {y}) /\ (S \cup {y}) \ {y} = S /\ y \in S \cup {y}
  BY FS_AddElement
<1> QED BY <1>1, SumRemove

\* The sum over two disjoint sets.
LEMMA SumUnion ==
  ASSUME NEW w, NEW S, IsFiniteSet(S), NEW T, IsFiniteSet(T), S \cap T = {},
         \A x \in S \cup T : w[x] \in Nat
  PROVE  IsFiniteSet(S \cup T) /\ SumOf(w, S \cup T) = SumOf(w, S) + SumOf(w, T)
<1> DEFINE Bad == {n \in Nat : \E t \in SUBSET T : /\ Cardinality(t) = n
                                 /\ SumOf(w, S \cup t) # SumOf(w, S) + SumOf(w, t)}
<1>0. IsFiniteSet(S \cup T) /\ SumOf(w, S) \in Nat
  BY FS_Union, SumType
<1>1. Bad = {}
  <2> SUFFICES ASSUME Bad # {} PROVE FALSE
    OBVIOUS
  <2>1. PICK n \in Bad : \A m \in Bad : n <= m
    <3>1. Bad \subseteq Nat
      OBVIOUS
    <3> HIDE DEF Bad
    <3> QED BY <3>1, MinNat
  <2>2. PICK t \in SUBSET T : Cardinality(t) = n /\ SumOf(w, S \cup t) # SumOf(w, S) + SumOf(w, t)
    OBVIOUS
  <2>3. t # {}
    <3>1. S \cup {} = S
      OBVIOUS
    <3> QED BY <1>0, <2>2, <3>1, SumEmpty
  <2>4. PICK x \in t : TRUE
    BY <2>3
  <2> DEFINE u == t \ {x}
  <2>5. IsFiniteSet(t) /\ \A z \in t : w[z] \in Nat
    BY FS_Subset
  <2>6. /\ IsFiniteSet(u) /\ u \in SUBSET T /\ Cardinality(u) \in Nat /\ Cardinality(u) = n - 1
    BY <2>2, <2>5, LessOne
  <2>7. SumOf(w, t) = w[x] + SumOf(w, u)
    BY <2>5, SumRemove
  <2>8. SumOf(w, S \cup u) = SumOf(w, S) + SumOf(w, u)
    <3>0. n \in Nat /\ n - 1 \in Nat /\ ~(n <= n - 1)
      <4>1. n - 1 \in Nat
        BY <2>6, Zenon
      <4> QED BY <4>1
    <3>1. n - 1 \notin Bad /\ n - 1 \in Nat
      BY <2>1, <3>0, Zenon
    <3> QED BY <2>6, <3>1, Zenon
  <2>9. SumOf(w, S \cup t) = w[x] + SumOf(w, S \cup u)
    <3>1. IsFiniteSet(S \cup t) /\ x \in S \cup t /\ (S \cup t) \ {x} = S \cup u
      BY <2>5, FS_Union
    <3> QED BY <3>1, SumRemove
  <2>10. w[x] \in Nat /\ SumOf(w, u) \in Nat
    BY <2>5, <2>6, SumType
  <2> QED BY <1>0, <2>2, <2>7, <2>8, <2>9, <2>10
<1> QED BY <1>0, <1>1, FS_CardinalityType

\* s names every member of T by one index of S, with the weight it has.
Names(s, S, v, T, w) ==
  /\ \A i \in S : v[i] = w[s[i]] /\ v[i] \in Nat
  /\ \A i, j \in S : s[i] = s[j] => i = j
  /\ \A z : z \in T <=> \E i \in S : s[i] = z

\* The sum does not care how its summands are indexed.
LEMMA SumIndexed ==
  ASSUME NEW w, NEW v, NEW s, NEW S, IsFiniteSet(S), NEW T, Names(s, S, v, T, w)
  PROVE  IsFiniteSet(T) /\ SumOf(v, S) = SumOf(w, T)
<1> DEFINE At(t) == {s[i] : i \in t}
           Bad == {n \in Nat : \E t \in SUBSET S : /\ Cardinality(t) = n
                                 /\ ~(IsFiniteSet(At(t)) /\ SumOf(v, t) = SumOf(w, At(t)))}
<1> USE DEF Names
<1>1. Bad = {}
  <2> SUFFICES ASSUME Bad # {} PROVE FALSE
    OBVIOUS
  <2>1. PICK n \in Bad : \A m \in Bad : n <= m
    <3>1. Bad \subseteq Nat
      OBVIOUS
    <3> HIDE DEF Bad
    <3> QED BY <3>1, MinNat
  <2>2. PICK t \in SUBSET S : /\ Cardinality(t) = n
                              /\ ~(IsFiniteSet(At(t)) /\ SumOf(v, t) = SumOf(w, At(t)))
    OBVIOUS
  <2>3. t # {}
    <3>1. At({}) = {}
      OBVIOUS
    <3> QED BY <2>2, <3>1, SumEmpty, FS_EmptySet
  <2>4. PICK x \in t : TRUE
    BY <2>3
  <2> DEFINE u == t \ {x}
  <2>5. IsFiniteSet(t) /\ \A z \in t : v[z] \in Nat
    BY FS_Subset
  <2>6. /\ u \in SUBSET S /\ Cardinality(u) \in Nat /\ Cardinality(u) = n - 1
    BY <2>2, <2>5, LessOne
  <2>7. IsFiniteSet(At(u)) /\ SumOf(v, u) = SumOf(w, At(u))
    <3>0. n \in Nat /\ n - 1 \in Nat /\ ~(n <= n - 1)
      <4>1. n - 1 \in Nat
        BY <2>6, Zenon
      <4> QED BY <4>1
    <3>1. n - 1 \notin Bad /\ n - 1 \in Nat
      BY <2>1, <3>0, Zenon
    <3> HIDE DEF At
    <3> QED BY <2>6, <3>1, Zenon
  <2>8. At(t) = At(u) \cup {s[x]} /\ s[x] \notin At(u)
    OBVIOUS
  <2>9. \A z \in At(t) : w[z] \in Nat
    OBVIOUS
  <2>10. IsFiniteSet(At(t)) /\ SumOf(w, At(t)) = w[s[x]] + SumOf(w, At(u))
    <3> DEFINE A == At(u)
               y == s[x]
    <3> HIDE DEF At, A, y
    <3>1. IsFiniteSet(A) /\ y \notin A /\ \A z \in A \cup {y} : w[z] \in Nat
      BY <2>7, <2>8, <2>9 DEF A, y
    <3>2. IsFiniteSet(A \cup {y}) /\ SumOf(w, A \cup {y}) = w[y] + SumOf(w, A)
      BY <3>1, SumAdd
    <3> QED BY <2>8, <3>2 DEF A, y
  <2>11. SumOf(v, t) = v[x] + SumOf(v, u)
    BY <2>5, SumRemove
  <2> QED BY <2>2, <2>7, <2>10, <2>11
<1>2. T = At(S)
  OBVIOUS
<1>3. IsFiniteSet(At(S)) /\ SumOf(v, S) = SumOf(w, At(S))
  <2> HIDE DEF At
  <2> QED BY <1>1, FS_CardinalityType
<1> QED BY <1>2, <1>3

-----------------------------------------------------------------------------
(* The byte count                                                           *)

\* What a resident year is accounted with, when e are the entries.
Weight(e) == [y \in Years |-> Size[e[y]]]

\* The byte count is the size of the resident entries, and within the bound.
ByteInv == bytes = SumOf(Weight(entries), Resident) /\ bytes <= MaxBytes

LEMMA WeightType ==
  ASSUME TypeOK, NEW y \in Resident
  PROVE  Weight(entries)[y] = Size[entries[y]] /\ Size[entries[y]] \in Nat
BY RawAssumption, SizeAssumption DEF Weight, Resident, TypeOK

LEMMA ResidentFinite ==
  ASSUME TypeOK, ListInv
  PROVE  IsFiniteSet(Resident)
<1>1. lru \in Seq(Years) /\ Len(lru) \in Nat /\ DOMAIN lru = 1..Len(lru)
  BY DEF TypeOK
<1>2. IsFiniteSet(1..Len(lru))
  BY <1>1, FS_Interval
<1>3. Resident = {lru[i] : i \in 1..Len(lru)}
  BY <1>1 DEF Resident, ListInv, In
<1>4. lru \in Surjection(1..Len(lru), Resident)
  BY <1>1, <1>3 DEF Surjection
<1> QED BY <1>2, <1>4, FS_Surjection

\* SizeAt counts each year at the given positions once.
LEMMA SizeAtIs ==
  ASSUME TypeOK, NEW s \in Seq(Years), Distinct(s), NEW I \in SUBSET (1..Len(s)),
         \A i \in I : s[i] \in Resident
  PROVE  /\ IsFiniteSet({s[i] : i \in I})
         /\ SizeAt(s, I) = SumOf(Weight(entries), {s[i] : i \in I})
<1> DEFINE v == [i \in I |-> Size[entries[s[i]]]]
           Eq(f) == [t \in SUBSET I |->
                       IF t = {} THEN 0 ELSE Size[entries[s[AnyOf(t)]]] + f[t \ {AnyOf(t)}]]
           g == CHOOSE f : f = Eq(f)
<1>1. IsFiniteSet(I)
  <2>1. 1 \in Int /\ Len(s) \in Int
    OBVIOUS
  <2> QED BY <2>1, FS_Interval, FS_Subset, Zenon
<1>2. SizeAt(s, I) = g[I]
  BY Zenon DEF SizeAt, MapThenSumSet, MapThenFoldSet, AnyOf
<1>3. \A f : Eq(f) = Partial(v, f, I)
  <2>1. \A t \in SUBSET I : t # {} => v[AnyOf(t)] = Size[entries[s[AnyOf(t)]]]
    BY DEF AnyOf
  <2> QED BY <2>1 DEF Partial
<1> HIDE DEF g, Eq, v
<1>4. g = Eq(g)
  <2>1. PICK f : f = Partial(v, f, I)
    BY <1>1, PartialExists
  <2>2. f = Eq(f)
    BY <1>3, <2>1
  <2> QED BY <2>2, Zenon DEF g
<1>5. SumOf(v, I) = g[I]
  <2>1. g = Partial(v, g, I)
    BY <1>3, <1>4
  <2> QED BY <1>1, <2>1, SumIs
<1>6. \A i \in I : v[i] = Weight(entries)[s[i]] /\ v[i] \in Nat
  BY WeightType DEF v
<1>7. \A i, j \in I : s[i] = s[j] => i = j
  BY DEF Distinct
<1>8. IsFiniteSet({s[i] : i \in I}) /\ SumOf(v, I) = SumOf(Weight(entries), {s[i] : i \in I})
  <2> DEFINE T == {s[i] : i \in I}
  <2>1. Names(s, I, v, T, Weight(entries))
    BY <1>6, <1>7 DEF Names
  <2> HIDE DEF T
  <2>2. IsFiniteSet(T) /\ SumOf(v, I) = SumOf(Weight(entries), T)
    BY <1>1, <2>1, SumIndexed
  <2> QED BY <2>2 DEF T
<1> QED BY <1>2, <1>5, <1>8, Zenon

LEMMA ByteRemove ==
  ASSUME TypeOK, ListInv, ByteInv, NEW y \in Years, entries[y] # NoRow, remove(y)
  PROVE  ByteInv'
<1> DEFINE w == Weight(entries)
<1>1. entries' = [entries EXCEPT ![y] = NoRow] /\ bytes' = bytes - Size[entries[y]]
  BY DEF remove
<1>2. y \in Resident /\ Resident' = Resident \ {y}
  BY <1>1 DEF TypeOK, Resident
<1>3. IsFiniteSet(Resident) /\ IsFiniteSet(Resident \ {y}) /\ \A z \in Resident : w[z] \in Nat
  BY <1>2, ResidentFinite, LessOne, WeightType
<1>4. \A z \in Resident \ {y} : Weight(entries')[z] = w[z]
  BY <1>1 DEF Weight, TypeOK, Resident
<1>5. w[y] = Size[entries[y]] /\ w[y] \in Nat
  BY <1>2, WeightType
<1> HIDE DEF w
<1>6. SumOf(Weight(entries'), Resident \ {y}) = SumOf(w, Resident \ {y})
  BY <1>3, <1>4, SumSame
<1>7. SumOf(w, Resident) = w[y] + SumOf(w, Resident \ {y}) /\ SumOf(w, Resident \ {y}) \in Nat
  BY <1>2, <1>3, SumRemove, SumType
<1>8. bytes = SumOf(w, Resident) /\ bytes <= MaxBytes /\ MaxBytes \in Nat
  BY BoundAssumption DEF ByteInv, w
<1>9. bytes' = SumOf(w, Resident \ {y}) /\ bytes' <= MaxBytes
  BY <1>1, <1>5, <1>7, <1>8
<1> QED BY <1>2, <1>6, <1>9 DEF ByteInv

LEMMA ByteHit ==
  ASSUME ByteInv, UNCHANGED <<entries, bytes>>
  PROVE  ByteInv'
BY DEF ByteInv, Resident, Weight

(***************************************************************************)
(* The eviction loop of admit subtracts the sizes of what it drops from the *)
(* back of the list; what it is left with is the size of what it keeps.     *)
(***************************************************************************)
LEMMA ByteAdmit ==
  ASSUME TypeOK, ListInv, ByteInv, NEW r \in Readers, raw[r] \in Valid, admit(r)
  PROVE  ByteInv'
<1>1. CASE Refused(r)
  BY <1>1, ByteHit DEF admit
<1>2. CASE ~Refused(r)
  <2> DEFINE y == year[r]
             w == Weight(entries)
             l == Unlink(lru, year[r])
             n == IF entries[year[r]] = NoRow THEN bytes
                  ELSE bytes - Size[entries[year[r]]]
             After(k) == n - SizeAt(l, (k + 1)..Len(l))
             E == {e \in 0..Len(l) :
                     LET k == Len(l) - e IN HasRoom(k, After(k) + Size[raw[r]])}
             kept == Len(l) - Min(E \cup {Len(l)})
             Kept(k) == {l[i] : i \in 1..k}
  <2>0. lru \in Seq(Years) /\ y \in Years /\ MaxBytes \in Nat /\ Size[raw[r]] \in Nat
        /\ Size[raw[r]] <= MaxBytes
    BY <1>2, BoundAssumption, RawAssumption, SizeAssumption DEF TypeOK, Refused
  <2>1. /\ l \in Seq(Years) /\ Distinct(l) /\ ~In(l, y)
        /\ \A z : In(l, z) <=> z # y /\ In(lru, z)
    BY <2>0, UnlinkSeq, UnlinkDrops DEF ListInv
  <2>2. /\ entries' = [z \in Years |->
                         IF z = year[r] THEN raw[r]
                         ELSE IF \E i \in 1..kept : l[i] = z THEN entries[z] ELSE NoRow]
        /\ bytes' = After(kept) + Size[raw[r]]
    BY <1>2, Zenon DEF admit
  <2>3. Len(l) \in Nat
    BY <2>1, LenProperties
  <2>4. /\ kept \in 0..Len(l)
        /\ kept = 0 \/ After(kept) + Size[raw[r]] <= MaxBytes
    <3>1. \A e \in E : e \in 0..Len(l) /\ After(Len(l) - e) + Size[raw[r]] <= MaxBytes
      BY DEF HasRoom
    <3> HIDE DEF E, l, After
    <3>2. E \cup {Len(l)} \subseteq Nat /\ E \cup {Len(l)} # {}
      BY <2>3, <3>1
    <3>3. Min(E \cup {Len(l)}) \in E \cup {Len(l)}
      BY <3>2, MinNat
    <3>4. ASSUME NEW m \in E \cup {Len(l)}
          PROVE  /\ Len(l) - m \in 0..Len(l)
                 /\ Len(l) - m = 0 \/ After(Len(l) - m) + Size[raw[r]] <= MaxBytes
      <4>1. CASE m \in E
        BY <2>3, <3>1, <4>1
      <4>2. CASE m = Len(l)
        BY <2>3, <4>2
      <4> QED BY <4>1, <4>2
    <3> QED BY <3>3, <3>4, Zenon
  <2> HIDE DEF kept, l, After
  <2>5. Kept(Len(l)) = Resident \ {y}
    <3>1. \A z \in Years : z \in Kept(Len(l)) <=> In(l, z)
      BY DEF In
    <3>2. \A i \in 1..Len(l) : l[i] \in Years
      BY <2>1, ElementOfSeq
    <3> QED BY <2>1, <3>1, <3>2 DEF ListInv, Resident
  <2>6. /\ IsFiniteSet(Resident) /\ IsFiniteSet(Resident \ {y})
        /\ \A z \in Resident : w[z] = Size[entries[z]] /\ w[z] \in Nat
    BY ResidentFinite, FS_Subset, WeightType
  <2>7. n = SumOf(w, Resident \ {y})
    <3>1. bytes = SumOf(w, Resident)
      BY DEF ByteInv
    <3>2. CASE entries[y] = NoRow
      <4>1. Resident \ {y} = Resident
        BY <3>2 DEF Resident
      <4> QED BY <3>1, <3>2, <4>1
    <3>3. CASE entries[y] # NoRow
      <4>1. y \in Resident
        BY <2>0, <3>3 DEF Resident
      <4> HIDE DEF w, y
      <4>2. SumOf(w, Resident) = w[y] + SumOf(w, Resident \ {y}) /\ SumOf(w, Resident \ {y}) \in Nat
        BY <2>6, <4>1, SumRemove, SumType
      <4>3. w[y] = Size[entries[y]] /\ w[y] \in Nat
        BY <2>6, <4>1
      <4>4. n = bytes - Size[entries[y]]
        BY <3>3 DEF y
      <4> QED BY <3>1, <4>2, <4>3, <4>4
    <3> QED BY <3>2, <3>3
  <2> HIDE DEF n
  <2>8. /\ IsFiniteSet(Kept(kept)) /\ SumOf(w, Kept(kept)) \in Nat
        /\ After(kept) = SumOf(w, Kept(kept))
        /\ Kept(kept) \subseteq Resident \ {y}
    <3> DEFINE Back == {l[i] : i \in (kept + 1)..Len(l)}
    <3>1. Kept(kept) \cup Back = Resident \ {y}
      <4>1. 1..Len(l) = 1..kept \cup (kept + 1)..Len(l)
        BY <2>3, <2>4
      <4> QED BY <2>5, <4>1
    <3>2. Kept(kept) \cap Back = {}
      <4> SUFFICES ASSUME NEW i \in 1..kept, NEW j \in (kept + 1)..Len(l), l[i] = l[j]
                   PROVE  FALSE
        OBVIOUS
      <4>1. i \in 1..Len(l) /\ j \in 1..Len(l) /\ i # j
        BY <2>3, <2>4
      <4> QED BY <2>1, <4>1 DEF Distinct
    <3>3. \A i \in (kept + 1)..Len(l) : l[i] \in Resident
      BY <3>1
    <3>4. (kept + 1)..Len(l) \in SUBSET (1..Len(l))
      BY <2>3, <2>4
    <3>5. SizeAt(l, (kept + 1)..Len(l)) = SumOf(w, Back)
      BY <2>1, <3>3, <3>4, SizeAtIs
    <3> HIDE DEF Back, Kept, w
    <3>6. /\ Kept(kept) \subseteq Resident /\ Back \subseteq Resident
          /\ IsFiniteSet(Kept(kept)) /\ IsFiniteSet(Back)
      BY <2>6, <3>1, FS_Subset
    <3>7. SumOf(w, Resident \ {y}) = SumOf(w, Kept(kept)) + SumOf(w, Back)
      BY <2>6, <3>1, <3>2, <3>6, SumUnion
    <3>8. SumOf(w, Kept(kept)) \in Nat /\ SumOf(w, Back) \in Nat
      BY <2>6, <3>6, SumType
    <3> QED BY <2>7, <3>1, <3>5, <3>6, <3>7, <3>8 DEF After
  <2>9. /\ Resident' = Kept(kept) \cup {y} /\ y \notin Kept(kept)
        /\ \A z \in Kept(kept) : Weight(entries')[z] = w[z]
        /\ Weight(entries')[y] = Size[raw[r]]
    <3>1. \A z \in Kept(kept) : z \in Resident /\ z # y
      BY <2>8
    <3>2. \A z \in Years : (\E i \in 1..kept : l[i] = z) <=> z \in Kept(kept)
      OBVIOUS
    <3>3. raw[r] # NoRow
      BY RawAssumption
    <3> HIDE DEF Kept
    <3>4. \A z \in Years : entries'[z] = IF z = y THEN raw[r]
                                         ELSE IF z \in Kept(kept) THEN entries[z] ELSE NoRow
      BY <2>2, <3>2
    <3> QED BY <2>0, <3>1, <3>3, <3>4 DEF Resident, Weight
  <2>10. SumOf(Weight(entries'), Resident') = Size[raw[r]] + SumOf(w, Kept(kept))
    <3> DEFINE v == Weight(entries')
               F == Kept(kept)
    <3>1. \A z \in F : w[z] \in Nat /\ v[z] = w[z]
      BY <2>6, <2>8, <2>9
    <3>2. v[y] = Size[raw[r]] /\ v[y] \in Nat /\ y \notin F /\ IsFiniteSet(F)
      BY <2>0, <2>8, <2>9
    <3>3. Resident' = F \cup {y}
      BY <2>9
    <3> HIDE DEF v, F, w, y
    <3>4. SumOf(v, F \cup {y}) = v[y] + SumOf(v, F)
      BY <3>1, <3>2, SumAdd
    <3>5. SumOf(v, F) = SumOf(w, F)
      BY <3>1, <3>2, SumSame
    <3>6. SumOf(v, Resident') = Size[raw[r]] + SumOf(w, F)
      BY <3>2, <3>3, <3>4, <3>5
    <3> QED BY <3>6 DEF v, F
  <2>11. bytes' = SumOf(Weight(entries'), Resident')
    BY <2>0, <2>2, <2>8, <2>10
  <2>12. bytes' <= MaxBytes
    <3>1. CASE kept = 0
      <4>1. Kept(0) = {}
        OBVIOUS
      <4>2. SumOf(w, Kept(kept)) = 0
        BY <3>1, <4>1, SumEmpty
      <4> QED BY <2>0, <2>2, <2>8, <4>2
    <3> QED BY <2>2, <2>4, <3>1
  <2> QED BY <2>11, <2>12 DEF ByteInv
<1> QED BY <1>1, <1>2

LEMMA ByteDrop ==
  ASSUME TypeOK, ListInv, ByteInv, NEW Y \in SUBSET Years, NEW close \in BOOLEAN, Drop(Y, close)
  PROVE  ByteInv'
<1>1. CASE Y = Years
  <2>1. entries' = [y \in Years |-> NoRow] /\ bytes' = 0
    BY <1>1, Zenon DEF Drop
  <2>2. Resident' = {}
    BY <2>1 DEF Resident
  <2>3. SumOf(Weight(entries'), {}) = 0
    BY SumEmpty
  <2> QED BY <2>1, <2>2, <2>3, BoundAssumption DEF ByteInv
<1>2. CASE Y # Years
  <2>1. PICK y \in Years : IF entries[y] # NoRow THEN remove(y)
                           ELSE UNCHANGED <<entries, lru, bytes>>
    BY <1>2 DEF Drop
  <2>2. CASE entries[y] # NoRow
    BY <2>1, <2>2, ByteRemove
  <2>3. CASE entries[y] = NoRow
    BY <2>1, <2>3, ByteHit
  <2> QED BY <2>2, <2>3
<1> QED BY <1>1, <1>2

LEMMA ByteStep ==
  ASSUME TypeOK, ListInv, ByteInv, [Next]_vars
  PROVE  ByteInv'
<1> USE DEF dbVars, memVars, gateVars, readerVars
<1>m. ASSUME NEW r \in Readers, LookupMiss(r) PROVE ByteInv'
  <2>1. CASE MayEvict(r)
    <3>1. remove(year[r]) /\ year[r] \in Years /\ entries[year[r]] # NoRow
      BY <1>m, <2>1 DEF LookupMiss, TypeOK, MayEvict
    <3> QED BY <3>1, ByteRemove
  <2>2. CASE ~MayEvict(r)
    BY <1>m, <2>2, ByteHit DEF LookupMiss
  <2> QED BY <2>1, <2>2
<1>h. ASSUME NEW r \in Readers, LookupHit(r) PROVE ByteInv'
  BY <1>h, ByteHit DEF LookupHit
<1>1. ASSUME NEW r \in Readers, Lookup(r) PROVE ByteInv'
  BY <1>1, <1>m, <1>h DEF Lookup
<1>2. ASSUME NEW r \in Readers, Recheck(r) PROVE ByteInv'
  BY <1>2, <1>m, <1>h, ByteHit DEF Recheck
<1>3. ASSUME NEW r \in Readers, Decode(r) PROVE ByteInv'
  <2>1. CASE ~cancelled[r] /\ raw[r] \in Valid
    BY <1>3, <2>1, ByteAdmit DEF Decode, Retainable
  <2>2. CASE cancelled[r] \/ raw[r] \notin Valid
    BY <1>3, <2>2, ByteHit DEF Decode, Retainable
  <2> QED BY <2>1, <2>2
<1>4. ASSUME NEW m \in Mutators, Invalidate(m) PROVE ByteInv'
  <2>1. cover[m] \in SUBSET Years
    BY DEF TypeOK
  <2> QED BY <1>4, <2>1, ByteDrop DEF Invalidate
<1>5. ASSUME NEW m \in Mutators, MutatorStep(m), ~Invalidate(m) PROVE ByteInv'
  BY <1>5, ByteHit DEF MutatorStep, SetYear, Clear, PruneStaleYears, Commit
<1>6. CASE Close
  BY <1>6, ByteDrop DEF Close
<1>7. CASE \/ \E y \in Years, b \in Row : ForeignWrite(y, b)
           \/ CloseDB \/ UNCHANGED vars
  BY <1>7, ByteHit DEF ForeignWrite, Commit, CloseDB, vars
<1>8. ASSUME NEW r \in Readers,
             \/ \E z \in Years : Begin(r, z)
             \/ Cancel(r) \/ Query(r) \/ QueryError(r) \/ EnterGate(r) \/ TakeToken(r)
             \/ AbandonWait(r) \/ Copy(r) \/ ReleaseToken(r) \/ Unref(r) \/ Return(r)
      PROVE  ByteInv'
  BY <1>8, ByteHit DEF Begin, Cancel, Query, QueryError, EnterGate, TakeToken, AbandonWait, Copy,
                       ReleaseToken, Unref, Return
<1> QED BY <1>1, <1>2, <1>3, <1>4, <1>5, <1>6, <1>7, <1>8 DEF Next, ReaderStep

(***************************************************************************)
(* Bounded: the map, the recency list and the byte count agree, both        *)
(* retention bounds hold at every moment, whatever the sizes of the BLOBs,  *)
(* and a closed cache retains nothing.  That the byte bound holds rests on  *)
(* the byte count being the exact size of what is resident: the eviction    *)
(* loop of admit trusts it when it stops.                                   *)
(***************************************************************************)
THEOREM StaysBounded == Spec => []Bounded
<1>1. Init => ListInv /\ ByteInv
  <2> SUFFICES ASSUME Init PROVE ListInv /\ ByteInv
    OBVIOUS
  <2>1. \A y \in Years : entries[y] = NoRow
    BY DEF Init
  <2>2. lru = <<>> /\ Len(<<>>) = 0 /\ bytes = 0
    BY DEF Init
  <2>3. ListInv
    BY <2>1, <2>2, BoundAssumption DEF ListInv, Distinct, In
  <2>4. Resident = {} /\ SumOf(Weight(entries), {}) = 0
    BY <2>1, SumEmpty DEF Resident
  <2> QED BY <2>2, <2>3, <2>4, BoundAssumption DEF ByteInv
<1>2. TypeOK /\ ListInv /\ ByteInv /\ [Next]_vars => ListInv' /\ ByteInv'
  BY ListStep, ByteStep
<1>3. TypeOK /\ ListInv /\ ByteInv
      => bytes <= MaxBytes /\ bytes = SizeAt(lru, 1..Len(lru))
  <2> SUFFICES ASSUME TypeOK, ListInv, ByteInv PROVE bytes = SizeAt(lru, 1..Len(lru))
    BY DEF ByteInv
  <2>1. lru \in Seq(Years) /\ Distinct(lru)
    BY DEF TypeOK, ListInv
  <2>2. \A i \in 1..Len(lru) : lru[i] \in Years
    BY <2>1, ElementOfSeq
  <2>3. Resident = {lru[i] : i \in 1..Len(lru)}
    BY <2>2 DEF Resident, ListInv, In
  <2>4. SizeAt(lru, 1..Len(lru)) = SumOf(Weight(entries), Resident)
    BY <2>1, <2>3, SizeAtIs
  <2> QED BY <2>4 DEF ByteInv
<1>4. Spec => [](bytes <= MaxBytes /\ bytes = SizeAt(lru, 1..Len(lru)))
  BY <1>1, <1>2, <1>3, TypeCorrect, PTL DEF Spec
<1>5. (bytes <= MaxBytes /\ bytes = SizeAt(lru, 1..Len(lru))) /\ YearsBounded
        /\ (Coherent /\ ReadsFenced /\ ClosedEmpty)
      => Bounded
  BY DEF Bounded
<1> QED BY <1>4, <1>5, YearsStayBounded, Coherence, PTL
=============================================================================
