------------------------ MODULE AniListClient_proofs ------------------------
(***************************************************************************)
(* Proofs about AniListClient, for any number of concurrent fetches, every  *)
(* pacing, every deadline a response may carry and every batch size.        *)
(***************************************************************************)
EXTENDS AniListClient, FiniteSetTheorems, SequenceTheorems, WellFoundedInduction, TLAPS

-----------------------------------------------------------------------------
(* The inductive invariant                                                  *)

ClientType ==
  /\ interval \in Nat /\ since \in Nat /\ cooldown \in Nat /\ barred \in Nat
  /\ pc \in [Fetches -> {"idle", "gate", "sleep", "http"}]
  /\ backoff \in [Fetches -> Nat]
  /\ result \in [Fetches -> {"none", "complete", "error"}]
  /\ page \in [Fetches -> Nat \ {0}]
  /\ taken \in [Fetches -> Seq(Nat)]
  /\ due \in [Fetches -> SUBSET Nat]

\* The shared cooldown covers every deadline AniList has asked for so far.
DeadlinesCovered == barred <= cooldown

\* Between two batches a fetch has taken every page before the one it will ask
\* for, and AniList has named none beyond that one.
Course(f) ==
  /\ pc[f] = "idle" => page[f] = 1
  /\ pc[f] # "idle" => /\ result[f] # "complete"
                       /\ taken[f] = Upto(page[f] - 1)
                       /\ due[f] \subseteq 1 .. page[f]
  /\ result[f] = "complete" => /\ taken[f] = Upto(Len(taken[f]))
                               /\ due[f] \subseteq 1 .. Len(taken[f])
Courses == \A f \in Fetches : Course(f)

ClientInv == ClientType /\ DeadlinesCovered /\ Courses

-----------------------------------------------------------------------------
(* Helpers                                                                  *)

\* A nonempty set of natural numbers has a least element.
LEMMA LeastNat ==
  ASSUME NEW S, S \subseteq Nat, S # {}
  PROVE  \E m \in S : \A x \in S : m <= x
<1> DEFINE R == {ss \in Nat \X Nat : ss[1] < ss[2]}
<1>1. IsWellFoundedOn(R, Nat)
  BY NatLessThanWellFounded DEF OpToRel
<1>2. \A i, j \in Nat : i < j => <<i, j>> \in R
  OBVIOUS
<1> HIDE DEF R
<1>3. PICK m \in S : \A x \in S : ~(<<x, m>> \in R)
  BY <1>1, WFMin, Zenon
<1>4. ASSUME NEW x \in S PROVE m <= x
  <2>1. m \in Nat /\ x \in Nat
    OBVIOUS
  <2>2. ~(x < m)
    BY <1>2, <1>3, <2>1, Zenon
  <2> QED BY <2>1, <2>2
<1> QED BY <1>4

\* A nonempty finite set of natural numbers has a greatest element: a smallest
\* subset without one would still lack one after losing an element.
LEMMA GreatestNat ==
  ASSUME NEW S, S \subseteq Nat, S # {}, IsFiniteSet(S)
  PROVE  \E m \in S : \A x \in S : x <= m
<1> DEFINE Bad == {T \in SUBSET S : T # {} /\ ~\E m \in T : \A x \in T : x <= m}
           Cards == {Cardinality(T) : T \in Bad}
<1> SUFFICES ASSUME Bad # {} PROVE FALSE
  BY Zenon
<1>1. \A T \in SUBSET S : IsFiniteSet(T) /\ Cardinality(T) \in Nat
  BY FS_Subset, FS_CardinalityType
<1>2. Cards \subseteq Nat /\ Cards # {}
  BY <1>1
<1>3. PICK T \in Bad : \A U \in Bad : Cardinality(T) <= Cardinality(U)
  <2> HIDE DEF Bad
  <2>1. PICK n \in Cards : \A k \in Cards : n <= k
    <3> HIDE DEF Cards
    <3> QED BY <1>2, LeastNat
  <2> QED BY <2>1
<1>4. PICK a \in T : TRUE
  OBVIOUS
<1>5. T \in SUBSET S /\ a \in Nat /\ T \ {a} \in SUBSET S
  OBVIOUS
<1>6. Cardinality(T \ {a}) = Cardinality(T) - 1 /\ Cardinality(T) \in Nat
  BY <1>1, <1>5, FS_RemoveElement
<1>7. T \ {a} \notin Bad
  <2> HIDE DEF Bad
  <2> SUFFICES ASSUME T \ {a} \in Bad PROVE FALSE
    OBVIOUS
  <2>1. Cardinality(T) <= Cardinality(T \ {a})
    BY <1>3, Zenon
  <2> QED BY <1>6, <2>1
<1>8. T \ {a} # {}
  <2> SUFFICES ASSUME T \ {a} = {} PROVE FALSE
    OBVIOUS
  <2>1. \A x \in T : x = a
    OBVIOUS
  <2>2. a <= a
    BY <1>5
  <2>3. \A x \in T : x <= a
    BY <2>1, <2>2
  <2> QED BY <1>3, <1>4, <2>3
<1>9. PICK m \in T \ {a} : \A x \in T \ {a} : x <= m
  BY <1>5, <1>7, <1>8
<1>10. m \in Nat /\ \A x \in T : x \in Nat
  OBVIOUS
<1> QED BY <1>4, <1>5, <1>9, <1>10

\* The slowest pace exists, so that counting up to it loses no distinction.
LEMMA LongestPace == Longest \in Nat /\ \A i \in Paces : i <= Longest
<1> USE ClientAssumption
<1>1. Paces \subseteq Nat
  BY DEF Paces, Larger
<1>2. \E i \in Paces : \A j \in Paces : i >= j
  <2>1. CASE Intervals = {}
    BY <2>1 DEF Paces
  <2>2. CASE Intervals # {}
    <3>1. PICK m \in Intervals : \A i \in Intervals : i <= m
      BY <2>2, GreatestNat
    <3>2. Larger(RateLimitDelay, m) \in Paces
      BY DEF Paces
    <3>3. \A j \in Paces : Larger(RateLimitDelay, m) >= j
      BY <3>1 DEF Paces, Larger
    <3> QED BY <3>2, <3>3
  <2> QED BY <2>1, <2>2
<1>3. Longest \in Paces /\ \A j \in Paces : Longest >= j
  BY <1>2 DEF Longest
<1> QED BY <1>1, <1>3

\* What the headers of a response may do to the shared admission state.
LEMMA ObserveEffect ==
  ASSUME ClientType, DeadlinesCovered, NEW i \in PacesNow, NEW d \in Bars \cup {0}, observeAllowance(i, d)
  PROVE  /\ interval' \in Nat /\ since' = since /\ cooldown' \in Nat /\ barred' \in Nat
         /\ barred' <= cooldown'
<1> USE ClientAssumption
<1>1. i \in Nat /\ d \in Nat
  BY DEF ClientType, PacesNow, Bars, Larger
<1> QED BY <1>1 DEF ClientType, DeadlinesCovered, observeAllowance, CooldownAfter, headerDuration, Larger, Smaller

\* A fetch stays on its course when nothing it has taken or learnt changes.
LEMMA CourseKept ==
  ASSUME NEW f \in Fetches, Course(f), (pc'[f] = "idle") <=> (pc[f] = "idle"),
         UNCHANGED <<page[f], result[f], taken[f], due[f]>>
  PROVE  Course(f)'
BY DEF Course

\* A step that changes the pc of busy fetches only, and keeps them busy.
LEMMA CoursesKept ==
  ASSUME Courses, UNCHANGED <<page, result, records>>,
         \A f \in Fetches : (pc'[f] = "idle") <=> (pc[f] = "idle")
  PROVE  Courses'
BY CourseKept DEF Courses, records

\* The first page is all a fetch has to take before it has asked for any.
LEMMA NothingTaken == <<>> = Upto(1 - 1) /\ {1} \subseteq 1 .. 1
<1>1. Upto(1 - 1) = [i \in {} |-> i]
  <2>1. 1 .. (1 - 1) = {}
    OBVIOUS
  <2> QED BY <2>1 DEF Upto
<1>2. <<>> = [i \in {} |-> i]
  OBVIOUS
<1> QED BY <1>1, <1>2

\* k pages taken from page p on continue what was taken before p.
LEMMA UptoContinued ==
  ASSUME NEW p \in Nat \ {0}, NEW k \in Nat, NEW s, s = [i \in 1 .. k |-> p + i - 1]
  PROVE  Upto(p - 1) \o s = Upto(p - 1 + k) /\ Len(Upto(p - 1 + k)) = p - 1 + k
         /\ Upto(p - 1 + k) \in Seq(Nat)
<1>1. Upto(p - 1) \in Seq(Nat) /\ Len(Upto(p - 1)) = p - 1 /\ s \in Seq(Nat) /\ Len(s) = k
  BY DEF Upto
<1>2. Upto(p - 1 + k) \in Seq(Nat) /\ Len(Upto(p - 1 + k)) = p - 1 + k
  BY DEF Upto
<1> DEFINE u == Upto(p - 1)
           w == Upto(p - 1 + k)
<1>3. /\ \A i \in 1 .. (p - 1) : u[i] = i
      /\ \A i \in 1 .. k : s[i] = p + i - 1
      /\ \A i \in 1 .. (p - 1 + k) : w[i] = i
  BY DEF Upto
<1> HIDE DEF u, w
<1>4. u \in Seq(Nat) /\ Len(u) = p - 1 /\ s \in Seq(Nat) /\ Len(s) = k
  BY <1>1 DEF u
<1>5. /\ u \o s \in Seq(Nat) /\ Len(u \o s) = p - 1 + k
      /\ \A i \in 1 .. (p - 1 + k) : (u \o s)[i] = w[i]
  <2>1. /\ u \o s \in Seq(Nat) /\ Len(u \o s) = (p - 1) + k
        /\ \A i \in 1 .. ((p - 1) + k) : (u \o s)[i] = IF i <= p - 1 THEN u[i] ELSE s[i - (p - 1)]
    <3>1. /\ u \o s \in Seq(Nat) /\ Len(u \o s) = Len(u) + Len(s)
          /\ \A i \in 1 .. Len(u) + Len(s) :
                (u \o s)[i] = IF i <= Len(u) THEN u[i] ELSE s[i - Len(u)]
      BY <1>4, ConcatProperties, Zenon
    <3> QED BY <1>4, <3>1, Zenon
  <2>2. ASSUME NEW i \in 1 .. (p - 1 + k) PROVE (u \o s)[i] = w[i]
    <3>1. (u \o s)[i] = IF i <= p - 1 THEN u[i] ELSE s[i - (p - 1)]
      BY <2>1
    <3> DEFINE x == (u \o s)[i]
    <3>2. x = IF i <= p - 1 THEN u[i] ELSE s[i - (p - 1)]
      BY <3>1
    <3> HIDE DEF x
    <3>3. x = w[i]
      BY <1>3, <3>2
    <3> QED BY <3>3 DEF x
  <2> QED BY <2>1, <2>2
<1>6. w \in Seq(Nat) /\ Len(w) = p - 1 + k
  BY <1>2 DEF w
<1>7. u \o s = w
  BY <1>5, <1>6, SeqEqual
<1> QED BY <1>6, <1>7 DEF u, w

\* The last page of a batch: a next one is announced by all before it, and it
\* announces none unless it lies behind the batch.
LEMMA TerminalIs ==
  ASSUME NEW b \in Batches
  PROVE  /\ Terminal(b) \in 1 .. (BatchSize + 1)
         /\ Terminal(b) <= BatchSize => ~b[Terminal(b)].next
<1> USE ClientAssumption
<1> DEFINE S == {i \in 1 .. BatchSize : ~b[i].next} \cup {BatchSize + 1}
<1>1. S \subseteq Nat /\ S # {}
  OBVIOUS
<1>2. \E m \in S : \A x \in S : m <= x
  <2> HIDE DEF S
  <2> QED BY <1>1, LeastNat
<1>3. Terminal(b) \in S /\ \A x \in S : Terminal(b) <= x
  BY <1>2 DEF Terminal, Min
<1> QED BY <1>3

\* What an acceptable batch tells of the year ends where its last page does, or
\* at the first page of the next batch.
LEMMA LearntWithin ==
  ASSUME ClientType, NEW f \in Fetches, NEW b \in Batches, Acceptable(b), Learn(f, b),
         due[f] \subseteq 1 .. page[f]
  PROVE  due'[f] \subseteq 1 .. (page[f] - 1 + Terminal(b))
<1> USE ClientAssumption
<1>1. /\ Terminal(b) \in 1 .. (BatchSize + 1) /\ page[f] \in Nat \ {0}
      /\ Terminal(b) <= BatchSize => ~b[Terminal(b)].next
  BY TerminalIs DEF ClientType
<1>2. due'[f] = due[f]
            \cup {page[f] + i - 1 : i \in {j \in 1 .. BatchSize : ~b[j].whole \/ b[j].shows}}
            \cup {page[f] + i : i \in {j \in 1 .. BatchSize : b[j].next}}
  BY DEF Learn, ClientType
<1>3. \A i \in 1 .. BatchSize : ~b[i].whole \/ b[i].shows => i <= Terminal(b)
  BY <1>1 DEF Acceptable
<1>4. \A i \in 1 .. BatchSize : b[i].next => i < Terminal(b)
  BY <1>1 DEF Acceptable
<1>5. SUFFICES ASSUME NEW n \in due'[f] PROVE n \in 1 .. (page[f] - 1 + Terminal(b))
  OBVIOUS
<1>6. CASE n \in due[f]
  BY <1>1, <1>6
<1>7. CASE n \in {page[f] + i - 1 : i \in {j \in 1 .. BatchSize : ~b[j].whole \/ b[j].shows}}
  BY <1>1, <1>3, <1>7
<1>8. CASE n \in {page[f] + i : i \in {j \in 1 .. BatchSize : b[j].next}}
  BY <1>1, <1>4, <1>8
<1> QED BY <1>2, <1>5, <1>6, <1>7, <1>8

\* The pages of an acceptable batch up to its last one continue the year.
LEMMA AppendedInOrder ==
  ASSUME ClientType, NEW f \in Fetches, NEW b \in Batches, Acceptable(b), AppendPages(f, b),
         taken[f] = Upto(page[f] - 1)
  PROVE  LET n == page[f] - 1 + Smaller(Terminal(b), BatchSize)
         IN  /\ taken'[f] = Upto(n) /\ Len(Upto(n)) = n
             /\ taken' \in [Fetches -> Seq(Nat)]
<1> USE ClientAssumption
<1> DEFINE k == Smaller(Terminal(b), BatchSize)
           s == [i \in 1 .. k |-> page[f] + i - 1]
<1>1. k \in 1 .. BatchSize /\ page[f] \in Nat \ {0}
  BY TerminalIs DEF ClientType, Smaller
<1>2. [i \in 1 .. k |-> IF b[i].whole THEN page[f] + i - 1 ELSE 0] = s
  <2>1. \A i \in 1 .. k : b[i].whole
    <3> HIDE DEF k
    <3> QED BY <1>1 DEF Acceptable
  <2> HIDE DEF k
  <2> QED BY <2>1
<1>3. taken' = [taken EXCEPT ![f] = @ \o s]
  BY <1>2, Zenon DEF AppendPages
<1>4. /\ Upto(page[f] - 1) \o s = Upto(page[f] - 1 + k) /\ Len(Upto(page[f] - 1 + k)) = page[f] - 1 + k
      /\ Upto(page[f] - 1 + k) \in Seq(Nat)
  <2>1. s = [i \in 1 .. k |-> page[f] + i - 1] /\ k \in Nat
    BY <1>1
  <2> HIDE DEF k, s
  <2> QED BY <1>1, <2>1, UptoContinued
<1> HIDE DEF s
<1>5. taken' = [taken EXCEPT ![f] = Upto(page[f] - 1 + k)]
  BY <1>3, <1>4, Zenon
<1> HIDE DEF k
<1>6. taken'[f] = Upto(page[f] - 1 + k) /\ taken' \in [Fetches -> Seq(Nat)]
  BY <1>4, <1>5 DEF ClientType
<1> QED BY <1>4, <1>6 DEF k

\* Appending and learning leave the other fetches' records, and their types.
LEMMA LearnType ==
  ASSUME ClientType, NEW f \in Fetches, NEW b \in Batches, Learn(f, b)
  PROVE  due' \in [Fetches -> SUBSET Nat]
<1> USE ClientAssumption
<1>1. /\ {page[f] + i - 1 : i \in {j \in 1 .. BatchSize : ~b[j].whole \/ b[j].shows}} \subseteq Nat
      /\ {page[f] + i : i \in {j \in 1 .. BatchSize : b[j].next}} \subseteq Nat
  BY DEF ClientType
<1> QED BY <1>1 DEF Learn, ClientType

\* A fetch that fails leaves nothing behind that looks complete.
LEMMA FailEffect ==
  ASSUME ClientType, Courses, NEW f \in Fetches, Fail(f)
  PROVE  /\ pc' \in [Fetches -> {"idle", "gate", "sleep", "http"}]
         /\ backoff' \in [Fetches -> Nat]
         /\ result' \in [Fetches -> {"none", "complete", "error"}]
         /\ page' \in [Fetches -> Nat \ {0}]
         /\ taken' \in [Fetches -> Seq(Nat)] /\ due' \in [Fetches -> SUBSET Nat]
         /\ Courses'
<1>1. /\ pc' = [pc EXCEPT ![f] = "idle"] /\ backoff' = [backoff EXCEPT ![f] = 0]
      /\ result' = [result EXCEPT ![f] = "error"] /\ page' = [page EXCEPT ![f] = 1]
      /\ taken' = [taken EXCEPT ![f] = <<>>] /\ due' = [due EXCEPT ![f] = {1}]
  BY DEF Fail, Leave, Forget
<1>2. /\ pc' \in [Fetches -> {"idle", "gate", "sleep", "http"}] /\ backoff' \in [Fetches -> Nat]
      /\ result' \in [Fetches -> {"none", "complete", "error"}] /\ page' \in [Fetches -> Nat \ {0}]
      /\ taken' \in [Fetches -> Seq(Nat)] /\ due' \in [Fetches -> SUBSET Nat]
  BY <1>1 DEF ClientType
<1>3. Course(f)'
  BY <1>1 DEF ClientType, Course
<1>4. ASSUME NEW g \in Fetches, g # f PROVE Course(g)'
  <2>1. pc'[g] = pc[g] /\ UNCHANGED <<page[g], result[g], taken[g], due[g]>>
    BY <1>1, <1>4 DEF ClientType
  <2> QED BY <2>1, CourseKept DEF Courses
<1> QED BY <1>2, <1>3, <1>4 DEF Courses

LEMMA RetryEffect ==
  ASSUME ClientType, Courses, NEW f \in Fetches, pc[f] # "idle", Retry(f)
  PROVE  /\ pc' \in [Fetches -> {"idle", "gate", "sleep", "http"}]
         /\ backoff' \in [Fetches -> Nat]
         /\ result' \in [Fetches -> {"none", "complete", "error"}]
         /\ page' \in [Fetches -> Nat \ {0}]
         /\ taken' \in [Fetches -> Seq(Nat)] /\ due' \in [Fetches -> SUBSET Nat]
         /\ Courses'
<1>1. CASE attempt[f] + 1 < MaxRetry
  <2>1. pc' = [pc EXCEPT ![f] = "gate"] /\ UNCHANGED <<page, result, records>>
        /\ \E x \in Backoffs : backoff' = [backoff EXCEPT ![f] = x]
    BY <1>1 DEF Retry
  <2>2. Courses'
    BY <2>1, CoursesKept DEF ClientType
  <2> QED BY <2>1, <2>2, ClientAssumption DEF records, ClientType
<1>2. CASE ~(attempt[f] + 1 < MaxRetry)
  <2>1. Fail(f)
    BY <1>2, Zenon DEF Retry
  <2> QED BY <2>1, FailEffect
<1> QED BY <1>1, <1>2

-----------------------------------------------------------------------------
LEMMA ClientInit == Init => ClientInv
<1> SUFFICES ASSUME Init PROVE ClientInv
  OBVIOUS
<1>1. Courses
  BY DEF Init, Courses, Course, Upto
<1> QED BY <1>1, LongestPace, ClientAssumption DEF Init, ClientInv, ClientType, DeadlinesCovered

\* An accepted batch leaves its fetch complete, or on its course to the next.
LEMMA BatchEffect ==
  ASSUME ClientType, Courses, NEW f \in Fetches, NEW b \in Batches, Batch(f, b), ~Fail(f)
  PROVE  /\ pc' \in [Fetches -> {"idle", "gate", "sleep", "http"}]
         /\ backoff' \in [Fetches -> Nat]
         /\ result' \in [Fetches -> {"none", "complete", "error"}]
         /\ page' \in [Fetches -> Nat \ {0}]
         /\ taken' \in [Fetches -> Seq(Nat)] /\ due' \in [Fetches -> SUBSET Nat]
         /\ Courses'
<1> USE ClientAssumption
<1> DEFINE k == Smaller(Terminal(b), BatchSize)
           n == page[f] - 1 + k
<1>1. pc[f] = "http" /\ Acceptable(b) /\ AppendPages(f, b) /\ Learn(f, b)
  BY Zenon DEF Batch
<1>2. /\ result[f] # "complete" /\ taken[f] = Upto(page[f] - 1) /\ due[f] \subseteq 1 .. page[f]
  BY <1>1 DEF Courses, Course
<1>3. taken'[f] = Upto(n) /\ Len(Upto(n)) = n /\ taken' \in [Fetches -> Seq(Nat)]
  BY <1>1, <1>2, AppendedInOrder
<1>4. due'[f] \subseteq 1 .. (page[f] - 1 + Terminal(b)) /\ due' \in [Fetches -> SUBSET Nat]
  BY <1>1, <1>2, LearntWithin, LearnType
<1>5. Terminal(b) \in 1 .. (BatchSize + 1) /\ page[f] \in Nat \ {0}
  BY TerminalIs DEF ClientType
<1>6. \A g \in Fetches : g # f => UNCHANGED <<taken[g], due[g]>>
  BY <1>1 DEF AppendPages, Learn, ClientType
<1>7. CASE Terminal(b) <= BatchSize /\ Leave(f, "complete")
  <2>1. /\ pc' = [pc EXCEPT ![f] = "idle"] /\ result' = [result EXCEPT ![f] = "complete"]
        /\ backoff' = [backoff EXCEPT ![f] = 0] /\ page' = [page EXCEPT ![f] = 1]
    BY <1>7 DEF Leave
  <2>2. n = page[f] - 1 + Terminal(b)
    BY <1>5, <1>7 DEF Smaller
  <2> HIDE DEF n
  <2>3. Course(f)'
    <3>1. pc'[f] = "idle" /\ page'[f] = 1
      BY <2>1 DEF ClientType
    <3>2. Len(taken'[f]) = n
      BY <1>3, Zenon
    <3>3. taken'[f] = Upto(Len(taken'[f])) /\ due'[f] \subseteq 1 .. Len(taken'[f])
      BY <1>3, <1>4, <2>2, <3>2, Zenon
    <3> QED BY <3>1, <3>3, Zenon DEF Course, Upto
  <2>4. ASSUME NEW g \in Fetches, g # f PROVE Course(g)'
    <3>1. pc'[g] = pc[g] /\ UNCHANGED <<page[g], result[g]>>
      BY <2>1, <2>4 DEF ClientType
    <3> QED BY <1>6, <2>4, <3>1, CourseKept DEF Courses
  <2>5. /\ pc' \in [Fetches -> {"idle", "gate", "sleep", "http"}] /\ backoff' \in [Fetches -> Nat]
        /\ result' \in [Fetches -> {"none", "complete", "error"}] /\ page' \in [Fetches -> Nat \ {0}]
    BY <2>1 DEF ClientType
  <2> QED BY <1>3, <1>4, <2>3, <2>4, <2>5 DEF Courses
<1>8. CASE /\ Terminal(b) > BatchSize
           /\ page' = [page EXCEPT ![f] = NextBatch(page[f])]
           /\ backoff' = [backoff EXCEPT ![f] = 0]
           /\ pc' = [pc EXCEPT ![f] = "gate"]
           /\ result' = result
  <2>1. n = page[f] + BatchSize - 1 /\ Terminal(b) = BatchSize + 1
    BY <1>5, <1>8 DEF Smaller
  <2>2. page'[f] = page[f] + BatchSize /\ page' \in [Fetches -> Nat \ {0}]
    BY <1>5, <1>8 DEF NextBatch, ClientType
  <2> HIDE DEF n
  <2>3. Course(f)'
    <3>1. n = page'[f] - 1 /\ page[f] - 1 + Terminal(b) = page'[f]
      BY <1>5, <2>1, <2>2
    <3>2. pc'[f] = "gate" /\ result'[f] # "complete"
      BY <1>2, <1>8 DEF ClientType
    <3>3. taken'[f] = Upto(page'[f] - 1) /\ due'[f] \subseteq 1 .. page'[f]
      BY <1>3, <1>4, <3>1, Zenon
    <3> QED BY <3>2, <3>3, Zenon DEF Course, Upto
  <2>4. ASSUME NEW g \in Fetches, g # f PROVE Course(g)'
    <3>1. pc'[g] = pc[g] /\ UNCHANGED <<page[g], result[g]>>
      BY <1>8, <2>4 DEF ClientType
    <3> QED BY <1>6, <2>4, <3>1, CourseKept DEF Courses
  <2>5. /\ pc' \in [Fetches -> {"idle", "gate", "sleep", "http"}] /\ backoff' \in [Fetches -> Nat]
        /\ result' \in [Fetches -> {"none", "complete", "error"}]
    BY <1>8 DEF ClientType
  <2> QED BY <1>3, <1>4, <2>2, <2>3, <2>4, <2>5 DEF Courses
<1> QED BY <1>7, <1>8, Zenon DEF Batch

LEMMA ClientStep == ClientInv /\ [Next]_vars => ClientInv'
<1> SUFFICES ASSUME ClientInv, [Next]_vars PROVE ClientInv'
  OBVIOUS
<1> USE DEF shared
<1>0. ClientType /\ DeadlinesCovered /\ Courses
  BY DEF ClientInv
<1>1. CASE Tick
  <2>1. since' \in Nat
    BY <1>0, <1>1, LongestPace DEF Tick, ClientType, Smaller
  <2>2. cooldown' \in Nat /\ barred' \in Nat /\ barred' <= cooldown'
    BY <1>0, <1>1 DEF Tick, ClientType, DeadlinesCovered, Down, Larger
  <2>3. backoff' \in [Fetches -> Nat]
    BY <1>0, <1>1 DEF Tick, ClientType, Down, Larger
  <2>4. UNCHANGED <<interval, pc, page, result, records>>
    BY <1>1 DEF Tick
  <2>5. Courses'
    BY <1>0, <2>4, CoursesKept
  <2> QED BY <1>0, <2>1, <2>2, <2>3, <2>4, <2>5 DEF ClientInv, ClientType, DeadlinesCovered, records
<1>2. ASSUME NEW f \in Fetches, Begin(f) PROVE ClientInv'
  <2>1. /\ pc[f] = "idle" /\ pc' = [pc EXCEPT ![f] = "gate"] /\ result' = [result EXCEPT ![f] = "none"]
        /\ taken' = [taken EXCEPT ![f] = <<>>] /\ due' = [due EXCEPT ![f] = {1}]
        /\ UNCHANGED <<shared, page, backoff>>
    BY <1>2 DEF Begin, Forget
  <2>2. page[f] = 1
    BY <1>0, <2>1 DEF Courses, Course
  <2>3. Course(f)'
    BY <1>0, <2>1, <2>2, NothingTaken DEF ClientType, Course
  <2>4. ASSUME NEW g \in Fetches, g # f PROVE Course(g)'
    <3>1. pc'[g] = pc[g] /\ UNCHANGED <<page[g], result[g], taken[g], due[g]>>
      BY <1>0, <2>1, <2>4 DEF ClientType
    <3> QED BY <1>0, <3>1, CourseKept DEF Courses
  <2>5. Courses'
    BY <2>3, <2>4 DEF Courses
  <2> QED BY <1>0, <2>1, <2>5 DEF ClientInv, ClientType, DeadlinesCovered
<1>3. ASSUME NEW f \in Fetches, Expire(f) PROVE ClientInv'
  <2>1. UNCHANGED <<shared, pc, page, backoff, result, records>>
    BY <1>3 DEF Expire
  <2>2. Courses'
    BY <1>0, <2>1, CoursesKept
  <2> QED BY <1>0, <2>1, <2>2 DEF ClientInv, ClientType, DeadlinesCovered, records
<1>4. ASSUME NEW f \in Fetches, Throttle(f) PROVE ClientInv'
  <2>1. CASE Fail(f) /\ UNCHANGED shared
    BY <1>0, <2>1, FailEffect DEF ClientInv, ClientType, DeadlinesCovered
  <2>2. CASE /\ pc' = [pc EXCEPT ![f] = "http"] \/ pc' = [pc EXCEPT ![f] = "sleep"]
             /\ since' = 0 \/ since' = since
             /\ UNCHANGED <<interval, cooldown, barred, page, backoff, result, records>>
    <3>1. pc[f] = "gate"
      BY <1>4 DEF Throttle
    <3>2. Courses'
      BY <1>0, <2>2, <3>1, CoursesKept DEF ClientType
    <3>3. pc' \in [Fetches -> {"idle", "gate", "sleep", "http"}]
      <4>1. PICK l \in {"http", "sleep"} : pc' = [pc EXCEPT ![f] = l]
        BY <2>2
      <4> QED BY <1>0, <4>1 DEF ClientType
    <3>4. since' \in Nat
      BY <1>0, <2>2 DEF ClientType
    <3> QED BY <1>0, <2>2, <3>2, <3>3, <3>4 DEF ClientInv, ClientType, DeadlinesCovered, records
  <2>3. CASE UNCHANGED shared /\ pc' = [pc EXCEPT ![f] = "sleep"]
             /\ UNCHANGED <<page, backoff, result, records>>
    BY <2>2, <2>3, Zenon
  <2> QED BY <1>4, <2>1, <2>2, <2>3 DEF Throttle
<1>5. ASSUME NEW f \in Fetches, Wake(f) PROVE ClientInv'
  <2>1. pc[f] = "sleep" /\ pc' = [pc EXCEPT ![f] = "gate"]
        /\ UNCHANGED <<shared, page, backoff, result, records>>
    BY <1>5 DEF Wake
  <2>2. Courses'
    BY <1>0, <2>1, CoursesKept DEF ClientType
  <2> QED BY <1>0, <2>1, <2>2 DEF ClientInv, ClientType, DeadlinesCovered, records
<1>6. ASSUME NEW f \in Fetches, AbandonSleep(f) PROVE ClientInv'
  BY <1>0, <1>6, FailEffect DEF AbandonSleep, ClientInv, ClientType, DeadlinesCovered
<1>7. ASSUME NEW f \in Fetches, NetworkError(f) PROVE ClientInv'
  <2>1. (Fail(f) \/ Retry(f)) /\ pc[f] # "idle" /\ UNCHANGED shared
    BY <1>7 DEF NetworkError
  <2> QED BY <1>0, <2>1, FailEffect, RetryEffect DEF ClientInv, ClientType, DeadlinesCovered
<1>8. ASSUME NEW f \in Fetches, RateLimited(f) \/ ServerError(f) \/ Hopeless(f) PROVE ClientInv'
  <2>1. /\ \E i \in PacesNow, d \in Bars \cup {0} : observeAllowance(i, d)
        /\ Fail(f) \/ Retry(f)
        /\ pc[f] # "idle"
    BY <1>8 DEF RateLimited, ServerError, Hopeless
  <2>2. /\ interval' \in Nat /\ since' = since /\ cooldown' \in Nat /\ barred' \in Nat
        /\ barred' <= cooldown'
    BY <1>0, <2>1, ObserveEffect
  <2> QED BY <1>0, <2>1, <2>2, FailEffect, RetryEffect DEF ClientInv, ClientType, DeadlinesCovered
<1>9. ASSUME NEW f \in Fetches, NEW b \in Batches, Batch(f, b) PROVE ClientInv'
  <2>1. \E i \in PacesNow, d \in Bars \cup {0} : observeAllowance(i, d)
    BY <1>9, Zenon DEF Batch
  <2>2. /\ interval' \in Nat /\ since' = since /\ cooldown' \in Nat /\ barred' \in Nat
        /\ barred' <= cooldown'
    BY <1>0, <2>1, ObserveEffect
  <2> QED BY <1>0, <1>9, <2>2, FailEffect, BatchEffect DEF ClientInv, ClientType, DeadlinesCovered
<1>10. CASE UNCHANGED vars
  <2>1. UNCHANGED <<shared, pc, page, backoff, result, records>>
    BY <1>10 DEF vars
  <2>2. Courses'
    BY <1>0, <2>1, CoursesKept
  <2> QED BY <1>0, <2>1, <2>2 DEF ClientInv, ClientType, DeadlinesCovered, records
<1> QED BY <1>1, <1>2, <1>3, <1>4, <1>5, <1>6, <1>7, <1>8, <1>9, <1>10 DEF Next, FetchStep

LEMMA ClientInvariant == Spec => []ClientInv
BY ClientInit, ClientStep, PTL DEF Spec

-----------------------------------------------------------------------------
\* A step that admits an attempt is throttle's, and nothing was left to wait for.
LEMMA AdmissionStep ==
  ASSUME ClientInv, [Next]_vars, NEW f \in Fetches, Admitted(f)
  PROVE  since >= interval /\ cooldown = 0
<1>0. ClientType
  BY DEF ClientInv
<1>1. ~expired[f] /\ ReadyIn(f) <= 0
  <2>0. pc' # pc
    BY DEF Admitted
  <2>1. PICK g \in Fetches : Begin(g) \/ FetchStep(g)
    BY <2>0 DEF Next, Tick, Expire, vars
  <2>2. ASSUME NEW l, pc' = [pc EXCEPT ![g] = l], l # "http" PROVE FALSE
    BY <1>0, <2>2 DEF Admitted, ClientType
  <2>3. ~Fail(g) /\ ~Retry(g) /\ ~Leave(g, "complete")
    BY <2>2 DEF Fail, Leave, Retry
  <2>4. Throttle(g)
    BY <2>1, <2>2, <2>3 DEF FetchStep, Begin, Wake, AbandonSleep, NetworkError, RateLimited,
       ServerError, Hopeless, Batch
  <2>5. ~expired[g] /\ ReadyIn(g) <= 0 /\ pc' = [pc EXCEPT ![g] = "http"]
    BY <2>2, <2>3, <2>4 DEF Throttle
  <2>6. f = g
    BY <1>0, <2>5 DEF Admitted, ClientType
  <2> QED BY <2>5, <2>6
<1>2. interval \in Nat /\ since \in Nat /\ cooldown \in Nat /\ backoff[f] \in Nat
  BY <1>0 DEF ClientType
<1> QED BY <1>1, <1>2 DEF ReadyIn, Larger

(***************************************************************************)
(* No burst: whichever fetches compete and however the pace changes, an     *)
(* attempt follows the one before it by at least the pace in force.         *)
(***************************************************************************)
THEOREM AttemptsPaced == Spec => Paced
<1>1. ClientInv /\ [Next]_vars => [\A f \in Fetches : Admitted(f) => since >= interval]_vars
  BY AdmissionStep
<1> QED BY <1>1, ClientInvariant, PTL DEF Spec, Paced

(***************************************************************************)
(* Every deadline AniList ever asked for, saturated at the largest          *)
(* Duration, has passed when any later attempt is admitted.                 *)
(***************************************************************************)
THEOREM DeadlinesAreKept == Spec => DeadlinesKept
<1>1. ClientInv /\ [Next]_vars => [\A f \in Fetches : Admitted(f) => barred = 0]_vars
  <2> SUFFICES ASSUME ClientInv, [Next]_vars, NEW f \in Fetches, Admitted(f) PROVE barred = 0
    OBVIOUS
  <2>1. cooldown = 0
    BY AdmissionStep
  <2> QED BY <2>1 DEF ClientInv, ClientType, DeadlinesCovered
<1> QED BY <1>1, ClientInvariant, PTL DEF Spec, DeadlinesKept

(***************************************************************************)
(* A year is returned complete or with an error, never in part: over any    *)
(* number of batches of any size, with retries and rejections in between,   *)
(* the pages appended are 1, 2, ... up to the last one AniList knows of.    *)
(***************************************************************************)
THEOREM NoPartialYear == Spec => []CompleteOrError
<1>1. ClientInv => CompleteOrError
  BY DEF ClientInv, Courses, Course, CompleteOrError
<1> QED BY <1>1, ClientInvariant, PTL
=============================================================================
