----------------------------- MODULE DecodedYear -----------------------------
(***************************************************************************)
(* The decoded-year cache of internal/cache/decoded_year.go beside the      *)
(* SQLite table year_cache it shadows (internal/cache/cache.go).            *)
(*                                                                         *)
(* Readers run readDecodedYearContext: capture the mutation generation,     *)
(* read the row, look the decoding up by byte equality, otherwise decode    *)
(* under a reference-counted gate per year and offer the result to a        *)
(* bounded LRU cache.  Mutators (SetYearContext, ClearContext,              *)
(* PruneStaleYearsContext) commit to SQLite first and invalidate memory     *)
(* afterwards, so the two steps of different goroutines interleave.  Close  *)
(* invalidates for good.  Rows may also change behind the cache's back:     *)
(* another process edits the database, or the SQL driver reports a          *)
(* cancelled context for a statement that did commit.                       *)
(*                                                                         *)
(* A BLOB is a member of Raw; the slice of shows decoded from it is named   *)
(* by the BLOB itself, so "the decoding of a" is written a.                 *)
(***************************************************************************)
EXTENDS Integers, Sequences, FiniteSets, FiniteSetsExt, SequencesExt

CONSTANTS Readers,        \* goroutines that may call readDecodedYearContext
          Mutators,       \* goroutines that may call Set/Clear/Prune
          Years,
          Raw,            \* possible BLOBs of a row
          Valid,          \* the BLOBs DecodeYearData accepts
          Size,           \* decodedYearSize of each BLOB and its decoding
          NoRow,          \* no row in SQLite, no entry in memory
          Failed,         \* the call returned an error
          MaxYears,       \* decodedYearCache.maxYears
          MaxBytes,       \* decodedYearCache.maxBytes
          MaxGeneration   \* bound on the mutations explored

ASSUME RawAssumption == /\ Valid \subseteq Raw
                        /\ NoRow \notin Raw
                        /\ Failed \notin Raw \cup {NoRow}
ASSUME ReadersAssumption == IsFiniteSet(Readers)
ASSUME SizeAssumption == Size \in [Raw -> Nat]
ASSUME BoundAssumption == MaxYears \in Nat /\ MaxBytes \in Nat /\ MaxGeneration \in Nat

VARIABLES
  \* SQLite
  db,          \* year -> BLOB of its row, or NoRow
  dbOpen,      \* FALSE once db.Close has run
  foreign,     \* history: years changed without an invalidation since
  \* decodedYearCache
  generation, closed,
  entries,     \* year -> BLOB of the resident entry, or NoRow
  lru,         \* resident years, most recently used first
  bytes,       \* accounted size of the resident entries
  refs,        \* year -> gate.refs; a gate exists while it is positive
  token,       \* year -> the gate's token channel is full
  \* readers
  pc, year, gen, raw, shows, cancelled,
  \* mutators
  cover        \* years a committed mutation has yet to invalidate

dbVars     == <<db, dbOpen, foreign>>
memVars    == <<generation, closed, entries, lru, bytes>>
gateVars   == <<refs, token>>
readerVars == <<pc, year, gen, raw, shows, cancelled>>
vars       == <<dbVars, memVars, gateVars, readerVars, cover>>

-----------------------------------------------------------------------------
(***************************************************************************)
(* The reader's program counter.                                           *)
(*   query    generation captured, SQLite not read yet                     *)
(*   lookup   the row is in hand                                           *)
(*   enter    missed, about to reference the year's gate                   *)
(*   wait     holds a reference, selects between ctx.Done and the token    *)
(*   held     owns the token, about to look up again                       *)
(*   decode   decoding, about to admit                                     *)
(*   copy     has the shows without a gate; heldCopy: with it              *)
(*   release  result settled, about to return the token                    *)
(*   unref    about to drop the reference                                  *)
(*   done     returned; shows is what the caller got                       *)
(***************************************************************************)
PCs == {"idle", "query", "lookup", "enter", "wait", "held", "decode", "copy",
        "heldCopy", "release", "unref", "done"}

Owning      == {"held", "decode", "heldCopy", "release"}   \* owns the token
Referencing == Owning \cup {"wait", "unref"}               \* counted in refs
HasRow      == {"lookup", "enter", "wait", "held", "decode"} \* may still use raw

Row == Raw \cup {NoRow}

Resident == {y \in Years : entries[y] # NoRow}

\* Sum of the accounted sizes of the years at the positions I of s.
SizeAt(s, I) == MapThenSumSet(LAMBDA i : Size[entries[s[i]]], I)

\* The element of year y unlinked from the list.
Unlink(s, y) == IF \E i \in 1..Len(s) : s[i] = y
                THEN RemoveAt(s, CHOOSE i \in 1..Len(s) : s[i] = y)
                ELSE s

\* remove: drop y's entry from the map, the list and the byte count.
remove(y) ==
  /\ entries' = [entries EXCEPT ![y] = NoRow]
  /\ lru' = Unlink(lru, y)
  /\ bytes' = bytes - Size[entries[y]]

-----------------------------------------------------------------------------
Init ==
  /\ db \in [Years -> Row]
  /\ dbOpen = TRUE
  /\ foreign = {}
  /\ generation = 0
  /\ closed = FALSE
  /\ entries = [y \in Years |-> NoRow]
  /\ lru = <<>>
  /\ bytes = 0
  /\ refs = [y \in Years |-> 0]
  /\ token = [y \in Years |-> TRUE]
  /\ pc = [r \in Readers |-> "idle"]
  /\ year \in [Readers -> Years]
  /\ gen = [r \in Readers |-> 0]
  /\ raw = [r \in Readers |-> NoRow]
  /\ shows = [r \in Readers |-> Failed]
  /\ cancelled = [r \in Readers |-> FALSE]
  /\ cover = [m \in Mutators |-> {}]

-----------------------------------------------------------------------------
(* Readers                                                                  *)

Goto(r, l) == pc' = [pc EXCEPT ![r] = l]

\* The call settles on value v, unless its context is done by then.
Settle(r, v) == shows' = [shows EXCEPT ![r] = IF cancelled[r] THEN Failed ELSE v]

\* Entry with a live context: capture the generation before reading SQLite.
\* (A call whose context is already done returns without touching anything.)
Begin(r, y) ==
  /\ pc[r] = "idle"
  /\ Goto(r, "query")
  /\ year' = [year EXCEPT ![r] = y]
  /\ gen' = [gen EXCEPT ![r] = generation]
  /\ UNCHANGED <<dbVars, memVars, gateVars, raw, shows, cancelled, cover>>

\* The request's context ends (client gone, timeout, shutdown).
Cancel(r) ==
  /\ pc[r] \notin {"idle", "done"}
  /\ ~cancelled[r]
  /\ cancelled' = [cancelled EXCEPT ![r] = TRUE]
  /\ UNCHANGED <<dbVars, memVars, gateVars, pc, year, gen, raw, shows, cover>>

Query(r) ==
  /\ pc[r] = "query"
  /\ dbOpen
  /\ raw' = [raw EXCEPT ![r] = db[year[r]]]
  /\ Goto(r, "lookup")
  /\ UNCHANGED <<dbVars, memVars, gateVars, year, gen, shows, cancelled, cover>>

\* A cancelled, closed or persistently busy database.
QueryError(r) ==
  /\ pc[r] = "query"
  /\ shows' = [shows EXCEPT ![r] = Failed]
  /\ Goto(r, "done")
  /\ UNCHANGED <<dbVars, memVars, gateVars, year, gen, raw, cancelled, cover>>

MatchesAnyEntry(r) == entries[year[r]] # NoRow

\* A resident decoding of exactly the bytes that were read.
Matches(r) == entries[year[r]] # NoRow /\ entries[year[r]] = raw[r]

LookupHit(r) ==
  LET y == year[r] IN
  /\ Matches(r)
  /\ shows' = [shows EXCEPT ![r] = entries[y]]
  /\ lru' = <<y>> \o Unlink(lru, y)
  /\ UNCHANGED <<generation, closed, entries, bytes>>

MayEvictUnfenced(r) == entries[year[r]] # NoRow

\* An entry that disagrees goes, unless this read predates a mutation.
MayEvict(r) == entries[year[r]] # NoRow /\ gen[r] = generation

LookupMiss(r) ==
  LET y == year[r] IN
  /\ ~Matches(r)
  /\ IF MayEvict(r)
     THEN remove(y)
     ELSE UNCHANGED <<entries, lru, bytes>>
  /\ UNCHANGED <<generation, closed>>

\* First lookup; an absent row is reported without a gate.
Lookup(r) ==
  /\ pc[r] = "lookup"
  /\ \/ LookupHit(r) /\ Goto(r, "copy")
     \/ LookupMiss(r) /\ raw[r] = NoRow /\ Settle(r, NoRow) /\ Goto(r, "done")
     \/ LookupMiss(r) /\ raw[r] # NoRow /\ Goto(r, "enter") /\ UNCHANGED shows
  /\ UNCHANGED <<dbVars, gateVars, year, gen, raw, cancelled, cover>>

\* acquire: find or create the year's gate and take a reference.
EnterGate(r) ==
  LET y == year[r] IN
  /\ pc[r] = "enter"
  /\ refs' = [refs EXCEPT ![y] = @ + 1]
  /\ token' = [token EXCEPT ![y] = IF refs[y] = 0 THEN TRUE ELSE @]
  /\ Goto(r, "wait")
  /\ UNCHANGED <<dbVars, memVars, year, gen, raw, shows, cancelled, cover>>

\* acquire: the select receives the token.
TakeToken(r) ==
  /\ pc[r] = "wait"
  /\ token[year[r]]
  /\ token' = [token EXCEPT ![year[r]] = FALSE]
  /\ Goto(r, "held")
  /\ UNCHANGED <<dbVars, memVars, refs, year, gen, raw, shows, cancelled, cover>>

\* acquire: the select sees ctx.Done first.
AbandonWait(r) ==
  /\ pc[r] = "wait"
  /\ cancelled[r]
  /\ shows' = [shows EXCEPT ![r] = Failed]
  /\ refs' = [refs EXCEPT ![year[r]] = @ - 1]
  /\ Goto(r, "done")
  /\ UNCHANGED <<dbVars, memVars, token, year, gen, raw, cancelled, cover>>

RecheckSkipped(r) ==
  /\ pc[r] = "held"
  /\ \/ cancelled[r] /\ Settle(r, Failed) /\ Goto(r, "release") /\ UNCHANGED memVars
     \/ ~cancelled[r] /\ Goto(r, "decode") /\ UNCHANGED <<memVars, shows>>
  /\ UNCHANGED <<dbVars, gateVars, year, gen, raw, cancelled, cover>>

\* Under the gate: cancellation check, then the second lookup.
Recheck(r) ==
  /\ pc[r] = "held"
  /\ \/ cancelled[r] /\ Settle(r, Failed) /\ Goto(r, "release") /\ UNCHANGED memVars
     \/ ~cancelled[r] /\ LookupHit(r) /\ Goto(r, "heldCopy")
     \/ ~cancelled[r] /\ LookupMiss(r) /\ Goto(r, "decode") /\ UNCHANGED shows
  /\ UNCHANGED <<dbVars, gateVars, year, gen, raw, cancelled, cover>>

RefusedUnfenced(r) == closed \/ MaxYears = 0 \/ Size[raw[r]] > MaxBytes

\* admit refuses a closed cache, an overtaken read or an oversized entry.
Refused(r) ==
  closed \/ gen[r] # generation \/ MaxYears = 0 \/ Size[raw[r]] > MaxBytes

HasRoomOffByOne(n, size) == n <= MaxYears /\ size <= MaxBytes

\* The eviction loop stops at n retained years, size bytes with the new one.
HasRoom(n, size) == n < MaxYears /\ size <= MaxBytes

\* admit: evict from the back of the list until there is room (Bounded says
\* that there always is, at the latest when nothing is left to evict).
admit(r) ==
  LET y == year[r]
      b == raw[r]
      l == Unlink(lru, y)
      n == IF entries[y] = NoRow THEN bytes ELSE bytes - Size[entries[y]]
      After(k) == n - SizeAt(l, (k + 1)..Len(l))
      Evictions == {e \in 0..Len(l) : LET k == Len(l) - e IN HasRoom(k, After(k) + Size[b])}
      kept == Len(l) - Min(Evictions \cup {Len(l)})
  IN IF Refused(r)
     THEN UNCHANGED <<entries, lru, bytes>>
     ELSE /\ entries' = [z \in Years |->
                           IF z = y THEN b
                           ELSE IF \E i \in 1..kept : l[i] = z THEN entries[z] ELSE NoRow]
          /\ lru' = <<y>> \o SubSeq(l, 1, kept)
          /\ bytes' = After(kept) + Size[b]

RetainableAny(b) == b \in Raw

\* Only a payload DecodeYearData accepts is offered to the cache.
Retainable(b) == b \in Valid

\* decode and, when it succeeded and nobody cancelled, admit.
Decode(r) ==
  /\ pc[r] = "decode"
  /\ \/ /\ cancelled[r]
        /\ Settle(r, Failed)
        /\ Goto(r, "release")
        /\ UNCHANGED memVars
     \/ /\ ~cancelled[r]
        /\ shows' = [shows EXCEPT ![r] = raw[r]]
        /\ Goto(r, "heldCopy")
        /\ IF Retainable(raw[r]) THEN admit(r) ELSE UNCHANGED <<entries, lru, bytes>>
        /\ UNCHANGED <<generation, closed>>
  /\ UNCHANGED <<dbVars, gateVars, year, gen, raw, cancelled, cover>>

\* Copy the top-level slice and check the context a last time.
Copy(r) ==
  /\ pc[r] \in {"copy", "heldCopy"}
  /\ Settle(r, shows[r])
  /\ Goto(r, IF pc[r] = "copy" THEN "done" ELSE "release")
  /\ UNCHANGED <<dbVars, memVars, gateVars, year, gen, raw, cancelled, cover>>

ReleaseKeepingLast(r) ==
  /\ pc[r] = "release"
  /\ ~token[year[r]]
  /\ token' = [token EXCEPT ![year[r]] = refs[year[r]] > 1]
  /\ Goto(r, "unref")
  /\ UNCHANGED <<dbVars, memVars, refs, year, gen, raw, shows, cancelled, cover>>

\* Deferred release: the token goes back (the channel holds one) ...
ReleaseToken(r) ==
  /\ pc[r] = "release"
  /\ ~token[year[r]]
  /\ token' = [token EXCEPT ![year[r]] = TRUE]
  /\ Goto(r, "unref")
  /\ UNCHANGED <<dbVars, memVars, refs, year, gen, raw, shows, cancelled, cover>>

\* ... and then the reference; the last one deletes the gate.
Unref(r) ==
  /\ pc[r] = "unref"
  /\ refs' = [refs EXCEPT ![year[r]] = @ - 1]
  /\ Goto(r, "done")
  /\ UNCHANGED <<dbVars, memVars, token, year, gen, raw, shows, cancelled, cover>>

\* The caller has its result; the goroutine may issue another read.
Return(r) ==
  /\ pc[r] = "done"
  /\ Goto(r, "idle")
  /\ gen' = [gen EXCEPT ![r] = 0]
  /\ raw' = [raw EXCEPT ![r] = NoRow]
  /\ shows' = [shows EXCEPT ![r] = Failed]
  /\ cancelled' = [cancelled EXCEPT ![r] = FALSE]
  /\ UNCHANGED <<dbVars, memVars, gateVars, year, cover>>

-----------------------------------------------------------------------------
(* Mutators: commit, then invalidate                                        *)

\* SQLite's rows become next.
Commit(next) ==
  /\ dbOpen
  /\ db' = next
  /\ UNCHANGED <<dbOpen, memVars, gateVars, readerVars>>

\* A mutator starts while the bound on explored mutations allows it.
MayMutate(m) == cover[m] = {} /\ generation < MaxGeneration

SetYear(m, y, b) ==
  /\ MayMutate(m)
  /\ Commit([db EXCEPT ![y] = b])
  /\ cover' = [cover EXCEPT ![m] = {y}]
  /\ UNCHANGED foreign

Clear(m) ==
  /\ MayMutate(m)
  /\ Commit([y \in Years |-> NoRow])
  /\ cover' = [cover EXCEPT ![m] = Years]
  /\ UNCHANGED foreign

\* The DELETE removed the rows of Y, at least one.
PruneStaleYears(m, Y) ==
  /\ MayMutate(m)
  /\ Y # {} /\ \A y \in Y : db[y] # NoRow
  /\ Commit([y \in Years |-> IF y \in Y THEN NoRow ELSE db[y]])
  /\ cover' = [cover EXCEPT ![m] = Years]
  /\ UNCHANGED foreign

\* A row changes and this Cache instance is not told.
ForeignWrite(y, b) ==
  /\ db[y] # b
  /\ generation < MaxGeneration
  /\ Commit([db EXCEPT ![y] = b])
  /\ foreign' = foreign \cup {y}
  /\ UNCHANGED cover

\* The state change of invalidate for the years of Y.
Drop(Y, close) ==
  /\ generation' = generation + 1
  /\ closed' = (closed \/ close)
  /\ IF Y = Years
     THEN /\ entries' = [y \in Years |-> NoRow]
          /\ lru' = <<>>
          /\ bytes' = 0
     ELSE \E y \in Y : IF entries[y] # NoRow THEN remove(y)
                       ELSE UNCHANGED <<entries, lru, bytes>>
  /\ foreign' = foreign \ Y
  /\ UNCHANGED <<gateVars, readerVars, db>>

\* invalidate, before the mutation reports success.
Invalidate(m) ==
  /\ cover[m] # {}
  /\ Drop(cover[m], FALSE)
  /\ cover' = [cover EXCEPT ![m] = {}]
  /\ UNCHANGED dbOpen

\* Close: drop the memory for good, then (worker stopped) close SQLite.
Close ==
  /\ ~closed
  /\ Drop(Years, TRUE)
  /\ UNCHANGED <<dbOpen, cover>>

CloseDB ==
  /\ closed /\ dbOpen
  /\ dbOpen' = FALSE
  /\ UNCHANGED <<db, foreign, memVars, gateVars, readerVars, cover>>

-----------------------------------------------------------------------------
ReaderStep(r) ==
  \/ Query(r) \/ QueryError(r) \/ Lookup(r) \/ EnterGate(r) \/ TakeToken(r)
  \/ AbandonWait(r) \/ Recheck(r) \/ Decode(r) \/ Copy(r) \/ ReleaseToken(r)
  \/ Unref(r) \/ Return(r)

MutatorStep(m) ==
  \/ \E y \in Years, b \in Raw : SetYear(m, y, b)
  \/ Clear(m)
  \/ \E Y \in SUBSET Years : PruneStaleYears(m, Y)
  \/ Invalidate(m)

Next ==
  \/ \E r \in Readers : \/ \E y \in Years : Begin(r, y)
                        \/ Cancel(r)
                        \/ ReaderStep(r)
  \/ \E m \in Mutators : MutatorStep(m)
  \/ \E y \in Years, b \in Row : ForeignWrite(y, b)
  \/ Close
  \/ CloseDB

(***************************************************************************)
(* A goroutine that can run eventually runs.  Taking the token is strongly  *)
(* fair: a Go channel serves its blocked receivers first in, first out.     *)
(***************************************************************************)
Fairness == \A r \in Readers : WF_vars(ReaderStep(r)) /\ SF_vars(TakeToken(r))

Spec == Init /\ [][Next]_vars /\ Fairness

-----------------------------------------------------------------------------
(* Properties                                                               *)

(***************************************************************************)
(* Every variable has its type; in particular only BLOBs that decode are    *)
(* ever resident (admit runs only when decode returned no error).  What     *)
(* bytes holds is part of Bounded.                                          *)
(***************************************************************************)
TypeOK ==
  /\ db \in [Years -> Row]
  /\ dbOpen \in BOOLEAN
  /\ foreign \subseteq Years
  /\ generation \in Nat
  /\ closed \in BOOLEAN
  /\ entries \in [Years -> Valid \cup {NoRow}]
  /\ lru \in Seq(Years)
  /\ refs \in [Years -> Int]
  /\ token \in [Years -> BOOLEAN]
  /\ pc \in [Readers -> PCs]
  /\ year \in [Readers -> Years]
  /\ gen \in [Readers -> Nat]
  /\ raw \in [Readers -> Row]
  /\ shows \in [Readers -> Row \cup {Failed}]
  /\ cancelled \in [Readers -> BOOLEAN]
  /\ cover \in [Mutators -> SUBSET Years]
  /\ \A m \in Mutators : cover[m] \in {{}, Years} \/ \E y \in Years : cover[m] = {y}

\* Some change of y's row has not been followed by an invalidation yet.
Unannounced(y) == y \in foreign \/ \E m \in Mutators : y \in cover[m]

(***************************************************************************)
(* After a mutation has reported success no decoding of the replaced row    *)
(* stays in memory: a resident entry that differs from its row is only      *)
(* possible between a commit and its invalidate (or after a write the       *)
(* cache was never told of).                                                *)
(***************************************************************************)
Coherent == \A y \in Years : entries[y] \in {NoRow, db[y]} \/ Unannounced(y)

(***************************************************************************)
(* The generation fences admission: a read whose captured generation is     *)
(* still current holds the current row, or a change of that row is about    *)
(* to overtake it.  Anything it admits is then current or still doomed.     *)
(***************************************************************************)
ReadsFenced ==
  \A r \in Readers :
    /\ gen[r] <= generation
    /\ pc[r] \in HasRow /\ gen[r] = generation =>
         raw[r] = db[year[r]] \/ Unannounced(year[r])

\* A call, seen from outside: where it stands, and the row it has taken.
ReadStage(r) == CASE pc[r] = "idle" -> "idle" [] pc[r] = "query" -> "asked"
                  [] pc[r] = "done" -> "answered" [] OTHER -> "taken"
ReadValue(r) == CASE ReadStage(r) = "taken" -> raw[r]
                  [] ReadStage(r) = "answered" -> shows[r]
                  [] OTHER -> NoRow

Reads == INSTANCE YearReads WITH
           rows <- db, asked <- year, Nothing <- NoRow,
           stage <- [r \in Readers |-> ReadStage(r)],
           value <- [r \in Readers |-> ReadValue(r)]

(***************************************************************************)
(* Reads are atomic: whatever mutators, other readers, evictions and        *)
(* foreign writers do meanwhile, readDecodedYearContext answers with the    *)
(* decoding (or absence, or corruption) of the row as it was at one moment  *)
(* of the call, or with an error.  The cache in front of SQLite cannot be   *)
(* told from no cache at all.                                               *)
(***************************************************************************)
ReadsAtomic == Reads!Spec

\* One decoder per year, and never of a version that is resident.
DecodeOnce ==
  \A r \in Readers : pc[r] = "decode" =>
     /\ entries[year[r]] # raw[r]
     /\ \A s \in Readers \ {r} : ~(pc[s] \in Owning /\ year[s] = year[r])

\* The reference count is the number of goroutines between acquire and unref,
\* and the token is either in the channel or owned.
GatesCounted ==
  \A y \in Years :
    LET users == {r \in Readers : pc[r] \in Referencing /\ year[r] = y}
        owners == {r \in Readers : pc[r] \in Owning /\ year[r] = y}
    IN /\ refs[y] = Cardinality(users)
       /\ refs[y] > 0 => Cardinality(owners) = (IF token[y] THEN 0 ELSE 1)

(***************************************************************************)
(* The gates do their work: readers that meet on a year decode a version    *)
(* once, whoever looked before whom, and no reader that leaves, decodes or  *)
(* gives up leaks a gate or loses its token.                                *)
(***************************************************************************)
GatesSound == DecodeOnce /\ GatesCounted

\* Reads that overlap Close never repopulate the memory.
ClosedEmpty == closed => Resident = {}

\* The map and the recency list agree and hold at most MaxYears years.
YearsBounded ==
  /\ Cardinality(Resident) <= MaxYears
  /\ Len(lru) = Cardinality(Resident)
  /\ Range(lru) = Resident

(***************************************************************************)
(* The map, the recency list and the byte count agree, both retention       *)
(* bounds hold at every moment, and a closed cache retains nothing.         *)
(***************************************************************************)
Bounded ==
  /\ YearsBounded
  /\ bytes <= MaxBytes
  /\ bytes = SizeAt(lru, 1..Len(lru))
  /\ ClosedEmpty

(***************************************************************************)
(* "An old read must not evict a replacement admitted after a mutation":    *)
(* apart from capacity eviction (some year was admitted) and invalidation   *)
(* (the generation moved), an entry that matches its row is only dropped    *)
(* while a change of that row is still unannounced.                         *)
(***************************************************************************)
CurrentEntryKept ==
  [][\A y \in Years :
       (/\ entries[y] # NoRow /\ entries[y] = db[y] /\ entries'[y] = NoRow
        /\ generation' = generation
        /\ ~\E z \in Years : entries'[z] \notin {entries[z], NoRow})
       => Unannounced(y)]_vars

(***************************************************************************)
(* A call that has begun returns, also when its own context never ends: a   *)
(* reader that waits at a gate gets the token although owners are cancelled,*)
(* fail to decode or race Close, other waiters give up, and others come     *)
(* while the last owner is leaving (acquire and its deferred release).      *)
(***************************************************************************)
ReadsReturn == \A r \in Readers : pc[r] # "idle" ~> pc[r] = "idle"
=============================================================================
