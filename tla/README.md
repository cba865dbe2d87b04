# A TLA+ model of sonarr-anime-bridge

The bridge answers Sonarr's import-list requests (`GET /list`) from AniList data
that it caches per calendar year in SQLite, resolved to TVDB ids through the
AniBridge mapping file. This directory models the parts of it that are hard to
test: its caches, its background work, its upstream etiquette and its
persistence. TLC checks every module on small instances; TLAPS proves all of
the safety properties that hold, two refinements included, for instances of any
size.

## Inventory

| Component (source) | State | Operations | Works with | Hard part | What makes it correct |
|---|---|---|---|---|---|
| Decoded year cache (`internal/cache/decoded_year.go`, row access in `cache.go`) | rows, resident decodings with recency list and byte count, generation, per-year gates, closed flag | read (peek/get), write, clear, prune, close | every request, prewarm, fetches | commit and invalidation are two steps; decoding happens outside locks | memory never serves what SQLite no longer holds; bounded; gates balanced; reads return |
| Last-hit accounting (`cache.go`) | `last_hit` column, pending map, flush worker | queue, flush, retry, clear, prune, close | reads above, maintenance loop | asynchronous and debounced writes race the prune | counted accesses protect years; nothing lost at close |
| Year fetch coordination (`scheduler.go`) | in-flight map, year slots, tracking flag, WaitGroup, admission flag | fetchAndStore, ScheduleYearFetch, StartBackgroundFetch, Wait | handlers, prewarm, loops; cache and AniList client | leaders, waiters, cancellation, shutdown | one flight per year, no waiter left, shutdown drains |
| Failure cooldowns (`scheduler.go`) | year → (retryAt, delay) | check, record, clear | fetch coordination | bound of 256, doubling, clock read outside the lock | bounded table, bounded delay, fair eviction |
| List handler (`cmd/server/main.go`) | per-request progress and log metadata | read, fetch, reread, prior year, process, schedule | cache, fetch coordination | state changes between its reads; shutdown | stale data survives outages; every request answered |
| AniList client (`internal/anilist/anilist.go`) | pacing interval, last admission, cooldown deadline | throttle, observeAllowance, retries, batches | fetch coordination | admission race, out-of-order responses | no burst, no shortened deadline, every fetch ends |
| Mapping loader (`internal/mapping/loader.go`, `anibridge.go`; `loadResolver`) | mapping file, metadata sidecar, parsed source, active mapping | load (HEAD, GET, parse, write, publish), restart | release host, disk, resolver | two files, crashes, edits, URL changes | resolver and loader agree; usable copy kept; right URL |
| Mapping parser (`parse.go`) | none (pure) | rank candidates, count ranges, build the lookup maps | loader | map iteration order, repeated keys, overflowing counts | one answer in every order, the documented one |
| Filters, resolver and pipeline (`filter.go`, `resolve.go`, `Process`, `anilist.Show`) | none (pure) | winter merge, filters, look-up, response | handler, discovery | boundary dates, order of filters, repeated IDs | the response is the wanted, known shows in order, once |
| Seen-mapping discovery (`trackNewMappings`, `MarkSeenMappings`) | `seen_mappings` table, one task | count, insert in one transaction, announce | handler, background tasks | first-run rule, rollback and retry, crash between commit and log | every new mapping announced exactly once |
| Maintenance and prewarm (`StartBackground`, `Prewarm`) | tickers, scan results | prune, refresh stale years, vacuum, mapping refresh, prewarm | all of the above | failures of one year, the limit between fresh and stale, cancellation | stale years are retried; an unready service becomes ready |
| Lifecycle (`runContext`), health | application context, admission, exit error | startup, cancel, drain, close | all | three waits in turn, each limited | a clean exit left nobody behind; cancellation stops everyone |
| Configuration, path and URL rules, statistics, middleware, CI scripts, fixtures | – | – | – | – | not modelled: sequential parsing or formatting, or outside the service |

## Modules

Each component module has its state as VARIABLES, one action per step of the
code, and its properties at the end. `MC*` modules add what TLC
needs beyond a cfg (symmetry sets, constant functions); `*_proofs` modules hold
theorems and lemmas. Definitions such as `AbandonDropsEntry`
next to `Abandon` are deliberately wrong variants: `PROJECT.json` uses them to
show that each property can fail.

### DecodedYear

A reader (`pc`: `query → lookup → gate → recheck → decode → settle …`) follows
`readDecodedYearContext`: take the generation, read the row, look the year up,
queue at the per-year gate, look again, decode outside the lock, admit, release.
A mutator follows `SetYear`, `Clear` or `PruneStaleYears`: commit in SQLite
(`Commit`), then invalidate (`Drop`). Rows are BLOB identities with versions;
a BLOB has a size and either decodes or does not. `ForeignWrite` is a change of
the database the cache is not told of (another process; a commit whose context
ended); such rows are excused by name in the properties, since the code compares
BLOBs on every lookup.

* `Coherent`: a resident decoding that differs from its row exists only while
  the mutation that changed the row has still to invalidate. (`ReadsFenced`, that
  a read of the current generation holds the current row, is the strengthening
  the proof needs.)
* `ReadsAtomic`: the module implements `YearReads`, the cache without its memory:
  a read takes the row at one moment between call and return and answers with
  that row's decoding or with an error. The mapping sends a reader before its
  `Query` to `asked`, after it to `taken`, and the row it read to `value`; memory,
  gates and generations disappear.
* `GatesSound`: one decoder per year at a time, and gate references equal the
  readers that hold them.
* `CurrentEntryKept`: an old read never evicts the newer entry.
* `Bounded`: both bounds hold, map and recency list agree (`YearsBounded`), the
  byte count is exact and a closed cache stays empty (`ClosedEmpty`).
* `ReadsReturn`: every read returns, in particular one that waits at a gate whose
  owner is cancelled, fails to decode, or leaves while it arrives.

### LastHit

Readers count an access (`Stamp`, then `queueLastHit` under the lock, debounced),
a worker flushes (`OnWake`, `OnTicker`, `OnDone`), `PruneSnapshot`/`PruneDelete`
remove what was not used, Close cancels and waits. `HitsAccounted` bounds how far
table and queue may lag behind; `PruneRespectsHits` and `CloseFlushes` say what
the accounting is for, `PruneForgets` that retention ends although refreshes
rewrite rows; `PendingDrains` and `WorkerStops` are its liveness.
`PruneRespectsHits` speaks of accesses counted before the prune took its
snapshot: one that is counted between the snapshot and the DELETE does not
protect its year, although the comment in `PruneStaleYearsContext` can be read
that way.

### YearFetch

Callers are requests, loops and tasks. A caller leads or follows (`Lead`,
`Follow`); a leader checks the row and the cooldown, goes upstream, stores, and
runs the deferred function in its three visible steps `Settle`, `Publish`,
`Delete`. A follower leaves with the result (`Wake`) or with its own context
(`Abandon`). Tasks hold a year slot; `Done` is `wg.Done`. A row is `fresh`,
`stale` or `missing` (absent or not decodable: every user treats them alike).
A waiter receives its leader's error, cancellation included: that is documented
(`specs/service-baseline/TECH.md`) and part of the model.

`SetYearContext` may report the end of its context although its INSERT has
committed, so `Store` has three outcomes: stored, stored yet reported as a
context's error, and not stored.

`FlightsKept` states that all this implements `YearFlights`: a year has at most
one flight, which alone makes its row fresh and never over a fresh one; it lands
with `fetched` only if it stored the row, with a context's error whether or not it
did, with another error only if it did not; everybody on board gets its outcome or
the error of his own context. A flight lands with `Publish`; what its leader has
stored or found before is its state until then.
`ListHandler` and `Service` use fetchAndStore only through this promise.

### ListHandler and Discovery

`handleList` after parameter parsing, with FetchAndStore, the background tasks
and the reads replaced by what the modules above show of them; `FetchedElsewhere`
is every other caller of FetchAndStore. Reads succeed only before cancellation,
because request contexts derive from the application's; an INSERT that a
cancellation overtakes may still commit, so stores are possible after it. `due`
remembers the years that were served stale and have not been tried since:
`StaleRefreshed` says that a task is held for each of them.

`Discovery` extends it with the task that `Process` starts: whoever sets the
coalescing flag hands its resolved shows over (`Serve`), the task counts, inserts
entry by entry, fails and rolls back, is retried from the start, commits and
announces. `Restart` is kill -9 at any moment: rows and `seen_mappings` survive,
an open transaction does not. `DiscoveryExact` excuses exactly one loss, a kill
between commit and log.

### ListPipeline

One call of `Process` from the two decoded years to the response: `Process` runs
the merge and the filters as in the code, dates and `AddDate` included,
`resolveBatch` meets whichever mapping is active then, `Return` ends the call.
A loop that filters a slice is `Keep`, the fold that appends what it keeps.
`PipelineSpec` is one such call by itself, about which the theorem is stated;
`PipelineAssumption` says what `handleList` and the parser guarantee: a known
season, and positive IDs in a mapping. `ResponseRight` compares the answer with a reference that says of every position
of the two lists whether it is in the response. `MCDiscovery` lets a behaviour of
`Discovery` begin with such a call.

### Service

`runContext` with its early returns and limited waits, the handlers and tasks as
somebody who stores years and ends, prewarm, the maintenance loop and the mapping
timer. A row is `fresh`, at its `limit` (no longer fresh, not yet stale for the
scan) or `stale`. `Health` is handleHealth's decision table.
`CleanExit` and `Drains` are about shutdown, `StaleTried` and `BecomesReady` about
what must happen while the service runs.

### FetchCooldown

The failure table with a clock. `Stamp` and `recordFetchFailure` are separate
because the code reads the time before it locks.

### AniListClient

All times are kept relative to now (ticks until the cooldown ends, ticks since
the last admission), so the state space is finite without a horizon. `barred`
remembers the furthest deadline AniList ever asked for, independently of
`cooldown`. A response nondeterministically carries a limit, an exhausted
allowance and a deadline.

`taken` and `due` are histories of a fetch over its batches: the page numbers it
appended, in order, and the pages AniList announced, filled or failed to deliver.
They are kept from the responses themselves, whatever the acceptance of a batch
makes of them, and `CompleteOrError` compares the two when a year is returned: the
pages are 1, 2, ... n, and nothing AniList let be known lies beyond n.

### MappingLoader

One load at a time (the gate), step by step; `Restart` may interrupt it anywhere
when crashes are allowed. `Faults` selects what an instance may suffer, and
`intact` remembers that nothing has separated the file from its sidecar so far:
no edit, no crash in mid-load, no sidecar write that failed. `Synced`,
`ReuseVerified` and `UsableKept` hold whatever happens; `UrlHonouredIntact` and
`LocalCopyServes` hold while `intact` does, across restarts and changes of URL.
After a lost sidecar write a restart may reject a usable local copy.

### MappingParse

From a document to the two lookup maps. A document is what the JSON decoder
delivers, a sequence of members with repetitions; ints have `Width` bits. One
step reads one root member, and the order in which Go iterates over its candidates
is chosen in that step; `ParseRight` compares the result with a reference that
knows no order. Syntax and nesting errors are fatal wherever they are, also inside a
value nobody looks up or a field of the metadata (`skipValue`,
`parseDatasetMetadata`); errors of type are not, unless an entry reads the value.
`ParseSpec` is one parse by itself, of any document of typed
members (`DocumentsAssumption`: only an object has members, whatever they are).
`MCMappingLoader` lets a behaviour of `MappingLoader` begin with such a parse.

## Runs

| Run | Shows | Bounds |
|---|---|---|
| `decoded_race` | coherence, gates and the refinement of `YearReads` over all interleavings of two readers, two mutators, foreign writes and Close on one year | 2 readers suffice for a gate hand-over, 2 mutators for overlapping invalidations; `MaxGeneration` bounds the mutations |
| `decoded_lru` | both bounds, recency, byte sums, unreadable rows; nobody is stranded at a gate | two families of behaviours (`MCDecodedFamilies`): one reader of 3 years over room for 2, sizes 1 and 2 over 3 bytes, so that either bound forces evictions, with rows that stay; or 2 readers of one year, so that one waits at a gate the other holds or is leaving, with one mutation |
| `lasthit_safety` | debounce, retention both ways, flush on Close | 2 readers reach the lock in either order; 3 ticks let a row outlive the retention of 1 |
| `lasthit_live` | failing writes are retried, the worker stops | 1 reader, 2 ticks |
| `yearfetch_flight` | the refinement of `YearFlights`, no refetch of fresh data, cooldown | three callers: a leader and two who follow, give up or return while it finishes |
| `yearfetch_tasks` | slots, WaitGroup, shutdown; calls return, Wait ends | two tasks over one slot and a loop that may lead or follow |
| `list_discovery` | stale data served and refreshed, discovery exact across retries and restarts, the response right | one request after the other, two consecutive years, batches of one or two keys with a repetition; every pair of lists of at most two shows (`Longest`; `MCDiscovery` says which) |
| `service_life` | clean exit, draining, stale years, readiness | one handler, one task (`MaxTasks`) and both loops: every wait of the shutdown can have somebody to wait for; two years so that one can fail before the other |
| `cooldown_table` | bound, cap, eviction | 3 years over room for 2; cap below the second doubling; 8 ticks let entries expire and be pruned |
| `anilist_admission` | complete years, pacing, deadlines, termination | 2 fetches of 2 batches, deadlines below the longest wait (`Minute`) and beyond the largest duration, two paces; batches of 2 pages, so that a year may end on, before and behind their boundary |
| `mapping_loads` | agreement, verified reuse, usable copy kept under every fault; URL changes and fallback; the parser | 2 URLs, 3 contents, ETags that coincide across URLs; entries of up to 3 targets, documents of up to 2 members, ints of 4 bits so that counts overflow |
| `mapping_torn` | **violation**: see findings | the same with crashes and URL changes only |

CHECK_DEADLOCK is off only where shutdown really ends the modelled part.

## Fairness

* Goroutines run and operations return: SQLite statements end after their busy
  retries, HTTP exchanges by the client's timeout, decoding terminates. Weak
  fairness on the steps of readers, callers, tasks, workers and handlers.
* Contexts are not assumed to end, except in `AniListClient`: `fetchContext`
  gives every fetch two minutes, and without that a fetch could lose the race
  for admission forever.
* A handler's reads are only certain to fail once the application is cancelled.
* A Go channel serves its receivers in turn, so a reader that stays at a gate
  gets its token: strong fairness on `TakeToken`.
* The last-hit worker's `select` chooses at random among ready cases, so it sees
  a lasting cancellation: strong fairness on `OnDone`. `PendingDrains` also
  assumes that a write that is retried forever does not fail forever: strong
  fairness on `FlushWrite(TRUE)`.
* `Service`: the lifecycle, the loops and prewarm run, handlers and tasks end
  (shown by `CallsReturn`, `ReadsReturn` and `FetchReturns`), rows at their limit
  grow older. A table that is scanned forever is scanned successfully sooner or
  later, and so is the mapping loaded (its source or the local copy): strong
  fairness on `Scan` and `MappingLoaded`. Nothing is assumed about AniList.

## Findings

`mapping_torn`: a crash between mapping file and sidecar after a URL change lets
the old URL's ETag vouch for the new URL's file, which
`specs/mapping-refresh-reuse/PRODUCT.md:28-30` excludes.

Observed while modelling, without a run: `winter_backfill_scheduled` is logged as
true whether or not `ScheduleYearFetch` accepted the year (`main.go:380`), so that
a backfill refused at shutdown is logged as scheduled; and an episode total that
overflows makes a target outside season 1 unselectable, in every order alike.

## Proofs

Every theorem holds for all values of the constants that satisfy the named
ASSUMEs of its module, which TLC evaluates on every run.

| Module | Theorems | Inductive invariant, beyond types |
|---|---|---|
| `DecodedYear_proofs` | `TypeCorrect` (`TypeOK`), `Coherence` (`Coherent`), `GatesAlwaysSound` (`GatesSound`), `CurrentIsKept` (`CurrentEntryKept`), `ReadsAreAtomic` (`ReadsAtomic`), `StaysBounded` (`Bounded`) | `ReadsFenced`, `ClosedEmpty`; `GateInv`; `Answering`; `ListInv` and the byte count |
| `LastHit_proofs` | `HitsAreAccounted` (`HitsAccounted`), `PruneSparesHits` (`PruneRespectsHits`), `PruneLeavesUsed` (`PruneForgets`), `CloseWritesOwed` (`CloseFlushes`) | `HitInv` |
| `YearFetch_proofs` | `FreshIsNotRefetched` (`FreshNotRefetched`), `CooldownIsHonoured` (`CooldownHonoured`), `SlotsAlwaysMatch` (`SlotsMatchTasks`), `WaitLeavesQuiet` (`QuietAfterWait`), `FetchKeepsFlights` (`FlightsKept`) | `FlightInv`, `SlotHeld`, `WaitClosed` |
| `Discovery_proofs` | `StaleIsServed` (`StaleServed`), `StaleIsRefreshed` (`StaleRefreshed`), `DiscoveryIsExact` (`DiscoveryExact`), `ResponseIsRight` (`ResponseRight`) | `HandlerInv`, `DiscoveryInv`, `PipelineInv` |
| `Service_proofs` | `ExitIsClean` (`CleanExit`) | `NotStarted`, `Drained` |
| `FetchCooldown_proofs` | `TableStaysBounded` (`TableBounded`), `ActiveStaysKept` (`ActiveKept`) | `StampsPast` |
| `AniListClient_proofs` | `AttemptsPaced` (`Paced`), `DeadlinesAreKept` (`DeadlinesKept`), `NoPartialYear` (`CompleteOrError`) | `DeadlinesCovered`, `Courses` |
| `MappingLoader_proofs` | `LoaderSynced` (`Synced`), `ReuseIsVerified` (`ReuseVerified`), `UrlIsHonoured` (`UrlHonouredIntact`), `UsableIsKept` (`UsableKept`), `LocalCopyIsServed` (`LocalCopyServes`), `ParseIsRight` (`ParseRight`) | `LoaderInv`, `ParseInv` |

**DecodedYear.** Coherence is not inductive by itself: a reader past its lookup
could hold an old row with the current generation. `ReadsFenced` ties the
generation a reader carries to the row it holds, and a closed cache accepts
nothing. The argument has one case per action; those that touch neither
memory nor rows are settled together by `QuietStep`, commits by `CommitStep`,
invalidation by `DropStep`. What removing, admitting and looking up do to memory
is stated once per operation (`RemoveEffect`, `AdmitEffect`, `LookupMissEffect`,
`LookupHitEffect`, `DropEffect`); that eviction stops is a minimal-counterexample
argument (`MinNat`). Gates: `GateOwned` (one owner, the token away exactly then),
`RefsCounted` (references are the cardinality of the users, which is why the
readers are assumed finite) and `DecodesAnew` (nobody decodes what is resident,
since the second lookup happens under the gate); `CurrentEntryKept` rests on the
last one and on the fence. The refinement maps every step to a step of
`YearReads` or to a stutter; `Answering` says that a reader with an answer shows
the row it took. `ListInv`: the recency list has no repetition, names exactly the
resident years, and is never longer than the bound, also between admission and
eviction because both are one critical section. `ByteInv`: the byte count is the
sum of the sizes of what is resident. The model sums over positions of the
recency list with a fold whose order TLA+ leaves open; `SumIs` gives the fold a
value, and the lemmas from `SumRemove` to `SumIndexed` say that a sum is the same
in any order, splits over disjoint sets, and is the same over positions as over
the years they name. With those, `ByteAdmit` computes what admission leaves after
evicting the back of the list, `ByteRemove` what removing a mismatched entry does.

**LastHit.** Three histories are compared with what the cache knows, so the
invariant has to say that knowledge never goes back. `NoRowGoesBack`: every table
operation leaves a row at least as recent as it was or inserts it now, and
`NothingForgotten` carries the other parts over each of them. `Scheduled` is the
key to the debounce: the timestamp `queueLastHit` debounces against is itself
known to the cache, and is the pending one if there is any, so that a
reader whose timestamp is older than the pending one is always debounced.
`Written` covers the moment between UPDATE and settlement, `OwedKnown` and
`OwedCovered` what Close found pending, `Pruning` the time between the
pruner's snapshot and its DELETE. The proof showed that `HitsAccounted` holds
while a clear is between its two steps as well; the property says so now.

**YearFetch.** `OneLeader` is the heart: an entry of the in-flight map exists
exactly while its leader is between `Lead` and `Delete`; `Decided` and
`PublishedByLeader` say whose outcome is published and when. From them follow that
nobody but the leader can make the year fresh or start its cooldown (hence the two
properties about refetching) and, with the flight's state read off its leader's
program counter, that every step is one of `YearFlights` or a stutter.
The attempt also corrected the refinement mapping: two guards of
the CASE that defined a flight's state overlapped, which TLC resolves by order
and the logic does not. `SlotsMatchTasks` needs finitely many background
goroutines, `QuietAfterWait` that Wait closes admission first.

**Discovery.** `Watched`: a request under way knows whether its year has been
missing. `ClosedLate`: admission closes after cancellation, so no refresh is
rejected before it. `RefreshStep`: a slot is given back only by its own
task, after it has tried, so a refresh that is due keeps its task, whichever
request reserved it. `OneTask`: the coalescing flag is set while a task runs, so a
request never overwrites a task that still has something to announce; `FoundIsNew`,
`Unheard` and `Due` say that what a transaction found, and what it committed and
has not logged, has no history.

**ListPipeline.** Both sides are brought to positions. `AtNext` is the one step
everything else uses: a list at a set of positions with a later one added is that
list with one more element. By it `Keep` of a list is the list at the positions it
keeps (`KeepIs`), and so is `Keep` of a list given by positions (`KeepAt`), which
makes one set of positions of the chain of filters (`StagesAt`). The merge is the
only loop that reads what it has built: `CarriedIs` says that for a prior show to
be new to it, it is enough to compare with those that were carried before, and
`MergeAt` follows position by position. `LastIs` and `AnswerIs` are the batch and
the rows. `PipelineInv` then says of the call, for each step, that it has the
list, and later the rows, of the reference.

**Service.** `Drained`: each wait of the shutdown that ended in time leaves its
party gone for good. The order of the waits matters, since handlers start tasks.

**FetchCooldown, AniListClient.** `StampsPast` bounds the `retryAt` of a failure
whose timestamp was taken before the lock. `DeadlinesCovered`: the shared
cooldown never falls below the furthest deadline AniList asked for, whatever order
responses arrive in. `Courses`: between two batches a fetch has taken exactly the
pages before the one it asks for next, and AniList has named none beyond that one;
`AppendedInOrder` and `LearntWithin` carry this over an accepted batch of any size,
ending at its last page or at the first of the next batch. Both modules use that a nonempty set of numbers has a least element,
and finiteness of the tracked years and of the paces a header can ask for.

**MappingLoader.** `DiskAgrees` describes file and sidecar outside and inside the
window between their two writes, `BeganOnDisk` that what a load read at its start
is still true; `Downloaded`, `Selected` and `ResultOfUrl` follow the bytes of
a load. The assumption on ETags is that one URL's versions have different ones;
those of different URLs may coincide.

**MappingParse.** `Preference`: the reference's preference is a total preorder in
which only targets of one show are equal, counts that wrapped included.
`CompareRight`: a comparison keeps the preferred candidate. Hence `BestRight`, that
any order of comparing ends in the same show, and `ExtractRight` for a whole value,
errors included; a value that is passed over is refused exactly if it is `Broken`. `ParseInv` says of every prefix
of the document that the two maps are what the reference makes of that prefix; a
later entry that names no show leaves an earlier one standing (`NextMap`).

**Induction.** The library's induction theorems take an operator as a parameter,
which no installed prover instantiates. Where a proof needs induction over a
number, a set's size or a list's length, it takes the least counterexample
(`MinNat`) instead: `Climb` does so for numbers, and `FoldExists` shows that a
recursion over the subsets of a finite set has a solution, which is what turns
the community modules' folds into functions one can compute with. Each proof
module that uses these has its own copy.

Only model-checked:

* liveness (`ReadsReturn`, `PendingDrains`, `WorkerStops`, `CallsReturn`,
  `WaitEnds`, `Drains`, `StaleTried`, `BecomesReady`, `FetchReturns`): fairness and
  ENABLED are out of the prover's reach;
* that a behaviour of `Discovery` or of `MappingLoader` may begin with a call of
  `Process` or a parse (`MCDiscovery`, `MCMappingLoader`): the theorems about the
  call and the parse are about `PipelineSpec` and `ParseSpec`, which have the same
  steps.

## Not modelled

* Statistics, debug authorization, middleware and `setupLogging`: they read one
  request or a counter and format it; no state of theirs is used again.
* Configuration, path and URL rules: sequential parsing with defaults. The
  address checks of the mapping client are I/O; a refused address is `GetFails`.
* SQLite itself: pragmas, WAL recovery at open, VACUUM. Statements are atomic,
  may fail, and transactions are lost by a crash. The number of busy retries and
  their back-off is not counted: a statement ends with success or failure.
* JSON and zstd: a BLOB, a page or a document decodes or does not. The
  decoder's depth and size limits are syntax errors of a value.
* A panic that ends a loop of `StartBackground` is recovered and logged, and the
  loop is gone until a restart; the model's loops do not panic.
* CI, release and smoke scripts, the runtime fixture: outside the service.

## Plan

All components with state of their own are modelled, and every safety property the
runs check is proved except `UrlHonoured`, which is violated. What could still be
added:

1. `Lists` of decoded years come from AniList pages of `AniListClient`; a module
   composing the two would state that a response only has shows of one complete
   fetch of each year.
2. The retry budget of SQLite statements (`waitBeforeRetry`), if a property ever
   depends on how long a statement may take.
