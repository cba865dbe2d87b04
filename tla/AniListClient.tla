---------------------------- MODULE AniListClient ----------------------------
(***************************************************************************)
(* internal/anilist/anilist.go: FetchYear's batches, doRequest's retries    *)
(* and the admission they share.  All fetches of the process pass throttle, *)
(* which admits one attempt per interval and none during a cooldown;        *)
(* observeAllowance tightens both from response headers.                    *)
(*                                                                         *)
(* Times are kept relative to now, in abstract ticks: `since` is            *)
(* now - lastAdmission, `cooldown` is what is left until cooldownUntil, and *)
(* so on; Tick moves them all.  Backoff and pacing keep their order, not    *)
(* their scale.                                                             *)
(*                                                                         *)
(* A batch asks for BatchSize consecutive pages.  A page of a response is   *)
(* abstracted to what FetchYear looks at: is it complete and the page asked *)
(* for, does it announce a next one, does it hold shows.                    *)
(***************************************************************************)
EXTENDS Integers, Sequences, FiniteSetsExt

CONSTANTS Fetches,        \* concurrent FetchYear calls
          RateLimitDelay, \* the pacing floor
          Intervals,      \* what X-RateLimit-Limit may turn into: 60s / 0.9 limit
          Deadlines,      \* Retry-After or reset headers, in ticks from the response
          MaxDuration,    \* the largest time.Duration
          Minute,         \* the deadline when no header gives one
          MaxRetryAfter,  \* the longest admissible wait
          Backoffs,       \* jittered retry delays
          MaxRetry,
          BatchSize,      \* defaultBatchSize
          MaxPages

Larger(a, b)  == IF a >= b THEN a ELSE b
Smaller(a, b) == IF a <= b THEN a ELSE b
Paces   == {Larger(RateLimitDelay, i) : i \in Intervals} \cup {RateLimitDelay}
Longest == CHOOSE i \in Paces : \A j \in Paces : i >= j

\* One mediaPage: well formed (every field there, the number asked for), with a
\* next page announced, with shows in it.
Pages == {[whole |-> FALSE, next |-> FALSE, shows |-> FALSE]} \cup
         [whole : {TRUE}, next : BOOLEAN, shows : BOOLEAN]
Batches == [1 .. BatchSize -> Pages]

ASSUME ClientAssumption ==
  /\ RateLimitDelay \in Nat \ {0} /\ Minute \in Nat \ {0} /\ MaxRetryAfter \in Nat
  /\ Intervals \subseteq Nat /\ IsFiniteSet(Intervals) \* from 32-bit limits
  /\ Deadlines \subseteq Nat \ {0} /\ Backoffs \subseteq Nat
  /\ MaxDuration \in Nat /\ MaxDuration > MaxRetryAfter
  /\ MaxRetry \in Nat \ {0} /\ BatchSize \in Nat \ {0} /\ MaxPages \in Nat \ {0}

VARIABLES
  interval,  \* the pacing in force
  since,     \* ticks since lastAdmission, counted up to Longest
  cooldown,  \* ticks until cooldownUntil
  barred,    \* history: ticks until the last deadline AniList ever asked for
  pc,        \* fetch -> idle, gate, sleep, http
  attempt,   \* fetch -> attempt of the current batch, from 0
  page,      \* fetch -> the first page of the current batch
  backoff,   \* fetch -> ticks until its retryAt
  nap,       \* fetch -> ticks of its sleep left
  expired,   \* fetch -> its context has ended
  result,    \* fetch -> none, complete or error: what the last call returned
  taken,     \* history: fetch -> the numbers of the pages it appended, in order,
             \*          0 where it appended a page that is not the one asked for
  due        \* history: fetch -> the pages of the year as AniList let it be known:
             \*          the first, those announced, those sent with shows, and
             \*          those that were asked for and did not come whole

shared  == <<interval, since, cooldown, barred>>
records == <<taken, due>>
vars    == <<shared, pc, attempt, page, backoff, nap, expired, result, records>>

Init ==
  /\ interval = RateLimitDelay
  /\ since = Longest
  /\ cooldown = 0 /\ barred = 0
  /\ pc = [f \in Fetches |-> "idle"]
  /\ attempt = [f \in Fetches |-> 0]
  /\ page = [f \in Fetches |-> 1]
  /\ backoff = [f \in Fetches |-> 0]
  /\ nap = [f \in Fetches |-> 0]
  /\ expired = [f \in Fetches |-> FALSE]
  /\ result = [f \in Fetches |-> "none"]
  /\ taken = [f \in Fetches |-> <<>>]
  /\ due = [f \in Fetches |-> {1}]

-----------------------------------------------------------------------------
\* FetchYear returns r: everything it appended, or an error.
Leave(f, r) ==
  /\ pc' = [pc EXCEPT ![f] = "idle"]
  /\ result' = [result EXCEPT ![f] = r]
  /\ attempt' = [attempt EXCEPT ![f] = 0]
  /\ page' = [page EXCEPT ![f] = 1]
  /\ backoff' = [backoff EXCEPT ![f] = 0]
  /\ nap' = [nap EXCEPT ![f] = 0]
  /\ expired' = [expired EXCEPT ![f] = FALSE]
Forget(f) == taken' = [taken EXCEPT ![f] = <<>>] /\ due' = [due EXCEPT ![f] = {1}]
Fail(f)   == Leave(f, "error") /\ Forget(f)

Begin(f) ==
  /\ pc[f] = "idle"
  /\ pc' = [pc EXCEPT ![f] = "gate"]
  /\ result' = [result EXCEPT ![f] = "none"]
  /\ Forget(f)
  /\ UNCHANGED <<shared, attempt, page, backoff, nap, expired>>

\* Cancellation, shutdown, or the two-minute limit of the fetch.
Expire(f) ==
  /\ pc[f] # "idle" /\ ~expired[f]
  /\ expired' = [expired EXCEPT ![f] = TRUE]
  /\ UNCHANGED <<shared, pc, attempt, page, backoff, nap, result, records>>

ReadyInUnpacedRetry(f) ==
  Larger(IF attempt[f] > 0 THEN 0 ELSE interval - since, Larger(cooldown, backoff[f]))

\* What is left until this fetch may be admitted.
ReadyIn(f) == Larger(interval - since, Larger(cooldown, backoff[f]))

ThrottleDeaf(f) ==
  /\ pc[f] = "gate"
  /\ \/ /\ ReadyIn(f) <= 0
        /\ since' = 0
        /\ pc' = [pc EXCEPT ![f] = "http"]
        /\ UNCHANGED <<interval, cooldown, barred, attempt, page, backoff, nap, expired, result, records>>
     \/ /\ ReadyIn(f) > MaxRetryAfter
        /\ Fail(f) /\ UNCHANGED shared
     \/ /\ ReadyIn(f) \in 1 .. MaxRetryAfter
        /\ nap' = [nap EXCEPT ![f] = ReadyIn(f)]
        /\ pc' = [pc EXCEPT ![f] = "sleep"]
        /\ UNCHANGED <<shared, attempt, page, backoff, expired, result, records>>

\* One round of throttle, under its mutex: give up, be admitted, or sleep.
Throttle(f) ==
  /\ pc[f] = "gate"
  /\ \/ /\ expired[f] \/ ReadyIn(f) > MaxRetryAfter
        /\ Fail(f) /\ UNCHANGED shared
     \/ /\ ~expired[f] /\ ReadyIn(f) <= 0
        /\ since' = 0
        /\ pc' = [pc EXCEPT ![f] = "http"]
        /\ UNCHANGED <<interval, cooldown, barred, attempt, page, backoff, nap, expired, result, records>>
     \/ /\ ~expired[f] /\ ReadyIn(f) \in 1 .. MaxRetryAfter
        /\ nap' = [nap EXCEPT ![f] = ReadyIn(f)]
        /\ pc' = [pc EXCEPT ![f] = "sleep"]
        /\ UNCHANGED <<shared, attempt, page, backoff, expired, result, records>>

\* The sleep is over: check everything again.
Wake(f) ==
  /\ pc[f] = "sleep"
  /\ nap[f] = 0
  /\ pc' = [pc EXCEPT ![f] = "gate"]
  /\ UNCHANGED <<shared, attempt, page, backoff, nap, expired, result, records>>

\* sleepContext sees the context end.
AbandonSleep(f) ==
  /\ pc[f] = "sleep"
  /\ expired[f]
  /\ Fail(f) /\ UNCHANGED shared

\* The next attempt of the batch, or the end of the fetch.
Retry(f) ==
  IF attempt[f] + 1 < MaxRetry
  THEN /\ attempt' = [attempt EXCEPT ![f] = @ + 1]
       /\ \E b \in Backoffs : backoff' = [backoff EXCEPT ![f] = b]
       /\ pc' = [pc EXCEPT ![f] = "gate"]
       /\ UNCHANGED <<page, nap, expired, result, records>>
  ELSE Fail(f)

\* No response: with a finished context the fetch ends, otherwise it retries.
NetworkError(f) ==
  /\ pc[f] = "http"
  /\ IF expired[f] THEN Fail(f) ELSE Retry(f)
  /\ UNCHANGED shared

\* Seconds times time.Second in 64 bits, had headerDuration no comparison.
headerDurationWrapping(d) ==
  ((d + MaxDuration + 1) % (2 * (MaxDuration + 1))) - (MaxDuration + 1)

\* headerDuration saturates; observeAllowance treats a reset time likewise.
headerDuration(d) == Smaller(d, MaxDuration)

\* Header values: no limit header leaves the pace; no deadline means a minute.
PacesNow == {interval} \cup {Larger(RateLimitDelay, i) : i \in Intervals}
Bars     == Deadlines \cup {Minute}

CooldownAfter(d) == Larger(cooldown, headerDuration(d))

\* observeAllowance on a response whose limit header gives pace i, and which
\* bars the client (429, or nothing remaining) for d ticks if d > 0.
observeAllowance(i, d) ==
  /\ interval' = i
  /\ cooldown' = CooldownAfter(d)
  /\ barred' = Larger(barred, Smaller(d, MaxDuration))
  /\ UNCHANGED since

\* 429: retry, unless the cooldown is longer than a fetch may wait.
RateLimited(f) ==
  /\ pc[f] = "http"
  /\ \E i \in PacesNow, d \in Bars : observeAllowance(i, d)
  /\ IF cooldown' > MaxRetryAfter THEN Fail(f) ELSE Retry(f)

\* A status other than 200, 429 and 4xx is retried.
ServerError(f) ==
  /\ pc[f] = "http"
  /\ \E i \in PacesNow, d \in Bars \cup {0} : observeAllowance(i, d)
  /\ Retry(f)

\* Retrying is hopeless: another 4xx, a body that does not decode, GraphQL errors.
Hopeless(f) ==
  /\ pc[f] = "http"
  /\ \E i \in PacesNow, d \in Bars \cup {0} : observeAllowance(i, d)
  /\ Fail(f)

\* The first page that announces no next one, or BatchSize + 1.
Terminal(b) == Min({i \in 1 .. BatchSize : ~b[i].next} \cup {BatchSize + 1})

AcceptableBeforeEnd(b) == \A i \in 1 .. Smaller(Terminal(b), BatchSize) : b[i].whole

\* Every page is well formed, and those after the last one are empty.
Acceptable(b) ==
  /\ \A i \in 1 .. BatchSize : b[i].whole
  /\ \A i \in 1 .. BatchSize : i > Terminal(b) => ~b[i].next /\ ~b[i].shows

\* Where the batch after the one at p begins.
NextBatchOverlapping(p) == p + BatchSize - 1
NextBatch(p) == p + BatchSize

\* What the batch tells of the year, whatever is made of it.
Learn(f, b) ==
  due' = [due EXCEPT ![f] = @
            \cup {page[f] + i - 1 : i \in {j \in 1 .. BatchSize : ~b[j].whole \/ b[j].shows}}
            \cup {page[f] + i : i \in {j \in 1 .. BatchSize : b[j].next}}]

\* The pages up to the last one are appended to what is there.
AppendPages(f, b) ==
  taken' = [taken EXCEPT ![f] = @ \o
              [i \in 1 .. Smaller(Terminal(b), BatchSize) |->
                  IF b[i].whole THEN page[f] + i - 1 ELSE 0]]

\* A decoded batch: reject it, finish with it, or go on behind it.  The context
\* and the page limit are looked at before the next batch.
Batch(f, b) ==
  LET more == NextBatch(page[f]) IN
  /\ pc[f] = "http"
  /\ \E i \in PacesNow, d \in Bars \cup {0} : observeAllowance(i, d)
  /\ \/ ~Acceptable(b) /\ Fail(f)
     \/ /\ Acceptable(b) /\ Terminal(b) <= BatchSize
        /\ Leave(f, "complete") /\ AppendPages(f, b) /\ Learn(f, b)
     \/ /\ Acceptable(b) /\ Terminal(b) > BatchSize
        /\ more > MaxPages \/ expired[f]
        /\ Fail(f)
     \/ /\ Acceptable(b) /\ Terminal(b) > BatchSize
        /\ more <= MaxPages /\ ~expired[f]
        /\ AppendPages(f, b) /\ Learn(f, b)
        /\ page' = [page EXCEPT ![f] = more]
        /\ attempt' = [attempt EXCEPT ![f] = 0]
        /\ backoff' = [backoff EXCEPT ![f] = 0]
        /\ pc' = [pc EXCEPT ![f] = "gate"]
        /\ UNCHANGED <<nap, expired, result>>

Down(n) == Larger(n - 1, 0)
Tick ==
  /\ since' = Smaller(since + 1, Longest)
  /\ cooldown' = Down(cooldown)
  /\ barred' = Down(barred)
  /\ backoff' = [f \in Fetches |-> Down(backoff[f])]
  /\ nap' = [f \in Fetches |-> Down(nap[f])]
  /\ UNCHANGED <<interval, pc, attempt, page, expired, result, records>>

FetchStep(f) == \/ Throttle(f) \/ Wake(f) \/ AbandonSleep(f) \/ NetworkError(f)
                \/ RateLimited(f) \/ ServerError(f) \/ Hopeless(f)
                \/ \E b \in Batches : Batch(f, b)

Next == Tick \/ \E f \in Fetches : Begin(f) \/ Expire(f) \/ FetchStep(f)

(***************************************************************************)
(* Time passes, the HTTP client's own timeout ends every exchange, and the  *)
(* two minutes fetchContext allows a fetch run out.                         *)
(***************************************************************************)
Fairness == /\ WF_vars(Tick)
            /\ \A f \in Fetches : WF_vars(FetchStep(f)) /\ WF_vars(Expire(f))

Spec == Init /\ [][Next]_vars /\ Fairness

-----------------------------------------------------------------------------
Admitted(f) == pc[f] # "http" /\ pc'[f] = "http"

(***************************************************************************)
(* No burst: two attempts of the process, whoever makes them and however    *)
(* many waiters a cooldown held back, are at least the pace in force apart. *)
(***************************************************************************)
Paced == [][\A f \in Fetches : Admitted(f) => since >= interval]_vars

(***************************************************************************)
(* Every deadline AniList ever asked for is kept by every later attempt,    *)
(* whatever shorter deadlines, successes or cancellations came after it.    *)
(***************************************************************************)
DeadlinesKept == [][\A f \in Fetches : Admitted(f) => barred = 0]_vars

\* The sequence 1, 2, ... n.
Upto(n) == [i \in 1 .. n |-> i]

(***************************************************************************)
(* Complete or error: when a year is returned, the pages appended over all  *)
(* its batches and their retries are page 1, page 2 and so on, in order,    *)
(* none twice, none skipped and none in place of another, and every page    *)
(* AniList announced, sent shows in or failed to deliver is among them: a   *)
(* partial year is never stored as a fresh one.                             *)
(***************************************************************************)
CompleteOrError ==
  \A f \in Fetches : result[f] = "complete" =>
     taken[f] = Upto(Len(taken[f])) /\ due[f] \subseteq 1 .. Len(taken[f])

\* Every fetch returns, although waiters may lose the race for admission.
FetchReturns == \A f \in Fetches : pc[f] # "idle" ~> pc[f] = "idle"
=============================================================================
