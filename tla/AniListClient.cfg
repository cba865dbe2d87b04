\* Two fetches competing for admission; deadlines below the longest admissible
\* wait and beyond the largest duration; a retry delay between the two pacing
\* intervals; two batches of two pages.
CONSTANTS
  Fetches = {f1, f2}
  RateLimitDelay = 2
  Intervals = {1, 3}
  Deadlines = {7}
  MaxDuration = 5
  Minute = 3
  MaxRetryAfter = 4
  Backoffs = {2}
  MaxRetry = 2
  BatchSize = 2
  MaxPages = 3
SPECIFICATION Spec
INVARIANTS CompleteOrError
PROPERTIES Paced DeadlinesKept FetchReturns
