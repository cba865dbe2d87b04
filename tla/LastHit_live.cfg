\* One reader over two ticks with failing writes: retries drain the queue and
\* the worker stops when the cache closes.
CONSTANTS
  Readers = {r1}
  Years = {y1}
  None = None
  Debounce = 1
  Retention = 1
  MaxTime = 2
SPECIFICATION Spec
PROPERTIES PendingDrains WorkerStops
CHECK_DEADLOCK FALSE
