\* Two readers whose timestamps reach the lock in either order, against the
\* worker, refreshes, clear, prune and Close over three clock ticks.
CONSTANTS
  Readers = {r1, r2}
  Years = {y1}
  None = None
  Debounce = 1
  Retention = 1
  MaxTime = 3
SPECIFICATION Spec
SYMMETRY MCSymmetry
INVARIANT HitsAccounted
PROPERTIES PruneRespectsHits PruneForgets CloseFlushes
CHECK_DEADLOCK FALSE
