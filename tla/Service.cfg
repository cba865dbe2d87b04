\* One handler at a time over two years, one of them prewarmed: the loops, the
\* tasks, start and shutdown around it.
CONSTANTS
  Requests = {q1}
  Years = {2025, 2026}
  None = None
  PrewarmYears <- MCPrewarmYears
  MaxTasks = 1
SPECIFICATION Spec
INVARIANT CleanExit
PROPERTIES Drains StaleTried BecomesReady
CHECK_DEADLOCK FALSE
