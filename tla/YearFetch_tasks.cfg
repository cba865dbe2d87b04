\* Background work under fairness: a loop and two tasks over one slot.
CONSTANTS
  Requests = {}
  Loops = {loop}
  Tasks = {t1, t2}
  Years = {y1}
  None = None
SPECIFICATION Spec
INVARIANTS SlotsMatchTasks QuietAfterWait
PROPERTIES CallsReturn WaitEnds
CHECK_DEADLOCK FALSE
