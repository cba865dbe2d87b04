\* Three callers of one year: a leader and two that follow, give up or come
\* back while it is still finishing.
CONSTANTS
  Requests = {q1, q2, q3}
  Loops = {}
  Tasks = {}
  Years = {y1}
  None = None
SPECIFICATION Spec
SYMMETRY MCSymmetry
INVARIANTS FreshNotRefetched CooldownHonoured
PROPERTY FlightsKept
