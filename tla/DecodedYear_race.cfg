\* Two readers and two mutators of one year: every order of read, commit,
\* invalidate, admit and close.
CONSTANTS
  blobA = blobA
  blobB = blobB
  blobBad = blobBad
  Readers = {r1, r2}
  Mutators = {m1, m2}
  Years = {y1}
  Raw = {blobA, blobB}
  Valid = {blobA, blobB}
  Size <- MCSize
  NoRow = NoRow
  Failed = Failed
  MaxYears = 1
  MaxBytes = 2
  MaxGeneration = 2
SPECIFICATION Spec
SYMMETRY MCSymmetry
INVARIANTS Coherent GatesSound
PROPERTIES CurrentEntryKept ReadsAtomic
CHECK_DEADLOCK FALSE
