\* Two readers that queue at one year's gate, give up and come back, while the
\* row is rewritten under them and may not decode; or one reader over three years
\* whose rows stay: recency, either retention bound, and unreadable rows.
CONSTANTS
  blobA = blobA
  blobB = blobB
  blobBad = blobBad
  r1 = r1
  y1 = y1
  Readers = {r1, r2}
  Mutators = {m1}
  Years = {y1, y2, y3}
  Raw = {blobA, blobB, blobBad}
  Valid = {blobA, blobB}
  Size <- MCSize
  NoRow = NoRow
  Failed = Failed
  MaxYears = 2
  MaxBytes = 3
  MaxGeneration = 1
SPECIFICATION MCSpec
INVARIANTS TypeOK Bounded
PROPERTY ReadsReturn
CHECK_DEADLOCK FALSE
