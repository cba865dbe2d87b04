\* Everything may happen: edits, URL changes, crashes, failing sidecar writes.
CONSTANTS
  urlA = urlA
  urlB = urlB
  a1 = a1
  a2 = a2
  b1 = b1
  t1 = t1
  t2 = t2
  URLs = {urlA, urlB}
  Contents = {a1, a2, b1}
  From <- MCFrom
  ETags = {t1, t2}
  ETag <- MCETag
  Corrupt = Corrupt
  Faults = {"edit", "url", "crash", "sidecar"}
  None = None
  Width = 4
  Documents <- MCDocuments
SPECIFICATION MCSpec
INVARIANTS Synced ReuseVerified UrlHonouredIntact ParseRight
PROPERTIES UsableKept LocalCopyServes
