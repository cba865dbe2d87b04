\* The process dies between the file and its sidecar.
CONSTANTS
  urlA = urlA
  urlB = urlB
  a1 = a1
  a2 = a2
  b1 = b1
  t1 = t1
  t2 = t2
  URLs = {urlA, urlB}
  Contents = {a1, a2, b1}
  From <- MCFrom
  ETags = {t1, t2}
  ETag <- MCETag
  Corrupt = Corrupt
  Faults = {"url", "crash"}
  None = None
  Width = 4
  Documents = {}
SPECIFICATION MCSpec
INVARIANTS UrlHonoured
