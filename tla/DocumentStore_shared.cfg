\* Two workers on the documents of one tender.
SPECIFICATION Spec
CONSTANTS
  w1 = w1
  w2 = w2
  a1 = a1
  a2 = a2
  b1 = b1
  Workers = {w1, w2}
  Docs = {a1, a2}
  Contents = {c1, c2}
  c1 = c1
  c2 = c2
  Work <- SameTender
  Folder <- OneFolder
  MaxCopies = 2
  MaxDownloads = 2
  None = None
INVARIANTS ContentAddressed
CHECK_DEADLOCK FALSE
