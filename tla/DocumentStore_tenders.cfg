\* Two workers, each with a tender of its own, over the same blobs.
SPECIFICATION Spec
CONSTANTS
  w1 = w1
  w2 = w2
  a1 = a1
  a2 = a2
  b1 = b1
  Workers = {w1, w2}
  Docs = {a1, a2, b1}
  Contents = {c1, c2}
  c1 = c1
  c2 = c2
  Work <- OwnTender
  Folder <- TenderFolder
  MaxCopies = 2
  MaxDownloads = 4
  None = None
INVARIANTS RowMatchesFile
PROPERTIES FilesStable
CHECK_DEADLOCK FALSE
