CHECK_DEADLOCK FALSE
SPECIFICATION Spec
CONSTANTS
  Workers = {w1, w2}
  People = {p1, p2}
  MaxAccounts = 2
  MaxOwners = 2
  MaxShares = 2
  NoteId = 8
  SSNV_MAGIC = 100
  SSNT_MAGIC = 101
  Headers <- SomeHeaders
  Blobs <- SomeBlobs
  None = None
  OnePut = TRUE
  Ops = {"account", "header", "note"}
SYMMETRY Symmetric
INVARIANTS
  StoredBlobIsWhole
  HeadersHaveTheirAccount
  HeaderNamesItsKey
