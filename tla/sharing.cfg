CHECK_DEADLOCK FALSE
SPECIFICATION Spec
CONSTANTS
  Workers = {w1, w2}
  People = {p1, p2, p3}
  MaxAccounts = 3
  MaxOwners = 2
  MaxShares = 2
  NoteId = 8
  SSNV_MAGIC = 100
  SSNT_MAGIC = 101
  Headers <- SomeHeaders
  Blobs <- OneBlob
  None = None
  OnePut = TRUE
  Ops = {"account", "note", "share", "unshare", "read"}
SYMMETRY Symmetric
INVARIANTS
  TypeOK
  NothingOutlivesItsAccount
  AnswerOpens
PROPERTIES
  ImplementsGrants
  RemovedByItsEnds
