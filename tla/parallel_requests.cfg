SPECIFICATION Spec
CONSTANTS
  CHUNK_SIZE_BYTES = 2
  Workers = {w1, w2}
  Attachments = {a1}
  Payloads = {p1}
  Bodies <- TwoBodies
  TotalSizes = {3}
  UPLOAD_SESSION_TTL = 0
  MaxUploads = 1
  MaxIndex = 2
  MaxClock = 1
  StartBody = None
  None = None
  Ops = {"init", "chunk", "complete", "put", "remove", "delete"}
  SendsIfMatch = FALSE
  PerAttachment = FALSE
SYMMETRY Symmetric
INVARIANTS
  TypeOK
  BodyIffActive
  CounterNeverOvercounts
  StagedChunksFit
  LoadedIsWhole
  DeadlocksHaveTwoOrders
PROPERTIES
  NoResurrection
