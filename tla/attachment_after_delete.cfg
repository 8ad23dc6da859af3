CHECK_DEADLOCK FALSE
SPECIFICATION Spec
CONSTANTS
  CHUNK_SIZE_BYTES = 2
  Workers = {w1, w2}
  Attachments = {a1}
  Payloads = {p1}
  Bodies <- OneBody
  TotalSizes = {2}
  UPLOAD_SESSION_TTL = 0
  MaxUploads = 1
  MaxIndex = 0
  MaxClock = 0
  StartBody <- EmptyBody
  None = None
  Ops = {"init", "chunk", "complete", "delete"}
  SendsIfMatch = FALSE
  PerAttachment = FALSE
SYMMETRY Symmetric
INVARIANTS
  TombstoneIsEmpty
