SPECIFICATION Spec
CONSTANTS
  CHUNK_SIZE_BYTES = 2
  Workers = {w1, w2}
  Attachments = {a1, a2}
  Payloads = {p1}
  Bodies <- OneBody
  TotalSizes = {2}
  UPLOAD_SESSION_TTL = 0
  MaxUploads = 2
  MaxIndex = 0
  MaxClock = 0
  StartBody <- EmptyBody
  None = None
  Ops = {"init", "chunk", "complete"}
  SendsIfMatch = FALSE
  PerAttachment = TRUE
SYMMETRY Symmetric
INVARIANTS
  NoteIsCurrent
