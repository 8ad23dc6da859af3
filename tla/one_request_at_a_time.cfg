SPECIFICATION Spec
CONSTANTS
  CHUNK_SIZE_BYTES = 2
  Workers = {w1}
  Attachments = {a1}
  Payloads = {p1, p2}
  Bodies <- FileBodies
  TotalSizes = {3}
  UPLOAD_SESSION_TTL = 0
  MaxUploads = 2
  MaxIndex = 2
  MaxClock = 1
  StartBody = None
  None = None
  Ops = {"init", "chunk", "complete", "put", "remove", "delete"}
  SendsIfMatch = TRUE
  PerAttachment = FALSE
INVARIANTS
  NoteIsCurrent
  AbortedHoldsNothing
PROPERTIES
  ImplementsNotebook
  IfMatchHolds
