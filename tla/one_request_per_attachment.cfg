SPECIFICATION DownloadSpec
CONSTANTS
  CHUNK_SIZE_BYTES = 2
  Workers = {w1, w2}
  Attachments = {a1, a2}
  Payloads = {p1, p2}
  Bodies <- OneBody
  TotalSizes = {3}
  UPLOAD_SESSION_TTL = 0
  MaxUploads = 2
  MaxIndex = 1
  MaxClock = 0
  StartBody <- EmptyBody
  None = None
  Ops = {"init", "chunk", "complete", "remove"}
  SendsIfMatch = FALSE
  PerAttachment = TRUE
SYMMETRY Symmetric
INVARIANTS
  AttachmentsWhole
  OneOpenUpload
  StagedIsCounted
  DownloadIntact
