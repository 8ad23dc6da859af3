SPECIFICATION FairSpec
CONSTANTS
  CHUNK_SIZE_BYTES = 2
  Workers = {w1, w2}
  Attachments = {a1}
  Payloads = {p1}
  Bodies <- OneTitle
  TotalSizes = {2}
  UPLOAD_SESSION_TTL = 0
  MaxUploads = 1
  MaxIndex = 0
  MaxClock = 0
  StartBody <- EmptyBody
  None = None
  Ops = {"init", "complete", "chunk", "put", "remove", "delete"}
  SendsIfMatch = FALSE
  PerAttachment = FALSE
PROPERTIES
  EveryRequestEnds
