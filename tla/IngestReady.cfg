SPECIFICATION Spec
CONSTANTS
  Documents = {d1}
  Chunks = {c1}
  Embeddings = {m1}
  Requests = {r1}
  Offered = {"ingest"}
  Failures = FALSE
  NoDocument = NoDocument
  NoChunk = NoChunk
  NoEmbedding = NoEmbedding
INVARIANT IngestReachesReady
CHECK_DEADLOCK FALSE
