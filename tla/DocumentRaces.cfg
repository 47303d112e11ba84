SPECIFICATION Spec
CONSTANTS
  Documents = {d1}
  Chunks = {c1, c2}
  Embeddings = {m1, m2, m3}
  Requests = {r1, r2, r3}
  Offered = {"ingest", "deleteDocument", "reindex", "insertEmbedding", "deleteEmbedding", "createChunk", "deleteChunk", "deleteChunks", "purge", "search"}
  Failures = TRUE
  NoDocument = NoDocument
  NoChunk = NoChunk
  NoEmbedding = NoEmbedding
SYMMETRY Symmetry
INVARIANTS
  TypeOK
  ProcessingIsOwned
  ReindexForgetsOld
  SearchForgetsReindexed
  NoOrphans
CHECK_DEADLOCK FALSE
