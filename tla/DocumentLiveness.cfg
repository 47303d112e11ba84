SPECIFICATION FairSpec
CONSTANTS
  Documents = {d1}
  Chunks = {c1, c2}
  Embeddings = {m1, m2}
  Requests = {r1, r2}
  Offered = {"ingest", "deleteDocument", "reindex", "insertEmbedding", "deleteEmbedding", "createChunk", "deleteChunk", "deleteChunks", "purge", "search"}
  Failures = FALSE
  NoDocument = NoDocument
  NoChunk = NoChunk
  NoEmbedding = NoEmbedding
PROPERTIES
  NoDocumentStuck
  CallsEnd
CHECK_DEADLOCK FALSE
