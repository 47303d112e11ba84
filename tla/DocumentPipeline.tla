--------------------------- MODULE DocumentPipeline ---------------------------
(***************************************************************************)
(* Documents, their chunks and the embeddings of the chunks: the document  *)
(* service, the vector service and their repositories, for one tenant.     *)
(* As in ExecutionLifecycle, a request is a sequence of statements, one    *)
(* action each, and requests interleave between any two; an update and the *)
(* read that checks it are one action with the outcomes of both.           *)
(***************************************************************************)
EXTENDS Integers, FiniteSets

CONSTANTS Documents, Chunks, Embeddings,  \* ids
          Requests,                       \* service calls
          Offered,                        \* the operations clients call
          Failures,   \* whether statements may fail and processes may die
          NoDocument, NoChunk, NoEmbedding

Ops == {"ingest", "deleteDocument", "reindex", "insertEmbedding",
        "deleteEmbedding", "createChunk", "deleteChunk", "deleteChunks",
        "purge", "search"}

ASSUME ConstantsAssumption ==
  /\ Offered \subseteq Ops
  /\ Failures \in BOOLEAN
  /\ NoDocument \notin Documents
  /\ NoChunk \notin Chunks
  /\ NoEmbedding \notin Embeddings

DocumentStatus == {"PENDING", "PROCESSING", "READY", "FAILED"}
RowState == {"never", "live", "gone"}     \* ids are UUIDs: never used twice
(* Operators named Bad... are slips this code could have made; nothing     *)
(* uses them, each breaks some property below.                             *)
DocumentRow == [row: RowState, status: DocumentStatus, deleted: BOOLEAN]
ChunkRow == [row: RowState, document: Documents \union {NoDocument}]
EmbeddingRow == [row: RowState, chunk: Chunks \union {NoChunk}]

BadNewDocument(state) ==                  \* a status the enum lacks
  [row |-> state, status |-> "UPLOADED", deleted |-> FALSE]
NewDocument(state) == [row |-> state, status |-> "PENDING", deleted |-> FALSE]
ChunkIn(d) == [row |-> "live", document |-> d]
NoChunkRow(state) == [row |-> state, document |-> NoDocument]
EmbeddingOf(c) == [row |-> "live", chunk |-> c]
NoEmbeddingRow(state) == [row |-> state, chunk |-> NoChunk]

Call == [op: Ops \union {"none"}, document: Documents \union {NoDocument},
         chunk: Chunks \union {NoChunk},
         embedding: Embeddings \union {NoEmbedding}]
OnDocument(op, d) == [op |-> op, document |-> d, chunk |-> NoChunk,
                      embedding |-> NoEmbedding]
OnChunk(op, c) == [op |-> op, document |-> NoDocument, chunk |-> c,
                   embedding |-> NoEmbedding]
OnEmbedding(op, m) == [op |-> op, document |-> NoDocument, chunk |-> NoChunk,
                       embedding |-> m]
NoCall == OnDocument("none", NoDocument)

(* pc names the statement a request waits to issue.  A call ends "done",   *)
(* "failed" (it threw) or "lost" (the process died, or the write of FAILED *)
(* in a catch was itself refused).                                         *)
StatusWrites == {"processing", "ready", "compensate", "pending"}
Waiting == StatusWrites \union
  {"insert", "chunks", "find", "softDelete", "list", "embedding", "remove",
   "embed", "chunk", "drop", "search"}
Pc == Waiting \union {"idle", "done", "failed", "lost"}
FirstOf ==
  [ingest |-> "insert", deleteDocument |-> "find", reindex |-> "find",
   insertEmbedding |-> "embed", deleteEmbedding |-> "remove",
   createChunk |-> "chunk", deleteChunk |-> "drop", deleteChunks |-> "drop",
   purge |-> "drop", search |-> "search"]

VARIABLES
  document,   \* table Document
  chunk,      \* table DocumentChunk
  embedding,  \* table Embedding, the rows of chunks
  pc, call,   \* per request
  todo,       \* chunks a reindex has still to visit
  found,      \* the embedding a request is about to delete
  answer,     \* the embeddings a search answered by
  before      \* history: embeddings there were when a reindex began; those
              \* that earlier reindexes had found when a search began

tables == <<document, chunk, embedding>>
loop == <<todo, found, answer, before>>
vars == <<tables, pc, call, loop>>

LiveDocument(d) == d \in Documents /\ document[d].row = "live"
Active(d) == LiveDocument(d) /\ ~document[d].deleted
LiveChunk(c) == c \in Chunks /\ chunk[c].row = "live"
ChunksOf(d) == {c \in Chunks : chunk[c].row = "live" /\ chunk[c].document = d}
EmbeddingsOn(C) ==
  {m \in Embeddings : embedding[m].row = "live" /\ embedding[m].chunk \in C}

Init ==
  /\ document \in [Documents -> {NewDocument("never"), NewDocument("live")}]
  /\ chunk \in [Chunks -> {NoChunkRow("never")} \union
                            {ChunkIn(d) : d \in Documents}]
  /\ embedding \in [Embeddings -> {NoEmbeddingRow("never")} \union
                                    {EmbeddingOf(c) : c \in Chunks}]
  /\ \A c \in Chunks : LiveChunk(c) => LiveDocument(chunk[c].document)
  /\ \A m \in Embeddings : embedding[m].row = "live" =>
       /\ LiveChunk(embedding[m].chunk)
       /\ EmbeddingsOn({embedding[m].chunk}) = {m}
  /\ pc = [r \in Requests |-> "idle"]
  /\ call = [r \in Requests |-> NoCall]
  /\ todo = [r \in Requests |-> {}]
  /\ found = [r \in Requests |-> NoEmbedding]
  /\ answer = [r \in Requests |-> {}]
  /\ before = [r \in Requests |-> {}]

----------------------------------------------------------------------------
InFlight(r) == pc[r] \in Waiting
Target(r) == call[r].document
Goto(r, label) == pc' = [pc EXCEPT ![r] = label]

BadNoCompensation(r) == "failed"
(* Once the row is inserted, ingestDocument catches and writes FAILED; the *)
(* failure of that write is swallowed.                                     *)
AfterFailure(r) ==
  IF call[r].op = "ingest" /\ pc[r] \in {"processing", "chunks", "ready"}
  THEN "compensate"
  ELSE IF pc[r] = "compensate" THEN "lost" ELSE "failed"

(* The answer arrives, or is lost although the statement took effect.      *)
Proceed(r, label) ==
  Goto(r, label) \/ (Failures /\ Goto(r, AfterFailure(r)))

(* A client calls: on an id it was told of; an ingestion gets a fresh one. *)
Claimed(d) == \E q \in Requests : call[q] = OnDocument("ingest", d)
Calls ==
  {OnDocument("ingest", d) :
     d \in {x \in Documents : document[x].row = "never" /\ ~Claimed(x)}}
  \union
  {OnDocument(op, d) :
     op \in {"deleteDocument", "reindex", "createChunk", "deleteChunks", "purge"},
     d \in {x \in Documents : document[x].row # "never"}}
  \union
  {OnChunk(op, c) : op \in {"insertEmbedding", "deleteChunk"},
                    c \in {x \in Chunks : chunk[x].row # "never"}}
  \union
  {OnEmbedding("deleteEmbedding", m) :
     m \in {x \in Embeddings : embedding[x].row # "never"}}
  \union
  {OnDocument("search", NoDocument)}

(* The ids are a bound: an insertion is asked for only while an unused id  *)
(* is left for it.                                                         *)
Pending(op) == Cardinality({q \in Requests : call[q].op = op /\ InFlight(q)})
IdLeft(op) ==
  /\ op = "insertEmbedding" => Pending(op) <
       Cardinality({m \in Embeddings : embedding[m].row = "never"})
  /\ op = "createChunk" => Pending(op) <
       Cardinality({c \in Chunks : chunk[c].row = "never"})

Reindexed ==
  UNION {before[q] : q \in
           {x \in Requests : call[x].op = "reindex" /\ pc[x] = "done"}}

Begin(r) ==
  /\ pc[r] = "idle"
  /\ \E c \in Calls :
       /\ c.op \in Offered /\ IdLeft(c.op)
       /\ call' = [call EXCEPT ![r] = c]
       /\ found' = [found EXCEPT ![r] = c.embedding]
       /\ before' = IF c.op = "search" THEN [before EXCEPT ![r] = Reindexed]
                    ELSE before
       /\ Goto(r, FirstOf[c.op])
  /\ UNCHANGED <<tables, todo, answer>>

(* documentRepository.create *)
InsertDocument(r) ==
  /\ pc[r] = "insert"
  /\ document' = [document EXCEPT ![Target(r)] = NewDocument("live")]
  /\ Proceed(r, "processing")
  /\ UNCHANGED <<chunk, embedding, call, loop>>

(* documentRepository.update: the write ignores deleted_at, the read back  *)
(* does not find a soft-deleted row and throws.                            *)
StatusOf == [processing |-> "PROCESSING", ready |-> "READY",
             compensate |-> "FAILED", pending |-> "PENDING"]
AfterStatus == [processing |-> "chunks", ready |-> "done",
                compensate |-> "failed", pending |-> "done"]
WriteStatus(r) ==
  /\ pc[r] \in StatusWrites
  /\ LiveDocument(Target(r))
  /\ document' = [document EXCEPT ![Target(r)].status = StatusOf[pc[r]]]
  /\ \/ pc[r] = "compensate" /\ Goto(r, "failed")
     \/ /\ pc[r] # "compensate"
        /\ IF Active(Target(r)) THEN Proceed(r, AfterStatus[pc[r]])
                                ELSE Goto(r, AfterFailure(r))
  /\ UNCHANGED <<chunk, embedding, call, loop>>

(* The guard of lib/prisma.ts looks for the key tenant_id in data.  That   *)
(* of createMany is an array, whose keys are its indices.                  *)
ArrayKeys == {"0", "1", "length"}
GuardAccepts(keys) == "tenant_id" \in keys

(* processChunks *)
BulkCreate(r) ==
  /\ pc[r] = "chunks"
  /\ IF GuardAccepts(ArrayKeys)
     THEN /\ \E C \in SUBSET {c \in Chunks : chunk[c].row = "never"} :
               chunk' = [c \in Chunks |->
                           IF c \in C THEN ChunkIn(Target(r)) ELSE chunk[c]]
          /\ Proceed(r, "ready")
     ELSE UNCHANGED chunk /\ Goto(r, AfterFailure(r))
  /\ UNCHANGED <<document, embedding, call, loop>>

(* findById, the first statement of deleteDocument and of reindexDocument. *)
FindDocument(r) ==
  /\ pc[r] = "find"
  /\ Active(Target(r))
  /\ IF call[r].op = "reindex"
     THEN /\ before' = [before EXCEPT
                          ![r] = EmbeddingsOn(ChunksOf(Target(r)))]
          /\ Goto(r, "list")
     ELSE Goto(r, "softDelete") /\ UNCHANGED before
  /\ UNCHANGED <<tables, call, todo, found, answer>>

SoftDelete(r) ==
  /\ pc[r] = "softDelete"
  /\ LiveDocument(Target(r))
  /\ document' = [document EXCEPT ![Target(r)].deleted = TRUE]
  /\ Proceed(r, "done")
  /\ UNCHANGED <<chunk, embedding, call, loop>>

Visit(C) == IF C = {} THEN "pending" ELSE "embedding"

(* reindexDocument reads the chunks.  It visits them by chunk_index, which *)
(* nothing keeps unique: in any order.                                     *)
ListChunks(r) ==
  /\ pc[r] = "list"
  /\ todo' = [todo EXCEPT ![r] = ChunksOf(Target(r))]
  /\ Goto(r, IF ChunksOf(Target(r)) = {} THEN "pending" ELSE "embedding")
  /\ UNCHANGED <<tables, call, found, answer, before>>

BadRest(C, c) == C                  \* the same chunk again
Rest(C, c) == C \ {c}

(* findByChunkId for the next chunk. *)
FindEmbedding(r) ==
  /\ pc[r] = "embedding"
  /\ \E c \in todo[r] :
       /\ todo' = [todo EXCEPT ![r] = Rest(@, c)]
       /\ \/ /\ EmbeddingsOn({c}) = {}
             /\ Goto(r, Visit(todo'[r]))
             /\ UNCHANGED found
          \/ \E m \in EmbeddingsOn({c}) :
               /\ found' = [found EXCEPT ![r] = m]
               /\ Goto(r, "remove")
  /\ UNCHANGED <<tables, call, answer, before>>

(* embeddingRepository.delete, of either service method; deleteMany does   *)
(* not mind a row that is gone.                                            *)
RemoveEmbedding(r) ==
  /\ pc[r] = "remove"
  /\ embedding' = [embedding EXCEPT ![found[r]] = NoEmbeddingRow("gone")]
  /\ Proceed(r, IF call[r].op = "reindex" THEN Visit(todo[r]) ELSE "done")
  /\ UNCHANGED <<document, chunk, call, loop>>

BadVacant(c) == LiveChunk(c)        \* no unique index
(* The foreign key and the unique index on document_chunk_id. *)
Vacant(c) == LiveChunk(c) /\ EmbeddingsOn({c}) = {}

(* embeddingRepository.insertEmbedding, under a fresh UUID. *)
InsertEmbedding(r) ==
  /\ pc[r] = "embed"
  /\ Vacant(call[r].chunk)
  /\ \E m \in Embeddings :
       /\ embedding[m].row = "never"
       /\ embedding' = [embedding EXCEPT ![m] = EmbeddingOf(call[r].chunk)]
  /\ Proceed(r, "done")
  /\ UNCHANGED <<document, chunk, call, loop>>

(* documentChunkRepository.create *)
InsertChunk(r) ==
  /\ pc[r] = "chunk"
  /\ LiveDocument(Target(r))
  /\ \E c \in Chunks :
       /\ chunk[c].row = "never"
       /\ chunk' = [chunk EXCEPT ![c] = ChunkIn(Target(r))]
  /\ Proceed(r, "done")
  /\ UNCHANGED <<document, embedding, call, loop>>

(* The repositories' hard deletes and what they cascade to. *)
Dropped(r) ==
  IF call[r].op = "deleteChunk" THEN {call[r].chunk} ELSE ChunksOf(Target(r))
BadCascade(C) == embedding          \* no ON DELETE CASCADE
Cascaded(C) ==
  [m \in Embeddings |->
     IF m \in EmbeddingsOn(C) THEN NoEmbeddingRow("gone") ELSE embedding[m]]
Drop(r) ==
  /\ pc[r] = "drop"
  /\ chunk' = [c \in Chunks |->
                 IF c \in Dropped(r) THEN NoChunkRow("gone") ELSE chunk[c]]
  /\ embedding' = Cascaded(Dropped(r))
  /\ document' = IF call[r].op = "purge"
                 THEN [document EXCEPT ![Target(r)] = NewDocument("gone")]
                 ELSE document
  /\ Proceed(r, "done")
  /\ UNCHANGED <<call, loop>>

BadHits == {m \in Embeddings : embedding[m].row # "never"}  \* a stale index
(* searchSimilar and hybridSearch: one statement that joins embeddings and *)
(* chunks, whatever the document's status.  Vectors and topK are left      *)
(* open: any of the embeddings may rank highest.                           *)
Hits == EmbeddingsOn({c \in Chunks : LiveChunk(c)})
Search(r) ==
  /\ pc[r] = "search"
  /\ \E M \in SUBSET Hits : answer' = [answer EXCEPT ![r] = M]
  /\ Goto(r, "done")
  /\ UNCHANGED <<tables, call, todo, found, before>>

(* What the database, or the check of a row read, refuses. *)
Refused(r) ==
  \/ pc[r] = "find" /\ ~Active(Target(r))
  \/ pc[r] \in StatusWrites \union {"softDelete", "chunk"}
     /\ ~LiveDocument(Target(r))
  \/ pc[r] = "embed" /\ ~Vacant(call[r].chunk)

Fail(r) ==
  /\ InFlight(r)
  /\ pc[r] # "chunks"
  /\ Failures \/ Refused(r)
  /\ Goto(r, AfterFailure(r))
  /\ UNCHANGED <<tables, call, loop>>

(* The server process ends. *)
Crash ==
  /\ Failures
  /\ \E r \in Requests : InFlight(r)
  /\ pc' = [r \in Requests |-> IF InFlight(r) THEN "lost" ELSE pc[r]]
  /\ UNCHANGED <<tables, call, loop>>

Statement(r) ==
  \/ InsertDocument(r) \/ WriteStatus(r) \/ BulkCreate(r)
  \/ FindDocument(r) \/ SoftDelete(r)
  \/ ListChunks(r) \/ FindEmbedding(r) \/ RemoveEmbedding(r)
  \/ InsertEmbedding(r) \/ InsertChunk(r) \/ Drop(r) \/ Search(r) \/ Fail(r)

Next == (\E r \in Requests : Begin(r) \/ Statement(r)) \/ Crash

Spec == Init /\ [][Next]_vars

(* A statement is answered or times out (engine and pool timeouts). *)
FairSpec == Spec /\ \A r \in Requests : WF_vars(Statement(r))

----------------------------------------------------------------------------
(* The tables and the requests keep their types. *)
TypeOK ==
  /\ document \in [Documents -> DocumentRow]
  /\ chunk \in [Chunks -> ChunkRow]
  /\ embedding \in [Embeddings -> EmbeddingRow]
  /\ pc \in [Requests -> Pc]
  /\ call \in [Requests -> Call]
  /\ todo \in [Requests -> SUBSET Chunks]
  /\ found \in [Requests -> Embeddings \union {NoEmbedding}]
  /\ answer \in [Requests -> SUBSET Embeddings]
  /\ before \in [Requests -> SUBSET Embeddings]

(* A document shown as PROCESSING has an ingestion still at work on it, or *)
(* one that a crash or a refused write of FAILED cut short: no order of    *)
(* deletions, reindexing and failures leaves it so otherwise.              *)
AtWork(r) == pc[r] \in {"chunks", "ready", "compensate", "lost"}
ProcessingIsOwned ==
  \A d \in Documents : document[d].status = "PROCESSING" =>
    \E r \in Requests : /\ call[r] = OnDocument("ingest", d)
                        /\ AtWork(r)

(* reindexDocument deletes what it found chunk by chunk while others       *)
(* insert and delete.  When it sets the document back to PENDING, none of  *)
(* the embeddings there were at its start is left.                         *)
ReindexForgetsOld ==
  \A r \in Requests : call[r].op = "reindex" /\ pc[r] \in {"pending", "done"} =>
    \A m \in before[r] : embedding[m].row = "gone"

(* A search that begins after a reindex has ended answers by none of the   *)
(* embeddings the reindex found, whoever inserts and deletes meanwhile.    *)
SearchForgetsReindexed ==
  \A r \in Requests : call[r].op = "search" => answer[r] \intersect before[r] = {}

(* The foreign keys, over both levels of the cascade. *)
NoOrphans ==
  /\ \A c \in Chunks : LiveChunk(c) => LiveDocument(chunk[c].document)
  /\ \A m \in Embeddings : embedding[m].row = "live" =>
       LiveChunk(embedding[m].chunk)

(* If statements do not fail, no document stays PROCESSING.  Every call    *)
(* ends, a reindex among them whatever happens to its chunks meanwhile.    *)
NoDocumentStuck ==
  \A d \in Documents :
    document[d].status = "PROCESSING" ~> document[d].status # "PROCESSING"
CallsEnd == \A r \in Requests : InFlight(r) ~> ~InFlight(r)

----------------------------------------------------------------------------
(* What comments and documents say and the code does not do.               *)

(* document.service.ts:33: "transitions from PENDING -> PROCESSING ->      *)
(* READY"; for an ingestion that nothing disturbs.                         *)
IngestReachesReady ==
  \A r \in Requests : call[r].op = "ingest" /\ ~InFlight(r) =>
    document[Target(r)].status = "READY"
============================================================================
