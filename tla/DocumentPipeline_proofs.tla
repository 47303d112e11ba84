----------------------- MODULE DocumentPipeline_proofs -----------------------
(* Proofs about DocumentPipeline, for any set of documents, chunks,        *)
(* embeddings and requests.                                                *)
EXTENDS DocumentPipeline, TLAPS

(* What a request waits to issue is a statement of its call, and the call  *)
(* names what that statement needs.                                        *)
OnTarget == StatusWrites \union
  {"insert", "chunks", "find", "softDelete", "list", "embedding", "chunk"}
CallsOK ==
  \A r \in Requests :
    /\ pc[r] \in OnTarget => call[r].document \in Documents
    /\ pc[r] \in {"insert", "processing", "chunks", "ready", "compensate"} =>
         call[r].op = "ingest"
    /\ pc[r] \in {"list", "embedding", "pending"} => call[r].op = "reindex"
    /\ pc[r] \in {"softDelete", "embed", "chunk", "drop"} =>
         call[r].op # "reindex"
    /\ pc[r] = "search" => call[r].op = "search"
    /\ call[r].op = "reindex" => call[r].document \in Documents
    /\ call[r].op = "ingest" =>
         call[r] = OnDocument("ingest", call[r].document)
    /\ pc[r] = "drop" /\ call[r].op = "purge" => call[r].document \in Documents
    /\ pc[r] = "remove" =>
         found[r] \in Embeddings /\ embedding[found[r]].row # "never"
    /\ pc[r] = "embed" => call[r].chunk \in Chunks
    /\ call[r].op = "search" => pc[r] \in {"search", "done", "failed", "lost"}

TypeInv == TypeOK /\ CallsOK

(* Rows the statements write. *)
LEMMA RowsAreTyped ==
  /\ \A s \in RowState : /\ NewDocument(s) \in DocumentRow
                         /\ NoChunkRow(s) \in ChunkRow
                         /\ NoEmbeddingRow(s) \in EmbeddingRow
  /\ \A d \in Documents : ChunkIn(d) \in ChunkRow
  /\ \A c \in Chunks : EmbeddingOf(c) \in EmbeddingRow
BY DEF NewDocument, NoChunkRow, NoEmbeddingRow, ChunkIn, EmbeddingOf,
       DocumentRow, ChunkRow, EmbeddingRow, RowState, DocumentStatus

LEMMA InitTyped == Init => TypeInv
<1> SUFFICES ASSUME Init PROVE TypeInv
  OBVIOUS
<1>1. /\ document \in [Documents -> DocumentRow]
      /\ chunk \in [Chunks -> ChunkRow]
      /\ embedding \in [Embeddings -> EmbeddingRow]
  BY RowsAreTyped DEF Init, RowState
<1>2. NoCall \in Call
  BY DEF NoCall, Call, OnDocument
<1>3. TypeOK
  BY <1>1, <1>2 DEF Init, TypeOK, Pc
<1>4. CallsOK
  BY DEF Init, CallsOK, NoCall, OnDocument, OnTarget, StatusWrites
<1> QED BY <1>3, <1>4 DEF TypeInv

(* A call a client can make is typed and begins with a statement of its.   *)
LEMMA CallsAreTyped ==
  ASSUME NEW c \in Calls
  PROVE  /\ c \in Call
         /\ c.op \in Ops
         /\ c.op = "ingest" => c = OnDocument("ingest", c.document)
         /\ c.op \in {"ingest", "deleteDocument", "reindex", "createChunk",
                      "deleteChunks", "purge"} => c.document \in Documents
         /\ c.op \in {"insertEmbedding", "deleteChunk"} => c.chunk \in Chunks
         /\ c.op = "deleteEmbedding" =>
              c.embedding \in Embeddings /\ embedding[c.embedding].row # "never"
BY DEF Calls, Call, Ops, OnDocument, OnChunk, OnEmbedding

(* A statement that keeps the call, and leaves pc at a label that fits it. *)
Fits(r, label) ==
  /\ label \in Pc
  /\ label \in OnTarget => call[r].document \in Documents
  /\ label \in {"insert", "processing", "chunks", "ready", "compensate"} =>
       call[r].op = "ingest"
  /\ label \in {"list", "embedding", "pending"} => call[r].op = "reindex"
  /\ label = "softDelete" => call[r].op # "reindex"
  /\ label \notin {"drop", "remove", "embed", "chunk", "search"}
  /\ call[r].op = "search" => label \in {"done", "failed", "lost"}

LEMMA FailureFits ==
  ASSUME TypeInv, NEW r \in Requests, InFlight(r)
  PROVE  Fits(r, AfterFailure(r))
BY DEF TypeInv, CallsOK, InFlight, Waiting, StatusWrites, AfterFailure, Fits,
       OnTarget, Pc

LEMMA GotoFits ==
  ASSUME TypeInv, NEW r \in Requests, NEW label, Fits(r, label),
         Goto(r, label), UNCHANGED <<call, found>>,
         \A m \in Embeddings : embedding[m].row # "never" =>
                                 embedding'[m].row # "never"
  PROVE  pc' \in [Requests -> Pc] /\ CallsOK'
BY DEF TypeInv, TypeOK, CallsOK, Fits, Goto

LEMMA ProceedFits ==
  ASSUME TypeInv, NEW r \in Requests, NEW label, Fits(r, label), InFlight(r),
         Proceed(r, label), UNCHANGED <<call, found>>,
         \A m \in Embeddings : embedding[m].row # "never" =>
                                 embedding'[m].row # "never"
  PROVE  pc' \in [Requests -> Pc] /\ CallsOK'
BY FailureFits, GotoFits DEF Proceed

LEMMA StatementTyped ==
  ASSUME TypeInv, NEW r \in Requests, Statement(r)
  PROVE  TypeInv'
<1> USE DEF TypeInv
<1> DEFINE Keeps(label) == Fits(r, label)
<1>1. CASE InsertDocument(r)
  <2>1. Fits(r, "processing") /\ InFlight(r) /\ Target(r) \in Documents
    BY <1>1 DEF InsertDocument, CallsOK, Target, Fits, OnTarget, StatusWrites, Pc,
                Waiting, InFlight
  <2>2. CallsOK' /\ pc' \in [Requests -> Pc]
    BY <1>1, <2>1, ProceedFits DEF InsertDocument, loop
  <2>3. document' \in [Documents -> DocumentRow]
    BY <1>1, <2>1, RowsAreTyped DEF InsertDocument, TypeOK, RowState
  <2> QED BY <1>1, <2>2, <2>3 DEF InsertDocument, TypeOK, loop
<1>2. CASE WriteStatus(r)
  <2>1. /\ Fits(r, "failed") /\ InFlight(r) /\ Fits(r, AfterStatus[pc[r]])
        /\ StatusOf[pc[r]] \in DocumentStatus
    BY <1>2 DEF WriteStatus, CallsOK, Fits, OnTarget, StatusWrites, Pc,
                Waiting, InFlight, AfterStatus, StatusOf, DocumentStatus
  <2>2. CallsOK' /\ pc' \in [Requests -> Pc]
    BY <1>2, <2>1, ProceedFits, GotoFits, FailureFits DEF WriteStatus, loop
  <2>3. document' \in [Documents -> DocumentRow]
    BY <1>2, <2>1 DEF WriteStatus, TypeOK, DocumentRow
  <2> QED BY <1>2, <2>2, <2>3 DEF WriteStatus, TypeOK, loop
<1>3. CASE BulkCreate(r)
  <2>1. Fits(r, "ready") /\ InFlight(r) /\ Target(r) \in Documents
    BY <1>3 DEF BulkCreate, CallsOK, Target, Fits, OnTarget, StatusWrites, Pc,
                Waiting, InFlight
  <2>2. CallsOK' /\ pc' \in [Requests -> Pc]
    BY <1>3, <2>1, ProceedFits, GotoFits, FailureFits DEF BulkCreate, loop
  <2>3. chunk' \in [Chunks -> ChunkRow]
    <3>1. CASE UNCHANGED chunk
      BY <3>1 DEF TypeOK
    <3>2. CASE \E C \in SUBSET Chunks :
                 chunk' = [c \in Chunks |->
                             IF c \in C THEN ChunkIn(Target(r)) ELSE chunk[c]]
      BY <2>1, <3>2, RowsAreTyped DEF TypeOK
    <3> QED BY <1>3, <3>1, <3>2 DEF BulkCreate
  <2> QED BY <1>3, <2>2, <2>3 DEF BulkCreate, TypeOK, loop
<1>4. CASE FindDocument(r)
  <2>1. /\ call[r].op # "reindex" => Fits(r, "softDelete")
        /\ call[r].op = "reindex" => Fits(r, "list")
    BY <1>4 DEF FindDocument, CallsOK, Fits, OnTarget, StatusWrites, Pc,
                Waiting, InFlight
  <2>2. CallsOK' /\ pc' \in [Requests -> Pc]
    BY <1>4, <2>1, GotoFits DEF FindDocument, tables
  <2>3. before' \in [Requests -> SUBSET Embeddings]
    BY <1>4 DEF FindDocument, TypeOK, EmbeddingsOn
  <2> QED BY <1>4, <2>2, <2>3 DEF FindDocument, TypeOK, tables
<1>5. CASE SoftDelete(r)
  <2>1. Fits(r, "done") /\ InFlight(r)
    BY <1>5 DEF SoftDelete, Fits, OnTarget, StatusWrites, Pc, Waiting, InFlight
  <2>2. CallsOK' /\ pc' \in [Requests -> Pc]
    BY <1>5, <2>1, ProceedFits DEF SoftDelete, loop
  <2>3. document' \in [Documents -> DocumentRow]
    BY <1>5 DEF SoftDelete, TypeOK, DocumentRow
  <2> QED BY <1>5, <2>2, <2>3 DEF SoftDelete, TypeOK, loop
<1>6. CASE ListChunks(r)
  <2>1. Fits(r, "pending") /\ Fits(r, "embedding")
    BY <1>6 DEF ListChunks, CallsOK, Fits, OnTarget, StatusWrites, Pc, Waiting
  <2>2. CallsOK' /\ pc' \in [Requests -> Pc]
    BY <1>6, <2>1, GotoFits DEF ListChunks, tables
  <2> QED BY <1>6, <2>2 DEF ListChunks, TypeOK, tables, ChunksOf
<1>7. CASE FindEmbedding(r)
  <2>1. Fits(r, "pending") /\ Fits(r, "embedding")
    BY <1>7 DEF FindEmbedding, CallsOK, Fits, OnTarget, StatusWrites, Pc, Waiting
  <2>2. todo' \in [Requests -> SUBSET Chunks]
    BY <1>7 DEF FindEmbedding, TypeOK, Rest
  <2>3. CASE UNCHANGED found /\ \E C : Goto(r, Visit(C))
    <3>1. CallsOK' /\ pc' \in [Requests -> Pc]
      BY <1>7, <2>1, <2>3, GotoFits DEF FindEmbedding, tables, Visit
    <3> QED BY <1>7, <2>2, <2>3, <3>1 DEF FindEmbedding, TypeOK, tables
  <2>4. CASE /\ Goto(r, "remove")
             /\ \E m \in Embeddings : /\ embedding[m].row = "live"
                                      /\ found' = [found EXCEPT ![r] = m]
    <3>1. pc' \in [Requests -> Pc] /\ found' \in [Requests -> Embeddings \union {NoEmbedding}]
      BY <2>4 DEF TypeOK, Goto, Pc, Waiting
    <3>2. CallsOK'
      BY <1>7, <2>4 DEF FindEmbedding, tables, CallsOK, TypeOK, Goto, OnTarget,
                        StatusWrites
    <3> QED BY <1>7, <2>2, <3>1, <3>2 DEF FindEmbedding, TypeOK, tables
  <2> QED BY <1>7, <2>3, <2>4 DEF FindEmbedding, EmbeddingsOn
<1>8. CASE RemoveEmbedding(r)
  <2>1. /\ Fits(r, "done") /\ InFlight(r) /\ found[r] \in Embeddings
        /\ call[r].op = "reindex" => Fits(r, "pending") /\ Fits(r, "embedding")
    BY <1>8 DEF RemoveEmbedding, CallsOK, Fits, OnTarget, StatusWrites, Pc,
                Waiting, InFlight
  <2>2. embedding' \in [Embeddings -> EmbeddingRow]
    BY <1>8, <2>1, RowsAreTyped DEF RemoveEmbedding, TypeOK, RowState
  <2>3. \A m \in Embeddings : embedding[m].row # "never" =>
                                embedding'[m].row # "never"
    BY <1>8 DEF RemoveEmbedding, TypeOK, NoEmbeddingRow
  <2>4. CallsOK' /\ pc' \in [Requests -> Pc]
    BY <1>8, <2>1, <2>3, ProceedFits DEF RemoveEmbedding, loop, Visit
  <2> QED BY <1>8, <2>2, <2>4 DEF RemoveEmbedding, TypeOK, loop
<1>9. CASE InsertEmbedding(r)
  <2>1. Fits(r, "done") /\ InFlight(r) /\ call[r].chunk \in Chunks
    BY <1>9 DEF InsertEmbedding, CallsOK, Fits, OnTarget, StatusWrites, Pc,
                Waiting, InFlight
  <2>2. embedding' \in [Embeddings -> EmbeddingRow]
    BY <1>9, <2>1, RowsAreTyped DEF InsertEmbedding, TypeOK
  <2>3. \A m \in Embeddings : embedding[m].row # "never" =>
                                embedding'[m].row # "never"
    BY <1>9 DEF InsertEmbedding, TypeOK
  <2>4. CallsOK' /\ pc' \in [Requests -> Pc]
    BY <1>9, <2>1, <2>3, ProceedFits DEF InsertEmbedding, loop
  <2> QED BY <1>9, <2>2, <2>4 DEF InsertEmbedding, TypeOK, loop
<1>10. CASE InsertChunk(r)
  <2>1. Fits(r, "done") /\ InFlight(r) /\ Target(r) \in Documents
    BY <1>10 DEF InsertChunk, CallsOK, Target, Fits, OnTarget, StatusWrites, Pc,
                 Waiting, InFlight
  <2>2. chunk' \in [Chunks -> ChunkRow]
    BY <1>10, <2>1, RowsAreTyped DEF InsertChunk, TypeOK
  <2>3. CallsOK' /\ pc' \in [Requests -> Pc]
    BY <1>10, <2>1, ProceedFits DEF InsertChunk, loop
  <2> QED BY <1>10, <2>2, <2>3 DEF InsertChunk, TypeOK, loop
<1>11. CASE Drop(r)
  <2>1. /\ Fits(r, "done") /\ InFlight(r)
        /\ call[r].op = "purge" => Target(r) \in Documents
    BY <1>11 DEF Drop, CallsOK, Target, Fits, OnTarget, StatusWrites, Pc,
                 Waiting, InFlight
  <2>2. chunk' \in [Chunks -> ChunkRow]
    BY <1>11, RowsAreTyped DEF Drop, TypeOK, RowState
  <2>3. embedding' \in [Embeddings -> EmbeddingRow]
    BY <1>11, RowsAreTyped DEF Drop, Cascaded, TypeOK, RowState
  <2>4. document' \in [Documents -> DocumentRow]
    BY <1>11, <2>1, RowsAreTyped DEF Drop, TypeOK, RowState
  <2>5. \A m \in Embeddings : embedding[m].row # "never" =>
                                embedding'[m].row # "never"
    BY <1>11 DEF Drop, Cascaded, NoEmbeddingRow
  <2>6. CallsOK' /\ pc' \in [Requests -> Pc]
    BY <1>11, <2>1, <2>5, ProceedFits DEF Drop, loop
  <2> QED BY <1>11, <2>2, <2>3, <2>4, <2>6 DEF Drop, TypeOK, loop
<1>12. CASE Fail(r)
  <2>1. CallsOK' /\ pc' \in [Requests -> Pc]
    BY <1>12, FailureFits, GotoFits DEF Fail, tables, loop
  <2> QED BY <1>12, <2>1 DEF Fail, TypeOK, tables, loop
<1>13. CASE Search(r)
  <2>1. Fits(r, "done")
    BY DEF Fits, OnTarget, StatusWrites, Pc
  <2>2. CallsOK' /\ pc' \in [Requests -> Pc]
    BY <1>13, <2>1, GotoFits DEF Search, tables
  <2>3. answer' \in [Requests -> SUBSET Embeddings]
    BY <1>13 DEF Search, TypeOK, Hits, EmbeddingsOn
  <2> QED BY <1>13, <2>2, <2>3 DEF Search, TypeOK, tables
<1> QED
  BY <1>1, <1>2, <1>3, <1>4, <1>5, <1>6, <1>7, <1>8, <1>9, <1>10, <1>11, <1>12,
     <1>13
     DEF Statement

LEMMA BeginTyped ==
  ASSUME TypeInv, NEW r \in Requests, Begin(r)
  PROVE  TypeInv'
<1> USE DEF TypeInv
<1>1. PICK c \in Calls : /\ call' = [call EXCEPT ![r] = c]
                         /\ found' = [found EXCEPT ![r] = c.embedding]
                         /\ before' \in {before, [before EXCEPT ![r] = Reindexed]}
                         /\ Goto(r, FirstOf[c.op])
  BY DEF Begin
<1>2. FirstOf[c.op] \in Pc
  BY CallsAreTyped DEF Ops, FirstOf, Pc, Waiting, StatusWrites
<1>3. c.embedding \in Embeddings \union {NoEmbedding}
  BY CallsAreTyped DEF Call
<1>4. TypeOK'
  <2>1. before' \in [Requests -> SUBSET Embeddings]
    BY <1>1 DEF TypeOK, Reindexed
  <2> QED BY <1>1, <1>2, <1>3, <2>1, CallsAreTyped DEF Begin, TypeOK, Goto, tables
<1>5. ASSUME NEW q \in Requests, q # r
      PROVE  call'[q] = call[q] /\ pc'[q] = pc[q] /\ found'[q] = found[q]
  BY <1>1, <1>5 DEF TypeOK, Goto
<1>6. call'[r] = c /\ pc'[r] = FirstOf[c.op] /\ found'[r] = c.embedding
  BY <1>1 DEF TypeOK, Goto
<1>7. CallsOK'
  <2>1. UNCHANGED embedding
    BY DEF Begin, tables
  <2>2. /\ FirstOf[c.op] \in OnTarget =>
             c.op \in {"ingest", "deleteDocument", "reindex", "createChunk"}
        /\ FirstOf[c.op] \in {"insert", "processing", "chunks", "ready",
                              "compensate"} => c.op = "ingest"
        /\ FirstOf[c.op] \notin {"list", "embedding", "pending"}
        /\ FirstOf[c.op] \in {"softDelete", "embed", "chunk", "drop"} =>
             c.op # "reindex"
        /\ FirstOf[c.op] = "remove" => c.op = "deleteEmbedding"
        /\ FirstOf[c.op] = "embed" => c.op = "insertEmbedding"
        /\ c.op = "search" <=> FirstOf[c.op] = "search"
    BY CallsAreTyped DEF FirstOf, Ops, OnTarget, StatusWrites
  <2> QED BY <1>5, <1>6, <2>1, <2>2, CallsAreTyped DEF CallsOK
<1> QED BY <1>4, <1>7

LEMMA NextTyped == TypeInv /\ [Next]_vars => TypeInv'
<1> SUFFICES ASSUME TypeInv, [Next]_vars PROVE TypeInv'
  OBVIOUS
<1>1. CASE Crash
  <2>1. pc' \in [Requests -> Pc] /\ \A r \in Requests : pc'[r] \in {pc[r], "lost"}
    BY <1>1 DEF Crash, TypeInv, TypeOK, Pc
  <2> QED BY <1>1, <2>1 DEF Crash, TypeInv, TypeOK, CallsOK, tables, loop,
                            OnTarget, StatusWrites
<1>2. CASE UNCHANGED vars
  BY <1>2 DEF vars, tables, loop, TypeInv, TypeOK, CallsOK
<1> QED BY <1>1, <1>2, StatementTyped, BeginTyped DEF Next

(* Types, for every number of ids and every choice of operations offered.  *)
THEOREM TypeCorrect == Spec => []TypeOK
<1>1. TypeInv => TypeOK
  BY DEF TypeInv
<1> QED BY InitTyped, NextTyped, <1>1, PTL DEF Spec

LEMMA Typing == Spec => []TypeInv
BY InitTyped, NextTyped, PTL DEF Spec

----------------------------------------------------------------------------
(***************************************************************************)
(* ProcessingIsOwned is inductive given the types.                         *)
(***************************************************************************)
LEMMA OwnedInit == Init => ProcessingIsOwned
BY DEF Init, ProcessingIsOwned, NewDocument

(* A step of r after which no document is newly PROCESSING, and which does *)
(* not end an ingestion's work on a document left PROCESSING.              *)
LEMMA OwnedQuiet ==
  ASSUME ProcessingIsOwned,
         \A d \in Documents : document'[d].status = "PROCESSING" =>
           /\ document[d].status = "PROCESSING"
           /\ \A r \in Requests : call[r] = OnDocument("ingest", d) /\ AtWork(r) =>
                call'[r] = call[r] /\ AtWork(r)'
  PROVE  ProcessingIsOwned'
BY DEF ProcessingIsOwned

LEMMA FailureKeepsWork ==
  ASSUME TypeInv, NEW r \in Requests, AtWork(r), InFlight(r)
  PROVE  AfterFailure(r) \in {"compensate", "lost"}
BY DEF TypeInv, CallsOK, AtWork, AfterFailure, InFlight, Waiting, StatusWrites

LEMMA OwnedWrite ==
  ASSUME TypeInv, ProcessingIsOwned, NEW r \in Requests, WriteStatus(r)
  PROVE  ProcessingIsOwned'
<1> USE DEF TypeInv, TypeOK
<1>1. Target(r) \in Documents /\ UNCHANGED call
  BY DEF WriteStatus, LiveDocument
<1>2. \A q \in Requests : q # r => pc'[q] = pc[q]
  BY DEF WriteStatus, Proceed, Goto
<1>3. CASE pc[r] = "processing"
  <2>1. call[r] = OnDocument("ingest", Target(r))
    BY <1>3 DEF CallsOK, Target
  <2>2. pc'[r] \in {"chunks", "compensate"}
    BY <1>3, <2>1 DEF WriteStatus, Proceed, Goto, AfterStatus, AfterFailure,
                      OnDocument
  <2>3. \A d \in Documents \ {Target(r)} : document'[d] = document[d]
    BY DEF WriteStatus
  <2>4. ASSUME NEW d \in Documents, document'[d].status = "PROCESSING",
               d # Target(r)
        PROVE  \E q \in Requests : call'[q] = OnDocument("ingest", d) /\ AtWork(q)'
    <3>1. PICK q \in Requests : call[q] = OnDocument("ingest", d) /\ AtWork(q)
      BY <2>3, <2>4 DEF ProcessingIsOwned
    <3>2. q # r
      BY <1>3, <3>1 DEF AtWork
    <3> QED BY <1>1, <1>2, <3>1, <3>2 DEF AtWork
  <2> QED BY <1>1, <2>1, <2>2, <2>4 DEF ProcessingIsOwned, AtWork
<1>4. CASE pc[r] # "processing"
  <2>1. /\ document'[Target(r)].status # "PROCESSING"
        /\ \A d \in Documents \ {Target(r)} : document'[d] = document[d]
    BY <1>1, <1>4 DEF WriteStatus, StatusOf, StatusWrites, DocumentRow
  <2>2. ASSUME NEW d \in Documents, d # Target(r)
        PROVE  call[r] # OnDocument("ingest", d)
    BY <2>2 DEF Target, OnDocument
  <2> QED BY <1>1, <1>2, <2>1, <2>2, OwnedQuiet DEF AtWork
<1> QED BY <1>3, <1>4

LEMMA OwnedNext == TypeInv /\ ProcessingIsOwned /\ [Next]_vars => ProcessingIsOwned'
<1> SUFFICES ASSUME TypeInv, ProcessingIsOwned, [Next]_vars
             PROVE  ProcessingIsOwned'
  OBVIOUS
<1> USE DEF TypeInv, TypeOK
<1>1. ASSUME NEW r \in Requests, Begin(r) PROVE ProcessingIsOwned'
  BY <1>1, OwnedQuiet DEF Begin, Goto, tables, AtWork
<1>2. ASSUME NEW r \in Requests, InsertDocument(r) PROVE ProcessingIsOwned'
  BY <1>2, OwnedQuiet DEF InsertDocument, NewDocument, Proceed, Goto, AtWork
<1>3. ASSUME NEW r \in Requests, WriteStatus(r) PROVE ProcessingIsOwned'
  BY <1>3, OwnedWrite
<1>4. ASSUME NEW r \in Requests, BulkCreate(r) PROVE ProcessingIsOwned'
  <2>1. AfterFailure(r) = "compensate"
    BY <1>4 DEF BulkCreate, CallsOK, AfterFailure
  <2>2. pc'[r] \in {"ready", "compensate"}
    BY <1>4, <2>1 DEF BulkCreate, Proceed, Goto
  <2>3. \A q \in Requests : AtWork(q) => AtWork(q)'
    BY <1>4, <2>2 DEF BulkCreate, Proceed, Goto, AtWork
  <2> QED BY <1>4, <2>3, OwnedQuiet DEF BulkCreate
<1>5. ASSUME NEW r \in Requests, FindDocument(r) \/ ListChunks(r)
                               \/ FindEmbedding(r) \/ Search(r)
      PROVE  ProcessingIsOwned'
  BY <1>5, OwnedQuiet DEF FindDocument, ListChunks, FindEmbedding, Search, Goto,
                          tables, AtWork
<1>6. ASSUME NEW r \in Requests, SoftDelete(r) PROVE ProcessingIsOwned'
  <2>1. \A d \in Documents : document'[d].status = document[d].status
    BY <1>6 DEF SoftDelete, DocumentRow
  <2> QED BY <1>6, <2>1, OwnedQuiet DEF SoftDelete, Proceed, Goto, AtWork
<1>7. ASSUME NEW r \in Requests,
             RemoveEmbedding(r) \/ InsertEmbedding(r) \/ InsertChunk(r)
      PROVE  ProcessingIsOwned'
  BY <1>7, OwnedQuiet DEF RemoveEmbedding, InsertEmbedding, InsertChunk,
                          Proceed, Goto, AtWork
<1>8. ASSUME NEW r \in Requests, Drop(r) PROVE ProcessingIsOwned'
  BY <1>8, OwnedQuiet DEF Drop, NewDocument, Proceed, Goto, AtWork
<1>9. ASSUME NEW r \in Requests, Fail(r) PROVE ProcessingIsOwned'
  <2>1. \A q \in Requests : AtWork(q) => AtWork(q)'
    BY <1>9, FailureKeepsWork DEF Fail, Goto, AtWork
  <2> QED BY <1>9, <2>1, OwnedQuiet DEF Fail, tables
<1>10. CASE Crash
  BY <1>10, OwnedQuiet DEF Crash, tables, AtWork
<1>11. CASE UNCHANGED vars
  BY <1>11, OwnedQuiet DEF vars, tables, AtWork
<1> QED
  BY <1>1, <1>2, <1>3, <1>4, <1>5, <1>6, <1>7, <1>8, <1>9, <1>10, <1>11
     DEF Next, Statement

(* However ingestions, deletions and reindexing interleave and fail, a     *)
(* document is PROCESSING only while an ingestion works on it, or for one  *)
(* that was cut short.                                                     *)
THEOREM ProcessingHasOwner == Spec => []ProcessingIsOwned
BY OwnedInit, OwnedNext, Typing, PTL DEF Spec

----------------------------------------------------------------------------
(***************************************************************************)
(* Reindexing.  At most one live embedding hangs on a chunk; and a reindex *)
(* under way has, of the embeddings it began with, only those left whose   *)
(* chunk it has still to visit, or that it is about to delete.             *)
(***************************************************************************)
OnePerChunk ==
  \A m, n \in Embeddings :
    /\ embedding[m].row = "live" /\ embedding[n].row = "live"
    /\ embedding[m].chunk = embedding[n].chunk
    => m = n

Left(r, m) ==
  /\ embedding[m].row \in {"live", "gone"}
  /\ embedding[m].row = "live" =>
       /\ LiveChunk(embedding[m].chunk)
       /\ chunk[embedding[m].chunk].document = Target(r)
       /\ \/ pc[r] = "list"
          \/ pc[r] \in {"embedding", "remove"} /\ embedding[m].chunk \in todo[r]
          \/ pc[r] = "remove" /\ m = found[r]
Reindexing(r) ==
  /\ call[r].op = "reindex"
  /\ pc[r] \in {"list", "embedding", "remove", "pending", "done"}
LeftInv == \A r \in Requests : Reindexing(r) => \A m \in before[r] : Left(r, m)

ReindexInv == OnePerChunk /\ LeftInv

LEMMA ReindexInit == Init => ReindexInv
<1> SUFFICES ASSUME Init PROVE ReindexInv
  OBVIOUS
<1>1. OnePerChunk
  BY DEF Init, OnePerChunk, EmbeddingsOn
<1>2. LeftInv
  BY DEF Init, LeftInv, Reindexing
<1> QED BY <1>1, <1>2 DEF ReindexInv

(* What a step of another request, or of none, may do to the tables.       *)
LEMMA LeftKept ==
  ASSUME TypeInv, LeftInv, NEW r \in Requests, Reindexing(r)',
         pc'[r] = pc[r], call'[r] = call[r], todo'[r] = todo[r],
         found'[r] = found[r], before'[r] = before[r],
         \A m \in Embeddings : embedding[m].row \in {"live", "gone"} =>
           \/ embedding'[m].row = "gone"
           \/ /\ embedding'[m] = embedding[m]
              /\ LiveChunk(embedding[m].chunk) =>
                   chunk'[embedding[m].chunk] = chunk[embedding[m].chunk]
  PROVE  \A m \in before'[r] : Left(r, m)'
<1> USE DEF TypeInv, TypeOK
<1> SUFFICES ASSUME NEW m \in before[r] PROVE Left(r, m)'
  OBVIOUS
<1>1. m \in Embeddings /\ Left(r, m)
  BY DEF LeftInv, Reindexing
<1>2. CASE embedding'[m].row = "gone"
  BY <1>2 DEF Left
<1>3. CASE embedding'[m] = embedding[m] /\ embedding[m].row = "gone"
  BY <1>3 DEF Left
<1>4. CASE /\ embedding'[m] = embedding[m]
           /\ LiveChunk(embedding[m].chunk) =>
                chunk'[embedding[m].chunk] = chunk[embedding[m].chunk]
           /\ embedding[m].row = "live"
  BY <1>1, <1>4 DEF Left, LiveChunk, Target
<1> QED BY <1>1, <1>2, <1>3, <1>4 DEF Left

(* What every step does to the rows of chunks and embeddings: nothing but  *)
(* first uses of ids and deletions, a chunk not without its embeddings.    *)
RowsOnlyEnd ==
  \A m \in Embeddings : embedding[m].row \in {"live", "gone"} =>
    \/ embedding'[m].row = "gone"
    \/ /\ embedding'[m] = embedding[m]
       /\ LiveChunk(embedding[m].chunk) =>
            chunk'[embedding[m].chunk] = chunk[embedding[m].chunk]

LEMMA RowsKept ==
  ASSUME TypeInv, NEW r \in Requests, Statement(r)
  PROVE  RowsOnlyEnd
<1> USE DEF TypeInv, TypeOK
<1>1. CASE BulkCreate(r)
  BY <1>1 DEF BulkCreate, RowsOnlyEnd, LiveChunk
<1>2. CASE RemoveEmbedding(r)
  BY <1>2 DEF RemoveEmbedding, RowsOnlyEnd, NoEmbeddingRow
<1>3. CASE InsertEmbedding(r)
  BY <1>3 DEF InsertEmbedding, RowsOnlyEnd
<1>4. CASE InsertChunk(r)
  BY <1>4 DEF InsertChunk, RowsOnlyEnd, LiveChunk
<1>5. CASE Drop(r)
  <2>1. SUFFICES ASSUME NEW m \in Embeddings,
                        embedding[m].row \in {"live", "gone"},
                        embedding'[m].row # "gone"
                 PROVE  /\ embedding'[m] = embedding[m]
                        /\ LiveChunk(embedding[m].chunk) =>
                             chunk'[embedding[m].chunk] = chunk[embedding[m].chunk]
    BY DEF RowsOnlyEnd
  <2>2. embedding'[m] = embedding[m] /\ m \notin EmbeddingsOn(Dropped(r))
    BY <1>5, <2>1 DEF Drop, Cascaded, NoEmbeddingRow
  <2>3. embedding[m].row = "live" /\ embedding[m].chunk \notin Dropped(r)
    BY <2>1, <2>2 DEF EmbeddingsOn
  <2> QED BY <1>5, <2>2, <2>3 DEF Drop, LiveChunk
<1>6. CASE UNCHANGED <<chunk, embedding>>
  BY <1>6 DEF RowsOnlyEnd
<1> QED
  BY <1>1, <1>2, <1>3, <1>4, <1>5, <1>6
     DEF Statement, InsertDocument, WriteStatus, FindDocument, SoftDelete,
         ListChunks, FindEmbedding, Search, Fail, tables

LEMMA UniqueKept ==
  ASSUME TypeInv, OnePerChunk, NEW r \in Requests, Statement(r)
  PROVE  OnePerChunk'
<1> USE DEF TypeInv, TypeOK
<1>1. CASE InsertEmbedding(r)
  <2>1. PICK m \in Embeddings :
          /\ embedding[m].row = "never"
          /\ embedding' = [embedding EXCEPT ![m] = EmbeddingOf(call[r].chunk)]
    BY <1>1 DEF InsertEmbedding
  <2>2. \A n \in Embeddings : embedding[n].row = "live" =>
          embedding[n].chunk # call[r].chunk
    BY <1>1 DEF InsertEmbedding, Vacant, EmbeddingsOn
  <2> QED BY <2>1, <2>2 DEF OnePerChunk, EmbeddingOf
<1>2. CASE \A m \in Embeddings : embedding'[m].row = "live" =>
                                  embedding'[m] = embedding[m]
  BY <1>2 DEF OnePerChunk
<1>3. CASE RemoveEmbedding(r)
  BY <1>2, <1>3 DEF RemoveEmbedding, NoEmbeddingRow
<1>4. CASE Drop(r)
  BY <1>2, <1>4 DEF Drop, Cascaded, NoEmbeddingRow
<1>5. CASE UNCHANGED embedding
  BY <1>2, <1>5
<1> QED
  BY <1>1, <1>3, <1>4, <1>5
     DEF Statement, InsertDocument, WriteStatus, BulkCreate, FindDocument,
         SoftDelete, ListChunks, FindEmbedding, InsertChunk, Search, Fail, tables

LEMMA FailureIsNotReindexing ==
  ASSUME TypeInv, NEW r \in Requests, call[r].op = "reindex", InFlight(r)
  PROVE  AfterFailure(r) = "failed"
BY DEF TypeInv, CallsOK, AfterFailure

(* A step of the reindexing request itself. *)
LEMMA LeftOwn ==
  ASSUME TypeInv, ReindexInv, NEW r \in Requests, Statement(r), Reindexing(r)'
  PROVE  \A m \in before'[r] : Left(r, m)'
<1> USE DEF TypeInv, TypeOK
<1>0. UNCHANGED call
  BY DEF Statement, InsertDocument, WriteStatus, BulkCreate, FindDocument,
         SoftDelete, ListChunks, FindEmbedding, RemoveEmbedding,
         InsertEmbedding, InsertChunk, Drop, Search, Fail
<1>1. call[r].op = "reindex" /\ pc'[r] # "failed"
  BY <1>0 DEF Reindexing
<1>2. CASE FindDocument(r)
  BY <1>1, <1>2 DEF FindDocument, EmbeddingsOn, ChunksOf, Left, LiveChunk, Target,
                    tables, Goto
<1>3. CASE ListChunks(r)
  <2>1. UNCHANGED <<chunk, embedding, before>> /\ pc[r] = "list"
    BY <1>3 DEF ListChunks, tables
  <2>2. /\ todo'[r] = ChunksOf(Target(r))
        /\ pc'[r] = IF ChunksOf(Target(r)) = {} THEN "pending" ELSE "embedding"
    BY <1>3 DEF ListChunks, Goto
  <2>3. \A m \in before[r] : m \in Embeddings /\ Left(r, m)
    BY <1>1, <2>1 DEF ReindexInv, LeftInv, Reindexing
  <2>4. \A m \in before[r] : embedding[m].row = "live" =>
                              embedding[m].chunk \in ChunksOf(Target(r))
    BY <2>1, <2>3 DEF Left, LiveChunk, ChunksOf
  <2> QED BY <1>0, <2>1, <2>2, <2>3, <2>4 DEF Left, LiveChunk, Target
<1>4. CASE FindEmbedding(r)
  <2>1. UNCHANGED <<chunk, embedding, before>> /\ pc[r] = "embedding"
    BY <1>4 DEF FindEmbedding, tables
  <2>2. \A m \in before[r] : m \in Embeddings /\ Left(r, m)
    BY <1>1, <2>1 DEF ReindexInv, LeftInv, Reindexing
  <2>3. PICK c \in todo[r] :
          /\ todo'[r] = todo[r] \ {c}
          /\ \/ EmbeddingsOn({c}) = {} /\ pc'[r] = Visit(todo'[r])
             \/ \E m \in EmbeddingsOn({c}) : found'[r] = m /\ pc'[r] = "remove"
    BY <1>4 DEF FindEmbedding, Goto, Rest
  <2>4. CASE EmbeddingsOn({c}) = {} /\ pc'[r] = Visit(todo'[r])
    <3>1. \A m \in before[r] : embedding[m].row = "live" =>
                                embedding[m].chunk \in todo'[r]
      BY <2>1, <2>2, <2>3, <2>4 DEF Left, EmbeddingsOn
    <3> QED BY <1>0, <2>1, <2>2, <2>4, <3>1 DEF Left, LiveChunk, Target, Visit
  <2>5. CASE \E m \in EmbeddingsOn({c}) : found'[r] = m /\ pc'[r] = "remove"
    <3>1. \A m \in before[r] : embedding[m].row = "live" =>
            embedding[m].chunk \in todo'[r] \/ m = found'[r]
      BY <2>1, <2>2, <2>3, <2>5 DEF Left, EmbeddingsOn, ReindexInv, OnePerChunk
    <3> QED BY <1>0, <2>1, <2>2, <2>5, <3>1 DEF Left, LiveChunk, Target
  <2> QED BY <2>3, <2>4, <2>5
<1>5. CASE RemoveEmbedding(r)
  <2>1. UNCHANGED <<chunk, before, todo>> /\ pc[r] = "remove"
    BY <1>5 DEF RemoveEmbedding, loop
  <2>2. pc'[r] = Visit(todo[r])
    BY <1>1, <1>5, FailureIsNotReindexing
       DEF RemoveEmbedding, Proceed, Goto, InFlight, Waiting
  <2>3. \A m \in before[r] : m \in Embeddings /\ Left(r, m)
    BY <1>1, <2>1 DEF ReindexInv, LeftInv, Reindexing
  <2>4. \A m \in Embeddings :
          embedding'[m] = IF m = found[r] THEN NoEmbeddingRow("gone") ELSE embedding[m]
    BY <1>5 DEF RemoveEmbedding
  <2>5. \A m \in before[r] : embedding'[m].row = "live" =>
          m # found[r] /\ embedding[m].row = "live" /\ embedding[m].chunk \in todo[r]
    BY <2>1, <2>3, <2>4 DEF Left, NoEmbeddingRow
  <2> QED BY <1>0, <2>1, <2>2, <2>3, <2>4, <2>5
             DEF Left, LiveChunk, Target, Visit, NoEmbeddingRow
<1>6. CASE WriteStatus(r)
  <2>1. UNCHANGED <<chunk, embedding, before>> /\ pc[r] = "pending"
    BY <1>1, <1>6 DEF WriteStatus, StatusWrites, CallsOK, loop
  <2>2. \A m \in before[r] : Left(r, m)
    BY <1>1, <2>1 DEF ReindexInv, LeftInv, Reindexing
  <2> QED BY <2>1, <2>2 DEF Left
<1>7. CASE Fail(r)
  BY <1>1, <1>7, FailureIsNotReindexing DEF Fail, Goto
<1>8. CASE InsertDocument(r) \/ BulkCreate(r)
  BY <1>1, <1>8 DEF InsertDocument, BulkCreate, CallsOK
<1>9. CASE SoftDelete(r) \/ InsertEmbedding(r) \/ InsertChunk(r) \/ Drop(r)
  BY <1>1, <1>9 DEF SoftDelete, InsertEmbedding, InsertChunk, Drop, CallsOK
<1>10. CASE Search(r)
  BY <1>1, <1>10 DEF Search, CallsOK
<1> QED
  BY <1>2, <1>3, <1>4, <1>5, <1>6, <1>7, <1>8, <1>9, <1>10 DEF Statement

LEMMA ReindexNext == TypeInv /\ ReindexInv /\ [Next]_vars => ReindexInv'
<1> SUFFICES ASSUME TypeInv, ReindexInv, [Next]_vars PROVE ReindexInv'
  OBVIOUS
<1> USE DEF TypeInv, TypeOK
<1>1. ASSUME NEW r \in Requests, Begin(r) PROVE ReindexInv'
  <2>1. /\ UNCHANGED <<document, chunk, embedding, todo>>
        /\ \A q \in Requests \ {r} : before'[q] = before[q]
    BY <1>1 DEF Begin, tables
  <2>2. PICK c \in Calls : /\ call' = [call EXCEPT ![r] = c]
                           /\ found' = [found EXCEPT ![r] = c.embedding]
                           /\ Goto(r, FirstOf[c.op])
    BY <1>1 DEF Begin
  <2>3. ~Reindexing(r)'
    <3>1. call'[r].op = c.op /\ pc'[r] = FirstOf[c.op]
      BY <2>2 DEF Goto
    <3>2. c.op = "reindex" => FirstOf[c.op] = "find"
      BY DEF FirstOf
    <3> QED BY <3>1, <3>2 DEF Reindexing
  <2>4. ASSUME NEW q \in Requests, q # r, Reindexing(q)'
        PROVE  \A m \in before'[q] : Left(q, m)'
    <3>1. pc'[q] = pc[q] /\ call'[q] = call[q] /\ found'[q] = found[q]
      BY <2>2, <2>4 DEF Goto
    <3> QED BY <2>1, <2>4, <3>1, LeftKept DEF ReindexInv
  <2> QED BY <2>1, <2>3, <2>4 DEF ReindexInv, OnePerChunk, LeftInv
<1>2. ASSUME NEW r \in Requests, Statement(r) PROVE ReindexInv'
  <2>1. RowsOnlyEnd /\ OnePerChunk'
    BY <1>2, RowsKept, UniqueKept DEF ReindexInv
  <2>2. ASSUME NEW q \in Requests, q # r
        PROVE  /\ pc'[q] = pc[q] /\ call'[q] = call[q] /\ found'[q] = found[q]
               /\ todo'[q] = todo[q] /\ before'[q] = before[q]
    BY <1>2, <2>2
       DEF Statement, InsertDocument, WriteStatus, BulkCreate, FindDocument,
           SoftDelete, ListChunks, FindEmbedding, RemoveEmbedding,
           InsertEmbedding, InsertChunk, Drop, Search, Fail, Proceed, Goto, loop
  <2>3. ASSUME NEW q \in Requests, q # r, Reindexing(q)'
        PROVE  \A m \in before'[q] : Left(q, m)'
    BY <2>1, <2>2, <2>3, LeftKept DEF ReindexInv, RowsOnlyEnd
  <2> QED BY <1>2, <2>1, <2>3, LeftOwn DEF ReindexInv, LeftInv
<1>3. CASE Crash
  <2>1. UNCHANGED <<tables, call, loop>>
    BY <1>3 DEF Crash
  <2>2. ASSUME NEW q \in Requests, Reindexing(q)'
        PROVE  \A m \in before'[q] : Left(q, m)'
    <3>1. pc'[q] = pc[q]
      BY <1>3, <2>2 DEF Crash, Reindexing
    <3> QED BY <2>1, <2>2, <3>1, LeftKept DEF ReindexInv, tables, loop
  <2> QED BY <2>1, <2>2 DEF ReindexInv, OnePerChunk, LeftInv, tables
<1>4. CASE UNCHANGED vars
  BY <1>4 DEF vars, tables, loop, ReindexInv, OnePerChunk, LeftInv, Left,
              Reindexing, LiveChunk, Target
<1> QED BY <1>1, <1>2, <1>3, <1>4 DEF Next

(* Whatever others insert and delete meanwhile, a reindex that reports     *)
(* success has left none of the embeddings it started from.                *)
THEOREM ReindexForgets == Spec => []ReindexForgetsOld
<1>1. TypeInv /\ ReindexInv => ReindexForgetsOld
  BY DEF TypeInv, TypeOK, ReindexInv, LeftInv, Reindexing, Left, ReindexForgetsOld
<1> QED
  BY ReindexInit, ReindexNext, Typing, <1>1, PTL DEF Spec

----------------------------------------------------------------------------
(***************************************************************************)
(* Searches.  An embedding that is gone stays gone, and is no hit.         *)
(***************************************************************************)
SearchInv ==
  \A r \in Requests :
    /\ call[r].op = "search" => \A m \in before[r] : embedding[m].row = "gone"
    /\ call[r].op = "search" => answer[r] \intersect before[r] = {}
    /\ call[r].op # "search" => answer[r] = {}

LEMMA GoneStaysGone ==
  ASSUME TypeInv, [Next]_vars, NEW m \in Embeddings, embedding[m].row = "gone"
  PROVE  embedding'[m].row = "gone"
<1>1. CASE \E r \in Requests : Statement(r)
  BY <1>1, RowsKept DEF RowsOnlyEnd
<1>2. CASE UNCHANGED embedding
  BY <1>2
<1> QED BY <1>1, <1>2 DEF Next, Begin, Crash, vars, tables

LEMMA SearchNext ==
  TypeInv /\ ReindexInv /\ SearchInv /\ [Next]_vars => SearchInv'
<1> SUFFICES ASSUME TypeInv, ReindexInv, SearchInv, [Next]_vars,
                    NEW q \in Requests
             PROVE  /\ call'[q].op = "search" =>
                         \A m \in before'[q] : embedding'[m].row = "gone"
                    /\ call'[q].op = "search" =>
                         answer'[q] \intersect before'[q] = {}
                    /\ call'[q].op # "search" => answer'[q] = {}
  BY DEF SearchInv
<1> USE DEF TypeInv, TypeOK
<1>1. CASE /\ call'[q] = call[q] /\ answer'[q] = answer[q]
           /\ call[q].op = "search" => before'[q] = before[q]
  BY <1>1, GoneStaysGone DEF SearchInv
<1>2. CASE Begin(q)
  <2>1. /\ UNCHANGED <<embedding, answer>>
        /\ call'[q].op = "search" => before'[q] = Reindexed
    BY <1>2 DEF Begin, tables
  <2>2. \A m \in Reindexed : embedding[m].row = "gone"
    BY DEF Reindexed, ReindexInv, LeftInv, Reindexing, Left
  <2>3. answer[q] = {}
    BY <1>2 DEF Begin, CallsOK, SearchInv
  <2> QED BY <2>1, <2>2, <2>3
<1>3. ASSUME NEW r \in Requests, r # q, Begin(r) \/ Statement(r)
      PROVE  call'[q] = call[q] /\ before'[q] = before[q] /\ answer'[q] = answer[q]
  BY <1>3
     DEF Begin, Statement, InsertDocument, WriteStatus, BulkCreate, FindDocument,
         SoftDelete, ListChunks, FindEmbedding, RemoveEmbedding,
         InsertEmbedding, InsertChunk, Drop, Search, Fail, loop
<1>4. CASE Search(q)
  <2>1. UNCHANGED <<embedding, before, call>> /\ answer'[q] \subseteq Hits
    BY <1>4 DEF Search, tables
  <2>2. call[q].op = "search"
    BY <1>4 DEF Search, CallsOK
  <2>3. \A m \in before[q] : m \notin Hits /\ embedding[m].row = "gone"
    BY <2>2 DEF SearchInv, Hits, EmbeddingsOn
  <2> QED BY <2>1, <2>2, <2>3
<1>5. CASE Statement(q) /\ ~Search(q)
  <2>1. UNCHANGED <<call, answer>>
    BY <1>5 DEF Statement, InsertDocument, WriteStatus, BulkCreate, FindDocument,
                SoftDelete, ListChunks, FindEmbedding, RemoveEmbedding,
                InsertEmbedding, InsertChunk, Drop, Fail, loop
  <2>2. call[q].op = "search" => ~FindDocument(q)
    BY DEF CallsOK, FindDocument
  <2>3. ~FindDocument(q) => before' = before
    BY <1>5 DEF Statement, InsertDocument, WriteStatus, BulkCreate, SoftDelete,
                ListChunks, FindEmbedding, RemoveEmbedding, InsertEmbedding,
                InsertChunk, Drop, Fail, loop
  <2> QED BY <1>1, <2>1, <2>2, <2>3
<1>6. CASE UNCHANGED <<call, loop>>
  BY <1>1, <1>6 DEF loop
<1> QED BY <1>1, <1>2, <1>3, <1>4, <1>5, <1>6 DEF Next, Crash, vars

(* A search that begins after a reindex has reported success answers by    *)
(* none of the embeddings that the reindex found.                          *)
THEOREM SearchForgets == Spec => []SearchForgetsReindexed
<1>1. Init => SearchInv
  BY DEF Init, SearchInv, NoCall, OnDocument
<1>2. SearchInv => SearchForgetsReindexed
  BY DEF SearchInv, SearchForgetsReindexed
<1> QED
  BY <1>1, <1>2, SearchNext, ReindexInit, ReindexNext, Typing, PTL DEF Spec

----------------------------------------------------------------------------
(***************************************************************************)
(* Foreign keys.                                                           *)
(***************************************************************************)
LEMMA OrphansInit == Init => NoOrphans
BY DEF Init, NoOrphans, LiveChunk, NoChunkRow

(* Nothing is dropped, and what appears is attached to something live.     *)
LEMMA OrphansAdd ==
  ASSUME NoOrphans,
         \A d : LiveDocument(d) => LiveDocument(d)',
         \A c \in Chunks : LiveChunk(c)' =>
           \/ LiveChunk(c) /\ chunk'[c] = chunk[c]
           \/ LiveDocument(chunk'[c].document),
         \A c : LiveChunk(c) => LiveChunk(c)',
         \A m \in Embeddings : embedding'[m].row = "live" =>
           \/ embedding'[m] = embedding[m]
           \/ LiveChunk(embedding'[m].chunk)
  PROVE  NoOrphans'
BY DEF NoOrphans

LEMMA OrphansNext == TypeInv /\ NoOrphans /\ [Next]_vars => NoOrphans'
<1> SUFFICES ASSUME TypeInv, NoOrphans, [Next]_vars PROVE NoOrphans'
  OBVIOUS
<1> USE DEF TypeInv, TypeOK
<1>1. ASSUME NEW r \in Requests, InsertDocument(r) PROVE NoOrphans'
  BY <1>1, OrphansAdd DEF InsertDocument, LiveDocument, LiveChunk, NewDocument
<1>2. ASSUME NEW r \in Requests, WriteStatus(r) \/ SoftDelete(r) PROVE NoOrphans'
  <2>1. \A d : LiveDocument(d) => LiveDocument(d)'
    BY <1>2 DEF WriteStatus, SoftDelete, LiveDocument, DocumentRow
  <2>2. UNCHANGED <<chunk, embedding>>
    BY <1>2 DEF WriteStatus, SoftDelete
  <2> QED BY <2>1, <2>2, OrphansAdd DEF LiveChunk
<1>3. ASSUME NEW r \in Requests, BulkCreate(r) PROVE NoOrphans'
  <2>1. UNCHANGED chunk
    BY <1>3 DEF BulkCreate, GuardAccepts, ArrayKeys
  <2> QED BY <1>3, <2>1, OrphansAdd DEF BulkCreate, LiveDocument, LiveChunk
<1>4. ASSUME NEW r \in Requests, RemoveEmbedding(r) PROVE NoOrphans'
  BY <1>4, OrphansAdd DEF RemoveEmbedding, LiveDocument, LiveChunk, NoEmbeddingRow
<1>5. ASSUME NEW r \in Requests, InsertEmbedding(r) PROVE NoOrphans'
  BY <1>5, OrphansAdd DEF InsertEmbedding, LiveDocument, LiveChunk, Vacant,
                          EmbeddingOf
<1>6. ASSUME NEW r \in Requests, InsertChunk(r) PROVE NoOrphans'
  <2>1. PICK c \in Chunks : /\ chunk[c].row = "never"
                            /\ chunk' = [chunk EXCEPT ![c] = ChunkIn(Target(r))]
    BY <1>6 DEF InsertChunk
  <2>2. /\ \A x : LiveChunk(x) => LiveChunk(x)'
        /\ \A x \in Chunks : x # c => chunk'[x] = chunk[x]
        /\ chunk'[c].document = Target(r)
    BY <2>1 DEF LiveChunk, ChunkIn
  <2> QED BY <1>6, <2>1, <2>2, OrphansAdd DEF InsertChunk, LiveDocument, LiveChunk
<1>7. ASSUME NEW r \in Requests, Drop(r) PROVE NoOrphans'
  <2>1. ASSUME NEW c \in Chunks, LiveChunk(c)'
        PROVE  LiveDocument(chunk[c].document)'
    <3>1. c \notin Dropped(r) /\ chunk'[c] = chunk[c] /\ LiveChunk(c)
      BY <1>7, <2>1 DEF Drop, LiveChunk, NoChunkRow
    <3>2. LiveDocument(chunk[c].document)
      BY <3>1 DEF NoOrphans
    <3>3. call[r].op = "purge" => chunk[c].document # Target(r)
      BY <3>1 DEF Dropped, ChunksOf, LiveChunk
    <3> QED BY <1>7, <3>1, <3>2, <3>3 DEF Drop, LiveDocument
  <2>2. ASSUME NEW m \in Embeddings, embedding'[m].row = "live"
        PROVE  LiveChunk(embedding[m].chunk)'
    <3>1. embedding'[m] = embedding[m] /\ m \notin EmbeddingsOn(Dropped(r))
      BY <1>7, <2>2 DEF Drop, Cascaded, NoEmbeddingRow
    <3>2. LiveChunk(embedding[m].chunk) /\ embedding[m].chunk \notin Dropped(r)
      BY <2>2, <3>1 DEF NoOrphans, EmbeddingsOn
    <3> QED BY <1>7, <3>1, <3>2 DEF Drop, LiveChunk
  <2> QED BY <2>1, <2>2 DEF NoOrphans
<1>8. CASE UNCHANGED tables
  BY <1>8 DEF tables, NoOrphans, LiveChunk, LiveDocument
<1> QED
  BY <1>1, <1>2, <1>3, <1>4, <1>5, <1>6, <1>7, <1>8
     DEF Next, Statement, Begin, FindDocument, ListChunks, FindEmbedding, Search, Fail,
         Crash, vars, tables

(* No race between insertions and hard deletes leaves a chunk without its  *)
(* document or an embedding without its chunk.                             *)
THEOREM ForeignKeysHold == Spec => []NoOrphans
BY OrphansInit, OrphansNext, Typing, PTL DEF Spec

----------------------------------------------------------------------------
(***************************************************************************)
(* What is deleted stays deleted, because an id is given to one ingestion  *)
(* only, which inserts it once, and a purge is asked for on rows that were *)
(* there: IngestOnce.                                                      *)
(***************************************************************************)
OneIngestEach ==
  \A r, q \in Requests :
    call[r].op = "ingest" /\ call[q] = call[r] => q = r
IngestOnce ==
  /\ OneIngestEach
  /\ \A r \in Requests :
       /\ pc[r] = "insert" => document[Target(r)].row = "never"
       /\ pc[r] = "drop" /\ call[r].op = "purge" =>
            document[Target(r)].row # "never"

RowsStayDeleted ==
  /\ \A d \in Documents :
       /\ document[d].row = "gone" => document'[d].row = "gone"
       /\ LiveDocument(d) => document'[d].row \in {"live", "gone"}
       /\ LiveDocument(d) /\ document[d].deleted /\ document'[d].row = "live"
            => document'[d].deleted
  /\ \A c \in Chunks :
       /\ chunk[c].row = "gone" => chunk'[c].row = "gone"
       /\ LiveChunk(c) => chunk'[c] = chunk[c] \/ chunk'[c].row = "gone"
  /\ \A m \in Embeddings :
       /\ embedding[m].row = "gone" => embedding'[m].row = "gone"
       /\ embedding[m].row = "live" =>
            embedding'[m] = embedding[m] \/ embedding'[m].row = "gone"

(* The status writes of a service call in flight do not look at            *)
(* deleted_at, and a create takes whatever id it is handed: still, no step *)
(* clears a document's deleted_at or gives the id of a deleted document,   *)
(* chunk or embedding a new row, and no row moves to another parent.       *)
DeletedStaysDeleted == [][RowsStayDeleted]_vars

LEMMA IngestInit == Init => IngestOnce
BY DEF Init, IngestOnce, OneIngestEach, NoCall, OnDocument

(* Every write of the documents, and the state of the row it needs.        *)
LEMMA DocumentWrites ==
  ASSUME TypeInv, IngestOnce, [Next]_vars, NEW d \in Documents
  PROVE  \/ document'[d] = document[d]
         \/ /\ LiveDocument(d) /\ document'[d].row = "live"
            /\ document[d].deleted => document'[d].deleted
         \/ document[d].row # "never" /\ document'[d].row = "gone"
         \/ /\ document[d].row = "never" /\ document'[d].row = "live"
            /\ \E r \in Requests : /\ pc[r] = "insert" /\ Target(r) = d
                                   /\ InsertDocument(r)
<1> USE DEF TypeInv, TypeOK
<1>1. ASSUME NEW r \in Requests, InsertDocument(r)
      PROVE  \/ document'[d] = document[d]
             \/ /\ document[d].row = "never" /\ document'[d].row = "live"
                /\ pc[r] = "insert" /\ Target(r) = d /\ InsertDocument(r)
  BY <1>1 DEF InsertDocument, IngestOnce, NewDocument
<1>2. ASSUME NEW r \in Requests, WriteStatus(r)
      PROVE  \/ document'[d] = document[d]
             \/ /\ LiveDocument(d) /\ document'[d].row = "live"
                /\ document[d].deleted => document'[d].deleted
  BY <1>2 DEF WriteStatus, LiveDocument, DocumentRow
<1>3. ASSUME NEW r \in Requests, SoftDelete(r)
      PROVE  \/ document'[d] = document[d]
             \/ /\ LiveDocument(d) /\ document'[d].row = "live"
                /\ document[d].deleted => document'[d].deleted
  BY <1>3 DEF SoftDelete, LiveDocument, DocumentRow
<1>4. ASSUME NEW r \in Requests, Drop(r)
      PROVE  \/ document'[d] = document[d]
             \/ document[d].row # "never" /\ document'[d].row = "gone"
  BY <1>4 DEF Drop, IngestOnce, NewDocument
<1>5. \/ UNCHANGED document
      \/ \E r \in Requests : \/ InsertDocument(r) \/ WriteStatus(r)
                             \/ SoftDelete(r) \/ Drop(r)
  BY DEF Next, Statement, Begin, BulkCreate, FindDocument, ListChunks,
         FindEmbedding, RemoveEmbedding, InsertEmbedding, InsertChunk, Search,
         Fail, Crash, vars, tables
<1> QED BY <1>1, <1>2, <1>3, <1>4, <1>5

(* The calls and their first statements, after a step that begins none.    *)
LEMMA IngestGoesOn ==
  ASSUME TypeInv, IngestOnce, [Next]_vars, UNCHANGED call,
         \A r \in Requests : pc'[r] \in {"insert", "drop"} => pc'[r] = pc[r],
         \A r \in Requests : InsertDocument(r) => pc'[r] # "insert"
  PROVE  IngestOnce'
<1> USE DEF TypeInv, TypeOK
<1>1. ASSUME NEW r \in Requests, pc'[r] = "insert"
      PROVE  document'[Target(r)].row = "never"
  <2>1. /\ pc[r] = "insert" /\ Target(r) \in Documents
        /\ document[Target(r)].row = "never" /\ call[r].op = "ingest"
        /\ call[r] = OnDocument("ingest", Target(r))
    BY <1>1 DEF IngestOnce, CallsOK, OnTarget, Target
  <2>2. ASSUME NEW q \in Requests, pc[q] = "insert", Target(q) = Target(r),
               InsertDocument(q)
        PROVE  FALSE
    <3>1. call[q] = OnDocument("ingest", Target(r))
      BY <2>2 DEF CallsOK, Target
    <3>2. q = r
      BY <2>1, <3>1 DEF IngestOnce, OneIngestEach
    <3> QED BY <1>1, <2>2, <3>2
  <2> QED BY <2>1, <2>2, DocumentWrites DEF LiveDocument
<1>2. ASSUME NEW r \in Requests, pc'[r] = "drop", call[r].op = "purge"
      PROVE  document'[Target(r)].row # "never"
  <2>1. Target(r) \in Documents /\ document[Target(r)].row # "never"
    BY <1>2 DEF IngestOnce, CallsOK, Target
  <2> QED BY <2>1, DocumentWrites
<1> QED BY <1>1, <1>2 DEF IngestOnce, OneIngestEach, Target

LEMMA IngestBegins ==
  ASSUME TypeInv, IngestOnce, NEW r \in Requests, Begin(r)
  PROVE  IngestOnce'
<1> USE DEF TypeInv, TypeOK
<1>1. PICK c \in Calls : call' = [call EXCEPT ![r] = c] /\ Goto(r, FirstOf[c.op])
  BY DEF Begin
<1>2. /\ UNCHANGED document
      /\ call'[r] = c /\ pc'[r] = FirstOf[c.op]
      /\ \A q \in Requests \ {r} : call'[q] = call[q] /\ pc'[q] = pc[q]
  BY <1>1 DEF Begin, Goto, tables
<1>3. /\ FirstOf[c.op] = "insert" => c.op = "ingest"
      /\ c.op = "ingest" => /\ document[c.document].row = "never"
                            /\ \A q \in Requests : call[q] # c
      /\ c.op = "purge" => document[c.document].row # "never"
  <2>1. FirstOf[c.op] = "insert" => c.op = "ingest"
    BY CallsAreTyped DEF FirstOf, Ops
  <2>2. /\ c.op = "ingest" => /\ document[c.document].row = "never"
                              /\ \A q \in Requests : call[q] # c
        /\ c.op = "purge" => document[c.document].row # "never"
    <3>1. CASE \E d \in Documents : /\ document[d].row = "never" /\ ~Claimed(d)
                                    /\ c = OnDocument("ingest", d)
      BY <3>1 DEF Claimed, OnDocument
    <3>2. CASE \E op \in {"deleteDocument", "reindex", "createChunk",
                          "deleteChunks", "purge"}, d \in Documents :
                 document[d].row # "never" /\ c = OnDocument(op, d)
      BY <3>2 DEF OnDocument
    <3>3. CASE c \in {OnChunk(op, e) : op \in {"insertEmbedding", "deleteChunk"},
                                      e \in {x \in Chunks : chunk[x].row # "never"}}
      BY <3>3 DEF OnChunk
    <3>4. CASE \/ c \in {OnEmbedding("deleteEmbedding", m) :
                         m \in {x \in Embeddings : embedding[x].row # "never"}}
               \/ c = OnDocument("search", NoDocument)
      BY <3>4 DEF OnEmbedding, OnDocument
    <3>5. CASE c \in {OnDocument(op, d) :
                        op \in {"deleteDocument", "reindex", "createChunk",
                                "deleteChunks", "purge"},
                        d \in {x \in Documents : document[x].row # "never"}}
      BY <3>2, <3>5
    <3>6. CASE c \in {OnDocument("ingest", d) :
                        d \in {x \in Documents :
                                 document[x].row = "never" /\ ~Claimed(x)}}
      BY <3>1, <3>6
    <3>7. c \in Calls
      OBVIOUS
    <3> QED BY ONLY <3>3, <3>4, <3>5, <3>6, <3>7 DEF Calls
  <2> QED BY <2>1, <2>2
<1>4. OneIngestEach'
  BY <1>2, <1>3 DEF IngestOnce, OneIngestEach
<1> QED BY <1>2, <1>3, <1>4 DEF IngestOnce, Target

(* A step of r that leaves no call at a statement it was not at before, of *)
(* those that IngestOnce is about.                                         *)
Moved(r) ==
  \A q \in Requests : pc'[q] \in {"insert", "drop"} => pc'[q] = pc[q]

LEMMA IngestNext == TypeInv /\ IngestOnce /\ [Next]_vars => IngestOnce'
<1> SUFFICES ASSUME TypeInv, IngestOnce, [Next]_vars PROVE IngestOnce'
  OBVIOUS
<1> USE DEF TypeInv, TypeOK
<1>1. ASSUME NEW r \in Requests, Statement(r)
      PROVE  /\ UNCHANGED call
             /\ \A q \in Requests :
                  pc'[q] \in {"insert", "drop"} => pc'[q] = pc[q]
  <2>1. UNCHANGED call
    BY <1>1 DEF Statement, InsertDocument, WriteStatus, BulkCreate,
                FindDocument, SoftDelete, ListChunks, FindEmbedding,
                RemoveEmbedding, InsertEmbedding, InsertChunk, Drop, Search, Fail
  <2>2. \A label : (Goto(r, label) \/ Proceed(r, label)) =>
           (label \notin {"insert", "drop"} => Moved(r))
    BY DEF Proceed, Goto, AfterFailure, Moved
  <2>3. /\ Visit(todo[r]) \notin {"insert", "drop"}
        /\ Visit(todo'[r]) \notin {"insert", "drop"}
        /\ AfterFailure(r) \notin {"insert", "drop"}
    BY DEF Visit, AfterFailure
  <2>4. ASSUME WriteStatus(r) PROVE Moved(r)
    <3>1. AfterStatus[pc[r]] \notin {"insert", "drop"}
      BY <2>4 DEF WriteStatus, StatusWrites, AfterStatus
    <3> QED BY <2>2, <2>3, <2>4, <3>1 DEF WriteStatus
  <2>5. ASSUME RemoveEmbedding(r) PROVE Moved(r)
    BY <2>2, <2>3, <2>5 DEF RemoveEmbedding
  <2>6. ASSUME FindEmbedding(r) \/ Fail(r) PROVE Moved(r)
    <3>1. \/ Goto(r, Visit(todo'[r])) \/ Goto(r, "remove")
          \/ Goto(r, AfterFailure(r))
      BY <2>6 DEF FindEmbedding, Fail
    <3>2. ASSUME NEW label, label \notin {"insert", "drop"}, Goto(r, label)
          PROVE  Moved(r)
      BY <2>2, <3>2
    <3> HIDE DEF TypeInv, TypeOK
    <3> QED BY <2>3, <3>1, <3>2
  <2>7. ASSUME FindDocument(r) \/ ListChunks(r) \/ BulkCreate(r) PROVE Moved(r)
    BY <2>2, <2>3, <2>7 DEF FindDocument, ListChunks, BulkCreate
  <2>8. ASSUME \/ InsertDocument(r) \/ SoftDelete(r) \/ InsertEmbedding(r)
               \/ InsertChunk(r) \/ Drop(r) \/ Search(r)
        PROVE  Moved(r)
    BY <2>2, <2>8 DEF InsertDocument, SoftDelete, InsertEmbedding, InsertChunk,
                      Drop, Search
  <2>9. Moved(r)
    BY <1>1, <2>4, <2>5, <2>6, <2>7, <2>8 DEF Statement
  <2> QED BY <2>1, <2>9 DEF Moved
<1>2. ASSUME Crash \/ UNCHANGED vars
      PROVE  /\ UNCHANGED call
             /\ \A q \in Requests :
                  pc'[q] \in {"insert", "drop"} => pc'[q] = pc[q]
  BY <1>2 DEF Crash, vars
<1>3. \A r \in Requests : InsertDocument(r) => pc'[r] # "insert"
  BY DEF InsertDocument, Proceed, Goto, AfterFailure
<1>4. ASSUME NEW r \in Requests, Begin(r) PROVE IngestOnce'
  BY <1>4, IngestBegins
<1> QED BY <1>1, <1>2, <1>3, <1>4, IngestGoesOn DEF Next

LEMMA ChunkRowsStay ==
  ASSUME TypeInv, [Next]_vars, NEW c \in Chunks
  PROVE  /\ chunk[c].row = "gone" => chunk'[c].row = "gone"
         /\ LiveChunk(c) => chunk'[c] = chunk[c] \/ chunk'[c].row = "gone"
<1> USE DEF TypeInv, TypeOK
<1>1. ASSUME NEW r \in Requests, BulkCreate(r) \/ InsertChunk(r)
      PROVE  chunk[c].row # "never" => chunk'[c] = chunk[c]
  BY <1>1 DEF BulkCreate, InsertChunk
<1>2. ASSUME NEW r \in Requests, Drop(r)
      PROVE  chunk'[c] = chunk[c] \/ chunk'[c].row = "gone"
  BY <1>2 DEF Drop, NoChunkRow
<1>3. \/ UNCHANGED chunk
      \/ \E r \in Requests : BulkCreate(r) \/ InsertChunk(r) \/ Drop(r)
  BY DEF Next, Statement, Begin, InsertDocument, WriteStatus, FindDocument,
         SoftDelete, ListChunks, FindEmbedding, RemoveEmbedding,
         InsertEmbedding, Search, Fail, Crash, vars, tables
<1> QED BY <1>1, <1>2, <1>3 DEF LiveChunk

LEMMA EmbeddingRowsStay ==
  ASSUME TypeInv, [Next]_vars, NEW m \in Embeddings
  PROVE  /\ embedding[m].row = "gone" => embedding'[m].row = "gone"
         /\ embedding[m].row = "live" =>
              embedding'[m] = embedding[m] \/ embedding'[m].row = "gone"
<1> USE DEF TypeInv, TypeOK
<1>1. ASSUME NEW r \in Requests, InsertEmbedding(r)
      PROVE  embedding[m].row # "never" => embedding'[m] = embedding[m]
  BY <1>1 DEF InsertEmbedding
<1>2. ASSUME NEW r \in Requests, RemoveEmbedding(r)
      PROVE  embedding'[m] = embedding[m] \/ embedding'[m].row = "gone"
  BY <1>2 DEF RemoveEmbedding, NoEmbeddingRow
<1>3. ASSUME NEW r \in Requests, Drop(r)
      PROVE  embedding'[m] = embedding[m] \/ embedding'[m].row = "gone"
  BY <1>3 DEF Drop, Cascaded, NoEmbeddingRow
<1>4. \/ UNCHANGED embedding
      \/ \E r \in Requests : \/ InsertEmbedding(r) \/ RemoveEmbedding(r)
                             \/ Drop(r)
  BY DEF Next, Statement, Begin, InsertDocument, WriteStatus, BulkCreate,
         FindDocument, SoftDelete, ListChunks, FindEmbedding, InsertChunk,
         Search, Fail, Crash, vars, tables
<1> QED BY <1>1, <1>2, <1>3, <1>4

(* No interleaving brings a deleted document, chunk or embedding back.     *)
THEOREM DeletedNeverReturns == Spec => DeletedStaysDeleted
<1>1. TypeInv /\ IngestOnce /\ [Next]_vars => [RowsStayDeleted]_vars
  <2> SUFFICES ASSUME TypeInv, IngestOnce, [Next]_vars PROVE RowsStayDeleted
    OBVIOUS
  <2>1. ASSUME NEW d \in Documents
        PROVE  /\ document[d].row = "gone" => document'[d].row = "gone"
               /\ LiveDocument(d) => document'[d].row \in {"live", "gone"}
               /\ LiveDocument(d) /\ document[d].deleted /\ document'[d].row = "live"
                    => document'[d].deleted
    BY DocumentWrites DEF LiveDocument
  <2> QED BY <2>1, ChunkRowsStay, EmbeddingRowsStay DEF RowsStayDeleted
<1> QED
  BY IngestInit, IngestNext, Typing, <1>1, PTL DEF Spec, DeletedStaysDeleted

----------------------------------------------------------------------------
(***************************************************************************)
(* How every call ends: it goes through stages, and a reindex spends one   *)
(* of its chunks on every round of its loop.                               *)
(***************************************************************************)
(* The loop of a reindex is entered, and entered again, only with a chunk  *)
(* left to visit: a request is never left waiting between two statements.  *)
NoReindexHangs == \A r \in Requests : pc[r] = "embedding" => todo[r] # {}

Stage ==
  [idle |-> 0, insert |-> 1, find |-> 1, embed |-> 1, chunk |-> 1, drop |-> 1,
   search |-> 1, processing |-> 2, softDelete |-> 2, list |-> 2, chunks |-> 3,
   embedding |-> 3, remove |-> 3, ready |-> 4, pending |-> 4, compensate |-> 5,
   done |-> 6, failed |-> 6, lost |-> 6]
Forward(r) == Stage[pc[r]] < Stage[pc'[r]]
VisitsOn(r) ==
  /\ pc'[r] \in {"embedding", "remove"}
  /\ \/ pc[r] = "embedding" /\ \E c \in todo[r] : todo'[r] = todo[r] \ {c}
     \/ pc[r] = "remove" /\ pc'[r] = "embedding" /\ todo'[r] = todo[r]
Advances(r) ==
  /\ Forward(r) \/ VisitsOn(r)
  /\ pc[r] # "idle" => call'[r] = call[r]
Rests(r) == pc'[r] = pc[r] /\ call'[r] = call[r] /\ todo'[r] = todo[r]

(* Every step moves one call on and leaves the others where they are, or   *)
(* is the crash that ends all of them: no order of deletions, insertions   *)
(* and failures sends a call back, or makes a reindex visit a chunk twice. *)
CallsAdvance ==
  [][\/ \E r \in Requests : Advances(r) /\ \A q \in Requests \ {r} : Rests(q)
     \/ \A r \in Requests : IF InFlight(r) THEN Forward(r) /\ pc'[r] = "lost"
                                           ELSE Rests(r)]_vars

LEMMA Stages ==
  /\ Stage["idle"] = 0
  /\ \A l \in {"insert", "find", "embed", "chunk", "drop", "search"} :
       Stage[l] = 1
  /\ \A l \in {"processing", "softDelete", "list"} : Stage[l] = 2
  /\ \A l \in {"chunks", "embedding", "remove"} : Stage[l] = 3
  /\ \A l \in {"ready", "pending"} : Stage[l] = 4
  /\ Stage["compensate"] = 5
  /\ \A l \in {"done", "failed", "lost"} : Stage[l] = 6
BY DEF Stage

(* A failure ends a call, or makes an ingestion write FAILED.              *)
LEMMA FailureForward ==
  ASSUME TypeInv, NEW r \in Requests, InFlight(r)
  PROVE  Stage[pc[r]] < Stage[AfterFailure(r)]
<1>1. CASE call[r].op = "ingest" /\ pc[r] \in {"processing", "chunks", "ready"}
  BY <1>1, Stages DEF AfterFailure
<1>2. CASE ~(call[r].op = "ingest" /\ pc[r] \in {"processing", "chunks", "ready"})
  <2>1. AfterFailure(r) \in {"lost", "failed"}
    BY <1>2 DEF AfterFailure
  <2> QED BY <2>1, Stages DEF InFlight, Waiting, StatusWrites
<1> QED BY <1>1, <1>2

(* A statement of r that changes no other call and takes r to a later      *)
(* stage.                                                                  *)
LEMMA ForwardStep ==
  ASSUME TypeInv, NEW r \in Requests, NEW label, Goto(r, label),
         Stage[pc[r]] < Stage[label], UNCHANGED call,
         \A q \in Requests \ {r} : todo'[q] = todo[q]
  PROVE  Advances(r) /\ \A q \in Requests \ {r} : Rests(q)
BY DEF TypeInv, TypeOK, Goto, Advances, Forward, Rests

LEMMA ProceedStep ==
  ASSUME TypeInv, NEW r \in Requests, NEW label, Proceed(r, label), InFlight(r),
         Stage[pc[r]] < Stage[label], UNCHANGED <<call, todo>>
  PROVE  Advances(r) /\ \A q \in Requests \ {r} : Rests(q)
BY FailureForward, ForwardStep DEF Proceed

LEMMA StatementAdvances ==
  ASSUME TypeInv, NoReindexHangs, NEW r \in Requests, Statement(r)
  PROVE  Advances(r) /\ \A q \in Requests \ {r} : Rests(q)
<1> DEFINE Goal == Advances(r) /\ \A q \in Requests \ {r} : Rests(q)
<1>1. InFlight(r)
  BY DEF Statement, InsertDocument, WriteStatus, BulkCreate, FindDocument,
         SoftDelete, ListChunks, FindEmbedding, RemoveEmbedding,
         InsertEmbedding, InsertChunk, Drop, Search, Fail, InFlight, Waiting,
         StatusWrites
<1>2. CASE \/ InsertDocument(r) \/ SoftDelete(r) \/ InsertEmbedding(r)
           \/ InsertChunk(r) \/ Drop(r)
  <2>1. \/ pc[r] = "insert" /\ Proceed(r, "processing")
        \/ pc[r] \in {"softDelete", "embed", "chunk", "drop"} /\ Proceed(r, "done")
    BY <1>2 DEF InsertDocument, SoftDelete, InsertEmbedding, InsertChunk, Drop
  <2>2. UNCHANGED <<call, todo>>
    BY <1>2 DEF InsertDocument, SoftDelete, InsertEmbedding, InsertChunk, Drop,
                loop
  <2>3. /\ Stage["insert"] < Stage["processing"]
        /\ \A l \in {"softDelete", "embed", "chunk", "drop"} :
             Stage[l] < Stage["done"]
    BY Stages
  <2> QED BY <1>1, <2>1, <2>2, <2>3, ProceedStep
<1>3. CASE WriteStatus(r)
  <2>1. pc[r] \in StatusWrites /\ UNCHANGED <<call, todo>>
    BY <1>3 DEF WriteStatus, loop
  <2>2. Stage[pc[r]] < Stage[AfterStatus[pc[r]]] /\ Stage[pc[r]] < Stage["failed"]
    BY <2>1, Stages DEF StatusWrites, AfterStatus
  <2>3. \/ Goto(r, "failed") \/ Proceed(r, AfterStatus[pc[r]])
        \/ Goto(r, AfterFailure(r))
    BY <1>3 DEF WriteStatus
  <2> QED BY <1>1, <2>1, <2>2, <2>3, ProceedStep, ForwardStep, FailureForward
<1>4. CASE BulkCreate(r)
  <2>1. pc[r] = "chunks" /\ UNCHANGED <<call, todo>>
    BY <1>4 DEF BulkCreate, loop
  <2>2. Proceed(r, "ready") \/ Goto(r, AfterFailure(r))
    BY <1>4 DEF BulkCreate
  <2>3. Stage["chunks"] < Stage["ready"]
    BY Stages
  <2> QED BY <1>1, <2>1, <2>2, <2>3, ProceedStep, ForwardStep, FailureForward
<1>5. CASE FindDocument(r) \/ Search(r)
  <2>1. /\ pc[r] \in {"find", "search"} /\ UNCHANGED <<call, todo>>
        /\ Goto(r, "list") \/ Goto(r, "softDelete") \/ Goto(r, "done")
    BY <1>5 DEF FindDocument, Search
  <2>2. \A l \in {"list", "softDelete", "done"} : Stage[pc[r]] < Stage[l]
    BY <2>1, Stages
  <2> QED BY <2>1, <2>2, ForwardStep
<1>6. CASE Fail(r)
  <2>1. Goto(r, AfterFailure(r)) /\ UNCHANGED <<call, todo>>
    BY <1>6 DEF Fail, loop
  <2> QED BY <1>1, <2>1, ForwardStep, FailureForward
<1>7. CASE ListChunks(r)
  <2>1. /\ pc[r] = "list" /\ UNCHANGED call
        /\ Goto(r, "pending") \/ Goto(r, "embedding")
        /\ \A q \in Requests \ {r} : todo'[q] = todo[q]
    BY <1>7 DEF ListChunks, TypeInv, TypeOK
  <2>2. Stage["list"] < Stage["pending"] /\ Stage["list"] < Stage["embedding"]
    BY Stages
  <2> QED BY <2>1, <2>2, ForwardStep
<1>8. CASE FindEmbedding(r)
  <2>1. PICK c \in todo[r] : todo' = [todo EXCEPT ![r] = Rest(@, c)]
    BY <1>8 DEF FindEmbedding
  <2>2. /\ pc[r] = "embedding" /\ UNCHANGED call
        /\ todo'[r] = todo[r] \ {c}
        /\ \A q \in Requests \ {r} : todo'[q] = todo[q]
    BY <1>8, <2>1 DEF FindEmbedding, Rest, TypeInv, TypeOK
  <2>3. \/ Goto(r, "pending")
        \/ Goto(r, "embedding") \/ Goto(r, "remove")
    BY <1>8 DEF FindEmbedding, Visit
  <2>4. CASE Goto(r, "pending")
    <3>1. Stage["embedding"] < Stage["pending"]
      BY Stages
    <3> QED BY <2>2, <2>4, <3>1, ForwardStep
  <2>5. CASE Goto(r, "embedding") \/ Goto(r, "remove")
    BY <2>2, <2>5 DEF TypeInv, TypeOK, Goto, Advances, VisitsOn, Rests
  <2> QED BY <2>3, <2>4, <2>5
<1>9. CASE RemoveEmbedding(r)
  <2>1. /\ pc[r] = "remove" /\ UNCHANGED <<call, todo>>
        /\ \/ Proceed(r, "pending") \/ Proceed(r, "done")
           \/ Proceed(r, "embedding")
    BY <1>9 DEF RemoveEmbedding, Visit, loop
  <2>2. Stage["remove"] < Stage["pending"] /\ Stage["remove"] < Stage["done"]
    BY Stages
  <2>3. CASE Proceed(r, "pending") \/ Proceed(r, "done")
    BY <1>1, <2>1, <2>2, <2>3, ProceedStep
  <2>4. CASE Goto(r, AfterFailure(r))
    BY <1>1, <2>1, <2>4, ForwardStep, FailureForward
  <2>5. CASE Goto(r, "embedding")
    BY <2>1, <2>5 DEF TypeInv, TypeOK, Goto, Advances, VisitsOn, Rests
  <2> QED BY <2>1, <2>3, <2>4, <2>5 DEF Proceed
<1> QED
  BY <1>2, <1>3, <1>4, <1>5, <1>6, <1>7, <1>8, <1>9 DEF Statement

LEMMA BeginAdvances ==
  ASSUME TypeInv, NEW r \in Requests, Begin(r)
  PROVE  Advances(r) /\ \A q \in Requests \ {r} : Rests(q)
<1>1. PICK c \in Calls : call' = [call EXCEPT ![r] = c] /\ Goto(r, FirstOf[c.op])
  BY DEF Begin
<1>2. FirstOf[c.op] \in {"insert", "find", "embed", "remove", "chunk", "drop",
                         "search"}
  BY CallsAreTyped DEF FirstOf, Ops
<1>3. Stage["idle"] < Stage[FirstOf[c.op]]
  BY <1>2, Stages
<1> QED BY <1>1, <1>3 DEF Begin, Goto, TypeInv, TypeOK, Advances, Forward, Rests

LEMMA HangInit == Init => NoReindexHangs
BY DEF Init, NoReindexHangs

LEMMA HangNext == TypeInv /\ NoReindexHangs /\ [Next]_vars => NoReindexHangs'
<1> SUFFICES ASSUME TypeInv, NoReindexHangs, [Next]_vars,
                    NEW q \in Requests, pc'[q] = "embedding"
             PROVE  todo'[q] # {}
  BY DEF NoReindexHangs
<1> USE DEF TypeInv, TypeOK
<1>1. CASE Rests(q)
  BY <1>1 DEF NoReindexHangs, Rests
<1>2. ASSUME NEW r \in Requests, Statement(r), q = r PROVE todo'[q] # {}
  <2>1. CASE ListChunks(r)
    BY <1>2, <2>1 DEF ListChunks, Goto
  <2>2. CASE FindEmbedding(r)
    BY <1>2, <2>2 DEF FindEmbedding, Goto, Visit
  <2>3. CASE RemoveEmbedding(r)
    BY <1>2, <2>3 DEF RemoveEmbedding, Proceed, Goto, Visit, AfterFailure, loop
  <2>4. CASE WriteStatus(r)
    BY <1>2, <2>4 DEF WriteStatus, StatusWrites, AfterStatus, Proceed, Goto,
                      AfterFailure
  <2>5. CASE Fail(r)
    BY <1>2, <2>5 DEF Fail, Goto, AfterFailure
  <2> QED
    BY <1>2, <2>1, <2>2, <2>3, <2>4, <2>5
       DEF Statement, InsertDocument, BulkCreate, FindDocument, SoftDelete,
           InsertEmbedding, InsertChunk, Drop, Search, Proceed, Goto,
           AfterFailure
<1>3. ASSUME NEW r \in Requests, Begin(r), q = r PROVE FALSE
  <2>1. PICK c \in Calls : Goto(r, FirstOf[c.op])
    BY <1>3 DEF Begin
  <2>2. FirstOf[c.op] # "embedding"
    BY CallsAreTyped DEF FirstOf, Ops
  <2> QED BY <1>3, <2>1, <2>2 DEF Goto
<1>4. CASE Crash
  BY <1>4 DEF Crash, loop, NoReindexHangs
<1>5. CASE UNCHANGED vars
  BY <1>1, <1>5 DEF vars, loop, Rests
<1>6. ASSUME NEW r \in Requests, Begin(r) \/ Statement(r), q # r PROVE Rests(q)
  <2> HIDE DEF TypeInv, TypeOK
  <2> QED BY <1>6, BeginAdvances, StatementAdvances
<1> QED BY <1>1, <1>2, <1>3, <1>4, <1>5, <1>6 DEF Next

(* No reindex is left in its loop without a chunk to visit.                *)
THEOREM ReindexNeverHangs == Spec => []NoReindexHangs
BY HangInit, HangNext, Typing, PTL DEF Spec

(* Whatever others do meanwhile, a step of a call brings it nearer its end.*)
THEOREM CallsOnlyAdvance == Spec => CallsAdvance
<1>1. TypeInv /\ NoReindexHangs /\ [Next]_vars =>
        [\/ \E r \in Requests : Advances(r) /\ \A q \in Requests \ {r} : Rests(q)
         \/ \A r \in Requests : IF InFlight(r) THEN Forward(r) /\ pc'[r] = "lost"
                                               ELSE Rests(r)]_vars
  <2> SUFFICES ASSUME TypeInv, NoReindexHangs, Next
               PROVE  \/ \E r \in Requests :
                           Advances(r) /\ \A q \in Requests \ {r} : Rests(q)
                      \/ \A r \in Requests :
                           IF InFlight(r) THEN Forward(r) /\ pc'[r] = "lost"
                                          ELSE Rests(r)
    OBVIOUS
  <2>1. ASSUME Crash, NEW r \in Requests
        PROVE  IF InFlight(r) THEN Forward(r) /\ pc'[r] = "lost" ELSE Rests(r)
    <3>1. /\ pc'[r] = IF InFlight(r) THEN "lost" ELSE pc[r]
          /\ UNCHANGED <<call, todo>>
      BY <2>1 DEF Crash, loop
    <3>2. InFlight(r) => Stage[pc[r]] < Stage["lost"]
      BY Stages DEF InFlight, Waiting, StatusWrites
    <3> QED BY <3>1, <3>2 DEF Forward, Rests
  <2> QED BY <2>1, BeginAdvances, StatementAdvances DEF Next
<1> QED
  BY HangInit, HangNext, Typing, <1>1, PTL DEF Spec, CallsAdvance
=============================================================================
