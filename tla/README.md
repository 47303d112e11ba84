# Ascended-VectorDB in TLA+

A verification project for the TypeScript service under `src/` (an Express API
over PostgreSQL with pgvector, through Prisma, with a Redis helper). The modules
here model what the code does to its tables, statement by statement, and say
what must hold when requests interleave, fail, race a deletion or die with the
process.

## 1. Inventory

Every service method is an `async` function: it issues one database statement,
awaits, and continues. There is no transaction around the statements of a
method, and several server processes may run against one database, so between
two awaits anything may happen. This is where the difficult behaviour is.

| Component | State | Operations | What is hard | What makes it correct |
|---|---|---|---|---|
| Execution service, execution / task / event repositories (`src/src/services/execution.service.ts`) | tables Execution, Task, Event | create, updateStatus, appendTask, markComplete, markFailed, replayFromStep, getExecutionTimeline; delete in the repository | row and event written by different statements; retries read then written; replay starts one update per task and awaits them together; deletes cascade under requests in flight; crash between statements | the audit trail is true and complete for calls that succeed; retries never overcount; a replay restarts an execution only after every reset; nothing refers to a deleted row |
| Document service (`document.service.ts`) | Document, DocumentChunk | ingestDocument, processChunks, getDocumentStatus, deleteDocument | three status writes with a bulk insert between; a catch that writes FAILED and swallows its own failure; soft delete races ingestion | a deleted document stays deleted; no ingestion stays in PROCESSING; success means READY |
| Vector service (`vector.service.ts`) | Embedding | insertEmbedding, deleteEmbedding, reindexDocument, searchSimilar, hybridSearch | reindex reads the chunks, then for each reads and deletes an embedding while others insert | at most one embedding per chunk; after a reindex no embedding of before is left |
| Agent memory service (`agent-memory.service.ts`) | AgentMemory, Embedding | storeMemory, recallMemory, recallSemantic, forgetMemory, pruneExpiredMemories | time passes between computing an expiry or a cutoff and the statement that uses it; upsert keeps omitted fields | prune removes only what is expired; recall answers only what is not; the TTL of the last store counts |
| Chunking (`utils/chunking.ts`) | none (pure) | fixedSizeChunk, slidingWindowChunk, semanticChunk | boundaries: overlap, last chunk, step larger than the window | coverage, size, exact overlap, no redundant chunk, termination |
| Event service and its routes (`event.service.ts`, `event.routes.ts`) | Event | ingestEvent, getEventsByType, processEventBusMessage, list, delete | the bus delivers late, again and out of order, and nothing deduplicates; rows come and go between the pages of a listing | a listing shows what was reported, newest first, and misses or repeats a row only for a tie or a shift |
| Tenant service and API keys (`tenant.service.ts`, `tenant.routes.ts`) | Tenant, ApiKey | createTenant, validateTenant, generateApiKey | slug checked, then inserted: the unique index decides the race | one owner per slug |
| Prisma guard (`lib/prisma.ts`) | none | middleware on every write | it looks for `tenant_id` in `data`, which is an array for `createMany` and absent from some updates | writes that carry a tenant pass |
| Middleware and routes (`middleware/*`, `api/routes/*`) | per request | auth, tenant, validation, error handling | checks and handler are different statements: a key expires, a key or tenant is switched off in between; the two checks never meet: whose the key is, nothing asks | a handler runs only for a key and a tenant that were in force since the request came, and for a key of that tenant (the code does not keep the last, section 7) |
| Pagination (`utils/pagination.ts`, the `list` methods) | none | skip / take / count | rows stored or removed between two pages shift the pages; page and count are two statements | no further page without a reason; the end is reached only past every row that was there |
| Cache and Redis (`utils/cache.ts`, `lib/redis.ts`) | Redis | get, set, delete, clear | SCAN loop while keys change | no service uses it yet |
| Workflow repository and routes (`workflow.repository.ts`, `workflow.routes.ts`) | Workflow | create, read, update, delete | PATCH hands on its body unvalidated: an id or tenant in it meets the row and the read back | a workflow stays its tenant's, and only a request that names that tenant touches it |

Interaction: routes call services, services call repositories, repositories call
the Prisma client whose middleware checks every write. The event table is shared
by the execution service (audit trail) and the event service (bus). Embedding
rows hang off chunks and memories by foreign keys with cascade.

## 2. Plan

In order of importance for the state the service keeps, all done:

1. **ExecutionLifecycle**, over the abstract **StatusJournal**.
2. **DocumentPipeline**: documents, chunks and embeddings share cascades, soft
   deletion and the prisma guard, so they are one module; with the searches.
3. **Chunking**: the algorithm whose result `processChunks` stores, and the two
   others of the same file.
4. **AgentMemory**: expiry under a running clock, with semantic recall.
5. **EventFeed**: the event service under redelivery and reordering, listed page
   by page (`utils/pagination.ts`) while rows come and go.
6. **RequestPipeline**: tenants, API keys and the chain of middleware in front of
   the handlers, composed with those of the workflow routes; over the abstract
   **SlugRegistry** for the creation of tenants.

Dropped: an abstract *EmbeddingSlots* (a slot that is filled, emptied and
refilled) would restate `OnePerChunk`, which `ReindexForgetsOld` already rests
on; *CacheClear* (the SCAN loop of `cacheClear`) models code that nothing calls,
and its guarantees are those of Redis.

## 3. Modules and the code

**One action is one awaited statement.** `pc[r]` names the statement request `r`
waits to issue; between two statements anything else may run, in this process or
another. A repository's `update` is `updateMany` followed by a `findFirst` which
throws when it finds nothing; what it reads is only returned to the caller, so
the two are one action with the outcomes of both: it took effect and the call goes
on, it took effect and the call fails, it had no effect. `Proceed` is the first
two, `Fail` the third. A lost answer is therefore a possible outcome of every
write (where the constant `Failures` is TRUE; in ExecutionLifecycle always). `Crash` ends every request in flight and leaves the tables: `src/src/index.ts`
exits without draining, and no request is resumed. Ids are UUIDs, so a row goes
from `never` to `live` to `gone` and never back. Initial states hold any
consistent tables: rows earlier requests may have left.

| Module | Models | State | Left out |
|---|---|---|---|
| `ExecutionLifecycle` | execution service; execution, task and event repositories | `execution`, `task`, `events` (tables); `pc`, `call`, `seen` (retries read by markFailed), `promise` (per replay and task) | SKIPPED and RETRYING task statuses, which no code tells from FAILED; payloads; reads that only answer |
| `StatusJournal` | what the above promises about its audit trail: a status write, then one event or a call that reports failure | `written`, `logged`, `lost` | - |
| `DocumentPipeline` | document and vector services; document, chunk and embedding repositories; the guard on bulk inserts | `document`, `chunk`, `embedding`; `pc`, `call`, `todo`, `found`, `answer` (of a search) | texts, vectors, ranks, topK; listing |
| `Chunking` | `fixedSizeChunk`, `slidingWindowChunk`, one action per iteration; `semanticChunk`, one action per segment of the split | `i`, `chunks` and the arguments | a chunk is the half-open interval it was sliced from; characters are `visible`, `space` or `newline`, and only `semanticChunk` looks at them |
| `AgentMemory` | agent memory service and repository, one agent of one tenant | `now`, `memory` (table, by key), `instant`, `snapshot`, `answer` | values: a value is the store that wrote it; vectors and ranks |
| `EventFeed` | event service, repository and routes; pagination; one tenant | `now`, `sent` (what there is to report), `event` and `removed` (table), `message` and `answer` per delivery, `listing` per reader | payloads; single reads; the timeline |
| `RequestPipeline` | key check, tenant check, validation, workflow handlers; tenant service | `now`; `tenant`, `apiKey`, `workflow` (tables); `pc`, the headers, `cutoff`, `status` per request | what the schemas accept; listing |
| `SlugRegistry` | what `createTenant` promises: a creation takes its slug, or is refused, in one step | `claim`, `taken`, `outcome` | - |

The variables marked *history* in a module (`wrote`, `failures`, `before`, `due`,
`gone`, `steady`, `touched`, `inForce`, and in a `Listing` the fields `acked`, `arrived`,
`left`, `shown`) only record; no guard reads them.

Details that matter:

- *Replay.* `findByExecutionId` orders by `created_at`, which is neither unique
  nor monotone across processes, so `Suffixes` allows every order of equal
  rows. `Promise.all` rejects at the first rejection and the other updates run on:
  their promises stay `pending` after `pc` is `failed`. `output: undefined` is no
  change to Prisma, so a reset keeps `output`.
- *Cascades* are those of the migration (`migration.sql:84,102,137,175-176`; the relations of
  `schema.prisma` name none): execution to tasks CASCADE, to events SET NULL;
  document to chunks, and chunks and memories to embeddings, CASCADE.
- *Keys.* A key has the tenant id `generateApiKey` was given, which no foreign key binds
  (`migration.sql:192-204`): `Owners` are the tenants there are and `Absent`, which stands for
  any other id. `Accepts` is the where clause of the lookup, which leaves it out; no action
  reads it, and `KeysAdmitOwnTenant` alone speaks of it.
- *Ingestion.* `bulkCreate` gives `createMany` an array; the guard in
  `lib/prisma.ts` looks for a key `tenant_id` in it and finds indices. `BulkCreate`
  evaluates that test (`GuardAccepts(ArrayKeys)`), so its accepting branch, which
  would insert chunks, does not run as the code stands; it is kept because a
  repair of the guard is a one-line change there. Chunks exist in
  the model through `documentChunkRepository.create` and the initial states.
- *Reindexing* visits chunks by `chunk_index`, which nothing keeps unique:
  in any order. `update` writes the status of a soft-deleted document and then
  throws, because its read back filters on `deleted_at`.
- *Upsert* is Prisma's native `ON CONFLICT DO UPDATE`, one atomic statement. An
  `expires_at` of `undefined` is left out of the update.
- *Clock.* One clock for all processes and the database. A store, a prune and the
  filter of a recall each read it once; the clock may move between that and the
  statement. In `recallMemory` `Find` and `Filter` are separate actions because the
  rows travel in between.
- *Paging.* The two statements of a page travel in one `$transaction`, which runs
  READ COMMITTED: each sees the table of its own moment, so `FindMany` and `Count` are
  two actions. Rows of one timestamp come in any order, and not the same one on
  the next page. `page` and `limit` stay as the client set them; `getEventsByType` and
  `buildPaginatedResult` compute the same `hasMore`.
- *Delivery.* A message is delivered until a delivery of it is answered, and a
  second may start while the first is under way. A row from the bus keeps the time it
  is given, one from POST gets that of its insert; each delivery is a row.
- *What a request carries* (body, id) is chosen at the step that first looks at it.
  `authMiddleware` takes its instant before it awaits, so `cutoff` is set on arrival.
  The update of `last_used_at` that it starts is refused by the guard, which finds no
  `tenant_id` in its data, and only logged: no action changes a table for it.
  The `updateMany` of PATCH and its read back are one action with the outcomes of both.
- *semanticChunk.* `/\n{2,}/` takes all the newlines there are, so the next segment
  starts at something else; a segment is trimmed, and dropped if nothing is left.
  A carriage return is white space like any other: a text with CRLF line ends is
  never split.

Every module has operators named `Bad...`: slips this code could have made (a
dropped guard, an off-by-one, a missing cascade). Nothing uses them; putting one
in place of the definition it is a variant of breaks the property that
PROJECT.json pairs it with, which shows that the property depends on that code.

`MC*.tla` extend the modules with the symmetry sets and, for Chunking, the ranges
of the inputs.

## 4. Runs

| Run | Instance | Shows |
|---|---|---|
| `ExecutionReplay.cfg` | one execution, two tasks, two steps, two `created_at` values, two requests, workers | `NoOrphans`, `ReplayIsComplete`, `ReplaySparesEarlierTasks`, `DeletedStaysDeleted` in every interleaving of two calls of any kind, with failures and crashes |
| `ExecutionCalls.cfg` | one execution, two tasks, two requests, fair | `EventsAreBacked`, `SuccessIsRecorded`, `RetriesBounded`, `OutputIsEarned`; `RequestsSettle`; that the service implements `StatusJournal`, fairness included: every status write ends logged or lost |
| `DocumentRaces.cfg` | one document, two chunks, three embeddings, three requests | `ProcessingIsOwned`, `ReindexForgetsOld`, `SearchForgetsReindexed`, `NoOrphans` |
| `DocumentLiveness.cfg` | the same with two requests and two embeddings, no failing statement, fair | `NoDocumentStuck`, `CallsEnd` |
| `ChunkingAll.cfg` | every length 0..14 with every size, overlap and step in -1..8; every text of up to 8 visible characters, spaces and newlines | sizes, overlap, coverage, and equality with a closed form of the result; `ParagraphsHold`; `LoopsAdvance`: no iteration runs in place or past the end |
| `MemoryExpiry.cfg` | two keys, three requests, TTLs 1 and 2, instants 0..2 | `TtlIsKept`, `PruneSparesRecallable`, `RecallIsFresh`, `RecallMissesOnlyWritten` |
| `EventFeed.cfg` | two messages of two types, three deliveries, one reader, limits 1 and 2, instants 0 and 1 | `ListingIsComplete`, `ListingIsOrdered`, `RepeatsAreShifts`, `PagesAreEarned` |
| `RequestPipeline.cfg` | two requests, two tenants, two slugs, one key, two workflows, instants 0 and 1 | `SlugsAreOwned`, `AdmittedWasInForce`, `WritesFollowTenantHeader` (of the tenant header: neither says whose the key is) |
| `FailureCount.cfg`, `IngestReady.cfg`, `StoreAgain.cfg`, `KeyScope.cfg` | the smallest instance that shows it | a statement of a comment or document that the code does not keep (section 7) |

Why the bounds are enough. The service methods never name a second
execution or document, so one row and what hangs off it carries every conflict; a second
would multiply states without a new interaction. Two requests are needed for a
race; three let a third change what two have already read (a
slot that is emptied and refilled, an expiry renewed and then pruned). Executions
make do with two, because all their safety properties are proved for any number. Two tasks
with two steps and two times give a replay a task to keep and one to reset, in
either order or tied. Three embeddings over two chunks let a chunk be emptied,
refilled and refilled again under a reindex. Instants 0..2 and TTLs 1 and 2 put
every comparison before, at and after an expiry. A text of 14 characters
holds several windows of every size up to 8 and a partial one; 8 characters
hold two paragraphs with blanks around them and separators of up to six newlines. Three
deliveries of two messages let one come twice and fill three pages of one row, or
one and a half of two; more rows and readers only repeat this, as readers never meet.
Two requests of RequestPipeline meet as two creations of a slug, or as two
writers of a workflow, of the same or of different tenants. Where the
theorems of section 6 reach, the bounds do not matter.

Bounds in guards: `IdLeft` in DocumentPipeline (an insertion is called only while
an unused id is left, so that running out of ids never looks like a refusal),
`MaxTime` (the clock) in the three modules that have one, and the ids left for a
creation of a tenant in RequestPipeline. Every request makes one call; a client that
calls again, for instance to retry, is another request. So the systems do come to rest,
and the runs say `CHECK_DEADLOCK FALSE`; that calls do not hang is `RequestsSettle` and
`CallsEnd`. Requests and rows are symmetric in the safety runs (no action tells
them apart); the runs with fairness use no symmetry.

## 5. Fairness

The only fairness is `WF_vars(Statement(r))` for each request: a statement that
was issued is eventually answered or rejected. The code relies on that through
the Prisma engine, whose query and pool timeouts reject a promise nobody
answers. Nothing makes clients call, workers report or processes crash, and
nothing makes a statement succeed: `Fail` and `RejectReset` are disjuncts of
`Statement`, so the liveness of executions is that each call is answered, not that
it succeeds. `NoDocumentStuck` is checked where statements do not fail; with
failures a document can stay PROCESSING, and `ProcessingIsOwned` says exactly when.
The clocks, the event bus, readers and clients promise nothing, so AgentMemory, EventFeed
and RequestPipeline are checked for safety alone.

## 6. Proofs

`<Module>_proofs.tla` proves, for all values of the constants that satisfy the
module's `ConstantsAssumption` (sentinels differ from ids, statuses and clock
values lie where the code has them):

| Module | Theorems | Inductive invariant |
|---|---|---|
| ExecutionLifecycle | TypeCorrect, AuditTrailIsTrue, SuccessLeavesEvent, RetriesNeverOvercount, ForeignKeysHold | `TypeInv` = TypeOK, `CallsOK` (which call may wait at which statement), `PromisesOK` (only replays hold promises); `AuditInv`; `RetryInv`; NoOrphans |
| the same, in `ExecutionJournal_proofs` | ServiceKeepsJournal (refinement of StatusJournal), OutputsAreEarned, JournalOnlyGrows, EventsAreUnique | `AuditInv`, `KindsOK`; `OutputInv` |
| the same, in `ExecutionReplay_proofs` | ReplaysAreComplete, ReplaysSpareEarlier, DeletedRestForGood, ReplaysNeverHang, CallsOnlyAdvance, TrailsFollowExecutions, StatusIsStamped, StampsAreKept | `ReplayInv`; `FollowInv`; `DeletionInv` = `UsedOnce`, `GoneIsEmpty`, `NamedIsThere`; `TrailInv` |
| DocumentPipeline | TypeCorrect, ProcessingHasOwner, ReindexForgets, SearchForgets, ForeignKeysHold, DeletedNeverReturns, ReindexNeverHangs, CallsOnlyAdvance | `TypeInv` = TypeOK, `CallsOK`; ProcessingIsOwned; `ReindexInv` = `OnePerChunk`, `LeftInv`; `SearchInv`; NoOrphans; `IngestOnce` |
| Chunking | TypeCorrect, SizesCorrect, OverlapCorrect, EachChunkBringsMore, CoverageCorrect, LoopsEnd, ParagraphsCorrect, ResultsMatchReference, EveryLoopAdvances | `Inv` = the properties, `Passed`, `LoopInv` (where `i` is relative to the last chunk), `Coverage`, `Ending`; `Paragraphs`; `LoopForm` with MatchesReference |
| AgentMemory | TypeCorrect, MemoriesLast, PruneIsSafe, RecallAnswersFresh, RecallMissesLittle, AnswersAreReal, StoresTakeEffect, GoneStaysGone | `Inv` = TypeOK, `OpInv`, `ValuesInv`, `FreshInv`, `SteadyInv`, TtlIsKept; `KnownInv` |
| EventFeed | TypeCorrect, PagesEarned, RepeatsExplained, ListingsOrdered, ListingsComplete, AcknowledgedIsStored, EventsAreForGood, ListingsAnswerWhatWasAsked | `TypeInv` = TypeOK, `RowsInv`; `ListingInv` = `Shape`, `Complete`, `Shifts`, `Ordered`, `Earned` per reader; `Selected` |
| RequestPipeline | TypeCorrect, SlugsHaveOneOwner, AdmissionIsInForce, WritesFollowHeader, CreationsKeepRegistry (refinement of SlugRegistry), WorkflowsHaveAdmittedWriters | `Inv` = TypeOK, `PcInv`, `AdmissionInv`, SlugsAreOwned; WritersWereAdmitted |

Why each strengthening is needed:

- *AuditInv.* That an event's type is that of its write needs that a request
  which has not yet written has no event, and that one waiting to insert has
  written.
- *RetryInv.* `retries <= failures` survives a stale write only because what a
  markFailed has read is also at most `failures`, and `failures` only grows.
- *ProcessingIsOwned* is inductive given which statement belongs to which call:
  the status writes of one ingestion cannot be another's, ids being used once.
- *LeftInv.* An embedding of before that is still live during a reindex sits on a
  chunk of the document that is still to be visited, or is the one about to be
  deleted. The step that takes a chunk from `todo` needs `OnePerChunk` (the unique
  index): what it finds there is the only candidate.
- *The journal.* A step of the service maps to a write, a log, a loss or a stutter of
  StatusJournal; which, depends on the statement waited for, and that a request waiting to
  insert its event has written and not yet recorded is `AuditInv`. This is the
  safety half; that a write ends logged or lost under fairness is left to TLC.
- *OutputInv.* An output is written by a `markComplete` that waits at `output`, where
  `AuditInv` has its event recorded.
- *ReplayInv.* Nothing is read before the tasks are (`UnreadBefore`), a replay at its
  resets has seen no rejection (`NoneRejected`), one past them has all fulfilled
  (`AllFulfilled`), and a task left alone comes no later than one of the step that
  was chosen and lives as long (`KeptAreEarlier`); `FollowInv` says the converse of the
  tasks whose reset is pending. Both rest on tasks of one execution going together (`TasksStay`).
- *DeletionInv.* A row that is gone stays so because an insert finds its id unused:
  one creation per id (`UsedOnce`), and a delete names what was there (`NamedIsThere`).
  A row then goes only from never to live to gone (`RowsMove`).
- *TrailInv.* An event names the execution its call wrote, which was there then
  (`WrittenWasThere`) and so is live or gone for good: a deletion detaches exactly its own
  events, and none is inserted for a row that is gone. `RowsKeep` sorts every write to an
  execution into insert, deletion or a write that keeps stamps and output.
- *How calls end.* `CallsAdvance` of executions and documents orders the statements of a call
  in stages; a replay's resets and a reindex's chunks are the only loops, and each round
  uses one of them up (`FewerPending`, `VisitsOn`). `NoReplayHangs` and `NoReindexHangs` say that a
  loop in progress has one left. What is missing to `RequestsSettle` and `CallsEnd` is
  only that a statement is enabled, and happens.
- *IngestOnce.* An ingestion is the only one of its document's id, so its insert finds the id
  unused; a document that was purged or soft-deleted therefore never comes back by an insert, and
  the status writes, which do not look at `deleted_at`, leave it as it is.
- *SearchInv.* Embeddings that are gone stay gone, and a search answers live ones.
- *Paragraphs.* Every chunk so far begins and ends with a visible character and has no
  empty line inside, two of them have an empty line between them, all visible characters
  the loop has passed are in one, and while it runs it has just passed an empty line.
- *ListingInv.* `Ahead` counts the listed rows strictly newer than a row and is compared with
  `Skip`: a row that was there when the listing began has been shown, or is still to come
  (at least `Skip` are ahead of it), unless a removal above it has moved it up or a tie
  excuses it; a row shown has fewer than `Skip` ahead, unless an arrival above it has moved it
  down. `PagePlaces` turns a page (any order of ties) into these counts.
- *AdmissionInv.* Of the key and the tenant a request names, what is active now has been since it
  arrived, and each check it has passed holds of what it carries: expiries of keys never change,
  flags do. `inForce` keeps the two apart, and so do these theorems: a request is admitted with a key
  and a tenant, and a workflow is written for the tenant of the header, whosever the key is.
- *The registry.* Whatever `Lookup` saw, the step of a creation that decides is its insert (or
  a refusal): the unique index makes it one. The refinement maps an answered creation to
  granted or refused and one that died with its server to lost; a slug is taken if a tenant
  has it. `WritersWereAdmitted` is inductive with `AdmissionInv`, as nothing happens to a request that was
  answered (`AnsweredStays`).
- *LoopForm.* The loop has taken one step per chunk, so chunk `k` begins at `(k - 1) * Step`;
  `QuotientIs` identifies the quotients of the closed form when the loop leaves. No
  induction over the list is needed: the invariant carries it.
- *LoopInv.* All chunks pushed so far are full, and `i` is the start of the last
  plus the step; coverage and overlap follow from that, and from `IsLast` having
  been false.
- *ValuesInv and FreshInv.* A value is written once, by one store, so a value that
  is gone is not in the table, and a recall cannot read one that was gone when it began.
- *KnownInv.* A value that is in the table or gone was put there by a store of its key that ran its
  statement; an acknowledged store's value is one of these, and so is whatever a recall read.
- *Selected.* Rows never change after their insert (`RowsStand`), so the type a page was
  filtered by is still theirs.
- *SteadyInv.* Rows of keys untouched since the read are still as read, so a
  filter that misses one misses something no longer alive.
- *TtlIsKept* needs in `OpInv` that a prune's cutoff is not in the future.

Each preservation proof has one lemma or step per action; actions that do not
touch what a conjunct reads are covered by one "quiet" lemma per invariant.

Assumed is only `ConstantsAssumption` of each module; `Init` and `Next` are those the runs check.
The properties that only theorems state (`TrailOnlyGrows`, `OneEventPerCall`, `EventsFollow`,
`StampsFollow`, `StampsLast`, both `CallsAdvance`, `NoReplayHangs`, `NoReindexHangs`, `DeletedStaysDeleted` of documents,
`AnswersWereStored`, `AcknowledgedStoresTook`, `ValuesNeverReturn`, `AcknowledgedHasRow`, `RowsStand`,
`ListingsAnswerTheirFilter`, `WritersWereAdmitted`, `CountBounded`, `Registry!Spec`) are defined in the proof
modules, next to their proofs.

Only model-checked: `RequestsSettle`, `NoDocumentStuck`, `CallsEnd` and the fair half of
`JournalFairSpec`, because liveness under fairness and ENABLED are beyond the installed
provers. Every safety property of a passing run is a theorem.

## 7. Where the code differs from what it says

Each of these has a run whose counterexample is the trace:

- `FailureCount`: `markFailed` writes `existing.retries + 1` from a row read a
  statement earlier (`execution.service.ts:148`), so of two concurrent failures one
  is not counted; its comment (line 133) says it increments.
- `IngestReady`: the guard refuses every `createMany` with an array
  (`lib/prisma.ts:71`), so an undisturbed ingestion ends FAILED;
  `document.service.ts:33` says PENDING, PROCESSING, READY.
- `StoreAgain`: a store without a TTL keeps the expired `expires_at` of the row
  (`agent-memory.repository.ts:109`): it succeeds, is never recalled and is pruned;
  `agent-memory.service.ts:24-25` says the memory is stored, and expires if a TTL was given.
- `KeyScope`: a key is looked up by its hash alone (`auth.middleware.ts:32-38`) and nothing later
  compares its `tenant_id` with the tenant of the header, so the key of one tenant has requests
  handled for another. `auth.middleware.ts:4` says the lookup is scoped to the tenant,
  `multi-tenancy.md:65` that it is filtered by `tenant_id`, `architecture.md:79` that no access across
  tenants is possible through the API.

Seen while modelling and modelled as the code has it, without a run:

- `updateStatus` has no transition guard (`execution-tracking.md:22` draws one).
- A replay passes `output: undefined` (`execution.service.ts:176`), so a reset task keeps its output,
  and moves the execution to RUNNING, as its comment says; `architecture.md:163` has results cleared
  and the execution PENDING.
- Retries are counted in `markFailed` (`execution.service.ts:148`); `execution-tracking.md:120-121`
  counts them when `updateStatus` moves the execution back to RUNNING.
- The scopes of a key are stored and never checked (`architecture.md:219` says they are);
  `architecture.md:74` says ApiKey has no `tenant_id`, which it has.
- Searches do not filter `deleted_at` (`data-model.md:321`). `reindexDocument` refuses
  a soft-deleted document, though `data-model.md:323` keeps embeddings for it, and one
  already running goes on deleting after a soft deletion.
- `slidingWindowChunk` accepts a step larger than the window and skips characters, and its
  tail chunk may repeat what the last window held. `api-reference.md:451-452` gives other
  default chunk sizes than the code. The ingestion schema (`validation.ts:84-85`) admits an
  overlap not smaller than the size, 512 with the default size for one, which
  `fixedSizeChunk` rejects after the document is PROCESSING; it ends FAILED.
- Pruning is per tenant with no route, while `agent-memory.md` describes an endpoint
  per agent. `recallMemory` filters rows read earlier by a later clock and drops a
  memory that was renewed in between; `RecallMissesOnlyWritten` says so precisely.
- `last_used_at` of a key is never written: the guard refuses the update
  (`auth.middleware.ts:47`, `prisma.ts:71`). The comment of that file puts the key check
  after the tenant check; `api/routes/index.ts:28-29` mounts it before.
- `validateTenant` answers a failed statement as it does a missing tenant, with 403
  (`tenant.service.ts:74`).
- PATCH of a workflow with an `id` in its body renames the row and answers 500, as the read
  back looks for the old id (`workflow.repository.ts:58`).
- POST /events takes no time, so events posted late are listed by their insert; rows
  from the bus carry no execution and appear in no timeline.

## 8. Not modelled

The cache helpers and the Redis client, which no service calls. Configuration, logging and
type declarations, which keep no state. The health routes, and the error middleware, which no
handler reaches because each catches its own errors. What each validation schema accepts: a
handler runs for any input of the model, or validation answers 400. Single reads
(`getExecutionTimeline`, `getDocumentStatus`, `GET` by id) and the filters by status; the
`list` methods of the other repositories have the same two statements as that of events
over `created_at`, in PostgreSQL's order of ties. Repository methods that nothing calls (updates of events,
embeddings and memories, the bulk insert and the delete of tasks, which removes one row and no other).
Nothing calls the delete of executions or of events either: the former is modelled because its cascade
meets every call in flight, the latter, as removals in EventFeed, because they shift the pages of a listing. Ranks and vectors of the searches: a memory keeps
its embedding when its value is replaced, so semantic recall ranks the new value by the old
vector, and no property here speaks of it. PostgreSQL, Prisma and Node's promises
are modelled only by how this code uses them: statements are atomic, constraints are
enforced, an answer can be lost. Clock differences between processes
are modelled for `created_at` of tasks and not for expiry.
