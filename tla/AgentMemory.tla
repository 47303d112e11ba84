----------------------------- MODULE AgentMemory ------------------------------
(***************************************************************************)
(* The memories of one agent and their expiry: the agent memory service    *)
(* and its repository.  A request is a sequence of awaited statements, one *)
(* action each; time passes and other requests run between any two.  The   *)
(* clock is one for all server processes.                                  *)
(***************************************************************************)
EXTENDS Integers

CONSTANTS Requests,  \* service calls
          Keys,      \* keys of the agent's memories
          Ttls,      \* what clients pass as ttlSeconds
          MaxTime,   \* bound on the clock
          Failures,  \* whether statements may fail and processes may die
          Earlier,   \* who stored a memory that is there at the start
          Never,     \* no instant: expires_at is null, ttlSeconds is omitted
          Absent     \* no row, no key

ASSUME ConstantsAssumption ==
  /\ Ttls \subseteq Nat \ {0}
  /\ MaxTime \in Nat
  /\ Failures \in BOOLEAN
  /\ Earlier \notin Requests
  /\ Never \notin Int
  /\ Absent \notin Keys
  /\ Absent \notin [by: Requests \union {Earlier}, expires: Nat \union {Never}]

Instants == Nat \union {Never}
Writers == Requests \union {Earlier}
(* The value of a memory is known by the store that wrote it. *)
Row == [by: Writers, expires: Instants]

VARIABLES
  now,       \* the clock
  memory,    \* table AgentMemory, by key: the key is unique
  op, key, pc,
  instant,   \* expiresAt of a store, cutoff of a prune
  snapshot,  \* the rows a recall has read
  answer,    \* the keys it answered
  due,       \* history: per key, the expiry the last store with a TTL asked for
  gone,      \* history: values overwritten, forgotten or pruned
  before,    \* history: the values gone when a recall began
  steady,    \* history: keys recallable at every moment of a recall
  touched    \* history: keys written during a recall

table == <<memory, due, gone>>
request == <<op, key, instant>>
reading == <<snapshot, answer, before>>
vars == <<now, table, request, pc, reading, steady, touched>>

(* Operators named Bad... are slips this code could have made; nothing     *)
(* uses them, each breaks some property below.                             *)
BadExpired(e, t) == e = Never \/ e < t     \* null read as the epoch
(* expires_at < t in SQL: never of a null. *)
Expired(e, t) == e # Never /\ e < t
BadUnexpired(e, t) == e # Never /\ e > t   \* the null check dropped
(* !m.expires_at || m.expires_at > t *)
Unexpired(e, t) == e = Never \/ e > t

Stored(k) == memory[k] # Absent
(* The keys whose memory, in a table that holds rows, is alive at time t.  *)
Alive(rows, t) ==
  {k \in Keys : /\ rows[k] # Absent
                /\ rows[k].expires # Never => t < rows[k].expires}
Recallable == Alive(memory, now)
Recalling(r) == pc[r] \in {"find", "filter", "search"}

Init ==
  /\ now = 0
  /\ memory \in [Keys -> {Absent} \union
                   [by: {Earlier}, expires: (0..MaxTime) \union {Never}]]
  /\ op = [r \in Requests |-> "none"]
  /\ key = [r \in Requests |-> Absent]
  /\ pc = [r \in Requests |-> "idle"]
  /\ instant = [r \in Requests |-> Never]
  /\ snapshot = [r \in Requests |-> [k \in Keys |-> Absent]]
  /\ answer = [r \in Requests |-> {}]
  /\ due = [k \in Keys |-> IF Stored(k) THEN memory[k].expires ELSE Never]
  /\ gone = {}
  /\ before = [r \in Requests |-> {}]
  /\ steady = [r \in Requests |-> {}]
  /\ touched = [r \in Requests |-> {}]

----------------------------------------------------------------------------
Goto(r, label) == pc' = [pc EXCEPT ![r] = label]
(* The answer arrives, or is lost although the statement took effect.      *)
Answer(r, label) == Goto(r, label) \/ (Failures /\ Goto(r, "failed"))

(* What open recalls live through when a step writes the keys K, so that   *)
(* the table holds rows, or moves the clock to t.                          *)
Observe(K, rows, t) ==
  /\ steady' = [q \in Requests |->
       IF Recalling(q) THEN steady[q] \intersect Alive(rows, t)
       ELSE steady[q]]
  /\ touched' = [q \in Requests |->
       IF Recalling(q) THEN touched[q] \union K ELSE touched[q]]

BadMoment(r) == now - 1                    \* local time taken for UTC
Moment(r) == now                           \* new Date()

(* storeMemory computes the expiry before it writes. *)
BeginStore(r) ==
  /\ pc[r] = "idle"
  /\ \E ttl \in Ttls \union {Never} :
       instant' = [instant EXCEPT ![r] =
                     IF ttl = Never THEN Never ELSE Moment(r) + ttl]
  /\ \E k \in Keys : key' = [key EXCEPT ![r] = k]
  /\ op' = [op EXCEPT ![r] = "store"]
  /\ Goto(r, "upsert")
  /\ UNCHANGED <<now, table, reading, steady, touched>>

BeginForget(r) ==
  /\ pc[r] = "idle"
  /\ \E k \in Keys : key' = [key EXCEPT ![r] = k]
  /\ op' = [op EXCEPT ![r] = "forget"]
  /\ Goto(r, "delete")
  /\ UNCHANGED <<now, table, instant, reading, steady, touched>>

(* expireOldMemories takes its cutoff, then sends the statement. *)
BeginPrune(r) ==
  /\ pc[r] = "idle"
  /\ instant' = [instant EXCEPT ![r] = Moment(r)]
  /\ op' = [op EXCEPT ![r] = "prune"]
  /\ Goto(r, "prune")
  /\ UNCHANGED <<now, table, key, reading, steady, touched>>

(* recallMemory and recallSemantic. *)
BeginRecall(r) ==
  /\ pc[r] = "idle"
  /\ \E o \in {"recall", "semantic"} :
       /\ op' = [op EXCEPT ![r] = o]
       /\ Goto(r, IF o = "recall" THEN "find" ELSE "search")
  /\ before' = [before EXCEPT ![r] = gone]
  /\ steady' = [steady EXCEPT ![r] = Recallable]
  /\ UNCHANGED <<now, table, key, instant, snapshot, answer, touched>>

(* An expiry of undefined leaves the column of an existing row alone.      *)
BadExpiry(k, e) == IF Stored(k) THEN memory[k].expires ELSE e   \* not renewed
Expiry(k, e) == IF e = Never /\ Stored(k) THEN memory[k].expires ELSE e

Values(K) == {<<k, memory[k].by>> : k \in {x \in K : Stored(x)}}

(* agentMemory.upsert: one statement, an insert or an update of the row.   *)
Upsert(r) ==
  LET k == key[r]
      row == [by |-> r, expires |-> Expiry(k, instant[r])]
      rows == [memory EXCEPT ![k] = row]
  IN  /\ pc[r] = "upsert"
      /\ memory' = rows
      /\ due' = [due EXCEPT ![k] =
                   IF instant[r] = Never THEN due[k] ELSE instant[r]]
      /\ gone' = gone \union Values({k})
      /\ Observe({k}, rows, now)
      /\ Answer(r, "done")
      /\ UNCHANGED <<now, request, reading>>

(* deleteMany of what matches, if anything does. *)
Without(K) == [k \in Keys |-> IF k \in K THEN Absent ELSE memory[k]]
Remove(K) ==
  /\ memory' = Without(K)
  /\ gone' = gone \union Values(K)
  /\ Observe(K, Without(K), now)

Delete(r) ==
  /\ pc[r] = "delete"
  /\ Remove({key[r]})
  /\ due' = [due EXCEPT ![key[r]] = Never]
  /\ Answer(r, "done")
  /\ UNCHANGED <<now, request, reading>>

Prune(r) ==
  /\ pc[r] = "prune"
  /\ Remove({k \in Keys : Stored(k) /\ Expired(memory[k].expires, instant[r])})
  /\ Answer(r, "done")
  /\ UNCHANGED <<now, due, request, reading>>

Answered(r) == op[r] \in {"recall", "semantic"} /\ pc[r] = "done"
BadRows(r) ==                              \* what another recall has read
  IF \E q \in Requests : Answered(q)
  THEN snapshot[CHOOSE q \in Requests : Answered(q)] ELSE memory
Rows(r) == memory
(* findByAgentId *)
Find(r) ==
  /\ pc[r] = "find"
  /\ snapshot' = [snapshot EXCEPT ![r] = Rows(r)]
  /\ Answer(r, "filter")
  /\ UNCHANGED <<now, table, request, answer, before, steady, touched>>

(* The rows have arrived; the filter reads the clock again. *)
Filter(r) ==
  /\ pc[r] = "filter"
  /\ answer' = [answer EXCEPT ![r] =
       {k \in Keys : /\ snapshot[r][k] # Absent
                     /\ Unexpired(snapshot[r][k].expires, Moment(r))}]
  /\ Goto(r, "done")
  /\ UNCHANGED <<now, table, request, snapshot, before, steady, touched>>

(* searchByVector joins embeddings and memories and asks now() itself.     *)
(* Which memories have an embedding, their vectors and topK are left open: *)
(* any of those alive may be answered.                                     *)
Search(r) ==
  /\ pc[r] = "search"
  /\ snapshot' = [snapshot EXCEPT ![r] = Rows(r)]
  /\ \E K \in SUBSET Alive(Rows(r), now) : answer' = [answer EXCEPT ![r] = K]
  /\ Answer(r, "done")
  /\ UNCHANGED <<now, table, request, before, steady, touched>>

(* The statement is refused, or the process ends. *)
Fail(r) ==
  /\ Failures
  /\ pc[r] \in {"upsert", "delete", "prune", "find", "filter", "search"}
  /\ Goto(r, "failed")
  /\ UNCHANGED <<now, table, request, reading, steady, touched>>

Tick ==
  /\ now < MaxTime
  /\ now' = now + 1
  /\ Observe({}, memory, now + 1)
  /\ UNCHANGED <<table, request, pc, reading>>

Next ==
  \/ Tick
  \/ \E r \in Requests :
       \/ BeginStore(r) \/ BeginForget(r) \/ BeginPrune(r) \/ BeginRecall(r)
       \/ Upsert(r) \/ Delete(r) \/ Prune(r) \/ Find(r) \/ Filter(r)
       \/ Search(r) \/ Fail(r)

Spec == Init /\ [][Next]_vars

----------------------------------------------------------------------------
(* Rows, instants and histories keep their types. *)
TypeOK ==
  /\ now \in Nat
  /\ memory \in [Keys -> Row \union {Absent}]
  /\ op \in [Requests -> {"none", "store", "forget", "prune", "recall",
                          "semantic"}]
  /\ key \in [Requests -> Keys \union {Absent}]
  /\ pc \in [Requests -> {"idle", "upsert", "delete", "prune", "find", "filter",
                         "search", "done", "failed"}]
  /\ instant \in [Requests -> Instants]
  /\ snapshot \in [Requests -> [Keys -> Row \union {Absent}]]
  /\ answer \in [Requests -> SUBSET Keys]
  /\ due \in [Keys -> Instants]
  /\ gone \subseteq Keys \X Writers
  /\ before \in [Requests -> SUBSET (Keys \X Writers)]
  /\ steady \in [Requests -> SUBSET Keys]
  /\ touched \in [Requests -> SUBSET Keys]

(* A memory lasts as long as the last store with a TTL asked for, unless   *)
(* it is forgotten: no prune, however old its cutoff, no store that races  *)
(* it and no later store without a TTL cuts it short.                      *)
TtlIsKept ==
  \A k \in Keys :
    due[k] # Never /\ now <= due[k] =>
      Stored(k) /\ memory[k].expires = due[k]

(* A prune removes nothing that a recall would still answer. *)
PruneSparesRecallable ==
  [][\A r \in Requests : pc[r] = "prune" /\ pc'[r] # "prune" =>
       \A k \in Recallable : memory'[k] = memory[k]]_vars

(* A recall of either kind answers no value that was overwritten,          *)
(* forgotten or pruned before it began.                                    *)
RecallIsFresh ==
  \A r \in Requests : Answered(r) =>
    \A k \in answer[r] : <<k, snapshot[r][k].by>> \notin before[r]

(* recallMemory misses no memory that was recallable all the while, except *)
(* one that was written meanwhile.                                         *)
RecallMissesOnlyWritten ==
  \A r \in Requests :
    op[r] = "recall" /\ pc[r] = "done" => steady[r] \ touched[r] \subseteq answer[r]

(* src/src/services/agent-memory.service.ts:24: "Stores or updates a       *)
(* memory entry for an agent. If ttlSeconds is provided, the memory will   *)
(* expire after that duration."  What was stored without one and not       *)
(* replaced is there for a recall.                                         *)
StoredIsRecallable ==
  \A r \in Requests :
    op[r] = "store" /\ pc[r] = "done" /\ instant[r] = Never =>
      LET k == key[r]
      IN  Stored(k) /\ memory[k].by = r => k \in Recallable

=============================================================================
