-------------------------- MODULE AgentMemory_proofs --------------------------
(* Proofs about AgentMemory, for any number of requests, keys, TTLs and    *)
(* any bound on the clock.                                                 *)
EXTENDS AgentMemory, TLAPS

(* Which operation waits for which statement; a prune's cutoff is past.    *)
OpInv ==
  \A r \in Requests :
    /\ pc[r] \in {"find", "filter"} => op[r] = "recall"
    /\ pc[r] = "search" => op[r] = "semantic"
    /\ pc[r] = "upsert" => op[r] = "store" /\ key[r] \in Keys
    /\ pc[r] = "delete" => op[r] = "forget" /\ key[r] \in Keys
    /\ pc[r] = "prune" =>
         op[r] = "prune" /\ instant[r] \in Nat /\ instant[r] <= now

(* A value that is gone is not in the table, and a store that has yet to   *)
(* write has its value nowhere.                                            *)
ValuesInv ==
  \A k \in Keys :
    /\ Stored(k) => <<k, memory[k].by>> \notin gone
    /\ \A r \in Requests :
         <<k, r>> \in gone \/ (Stored(k) /\ memory[k].by = r) =>
           pc[r] \in {"done", "failed"}

(* What a recall read was not gone when it began, and it answers no more   *)
(* than it read.                                                           *)
FreshInv ==
  \A r \in Requests :
    /\ pc[r] \in {"find", "search"} => before[r] \subseteq gone
    /\ pc[r] = "filter" \/ Answered(r) =>
         \A k \in Keys : snapshot[r][k] # Absent =>
           <<k, snapshot[r][k].by>> \notin before[r]
    /\ Answered(r) => \A k \in answer[r] : snapshot[r][k] # Absent

(* What a recall read of a key is in the table still, unless the key was   *)
(* written meanwhile.                                                      *)
SteadyInv ==
  \A r \in Requests :
    /\ Recalling(r) => steady[r] \subseteq Recallable
    /\ pc[r] = "filter" =>
         \A k \in Keys : k \notin touched[r] => snapshot[r][k] = memory[k]
    /\ op[r] = "recall" /\ pc[r] = "done" =>
         steady[r] \ touched[r] \subseteq answer[r]

Inv == TypeOK /\ OpInv /\ ValuesInv /\ FreshInv /\ SteadyInv /\ TtlIsKept

LEMMA InitInv == Init => Inv
<1> SUFFICES ASSUME Init PROVE Inv
  OBVIOUS
<1> USE ConstantsAssumption DEF Init
<1>1. TypeOK
  <2>1. memory \in [Keys -> Row \union {Absent}]
    BY DEF Row, Writers, Instants
  <2>2. due \in [Keys -> Instants]
    BY DEF Instants, Stored
  <2> QED BY <2>1, <2>2 DEF TypeOK, Instants
<1>2. OpInv /\ FreshInv /\ SteadyInv
  BY DEF OpInv, FreshInv, SteadyInv, Recalling, Answered
<1>3. ValuesInv
  BY DEF ValuesInv, Stored
<1>4. TtlIsKept
  BY DEF TtlIsKept, Stored
<1> QED BY <1>1, <1>2, <1>3, <1>4 DEF Inv

----------------------------------------------------------------------------
(* What the three statements that write the table have in common.          *)
Writes(r, K) ==
  /\ pc[r] \in {"upsert", "delete", "prune"}
  /\ \E l \in {"done", "failed"} : pc' = [pc EXCEPT ![r] = l]
  /\ UNCHANGED <<now, request, reading>>
  /\ memory' \in [Keys -> Row \union {Absent}]
  /\ \A k \in Keys \ K : memory'[k] = memory[k]
  /\ \A k \in K : memory'[k] = Absent
                    \/ (pc[r] = "upsert" /\ memory'[k].by = r)
  /\ gone' = gone \union Values(K)
  /\ Observe(K, memory', now)

LEMMA WritesType ==
  ASSUME TypeOK, NEW r \in Requests, NEW K \in SUBSET Keys, Writes(r, K),
         due' \in [Keys -> Instants]
  PROVE  TypeOK'
<1> USE DEF TypeOK
<1>1. gone' \subseteq Keys \X Writers
  BY DEF Writes, Values, Stored, Row
<1>2. steady' \in [Requests -> SUBSET Keys] /\ touched' \in [Requests -> SUBSET Keys]
  BY DEF Writes, Observe
<1>3. pc' \in [Requests -> {"idle", "upsert", "delete", "prune", "find", "filter",
                            "search", "done", "failed"}]
  BY DEF Writes
<1> QED BY <1>1, <1>2, <1>3 DEF Writes, request, reading

LEMMA WritesKeeps ==
  ASSUME Inv, NEW r \in Requests, NEW K \in SUBSET Keys, Writes(r, K)
  PROVE  OpInv' /\ ValuesInv' /\ FreshInv' /\ SteadyInv'
<1> USE DEF Inv
<1>1. PICK l \in {"done", "failed"} : pc' = [pc EXCEPT ![r] = l]
  BY DEF Writes
<1>2. /\ pc'[r] \in {"done", "failed"}
      /\ \A q \in Requests \ {r} : pc'[q] = pc[q]
      /\ UNCHANGED <<now, op, key, instant, snapshot, answer, before>>
      /\ op[r] \notin {"recall", "semantic"} /\ ~Recalling(r)
  BY <1>1 DEF Writes, request, reading, OpInv, TypeOK, Recalling
<1>3. OpInv'
  BY <1>2 DEF OpInv, Recalling
<1>4. ValuesInv'
  <2> SUFFICES ASSUME NEW k \in Keys
               PROVE  /\ Stored(k)' => <<k, memory'[k].by>> \notin gone'
                      /\ \A q \in Requests :
                           <<k, q>> \in gone' \/ (Stored(k)' /\ memory'[k].by = q) =>
                             pc'[q] \in {"done", "failed"}
    BY DEF ValuesInv
  <2>1. \A w \in Writers : <<k, w>> \in gone' <=>
          <<k, w>> \in gone \/ (k \in K /\ Stored(k) /\ memory[k].by = w)
    BY DEF Writes, Values
  <2>2. CASE k \notin K
    BY <1>2, <2>1, <2>2 DEF Writes, ValuesInv, Stored, Writers, TypeOK, Row
  <2>3. CASE k \in K /\ memory'[k] = Absent
    BY <1>2, <2>1, <2>3 DEF ValuesInv, Stored, Writers
  <2>4. CASE k \in K /\ memory'[k] # Absent
    <3>1. pc[r] = "upsert" /\ memory'[k].by = r
      BY <2>4 DEF Writes
    <3>2. <<k, r>> \notin gone /\ ~(Stored(k) /\ memory[k].by = r)
      BY <3>1 DEF ValuesInv
    <3>3. Stored(k)' => <<k, memory'[k].by>> \notin gone'
      BY <2>1, <3>1, <3>2 DEF Writers
    <3>4. ASSUME NEW q \in Requests,
                 <<k, q>> \in gone' \/ (Stored(k)' /\ memory'[k].by = q)
          PROVE  pc'[q] \in {"done", "failed"}
      <4>1. CASE q = r
        BY <1>2, <4>1
      <4>2. CASE q # r
        BY <1>2, <2>1, <3>1, <3>4, <4>2 DEF ValuesInv, Writers
      <4> QED BY <4>1, <4>2
    <3> QED BY <3>3, <3>4
  <2> QED BY <2>2, <2>3, <2>4
<1>5. FreshInv'
  <2>1. gone \subseteq gone'
    BY DEF Writes
  <2> QED BY <1>2, <2>1 DEF FreshInv, Answered
<1>6. SteadyInv'
  <2> SUFFICES ASSUME NEW q \in Requests
               PROVE  /\ Recalling(q)' => steady'[q] \subseteq Recallable'
                      /\ pc'[q] = "filter" =>
                           \A k \in Keys : k \notin touched'[q] =>
                                             snapshot'[q][k] = memory'[k]
                      /\ op'[q] = "recall" /\ pc'[q] = "done" =>
                           steady'[q] \ touched'[q] \subseteq answer'[q]
    BY DEF SteadyInv
  <2>1. CASE q = r
    BY <1>2, <2>1 DEF Recalling, Answered
  <2>2. CASE q # r
    <3>1. pc'[q] = pc[q]
      BY <1>2, <2>2
    <3>2. CASE Recalling(q)
      <4>1. /\ steady'[q] = steady[q] \intersect Alive(memory', now)
            /\ touched'[q] = touched[q] \union K
        BY <3>2 DEF Writes, Observe
      <4>2. steady'[q] \subseteq Recallable'
        BY <1>2, <4>1 DEF Recallable
      <4>3. \A k \in Keys : k \notin touched'[q] => memory'[k] = memory[k]
        BY <4>1 DEF Writes
      <4> QED BY <1>2, <3>1, <3>2, <4>1, <4>2, <4>3
              DEF SteadyInv, Recalling, Answered
    <3>3. CASE ~Recalling(q)
      <4>1. steady'[q] = steady[q] /\ touched'[q] = touched[q]
        BY <3>3 DEF Writes, Observe
      <4> QED BY <1>2, <3>1, <3>3, <4>1 DEF SteadyInv, Recalling, Answered
    <3> QED BY <3>2, <3>3
  <2> QED BY <2>1, <2>2
<1> QED BY <1>3, <1>4, <1>5, <1>6

----------------------------------------------------------------------------
LEMMA UpsertKeeps ==
  ASSUME Inv, NEW r \in Requests, Upsert(r)
  PROVE  Inv'
<1> DEFINE k == key[r]
           row == [by |-> r, expires |-> Expiry(k, instant[r])]
<1> USE DEF Inv
<1>1. k \in Keys /\ pc[r] = "upsert"
  BY DEF Upsert, OpInv
<1>2. row \in Row
  BY <1>1 DEF Row, Writers, Expiry, Stored, TypeOK
<1>3. memory' = [memory EXCEPT ![k] = row]
  BY DEF Upsert
<1>4. row # Absent
  BY <1>2, ConstantsAssumption DEF Row, Writers, Instants
<1>5. /\ \A j \in Keys \ {k} : memory'[j] = memory[j]
      /\ memory'[k] = row /\ memory' \in [Keys -> Row \union {Absent}]
  BY <1>1, <1>2, <1>3 DEF TypeOK
<1>6. Writes(r, {k})
  BY <1>1, <1>3, <1>5 DEF Upsert, Writes, Answer, Goto
<1>7. due' \in [Keys -> Instants] /\ now' = now
      /\ due' = [due EXCEPT ![k] = IF instant[r] = Never THEN due[k] ELSE instant[r]]
  BY <1>1 DEF Upsert, TypeOK
<1>8. TtlIsKept'
  <2> SUFFICES ASSUME NEW j \in Keys, due'[j] # Never, now <= due'[j]
               PROVE  memory'[j] # Absent /\ memory'[j].expires = due'[j]
    BY <1>7 DEF TtlIsKept, Stored
  <2>1. CASE j # k
    BY <1>5, <1>7, <2>1 DEF TtlIsKept, Stored, TypeOK
  <2>2. CASE j = k /\ instant[r] = Never
    <3>1. due'[j] = due[j]
      BY <1>1, <1>7, <2>2 DEF TypeOK
    <3>2. Stored(k) /\ memory[k].expires = due[k]
      BY <1>1, <2>2, <3>1 DEF TtlIsKept
    <3>3. row.expires = memory[k].expires
      BY <2>2, <3>2 DEF Expiry
    <3> QED BY <1>4, <1>5, <2>2, <3>1, <3>2, <3>3
  <2>3. CASE j = k /\ instant[r] # Never
    <3>1. due'[j] = instant[r]
      BY <1>1, <1>7, <2>3 DEF TypeOK
    <3>2. row.expires = instant[r]
      BY <2>3 DEF Expiry
    <3> QED BY <1>4, <1>5, <2>3, <3>1, <3>2
  <2> QED BY <2>1, <2>2, <2>3
<1>9. TypeOK'
  BY <1>1, <1>6, <1>7, WritesType
<1>10. OpInv' /\ ValuesInv' /\ FreshInv' /\ SteadyInv'
  BY <1>1, <1>6, WritesKeeps
<1> QED BY <1>8, <1>9, <1>10

LEMMA RemoveWrites ==
  ASSUME Inv, NEW r \in Requests, NEW K \in SUBSET Keys,
         pc[r] \in {"delete", "prune"}, Remove(K), Answer(r, "done"),
         UNCHANGED <<now, request, reading>>
  PROVE  /\ Writes(r, K)
         /\ \A j \in Keys \ K : memory'[j] = memory[j]
<1>1. \A k \in K : memory'[k] = Absent
  BY DEF Remove, Without
<1>2. \A k \in Keys \ K : memory'[k] = memory[k]
  BY DEF Remove, Without
<1>3. memory' \in [Keys -> Row \union {Absent}]
  BY DEF Remove, Without, Inv, TypeOK
<1>4. Observe(K, memory', now) /\ gone' = gone \union Values(K)
  BY DEF Remove
<1> QED BY <1>1, <1>2, <1>3, <1>4 DEF Writes, Answer, Goto

LEMMA DeleteKeeps ==
  ASSUME Inv, NEW r \in Requests, Delete(r)
  PROVE  Inv'
<1> USE DEF Inv
<1>1. key[r] \in Keys /\ due' = [due EXCEPT ![key[r]] = Never] /\ now' = now
  BY DEF Delete, OpInv
<1>2. /\ Writes(r, {key[r]})
      /\ \A j \in Keys \ {key[r]} : memory'[j] = memory[j]
  BY <1>1, RemoveWrites DEF Delete
<1>3. TtlIsKept'
  BY <1>1, <1>2 DEF TtlIsKept, Stored, TypeOK
<1>4. TypeOK'
  BY <1>1, <1>2, WritesType DEF TypeOK, Instants
<1>5. OpInv' /\ ValuesInv' /\ FreshInv' /\ SteadyInv'
  BY <1>1, <1>2, WritesKeeps
<1> QED BY <1>3, <1>4, <1>5

(* The cutoff was taken in the past, so what it finds expired is expired.  *)
LEMMA PruneFindsExpired ==
  ASSUME Inv, NEW r \in Requests, pc[r] = "prune",
         NEW k \in Keys, Stored(k), Expired(memory[k].expires, instant[r])
  PROVE  memory[k].expires \in Nat /\ memory[k].expires < now
<1>1. instant[r] \in Nat /\ instant[r] <= now /\ now \in Nat
  BY DEF Inv, OpInv, TypeOK
<1>2. memory[k].expires \in Nat
  BY DEF Expired, Stored, Inv, TypeOK, Row, Instants
<1> QED BY <1>1, <1>2 DEF Expired

LEMMA PruneKeeps ==
  ASSUME Inv, NEW r \in Requests, Prune(r)
  PROVE  Inv'
<1> DEFINE K == {k \in Keys : Stored(k) /\ Expired(memory[k].expires, instant[r])}
<1> USE DEF Inv
<1>1. pc[r] = "prune" /\ UNCHANGED <<due, now>> /\ K \in SUBSET Keys
  BY DEF Prune
<1>2. /\ Writes(r, K)
      /\ \A j \in Keys \ K : memory'[j] = memory[j]
  <2>1. Remove(K) /\ Answer(r, "done") /\ UNCHANGED <<now, request, reading>>
    BY DEF Prune
  <2> HIDE DEF K
  <2> QED BY <1>1, <2>1, RemoveWrites
<1>3. TtlIsKept'
  <2> SUFFICES ASSUME NEW j \in Keys, due[j] # Never, now <= due[j]
               PROVE  memory'[j] # Absent /\ memory'[j].expires = due[j]
    BY <1>1 DEF TtlIsKept, Stored
  <2>1. Stored(j) /\ memory[j].expires = due[j]
    BY DEF TtlIsKept
  <2>2. ~Expired(memory[j].expires, instant[r])
    <3>1. due[j] \in Nat /\ now \in Nat
      BY DEF TypeOK, Instants
    <3> QED BY <1>1, <2>1, <3>1, PruneFindsExpired
  <2> QED BY <1>2, <2>1, <2>2 DEF Stored
<1>4. TypeOK'
  <2> HIDE DEF K
  <2> QED BY <1>1, <1>2, WritesType DEF TypeOK
<1>5. OpInv' /\ ValuesInv' /\ FreshInv' /\ SteadyInv'
  <2> HIDE DEF K
  <2> QED BY <1>1, <1>2, WritesKeeps
<1> QED BY <1>3, <1>4, <1>5

----------------------------------------------------------------------------
(* The steps of one request that leave the table and the clock alone.      *)
Private(r) ==
  /\ UNCHANGED <<now, memory, due, gone, touched>>
  /\ \A q \in Requests \ {r} :
       /\ pc'[q] = pc[q] /\ op'[q] = op[q] /\ key'[q] = key[q]
       /\ instant'[q] = instant[q] /\ snapshot'[q] = snapshot[q]
       /\ answer'[q] = answer[q] /\ before'[q] = before[q]
       /\ steady'[q] = steady[q]

LEMMA PrivateKeeps ==
  ASSUME Inv, TypeOK', NEW r \in Requests, Private(r),
         pc[r] \notin {"done", "failed"},
         /\ pc'[r] \in {"find", "filter"} => op'[r] = "recall"
         /\ pc'[r] = "search" => op'[r] = "semantic"
         /\ pc'[r] = "upsert" => op'[r] = "store" /\ key'[r] \in Keys
         /\ pc'[r] = "delete" => op'[r] = "forget" /\ key'[r] \in Keys
         /\ pc'[r] = "prune" =>
              op'[r] = "prune" /\ instant'[r] \in Nat /\ instant'[r] <= now,
         /\ pc'[r] \in {"find", "search"} => before'[r] \subseteq gone
         /\ pc'[r] = "filter" \/ Answered(r)' =>
              \A k \in Keys : snapshot'[r][k] # Absent =>
                <<k, snapshot'[r][k].by>> \notin before'[r]
         /\ Answered(r)' => \A k \in answer'[r] : snapshot'[r][k] # Absent,
         /\ Recalling(r)' => steady'[r] \subseteq Recallable
         /\ pc'[r] = "filter" =>
              \A k \in Keys : k \notin touched[r] => snapshot'[r][k] = memory[k]
         /\ op'[r] = "recall" /\ pc'[r] = "done" =>
              steady'[r] \ touched[r] \subseteq answer'[r]
  PROVE  Inv'
<1> USE DEF Inv, Private
<1>1. OpInv'
  BY DEF OpInv, Recalling
<1>2. ValuesInv'
  BY DEF ValuesInv, Stored
<1>3. FreshInv'
  BY DEF FreshInv, Answered
<1>4. Recallable' = Recallable
  BY DEF Recallable, Alive
<1>5. SteadyInv'
  BY <1>4 DEF SteadyInv, Recalling, Answered
<1>6. TtlIsKept'
  BY DEF TtlIsKept, Stored
<1> QED BY <1>1, <1>2, <1>3, <1>5, <1>6

LEMMA BeginKeeps ==
  ASSUME Inv, NEW r \in Requests,
         BeginStore(r) \/ BeginForget(r) \/ BeginPrune(r) \/ BeginRecall(r)
  PROVE  Inv'
<1> USE DEF Inv, table, reading, Goto
<1>1. CASE BeginStore(r)
  <2>1. instant' \in [Requests -> Instants]
    BY <1>1, ConstantsAssumption DEF BeginStore, Moment, TypeOK, Instants
  <2>2. TypeOK'
    BY <1>1, <2>1 DEF BeginStore, TypeOK
  <2>3. Private(r) /\ pc[r] = "idle" /\ pc'[r] = "upsert" /\ op'[r] = "store"
        /\ key'[r] \in Keys
    BY <1>1, <2>1 DEF BeginStore, Private, TypeOK
  <2> QED BY <2>2, <2>3, PrivateKeeps DEF Recalling, Answered
<1>2. CASE BeginForget(r)
  <2>1. TypeOK'
    BY <1>2 DEF BeginForget, TypeOK
  <2>2. Private(r) /\ pc[r] = "idle" /\ pc'[r] = "delete" /\ op'[r] = "forget"
        /\ key'[r] \in Keys
    BY <1>2 DEF BeginForget, Private, TypeOK
  <2> QED BY <2>1, <2>2, PrivateKeeps DEF Recalling, Answered
<1>3. CASE BeginPrune(r)
  <2>1. TypeOK'
    BY <1>3 DEF BeginPrune, TypeOK, Moment, Instants
  <2>2. Private(r) /\ pc[r] = "idle" /\ pc'[r] = "prune" /\ op'[r] = "prune"
        /\ instant'[r] = now
    BY <1>3 DEF BeginPrune, Private, TypeOK, Moment
  <2>3. now \in Nat
    BY DEF TypeOK
  <2> QED BY <2>1, <2>2, <2>3, PrivateKeeps DEF Recalling, Answered
<1>4. CASE BeginRecall(r)
  <2>1. TypeOK'
    BY <1>4 DEF BeginRecall, TypeOK, Recallable, Alive
  <2>2. /\ Private(r) /\ pc[r] = "idle"
        /\ \/ pc'[r] = "find" /\ op'[r] = "recall"
           \/ pc'[r] = "search" /\ op'[r] = "semantic"
        /\ before'[r] = gone /\ steady'[r] = Recallable
    BY <1>4 DEF BeginRecall, Private, TypeOK
  <2> QED BY <2>1, <2>2, PrivateKeeps DEF Recalling, Answered
<1> QED BY <1>1, <1>2, <1>3, <1>4

LEMMA FindKeeps ==
  ASSUME Inv, NEW r \in Requests, Find(r)
  PROVE  Inv'
<1> USE DEF Inv, table, request
<1>1. TypeOK'
  BY DEF Find, Rows, Answer, Goto, TypeOK
<1>2. /\ Private(r) /\ pc[r] = "find" /\ pc'[r] \in {"filter", "failed"}
      /\ snapshot'[r] = memory /\ op'[r] = op[r] /\ steady'[r] = steady[r]
      /\ before'[r] = before[r]
  BY DEF Find, Rows, Answer, Goto, Private, TypeOK
<1>3. op[r] = "recall" /\ before[r] \subseteq gone /\ steady[r] \subseteq Recallable
  BY <1>2 DEF OpInv, FreshInv, SteadyInv, Recalling
<1>4. \A k \in Keys : memory[k] # Absent => <<k, memory[k].by>> \notin before[r]
  BY <1>3 DEF ValuesInv, Stored
<1> QED BY <1>1, <1>2, <1>3, <1>4, PrivateKeeps DEF Recalling, Answered

LEMMA FilterKeeps ==
  ASSUME Inv, NEW r \in Requests, Filter(r)
  PROVE  Inv'
<1> USE DEF Inv, table, request
<1>1. TypeOK'
  BY DEF Filter, Goto, TypeOK
<1>2. /\ Private(r) /\ pc[r] = "filter" /\ pc'[r] = "done"
      /\ UNCHANGED <<snapshot, before, steady, touched>>
      /\ answer'[r] = {k \in Keys : /\ snapshot[r][k] # Absent
                                    /\ Unexpired(snapshot[r][k].expires, now)}
  BY DEF Filter, Goto, Private, TypeOK, Moment
<1>3. \A k \in Keys : snapshot[r][k] # Absent =>
        <<k, snapshot[r][k].by>> \notin before[r]
  BY <1>2 DEF FreshInv
<1>4. steady[r] \ touched[r] \subseteq answer'[r]
  <2> SUFFICES ASSUME NEW k \in steady[r], k \notin touched[r]
               PROVE  k \in answer'[r]
    OBVIOUS
  <2>1. k \in Keys /\ memory[k] # Absent
        /\ (memory[k].expires # Never => now < memory[k].expires)
    BY <1>2 DEF SteadyInv, Recalling, Recallable, Alive
  <2>2. snapshot[r][k] = memory[k]
    BY <1>2, <2>1 DEF SteadyInv
  <2>3. Unexpired(memory[k].expires, now)
    BY <2>1 DEF Unexpired, TypeOK, Row, Instants
  <2> QED BY <1>2, <2>1, <2>2, <2>3
<1> QED BY <1>1, <1>2, <1>3, <1>4, PrivateKeeps DEF Recalling

LEMMA SearchKeeps ==
  ASSUME Inv, NEW r \in Requests, Search(r)
  PROVE  Inv'
<1> USE DEF Inv, table, request
<1>1. PICK K \in SUBSET Alive(memory, now) : answer' = [answer EXCEPT ![r] = K]
  BY DEF Search, Rows
<1>2. K \subseteq Keys /\ \A k \in K : memory[k] # Absent
  BY <1>1 DEF Alive
<1>3. TypeOK'
  BY <1>1, <1>2 DEF Search, Rows, Answer, Goto, TypeOK
<1>4. /\ Private(r) /\ pc[r] = "search" /\ pc'[r] \in {"done", "failed"}
      /\ snapshot'[r] = memory /\ answer'[r] = K
      /\ UNCHANGED <<op, before, steady>>
  BY <1>1 DEF Search, Rows, Answer, Goto, Private, TypeOK
<1>5. op[r] = "semantic" /\ before[r] \subseteq gone
  BY <1>4 DEF OpInv, FreshInv
<1>6. \A k \in Keys : memory[k] # Absent => <<k, memory[k].by>> \notin before[r]
  BY <1>5 DEF ValuesInv, Stored
<1> QED BY <1>2, <1>3, <1>4, <1>5, <1>6, PrivateKeeps DEF Recalling, Answered

LEMMA FailKeeps ==
  ASSUME Inv, NEW r \in Requests, Fail(r)
  PROVE  Inv'
<1> USE DEF Inv, table, request, reading
<1>1. TypeOK'
  BY DEF Fail, Goto, TypeOK
<1>2. Private(r) /\ pc[r] \notin {"done", "failed"} /\ pc'[r] = "failed"
  BY DEF Fail, Goto, Private, TypeOK
<1> QED BY <1>1, <1>2, PrivateKeeps DEF Recalling, Answered

LEMMA TickKeeps ==
  ASSUME Inv, Tick
  PROVE  Inv'
<1> USE DEF Inv, table, request, reading
<1>1. now' = now + 1 /\ now \in Nat
      /\ UNCHANGED <<memory, due, gone, op, key, instant, pc, snapshot, answer, before>>
  BY DEF Tick, TypeOK
<1>2. \A q \in Requests :
        IF Recalling(q)
        THEN steady'[q] = steady[q] \intersect Recallable' /\ touched'[q] = touched[q]
        ELSE steady'[q] = steady[q] /\ touched'[q] = touched[q]
  BY <1>1 DEF Tick, Observe, Recallable
<1>3. TypeOK'
  BY <1>1 DEF Tick, Observe, TypeOK
<1>4. OpInv'
  BY <1>1 DEF OpInv, Recalling
<1>5. ValuesInv' /\ FreshInv'
  BY <1>1 DEF ValuesInv, FreshInv, Stored, Answered
<1>6. SteadyInv'
  BY <1>1, <1>2 DEF SteadyInv, Recalling, Answered
<1>7. TtlIsKept'
  <2>1. \A k \in Keys : due[k] # Never => due[k] \in Nat
    BY DEF TypeOK, Instants
  <2> QED BY <1>1, <2>1 DEF TtlIsKept, Stored
<1> QED BY <1>3, <1>4, <1>5, <1>6, <1>7

LEMMA NextInv == Inv /\ [Next]_vars => Inv'
<1> SUFFICES ASSUME Inv, [Next]_vars PROVE Inv'
  OBVIOUS
<1>1. CASE Tick
  BY <1>1, TickKeeps
<1>2. ASSUME NEW r \in Requests,
             BeginStore(r) \/ BeginForget(r) \/ BeginPrune(r) \/ BeginRecall(r)
      PROVE  Inv'
  BY <1>2, BeginKeeps
<1>3. ASSUME NEW r \in Requests, Upsert(r) \/ Delete(r) \/ Prune(r)
      PROVE  Inv'
  BY <1>3, UpsertKeeps, DeleteKeeps, PruneKeeps
<1>4. ASSUME NEW r \in Requests,
             Find(r) \/ Filter(r) \/ Search(r) \/ Fail(r)
      PROVE  Inv'
  BY <1>4, FindKeeps, FilterKeeps, SearchKeeps, FailKeeps
<1>5. CASE UNCHANGED vars
  BY <1>5 DEF vars, table, request, reading, Inv, TypeOK, OpInv, ValuesInv, FreshInv,
              SteadyInv, TtlIsKept, Recalling, Answered, Stored, Recallable, Alive
<1> QED BY <1>1, <1>2, <1>3, <1>4, <1>5 DEF Next

LEMMA InvHolds == Spec => []Inv
BY InitInv, NextInv, PTL DEF Spec

----------------------------------------------------------------------------
(* The table and the state of every request keep their types. *)
THEOREM TypeCorrect == Spec => []TypeOK
<1>1. Inv => TypeOK
  BY DEF Inv
<1> QED BY InvHolds, <1>1, PTL

(* A memory lasts for the TTL that was last asked for, whatever stores and *)
(* prunes race it, unless it is forgotten.                                 *)
THEOREM MemoriesLast == Spec => []TtlIsKept
<1>1. Inv => TtlIsKept
  BY DEF Inv
<1> QED BY InvHolds, <1>1, PTL

(* No prune removes a memory that is alive when the statement runs.        *)
THEOREM PruneIsSafe == Spec => PruneSparesRecallable
<1> DEFINE Spares ==
      \A r \in Requests : pc[r] = "prune" /\ pc'[r] # "prune" =>
        \A k \in Recallable : memory'[k] = memory[k]
<1>1. Inv /\ [Next]_vars => [Spares]_vars
  <2> SUFFICES ASSUME Inv, Next, NEW r \in Requests,
                      pc[r] = "prune", pc'[r] # "prune",
                      NEW k \in Recallable
               PROVE  memory'[k] = memory[k]
    OBVIOUS
  <2>1. k \in Keys /\ Stored(k)
        /\ (memory[k].expires # Never => now < memory[k].expires)
    BY DEF Recallable, Alive, Stored
  <2>2. CASE memory' = memory
    BY <2>2
  <2>3. CASE Prune(r)
    <3>1. ~Expired(memory[k].expires, instant[r])
      <4>1. memory[k].expires \in Nat \union {Never} /\ now \in Nat
        BY <2>1 DEF Inv, TypeOK, Row, Instants, Stored
      <4> QED BY <2>1, <4>1, PruneFindsExpired DEF Expired
    <3> QED BY <2>1, <2>3, <3>1 DEF Prune, Remove, Without
  <2>4. CASE memory' # memory /\ ~Prune(r)
    <3>1. PICK p \in Requests : Upsert(p) \/ Delete(p) \/ Prune(p)
      BY <2>4 DEF Next, Tick, BeginStore, BeginForget, BeginPrune, BeginRecall,
                  Find, Filter, Search, Fail, table
    <3>2. p # r /\ pc'[r] = pc[r]
      BY <2>4, <3>1 DEF Upsert, Delete, Prune, Answer, Goto, Inv, TypeOK
    <3> QED BY <3>2
  <2> QED BY <2>2, <2>3, <2>4
<1> QED BY InvHolds, <1>1, PTL DEF Spec, PruneSparesRecallable

(* A recall never answers what was gone before it began.                   *)
THEOREM RecallAnswersFresh == Spec => []RecallIsFresh
<1>1. Inv => RecallIsFresh
  BY DEF Inv, FreshInv, RecallIsFresh, TypeOK
<1> QED BY InvHolds, <1>1, PTL

(* What a recall misses was not alive all the while or was written.        *)
THEOREM RecallMissesLittle == Spec => []RecallMissesOnlyWritten
<1>1. Inv => RecallMissesOnlyWritten
  BY DEF Inv, SteadyInv, RecallMissesOnlyWritten
<1> QED BY InvHolds, <1>1, PTL

----------------------------------------------------------------------------
(***************************************************************************)
(* The life of a value: a store puts it in the table, where it stays until *)
(* it is gone, for good.  Known ones are in the table or gone.             *)
(***************************************************************************)
Known(k, w) == <<k, w>> \in gone \/ (Stored(k) /\ memory[k].by = w)
StoreRan(k, w) ==
  w # Earlier => op[w] = "store" /\ key[w] = k /\ pc[w] \in {"done", "failed"}

(* A recall of either kind answers only values that a store of that key    *)
(* put there, however the recall's two looks at the clock and the rows it  *)
(* read interleave with stores and prunes.                                 *)
AnswersWereStored ==
  \A r \in Requests : Answered(r) =>
    \A k \in answer[r] : /\ Known(k, snapshot[r][k].by)
                         /\ StoreRan(k, snapshot[r][k].by)

(* A store that was acknowledged is not lost to a race with another store, *)
(* a forget or a prune: its value is in the table, or was there until one  *)
(* of them removed it.                                                     *)
AcknowledgedStoresTook ==
  \A r \in Requests : op[r] = "store" /\ pc[r] = "done" => Known(key[r], r)

(* What was overwritten, forgotten or pruned never comes back, as a late   *)
(* upsert that wrote an old row would bring it.                            *)
ValuesNeverReturn ==
  [][/\ gone \subseteq gone'
     /\ \A k \in Keys : Stored(k)' => <<k, memory'[k].by>> \notin gone]_vars

KnownInv ==
  /\ \A k \in Keys, w \in Writers : Known(k, w) => StoreRan(k, w)
  /\ AcknowledgedStoresTook
  /\ \A r \in Requests : op[r] = "store" => key[r] \in Keys
  /\ \A r \in Requests : pc[r] = "filter" \/ Answered(r) =>
       \A k \in Keys : snapshot[r][k] # Absent => Known(k, snapshot[r][k].by)

LEMMA KnownInit == Init => KnownInv
BY DEF Init, KnownInv, Known, StoreRan, AcknowledgedStoresTook, Answered, Stored

(* The keys a step writes lose their values to gone; what it stores is the *)
(* value of its own request.                                               *)
LEMMA KnownMoves ==
  ASSUME Inv, [Next]_vars, NEW k \in Keys
  PROVE  /\ gone \subseteq gone'
         /\ Stored(k) => \/ memory'[k] = memory[k]
                         \/ <<k, memory[k].by>> \in gone'
         /\ Stored(k)' =>
              \/ memory'[k] = memory[k]
              \/ \E r \in Requests : Upsert(r) /\ key[r] = k /\ memory'[k].by = r
         /\ \A w \in Writers : <<k, w>> \in gone' => Known(k, w)
<1> USE DEF Inv, TypeOK
<1>1. ASSUME NEW K \in SUBSET Keys, k \in K, Stored(k)
      PROVE  <<k, memory[k].by>> \in Values(K)
  BY <1>1 DEF Values
<1>2. ASSUME NEW K \in SUBSET Keys, NEW w \in Writers, <<k, w>> \in Values(K)
      PROVE  Known(k, w)
  BY <1>2 DEF Values, Known
<1>3. ASSUME NEW r \in Requests, Upsert(r)
      PROVE  /\ key[r] \in Keys
             /\ gone' = gone \union Values({key[r]})
             /\ \A j \in Keys \ {key[r]} : memory'[j] = memory[j]
             /\ memory'[key[r]].by = r
  BY <1>3 DEF Upsert, OpInv
<1>4. ASSUME NEW K \in SUBSET Keys, Remove(K)
      PROVE  /\ gone' = gone \union Values(K)
             /\ \A j \in Keys \ K : memory'[j] = memory[j]
             /\ \A j \in K : memory'[j] = Absent
  BY <1>4 DEF Remove, Without
<1>5. ASSUME NEW r \in Requests, Delete(r) \/ Prune(r)
      PROVE  \E K \in SUBSET Keys : Remove(K)
  <2>1. CASE Delete(r)
    <3>1. {key[r]} \in SUBSET Keys
      BY <2>1 DEF Delete, OpInv
    <3> QED BY <2>1, <3>1 DEF Delete
  <2>2. CASE Prune(r)
    BY <2>2 DEF Prune
  <2> QED BY <1>5, <2>1, <2>2
<1>6. \/ UNCHANGED <<memory, gone>>
      \/ \E r \in Requests : Upsert(r) \/ Delete(r) \/ Prune(r)
  BY DEF Next, Tick, BeginStore, BeginForget, BeginPrune, BeginRecall, Find,
         Filter, Search, Fail, vars, table
<1>7. CASE UNCHANGED <<memory, gone>>
  BY <1>7 DEF Known, Stored
<1>8. CASE \E r \in Requests : Upsert(r)
  <2> PICK r \in Requests : Upsert(r)
    BY <1>8
  <2>1. /\ gone' = gone \union Values({key[r]}) /\ {key[r]} \in SUBSET Keys
        /\ k # key[r] => memory'[k] = memory[k]
        /\ k = key[r] => memory'[k].by = r
    BY <1>3
  <2> QED BY <1>1, <1>2, <2>1 DEF Known
<1>9. CASE \E K \in SUBSET Keys : Remove(K)
  <2> PICK K \in SUBSET Keys : Remove(K)
    BY <1>9
  <2>1. /\ gone' = gone \union Values(K)
        /\ k \notin K => memory'[k] = memory[k]
        /\ k \in K => memory'[k] = Absent
    BY <1>4
  <2> QED BY <1>1, <1>2, <2>1 DEF Known, Stored
<1> QED BY <1>5, <1>6, <1>7, <1>8, <1>9

(* What is known stays known.                                              *)
LEMMA KnownStays ==
  ASSUME Inv, [Next]_vars, NEW k \in Keys, NEW w, Known(k, w)
  PROVE  Known(k, w)'
BY KnownMoves DEF Known, Stored

(* What a step makes of a request: nothing; its first statement; or, its   *)
(* call the same, the outcome of one of its statements.                    *)
Idle(r) ==
  /\ pc'[r] = pc[r] /\ op'[r] = op[r] /\ key'[r] = key[r]
  /\ snapshot'[r] = snapshot[r] /\ answer'[r] = answer[r]
Begins(r) ==
  /\ pc[r] = "idle" /\ pc'[r] \notin {"idle", "filter", "done", "failed"}
  /\ op'[r] = "store" => key'[r] \in Keys
Goes(r) ==
  /\ pc[r] \notin {"idle", "done", "failed"}
  /\ pc'[r] \in {"filter", "done", "failed"}
  /\ op'[r] = op[r] /\ key'[r] = key[r]
  /\ \/ Upsert(r) /\ op[r] = "store" /\ pc'[r] # "filter"
     \/ (Find(r) \/ Search(r)) /\ op[r] # "store" /\ snapshot'[r] = memory
                               /\ memory' = memory
     \/ pc[r] = "filter" /\ snapshot'[r] = snapshot[r] /\ op[r] # "store"
     \/ op[r] \in {"forget", "prune"} /\ pc'[r] # "filter"
     \/ pc'[r] = "failed"

LEMMA RequestsMove ==
  ASSUME Inv, [Next]_vars, NEW r \in Requests
  PROVE  Idle(r) \/ Begins(r) \/ Goes(r)
<1> USE DEF Inv, TypeOK
<1>1. ASSUME NEW q \in Requests,
             BeginStore(q) \/ BeginForget(q) \/ BeginPrune(q) \/ BeginRecall(q)
      PROVE  Idle(r) \/ Begins(r)
  <2>1. CASE BeginStore(q) \/ BeginForget(q)
    BY <2>1 DEF BeginStore, BeginForget, Goto, reading, Idle, Begins
  <2>2. CASE BeginPrune(q) \/ BeginRecall(q)
    BY <2>2 DEF BeginPrune, BeginRecall, Goto, reading, Idle, Begins
  <2> QED BY <1>1, <2>1, <2>2
<1>2. ASSUME NEW q \in Requests, Upsert(q) PROVE Idle(r) \/ Goes(r)
  BY <1>2 DEF Upsert, request, reading, Answer, Goto, Idle, Goes, OpInv
<1>3. ASSUME NEW q \in Requests, Delete(q) \/ Prune(q) PROVE Idle(r) \/ Goes(r)
  BY <1>3 DEF Delete, Prune, request, reading, Answer, Goto, Idle, Goes, OpInv
<1>4. ASSUME NEW q \in Requests, Find(q) PROVE Idle(r) \/ Goes(r)
  BY <1>4 DEF Find, Rows, table, request, Answer, Goto, Idle, Goes, OpInv
<1>5. ASSUME NEW q \in Requests, Search(q) PROVE Idle(r) \/ Goes(r)
  BY <1>5 DEF Search, Rows, table, request, Answer, Goto, Idle, Goes, OpInv
<1>6. ASSUME NEW q \in Requests, Filter(q) PROVE Idle(r) \/ Goes(r)
  BY <1>6 DEF Filter, request, Goto, Idle, Goes, OpInv
<1>7. ASSUME NEW q \in Requests, Fail(q) PROVE Idle(r) \/ Goes(r)
  BY <1>7 DEF Fail, request, reading, Goto, Idle, Goes
<1>8. ASSUME Tick \/ UNCHANGED vars PROVE Idle(r)
  BY <1>8 DEF Tick, vars, request, reading, Idle
<1> QED
  BY <1>1, <1>2, <1>3, <1>4, <1>5, <1>6, <1>7, <1>8 DEF Next

(* A recall has read the table of this moment, or had read it before.      *)
LEMMA ReadingsAreKnown ==
  ASSUME Inv, KnownInv, [Next]_vars, NEW r \in Requests,
         pc'[r] = "filter" \/ Answered(r)', NEW k \in Keys,
         snapshot'[r][k] # Absent
  PROVE  Known(k, snapshot[r][k].by)'
<1>1. CASE snapshot'[r] = memory /\ memory' = memory
  BY <1>1 DEF Known, Stored
<1>2. CASE snapshot'[r] = snapshot[r] /\ (pc[r] = "filter" \/ Answered(r))
  <2>1. Known(k, snapshot[r][k].by)
    BY <1>2 DEF KnownInv
  <2>2. PICK w \in {snapshot[r][k].by} : w = snapshot[r][k].by
    OBVIOUS
  <2>3. Known(k, w)
    BY <2>1, <2>2
  <2>4. <<k, w>> \in gone' \/ (Stored(k)' /\ memory'[k].by = w)
    BY <2>3, KnownMoves DEF Known, Stored
  <2>5. snapshot'[r][k].by = w
    BY <1>2, <2>2
  <2> QED BY <2>4, <2>5 DEF Known, Stored
<1> QED BY <1>1, <1>2, RequestsMove DEF Idle, Begins, Goes, Answered

LEMMA KnownNext == Inv /\ KnownInv /\ [Next]_vars => KnownInv'
<1> SUFFICES ASSUME Inv, KnownInv, [Next]_vars PROVE KnownInv'
  OBVIOUS
<1> USE DEF Inv, TypeOK
<1>1. ASSUME NEW k \in Keys, NEW w \in Writers, Known(k, w)'
      PROVE  StoreRan(k, w)'
  <2>1. CASE Known(k, w)
    <3>1. w # Earlier => w \in Requests /\ StoreRan(k, w)
      BY <2>1 DEF KnownInv, Writers
    <3> QED BY <3>1, RequestsMove DEF StoreRan, Idle, Begins, Goes
  <2>2. CASE ~Known(k, w)
    <3>1. Stored(k)' /\ memory'[k].by = w /\ <<k, w>> \notin gone'
      BY <1>1, <2>2, KnownMoves DEF Known
    <3>2. memory'[k] # memory[k]
      BY <2>2, <3>1 DEF Known, Stored
    <3>3. PICK r \in Requests : Upsert(r) /\ key[r] = k /\ memory'[k].by = r
      BY <3>1, <3>2, KnownMoves
    <3>4. pc'[r] \in {"done", "failed"} /\ op'[r] = "store" /\ key'[r] = k
      BY <3>3 DEF Upsert, Answer, Goto, request, OpInv
    <3> QED BY <3>1, <3>3, <3>4 DEF StoreRan
  <2> QED BY <2>1, <2>2
<1>2. AcknowledgedStoresTook'
  <2> SUFFICES ASSUME NEW r \in Requests, op'[r] = "store", pc'[r] = "done"
               PROVE  Known(key[r], r)'
    BY DEF AcknowledgedStoresTook
  <2>1. CASE Upsert(r)
    <3>1. key'[r] = key[r] /\ key[r] \in Keys /\ memory'[key[r]].by = r
          /\ memory'[key[r]] # Absent
      <4>1. key'[r] = key[r] /\ key[r] \in Keys
        BY <2>1 DEF Upsert, request, OpInv
      <4>2. memory'[key[r]] = [by |-> r, expires |-> Expiry(key[r], instant[r])]
        BY <2>1, <4>1 DEF Upsert
      <4>3. Expiry(key[r], instant[r]) \in Instants
        BY <4>1 DEF Expiry, Stored, Row
      <4>4. memory'[key[r]] \in Row
        BY <4>2, <4>3 DEF Row, Writers
      <4> QED BY <4>1, <4>2, <4>4, ConstantsAssumption DEF Row, Writers, Instants
    <3> QED BY <3>1 DEF Known, Stored
  <2>2. CASE ~Upsert(r)
    <3>1. pc[r] = "done" /\ op[r] = "store" /\ key'[r] = key[r]
      BY <2>2, RequestsMove DEF Idle, Begins, Goes
    <3>2. Known(key[r], r) /\ key[r] \in Keys
      BY <3>1 DEF KnownInv, AcknowledgedStoresTook
    <3>3. PICK k \in Keys : k = key[r]
      BY <3>2
    <3>4. Known(k, r)'
      BY <3>2, <3>3, KnownStays
    <3> QED BY <3>1, <3>3, <3>4 DEF Known, Stored
  <2> QED BY <2>1, <2>2
<1>3. \A r \in Requests : pc'[r] = "filter" \/ Answered(r)' =>
        \A k \in Keys : snapshot'[r][k] # Absent =>
          Known(k, snapshot[r][k].by)'
  BY ReadingsAreKnown
<1>4. \A r \in Requests : op'[r] = "store" => key'[r] \in Keys
  BY RequestsMove DEF KnownInv, Idle, Begins, Goes
<1> QED BY <1>1, <1>2, <1>3, <1>4 DEF KnownInv

LEMMA Knowledge == Spec => [](Inv /\ KnownInv)
BY InvHolds, KnownInit, KnownNext, PTL DEF Spec

(* Nothing is answered that no store put there.                            *)
THEOREM AnswersAreReal == Spec => []AnswersWereStored
<1>1. Inv /\ KnownInv => AnswersWereStored
  <2> SUFFICES ASSUME Inv, KnownInv, NEW r \in Requests, Answered(r),
                      NEW k \in answer[r]
               PROVE  /\ Known(k, snapshot[r][k].by)
                      /\ StoreRan(k, snapshot[r][k].by)
    BY DEF AnswersWereStored
  <2>1. k \in Keys /\ snapshot[r][k] # Absent
    BY DEF Inv, TypeOK, FreshInv
  <2>2. snapshot[r][k].by \in Writers
    BY <2>1 DEF Inv, TypeOK, Row
  <2> QED BY <2>1, <2>2 DEF KnownInv
<1> QED BY Knowledge, <1>1, PTL

(* No race loses a store that was acknowledged.                            *)
THEOREM StoresTakeEffect == Spec => []AcknowledgedStoresTook
<1>1. Inv /\ KnownInv => AcknowledgedStoresTook
  BY DEF KnownInv
<1> QED BY Knowledge, <1>1, PTL

(* No race brings a value back.                                            *)
THEOREM GoneStaysGone == Spec => ValuesNeverReturn
<1> DEFINE Stays ==
      /\ gone \subseteq gone'
      /\ \A k \in Keys : Stored(k)' => <<k, memory'[k].by>> \notin gone
<1>1. Inv /\ Inv' /\ [Next]_vars => Stays
  <2> SUFFICES ASSUME Inv, Inv', [Next]_vars PROVE Stays
    OBVIOUS
  <2>1. gone \subseteq gone'
    BY DEF Next, Tick, BeginStore, BeginForget, BeginPrune, BeginRecall, Upsert,
           Delete, Prune, Remove, Find, Filter, Search, Fail, vars, table
  <2>2. \A k \in Keys : Stored(k)' => <<k, memory'[k].by>> \notin gone'
    BY DEF Inv, ValuesInv
  <2> QED BY <2>1, <2>2
<1>2. Inv /\ Inv' /\ [Next]_vars => [Stays]_vars
  BY <1>1
<1> QED BY InvHolds, <1>2, PTL DEF Spec, ValuesNeverReturn
=============================================================================
