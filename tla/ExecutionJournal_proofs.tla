----------------------- MODULE ExecutionJournal_proofs -----------------------
(* That the execution service keeps the journal of StatusJournal, and that *)
(* outputs are earned, for any set of executions, tasks and requests.      *)
EXTENDS ExecutionLifecycle_proofs

(* Only a creation inserts an execution, and no markFailed inserts an      *)
(* event.                                                                  *)
KindsOK ==
  \A r \in Requests :
    /\ pc[r] = "insert" => call[r].op = "create"
    /\ pc[r] = "event" => call[r].op # "markFailed"

Inv == TypeInv /\ AuditInv /\ KindsOK

LEMMA KindsQuiet ==
  ASSUME KindsOK,
         \A q \in Requests :
           pc'[q] \in {"insert", "event"} => pc'[q] = pc[q] /\ call'[q] = call[q]
  PROVE  KindsOK'
BY DEF KindsOK

LEMMA KindsNext == TypeInv /\ KindsOK /\ [Next]_vars => KindsOK'
<1> SUFFICES ASSUME TypeInv, KindsOK, [Next]_vars PROVE KindsOK'
  OBVIOUS
<1> USE DEF TypeInv, TypeOK, Goto, Proceed
<1>1. ASSUME NEW r \in Requests, InsertExecution(r) PROVE KindsOK'
  BY <1>1 DEF InsertExecution, KindsOK
<1>2. ASSUME NEW r \in Requests, WriteStatus(r) PROVE KindsOK'
  BY <1>2 DEF WriteStatus, AfterWrite, KindsOK
<1>3. ASSUME NEW r \in Requests, WriteFailure(r) PROVE KindsOK'
  BY <1>3, KindsQuiet DEF WriteFailure, AfterWrite
<1>4. ASSUME NEW r \in Requests, InsertEvent(r) PROVE KindsOK'
  BY <1>4, KindsQuiet DEF InsertEvent, AfterEvent
<1>5. ASSUME NEW r \in Requests,
             WriteOutput(r) \/ AppendTask(r) \/ DeleteExecution(r) \/ Fail(r)
               \/ FindExecution(r) \/ FindTasks(r) \/ StepNotFound(r)
      PROVE  KindsOK'
  BY <1>5, KindsQuiet
     DEF WriteOutput, AppendTask, DeleteExecution, Fail, FindExecution,
         FindTasks, StepNotFound
<1>6. ASSUME NEW r \in Requests, NEW t \in Tasks,
             ResetTask(r, t) \/ RejectReset(r, t)
      PROVE  KindsOK'
  <2>1. UNCHANGED call /\ (UNCHANGED pc \/ Goto(r, "failed") \/ Goto(r, "update"))
    BY <1>6 DEF ResetTask, RejectReset
  <2> QED BY <2>1, KindsQuiet
<1>7. ASSUME NEW r \in Requests, Begin(r) PROVE KindsOK'
  <2>0. PICK e \in Executions : \E d \in CallsOn(e) \union {Creation(e)} :
          call' = [call EXCEPT ![r] = d]
    BY <1>7 DEF Begin
  <2>1. PICK c \in CallsOn(e) \union {Creation(e)} :
          call' = [call EXCEPT ![r] = c]
    BY <2>0
  <2>2. pc' = [pc EXCEPT ![r] = FirstStatement(c.op)]
    BY <1>7, <2>1 DEF Begin
  <2>3. c.op \in Ops \ {"none"}
    BY CallsAreTyped DEF Call
  <2>4. /\ FirstStatement(c.op) = "insert" => c.op = "create"
        /\ FirstStatement(c.op) # "event"
    BY <2>3, FirstStatements DEF Ops
  <2> QED BY <2>1, <2>2, <2>4 DEF KindsOK
<1>8. ASSUME NEW t \in Tasks, WorkerUpdate(t) PROVE KindsOK'
  BY <1>8, KindsQuiet DEF WorkerUpdate
<1>9. CASE Crash
  BY <1>9, KindsQuiet DEF Crash
<1>10. CASE UNCHANGED vars
  BY <1>10, KindsQuiet DEF vars
<1> QED
  BY <1>1, <1>2, <1>3, <1>4, <1>5, <1>6, <1>7, <1>8, <1>9, <1>10
     DEF Next, Statement

LEMMA Invariance == Spec => []Inv
<1>1. Init => KindsOK
  BY DEF Init, KindsOK
<1>2. TypeInv /\ AuditInv /\ KindsOK => Inv
  BY DEF Inv
<1> QED
  BY <1>1, <1>2, Typing, AuditInit, AuditNext, KindsNext, PTL DEF Spec

(* Deleting an execution detaches events; each keeps its request.          *)
LEMMA DetachingKeepsRecords ==
  ASSUME TypeInv, NEW r \in Requests, DeleteExecution(r)
  PROVE  \A q \in Requests : Recorded(q)' <=> Recorded(q)
<1> DEFINE Detach(ev) ==
      [ev EXCEPT !.execution = IF @ = Target(r) THEN NoExecution ELSE @]
<1>1. \A ev \in events : Detach(ev).request = ev.request
  BY DEF TypeInv, TypeOK, EventRow
<1>2. events' = {Detach(ev) : ev \in events}
  BY DEF DeleteExecution, Detached
<1> HIDE DEF Detach
<1> QED BY <1>1, <1>2 DEF Recorded

LEMMA LoggingRecords ==
  ASSUME NEW r \in Requests, InsertEvent(r)
  PROVE  \A q \in Requests : Recorded(q)' <=> q = r \/ Recorded(q)
<1> DEFINE new == [request |-> r, execution |-> Target(r), type |-> EventType(r)]
<1>1. new.request = r
  OBVIOUS
<1>2. events' = events \union {new}
  BY DEF InsertEvent
<1> HIDE DEF new
<1> QED BY <1>1, <1>2 DEF Recorded

(***************************************************************************)
(* What a step may do to the audit trail: nothing, except that requests in *)
(* flight fail; write one status; or insert one event.                     *)
(***************************************************************************)
Idles ==
  /\ wrote' = wrote
  /\ \A q \in Requests :
       /\ Recorded(q)' <=> Recorded(q)
       /\ pc[q] # "idle" => call'[q] = call[q]
       /\ \/ pc'[q] = pc[q]
          \/ pc'[q] = "failed"
          \/ pc[q] \in BeforeWrite
          \/ pc[q] = "output" /\ pc'[q] = "done"
Writes(r) ==
  /\ r \notin wrote
  /\ wrote' = wrote \union {r}
  /\ call' = call
  /\ UNCHANGED events
  /\ \/ Goto(r, "event") \/ Goto(r, "failed")
     \/ Goto(r, "done") /\ call[r].op = "markFailed"
Logs(r) ==
  /\ r \in wrote
  /\ wrote' = wrote
  /\ call' = call
  /\ \A q \in Requests : Recorded(q)' <=> q = r \/ Recorded(q)
  /\ pc[r] = "event"
  /\ \/ Goto(r, AfterEvent(r)) \/ Goto(r, "failed")

LEMMA StepsOfTheTrail ==
  ASSUME Inv, [Next]_vars
  PROVE  Idles \/ \E r \in Requests : Writes(r) \/ Logs(r)
<1> USE DEF Inv, TypeInv, TypeOK, AuditInv
<1>1. ASSUME NEW r \in Requests, InsertExecution(r) PROVE Writes(r)
  BY <1>1 DEF InsertExecution, Proceed, Writes, BeforeWrite
<1>2. ASSUME NEW r \in Requests, WriteStatus(r) PROVE Writes(r)
  BY <1>2 DEF WriteStatus, AfterWrite, Proceed, Writes, BeforeWrite
<1>3. ASSUME NEW r \in Requests, WriteFailure(r) PROVE Writes(r)
  BY <1>3 DEF WriteFailure, AfterWrite, Proceed, Writes, BeforeWrite
<1>4. ASSUME NEW r \in Requests, InsertEvent(r) PROVE Logs(r)
  BY <1>4, LoggingRecords DEF InsertEvent, Proceed, Logs
<1>5. ASSUME NEW r \in Requests, WriteOutput(r) PROVE Idles
  BY <1>5 DEF WriteOutput, Proceed, Goto, Idles, Recorded
<1>6. ASSUME NEW r \in Requests, AppendTask(r) PROVE Idles
  BY <1>6 DEF AppendTask, Proceed, Goto, Idles, Recorded, BeforeWrite
<1>7. ASSUME NEW r \in Requests,
             FindExecution(r) \/ FindTasks(r) \/ StepNotFound(r)
      PROVE  Idles
  BY <1>7 DEF FindExecution, FindTasks, StepNotFound, Goto, Idles, Recorded,
              BeforeWrite, tables
<1>8. ASSUME NEW r \in Requests, DeleteExecution(r) PROVE Idles
  BY <1>8, DetachingKeepsRecords
     DEF DeleteExecution, Proceed, Goto, Idles, BeforeWrite
<1>9. ASSUME NEW r \in Requests, Fail(r) PROVE Idles
  BY <1>9 DEF Fail, Goto, Idles, Recorded, tables
<1>10. ASSUME NEW r \in Requests, NEW t \in Tasks,
              ResetTask(r, t) \/ RejectReset(r, t)
       PROVE  Idles
  <2>1. UNCHANGED <<events, wrote, call>>
    BY <1>10 DEF ResetTask, RejectReset, tables
  <2>2. \/ UNCHANGED pc \/ Goto(r, "failed")
        \/ pc[r] = "reset" /\ Goto(r, "update")
    BY <1>10 DEF ResetTask, RejectReset
  <2> QED BY <2>1, <2>2 DEF Goto, Idles, Recorded, BeforeWrite
<1>11. ASSUME NEW r \in Requests, Begin(r) PROVE Idles
  <2>1. pc[r] = "idle" /\ \A q \in Requests \ {r} :
          call'[q] = call[q] /\ pc'[q] = pc[q]
    BY <1>11 DEF Begin, Goto
  <2> QED BY <1>11, <2>1 DEF Begin, Idles, Recorded, BeforeWrite, tables
<1>12. ASSUME NEW t \in Tasks, WorkerUpdate(t) PROVE Idles
  BY <1>12 DEF WorkerUpdate, Idles, Recorded
<1>13. CASE Crash
  BY <1>13 DEF Crash, Idles, Recorded, tables
<1>14. CASE UNCHANGED vars
  BY <1>14 DEF vars, Idles, Recorded
<1> QED
  BY <1>1, <1>2, <1>3, <1>4, <1>5, <1>6, <1>7, <1>8, <1>9, <1>10, <1>11,
     <1>12, <1>13, <1>14 DEF Next, Statement

(***************************************************************************)
(* The refinement.                                                         *)
(***************************************************************************)
Given == {r \in Requests : Recorded(r)}
Lost == {r \in Announcing : pc[r] = "failed" /\ ~Recorded(r)}

(* Who has written, is owed an event and has not failed waits for it.      *)
LEMMA OwedWait ==
  ASSUME Inv, NEW r \in wrote, call[r].op # "markFailed", ~Recorded(r)
  PROVE  pc[r] \in {"event", "failed"}
BY DEF Inv, TypeInv, TypeOK, AuditInv, SuccessIsRecorded, BeforeWrite, Pc, Waiting

LEMMA IdlesRefine ==
  ASSUME Inv, Idles
  PROVE  \/ Announcing' = Announcing /\ Given' = Given /\ Lost' = Lost
         \/ \E S \in SUBSET Requests :
              /\ S # {} /\ S \subseteq Announcing \ (Given \union Lost)
              /\ Announcing' = Announcing /\ Given' = Given
              /\ Lost' = Lost \union S
<1> USE DEF Inv, TypeInv, TypeOK, AuditInv
<1>1. \A q \in wrote : pc[q] # "idle" /\ call'[q] = call[q]
  BY DEF Idles, BeforeWrite
<1>2. Announcing' = Announcing /\ Given' = Given
  BY <1>1 DEF Idles, Announcing, Given
<1> DEFINE S == {q \in Announcing : pc[q] # "failed" /\ pc'[q] = "failed"
                                    /\ ~Recorded(q)}
<1>3. S \in SUBSET Requests /\ S \subseteq Announcing \ (Given \union Lost)
  BY DEF Announcing, Given, Lost
<1>4. ASSUME NEW q \in Announcing, ~Recorded(q)
      PROVE  pc'[q] = pc[q] \/ pc'[q] = "failed"
  BY <1>4, OwedWait DEF Idles, Announcing, BeforeWrite
<1>5. Lost' = {q \in Announcing : pc'[q] = "failed" /\ ~Recorded(q)}
  BY <1>2 DEF Idles, Lost, Announcing
<1>6. Lost' = Lost \union S
  BY <1>4, <1>5 DEF Lost
<1> HIDE DEF S
<1> QED BY <1>2, <1>3, <1>6

LEMMA WritesRefine ==
  ASSUME Inv, NEW r \in Requests, Writes(r)
  PROVE  \/ Announcing' = Announcing /\ Given' = Given /\ Lost' = Lost
         \/ /\ r \notin Announcing
            /\ Announcing' = Announcing \union {r} /\ Given' = Given
            /\ Lost' = Lost \/ Lost' = Lost \union {r}
<1> USE DEF Inv, TypeInv, TypeOK, AuditInv
<1>1. \A q \in Requests : Recorded(q)' <=> Recorded(q)
  BY DEF Writes, Recorded
<1>2. Given' = Given
  BY <1>1 DEF Given
<1>3. ~Recorded(r)
  BY DEF Writes, Recorded, EventsAreBacked
<1>4. \A q \in Requests : q # r => pc'[q] = pc[q]
  BY DEF Writes, Goto
<1>5. CASE call[r].op = "markFailed"
  <2>1. Announcing' = Announcing /\ r \notin Announcing
    BY <1>5 DEF Writes, Announcing
  <2>2. Lost' = Lost
    BY <1>1, <1>4, <2>1 DEF Lost, Announcing
  <2> QED BY <1>2, <2>1, <2>2
<1>6. CASE call[r].op # "markFailed"
  <2>1. Announcing' = Announcing \union {r} /\ r \notin Announcing
    BY <1>6 DEF Writes, Announcing
  <2>2. Lost' = Lost \/ Lost' = Lost \union {r}
    <3>1. \A q \in Announcing : q # r
      BY <2>1
    <3>2. Lost' = Lost \union {q \in {r} : pc'[q] = "failed"}
      BY <1>1, <1>3, <1>4, <2>1, <3>1 DEF Lost, Announcing
    <3> QED BY <3>2
  <2> QED BY <1>2, <2>1, <2>2
<1> QED BY <1>5, <1>6

LEMMA LogsRefine ==
  ASSUME Inv, NEW r \in Requests, Logs(r)
  PROVE  \/ Announcing' = Announcing /\ Given' = Given /\ Lost' = Lost
         \/ /\ r \in Announcing \ (Given \union Lost)
            /\ Announcing' = Announcing /\ Given' = Given \union {r}
            /\ Lost' = Lost
<1> USE DEF Inv, TypeInv, TypeOK, AuditInv
<1>1. Announcing' = Announcing
  BY DEF Logs, Announcing
<1>2. Given' = Given \union {r}
  BY DEF Logs, Given
<1>3. Lost' = Lost
  BY <1>1 DEF Logs, Lost, Goto, Announcing
<1>4. r \in Given \/ r \in Announcing \ (Given \union Lost)
  BY DEF Logs, Given, Announcing, Lost, KindsOK
<1> QED BY <1>1, <1>2, <1>3, <1>4

LEMMA JournalInit == Init => Journal!Init
BY DEF Init, Journal!Init, Announcing, Recorded

LEMMA JournalNext == Inv /\ [Next]_vars => [Journal!Next]_Journal!vars
<1> SUFFICES ASSUME Inv, [Next]_vars PROVE [Journal!Next]_Journal!vars
  OBVIOUS
<1> USE DEF Journal!Next, Journal!vars, Journal!Write, Journal!WriteUnseen,
            Journal!Log, Journal!Lose, Journal!Owed
<1>1. CASE Idles
  BY <1>1, IdlesRefine DEF Given, Lost
<1>2. ASSUME NEW r \in Requests, Writes(r) PROVE [Journal!Next]_Journal!vars
  BY <1>2, WritesRefine DEF Given, Lost
<1>3. ASSUME NEW r \in Requests, Logs(r) PROVE [Journal!Next]_Journal!vars
  BY <1>3, LogsRefine DEF Given, Lost
<1> QED BY <1>1, <1>2, <1>3, StepsOfTheTrail

(* Every behaviour of the service, with its failing statements, crashes    *)
(* and deletes, is one of the journal: a status write is recorded by one   *)
(* event or its request fails, no event precedes its write, and a write    *)
(* whose request failed never gets an event later.                         *)
THEOREM ServiceKeepsJournal == Spec => JournalSpec
BY JournalInit, JournalNext, Invariance, PTL DEF Spec, JournalSpec, Journal!Spec

(***************************************************************************)
(* Outputs.  Only a markComplete that has recorded its completion waits to *)
(* store an output; writes and events are never taken back.                *)
(***************************************************************************)
Earned(e) ==
  \E r \in wrote : Target(r) = e /\ call[r].op = "markComplete" /\ Recorded(r)
OutputInv ==
  /\ \A e \in Executions : execution[e].output => Earned(e)
  /\ \A r \in Requests : pc[r] = "output" => call[r].op = "markComplete"

LEMMA OutputInit == Init => OutputInv
BY DEF Init, OutputInv, EmptyRow

LEMMA EarningsStay ==
  ASSUME Inv, [Next]_vars, NEW e \in Executions, Earned(e)
  PROVE  Earned(e)'
<1> PICK r \in wrote : Target(r) = e /\ call[r].op = "markComplete" /\ Recorded(r)
  BY DEF Earned
<1>1. r \in Requests /\ pc[r] # "idle"
  BY DEF Inv, TypeInv, TypeOK, AuditInv, BeforeWrite
<1>2. r \in wrote' /\ call'[r] = call[r] /\ Recorded(r)'
  BY <1>1, StepsOfTheTrail DEF Idles, Writes, Logs, Recorded
<1> QED BY <1>2 DEF Earned, Target

(* A step that stores no output and sends nobody to store one.             *)
LEMMA OutputQuiet ==
  ASSUME Inv, OutputInv, [Next]_vars,
         \A e \in Executions : execution'[e].output => execution[e].output,
         \A q \in Requests : pc'[q] = "output" =>
           pc[q] = "output" /\ call'[q] = call[q]
  PROVE  OutputInv'
BY EarningsStay DEF OutputInv

LEMMA OutputNext == Inv /\ OutputInv /\ [Next]_vars => OutputInv'
<1> SUFFICES ASSUME Inv, OutputInv, [Next]_vars PROVE OutputInv'
  OBVIOUS
<1> USE DEF Inv, TypeInv, TypeOK
<1>1. ASSUME NEW r \in Requests, InsertExecution(r) PROVE OutputInv'
  BY <1>1, OutputQuiet DEF InsertExecution, EmptyRow, Proceed, Goto
<1>2. ASSUME NEW r \in Requests, WriteStatus(r) PROVE OutputInv'
  <2>1. \A e \in Executions : execution'[e].output = execution[e].output
    BY <1>2 DEF WriteStatus, Transition, ExecutionRow
  <2> QED BY <1>2, <2>1, OutputQuiet DEF WriteStatus, AfterWrite, Proceed, Goto
<1>3. ASSUME NEW r \in Requests, WriteFailure(r) PROVE OutputInv'
  <2>1. \A e \in Executions : execution'[e].output = execution[e].output
    BY <1>3 DEF WriteFailure, Transition, ExecutionRow
  <2> QED BY <1>3, <2>1, OutputQuiet DEF WriteFailure, AfterWrite, Proceed, Goto
<1>4. ASSUME NEW r \in Requests, InsertEvent(r) PROVE OutputInv'
  <2>1. UNCHANGED <<execution, call>>
    BY <1>4 DEF InsertEvent
  <2>2. \A q \in Requests : pc'[q] = "output" =>
          pc[q] = "output" \/ call[q].op = "markComplete"
    BY <1>4 DEF InsertEvent, Proceed, Goto, AfterEvent
  <2> QED BY <2>1, <2>2, EarningsStay DEF OutputInv
<1>5. ASSUME NEW r \in Requests, WriteOutput(r) PROVE OutputInv'
  <2>1. Target(r) \in Executions /\ Recorded(r) /\ call[r].op = "markComplete"
    BY <1>5 DEF WriteOutput, OutputInv, AuditInv, CallsOK
  <2>2. r \in wrote
    BY <2>1 DEF Recorded, AuditInv, EventsAreBacked
  <2>3. Earned(Target(r))
    BY <2>1, <2>2 DEF Earned
  <2>4. \A e \in Executions : execution'[e].output =>
          e = Target(r) \/ execution[e].output
    BY <1>5 DEF WriteOutput
  <2>5. UNCHANGED call /\ \A q \in Requests :
          pc'[q] = "output" => pc[q] = "output"
    BY <1>5 DEF WriteOutput, Proceed, Goto
  <2> QED BY <2>1, <2>3, <2>4, <2>5, EarningsStay DEF OutputInv
<1>6. ASSUME NEW r \in Requests,
             AppendTask(r) \/ FindExecution(r) \/ FindTasks(r)
               \/ StepNotFound(r) \/ Fail(r)
      PROVE  OutputInv'
  BY <1>6, OutputQuiet
     DEF AppendTask, FindExecution, FindTasks, StepNotFound, Fail, Proceed,
         Goto, tables
<1>7. ASSUME NEW r \in Requests, DeleteExecution(r) PROVE OutputInv'
  BY <1>7, OutputQuiet DEF DeleteExecution, EmptyRow, Proceed, Goto
<1>8. ASSUME NEW r \in Requests, NEW t \in Tasks,
             ResetTask(r, t) \/ RejectReset(r, t)
      PROVE  OutputInv'
  <2>1. UNCHANGED <<execution, call>>
    BY <1>8 DEF ResetTask, RejectReset, tables
  <2>2. UNCHANGED pc \/ Goto(r, "failed") \/ Goto(r, "update")
    BY <1>8 DEF ResetTask, RejectReset
  <2> QED BY <2>1, <2>2, OutputQuiet DEF Goto
<1>9. ASSUME NEW r \in Requests, Begin(r) PROVE OutputInv'
  <2>0. PICK e \in Executions : \E d \in CallsOn(e) \union {Creation(e)} :
          call' = [call EXCEPT ![r] = d]
    BY <1>9 DEF Begin
  <2>1. PICK c \in CallsOn(e) \union {Creation(e)} :
          call' = [call EXCEPT ![r] = c]
    BY <2>0
  <2>2. c.op \in Ops \ {"none"}
    BY CallsAreTyped DEF Call
  <2>3. FirstStatement(c.op) # "output"
    BY <2>2, FirstStatements DEF Ops
  <2>4. pc' = [pc EXCEPT ![r] = FirstStatement(c.op)]
    BY <1>9, <2>1 DEF Begin, Goto
  <2> QED BY <1>9, <2>1, <2>3, <2>4, OutputQuiet DEF Begin, tables
<1>10. ASSUME NEW t \in Tasks, WorkerUpdate(t) PROVE OutputInv'
  BY <1>10, OutputQuiet DEF WorkerUpdate
<1>11. CASE Crash
  BY <1>11, OutputQuiet DEF Crash, tables
<1>12. CASE UNCHANGED vars
  BY <1>12, OutputQuiet DEF vars
<1> QED
  BY <1>1, <1>2, <1>3, <1>4, <1>5, <1>6, <1>7, <1>8, <1>9, <1>10, <1>11,
     <1>12 DEF Next, Statement

(* Whatever other calls do between markComplete's statements, an execution *)
(* holds an output only if a markComplete of it wrote its status and       *)
(* recorded that.                                                          *)
THEOREM OutputsAreEarned == Spec => []OutputIsEarned
<1>1. OutputInv => OutputIsEarned
  BY DEF OutputInv, Earned, OutputIsEarned
<1> QED
  BY OutputInit, OutputNext, Invariance, <1>1, PTL DEF Spec

----------------------------------------------------------------------------
(***************************************************************************)
(* The journal is only added to, and has one entry for each call.          *)
(***************************************************************************)
(* Neither a delete, which detaches events, nor a crash or a failing       *)
(* statement takes a write or its event back; and a write whose request    *)
(* failed before its event stays without one.                              *)
TrailOnlyGrows ==
  [][/\ Announcing \subseteq Announcing' /\ Given \subseteq Given'
     /\ Lost \subseteq Lost' /\ Given' \intersect Lost' = {}]_vars

(* No call leaves two event rows, by an insert that is sent again or by a  *)
(* delete that copies one.                                                 *)
OneEventPerCall ==
  \A ev, ew \in events : ev.request = ew.request => ev = ew

(* The trail of what happened is never shortened or rewritten.             *)
THEOREM JournalOnlyGrows == Spec => TrailOnlyGrows
<1> DEFINE Grows ==
      /\ Announcing \subseteq Announcing' /\ Given \subseteq Given'
      /\ Lost \subseteq Lost' /\ Given' \intersect Lost' = {}
<1>1. Inv /\ [Next]_vars => Grows
  <2> SUFFICES ASSUME Inv, [Next]_vars PROVE Grows
    OBVIOUS
  <2>1. Given' \intersect Lost' = {}
    BY DEF Given, Lost
  <2>2. CASE Idles
    BY <2>1, <2>2, IdlesRefine
  <2>3. ASSUME NEW r \in Requests, Writes(r) PROVE Grows
    BY <2>1, <2>3, WritesRefine
  <2>4. ASSUME NEW r \in Requests, Logs(r) PROVE Grows
    BY <2>1, <2>4, LogsRefine
  <2> QED BY <2>2, <2>3, <2>4, StepsOfTheTrail
<1>2. Inv /\ [Next]_vars => [Grows]_vars
  BY <1>1
<1> QED BY Invariance, <1>2, PTL DEF Spec, TrailOnlyGrows

(* Who waits for its event has none.                                       *)
UniqueInv ==
  /\ OneEventPerCall
  /\ \A r \in Requests : pc[r] = "event" => ~Recorded(r)

LEMMA WaitingUnrecorded ==
  ASSUME Inv, UniqueInv, [Next]_vars, NEW q \in Requests, pc'[q] = "event"
  PROVE  ~Recorded(q)'
<1> USE DEF Inv, TypeInv, TypeOK
<1>1. q \notin wrote => ~Recorded(q)
  BY DEF AuditInv, EventsAreBacked, Recorded
<1>2. pc[q] = "event" => ~Recorded(q)
  BY DEF UniqueInv
<1>3. CASE Idles
  BY <1>1, <1>2, <1>3 DEF Idles, AuditInv, BeforeWrite
<1>4. ASSUME NEW r \in Requests, Writes(r) PROVE ~Recorded(q)'
  <2>1. events' = events /\ \A p \in Requests \ {r} : pc'[p] = pc[p]
    BY <1>4 DEF Writes, Goto
  <2> QED BY <1>1, <1>2, <1>4, <2>1 DEF Writes, Recorded
<1>5. ASSUME NEW r \in Requests, Logs(r) PROVE ~Recorded(q)'
  <2>1. q # r /\ pc'[q] = pc[q]
    BY <1>5 DEF Logs, Goto, AfterEvent
  <2> QED BY <1>2, <1>5, <2>1 DEF Logs
<1> QED BY <1>3, <1>4, <1>5, StepsOfTheTrail

LEMMA EventsStayUnique ==
  ASSUME Inv, UniqueInv, [Next]_vars
  PROVE  OneEventPerCall'
<1>1. ASSUME NEW r \in Requests, InsertEvent(r) PROVE OneEventPerCall'
  <2> DEFINE new == [request |-> r, execution |-> Target(r), type |-> EventType(r)]
  <2>1. events' = events \union {new} /\ new.request = r
    BY <1>1 DEF InsertEvent
  <2>2. \A ev \in events : ev.request # r
    BY <1>1 DEF InsertEvent, UniqueInv, Recorded
  <2> HIDE DEF new
  <2> QED BY <2>1, <2>2 DEF UniqueInv, OneEventPerCall
<1>2. ASSUME NEW r \in Requests, DeleteExecution(r) PROVE OneEventPerCall'
  <2> DEFINE Detach(ev) ==
        [ev EXCEPT !.execution = IF @ = Target(r) THEN NoExecution ELSE @]
  <2>1. \A ev \in events : Detach(ev).request = ev.request
    BY DEF Inv, TypeInv, TypeOK, EventRow
  <2>2. events' = {Detach(ev) : ev \in events}
    BY <1>2 DEF DeleteExecution, Detached
  <2> HIDE DEF Detach
  <2> QED BY <2>1, <2>2 DEF UniqueInv, OneEventPerCall
<1>3. \/ UNCHANGED events
      \/ \E r \in Requests : InsertEvent(r) \/ DeleteExecution(r)
  BY DEF Next, Statement, Begin, InsertExecution, WriteStatus, WriteFailure,
         WriteOutput, AppendTask, FindExecution, FindTasks, StepNotFound, Fail,
         ResetTask, RejectReset, WorkerUpdate, Crash, vars, tables
<1> QED BY <1>1, <1>2, <1>3 DEF UniqueInv, OneEventPerCall

(* A call is recorded once at most, whatever fails or is deleted.          *)
THEOREM EventsAreUnique == Spec => []OneEventPerCall
<1>1. Init => UniqueInv
  BY DEF Init, UniqueInv, OneEventPerCall
<1>2. Inv /\ UniqueInv /\ [Next]_vars => UniqueInv'
  BY WaitingUnrecorded, EventsStayUnique DEF UniqueInv
<1>3. UniqueInv => OneEventPerCall
  BY DEF UniqueInv
<1> QED BY Invariance, <1>1, <1>2, <1>3, PTL DEF Spec
=============================================================================
