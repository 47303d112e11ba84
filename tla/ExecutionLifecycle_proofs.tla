---------------------- MODULE ExecutionLifecycle_proofs ----------------------
(* Proofs about ExecutionLifecycle, for any set of executions, tasks and   *)
(* requests.                                                               *)
EXTENDS ExecutionLifecycle, TLAPS

Writers == {"create", "updateStatus", "markComplete", "markFailed", "replay"}

(* A request under way has a target, and what it waits to issue is a       *)
(* statement of its call.                                                  *)
CallsOK ==
  \A r \in Requests : pc[r] # "idle" =>
    /\ Target(r) \in Executions
    /\ call[r].op \in Writers => call[r].status \in ExecutionStatus
    /\ pc[r] \in {"insert", "update", "event", "find", "reset"} =>
         call[r].op \in Writers
    /\ pc[r] = "append" => call[r].step \in Steps

(* Only a replay that awaits its resets, or has failed, has some pending. *)
PromisesOK ==
  \A r \in Requests, t \in Tasks :
    promise[r][t] = "pending" =>
      pc[r] \in {"reset", "failed"} /\ call[r].op = "replay"

TypeInv == TypeOK /\ CallsOK /\ PromisesOK

LEMMA FirstStatements ==
  /\ FirstStatement("create") = "insert"
  /\ FirstStatement("append") = "append"
  /\ FirstStatement("delete") = "delete"
  /\ FirstStatement("markFailed") = "find"
  /\ FirstStatement("replay") = "find"
  /\ FirstStatement("updateStatus") = "update"
  /\ FirstStatement("markComplete") = "update"
BY DEF FirstStatement, FirstOf

(* The calls a client can make are typed, and begin with a statement of    *)
(* theirs.                                                                 *)
LEMMA CallsAreTyped ==
  ASSUME NEW e \in Executions, NEW c \in CallsOn(e) \union {Creation(e)}
  PROVE  /\ c \in Call
         /\ c.op # "none"
         /\ c.execution = e
         /\ c.op \in Writers => c.status \in ExecutionStatus
         /\ FirstStatement(c.op) \in Waiting
         /\ FirstStatement(c.op) \in {"insert", "update", "event", "find", "reset"}
              => c.op \in Writers
         /\ FirstStatement(c.op) = "append" => c.step \in Steps
<1> USE ConstantsAssumption, FirstStatements
        DEF MakeCall, Call, Ops, Waiting, Writers, ExecutionStatus
<1>1. CASE \E s \in Requested : c = MakeCall("updateStatus", e, s, NoStep, FALSE)
  BY <1>1
<1>2. CASE \E step \in Steps : c = MakeCall("append", e, NoStatus, step, FALSE)
  BY <1>2
<1>3. CASE \E step \in Steps : c = MakeCall("replay", e, "RUNNING", step, FALSE)
  BY <1>3
<1>4. CASE c = MakeCall("markComplete", e, "COMPLETED", NoStep, TRUE)
  BY <1>4
<1>5. CASE c = MakeCall("markComplete", e, "COMPLETED", NoStep, FALSE)
  BY <1>5
<1>6. CASE c = MakeCall("markFailed", e, "FAILED", NoStep, FALSE)
  BY <1>6
<1>7. CASE c = MakeCall("delete", e, NoStatus, NoStep, FALSE)
  BY <1>7
<1>8. CASE c = Creation(e)
  BY <1>8 DEF Creation
<1> HIDE DEF MakeCall, Call, Ops, Waiting, Writers, ExecutionStatus
<1> QED
  BY <1>1, <1>2, <1>3, <1>4, <1>5, <1>6, <1>7, <1>8 DEF CallsOn

(* Rows stay rows. *)
LEMMA RowsAreTyped ==
  ASSUME NEW row \in ExecutionRow, NEW status \in ExecutionStatus, NEW n \in Nat
  PROVE  /\ EmptyRow("live") \in ExecutionRow
         /\ EmptyRow("never") \in ExecutionRow
         /\ EmptyRow("gone") \in ExecutionRow
         /\ Transition(row, status) \in ExecutionRow
         /\ [row EXCEPT !.retries = n] \in ExecutionRow
         /\ [row EXCEPT !.output = TRUE] \in ExecutionRow
BY DEF ExecutionRow, EmptyRow, Transition, ExecutionStatus, RowState

LEMMA TasksAreTyped ==
  /\ NoTask("never") \in TaskRow
  /\ NoTask("gone") \in TaskRow
  /\ \A e \in Executions, step \in Steps, at \in Ticks :
       PendingTask(e, step, at) \in TaskRow
BY ConstantsAssumption
   DEF TaskRow, NoTask, PendingTask, RowState, TaskStatus

LEMMA ReportsAreTyped ==
  ASSUME NEW row \in TaskRow, NEW status \in TaskStatus
  PROVE  Report(row, status) \in TaskRow
BY DEF TaskRow, Report, TaskStatus

LEMMA InitTyped == Init => TypeInv
<1> SUFFICES ASSUME Init PROVE TypeInv
  OBVIOUS
<1>1. EmptyRow("live") \in ExecutionRow /\ EmptyRow("never") \in ExecutionRow
  BY DEF EmptyRow, ExecutionRow, ExecutionStatus, RowState
<1>2. execution \in [Executions -> ExecutionRow]
  BY <1>1 DEF Init
<1>3. task \in [Tasks -> TaskRow]
  BY TasksAreTyped DEF Init
<1>4. pc \in [Requests -> Pc] /\ seen \in [Requests -> Nat]
      /\ failures \in [Executions -> Nat]
  BY DEF Init, Pc
<1>5. call \in [Requests -> Call]
  BY DEF Init, NoCall, MakeCall, Call, Ops
<1>6. promise \in [Requests -> [Tasks -> Promise]]
  BY DEF Init, Promise
<1>7. events \subseteq EventRow /\ wrote \subseteq Requests
  BY DEF Init
<1> QED
  BY <1>2, <1>3, <1>4, <1>5, <1>6, <1>7 DEF Init, TypeInv, TypeOK, CallsOK, PromisesOK
(* Sending a request to another statement of its call, or ending it. *)
LEMMA GotoTyped ==
  ASSUME TypeInv, NEW r \in Requests, pc[r] # "idle", NEW label \in Pc,
         Goto(r, label), call' = call,
         label \in {"insert", "update", "event", "find", "reset"}
           => call[r].op \in Writers,
         label # "append"
  PROVE  pc' \in [Requests -> Pc] /\ CallsOK'
BY DEF TypeInv, TypeOK, CallsOK, Goto, Target

LEMMA GotoKeepsPromises ==
  ASSUME TypeInv, NEW r \in Requests, pc[r] \notin {"reset", "failed"},
         NEW label \in Pc, Goto(r, label), UNCHANGED <<promise, call>>
  PROVE  PromisesOK'
BY DEF TypeInv, TypeOK, PromisesOK, Goto

LEMMA SettleTyped ==
  ASSUME TypeInv, NEW r \in Requests, NEW t \in Tasks, NEW outcome \in Promise,
         Settle(r, t, outcome)
  PROVE  promise' \in [Requests -> [Tasks -> Promise]]
BY DEF TypeInv, TypeOK, Settle

LEMMA StatementTyped ==
  ASSUME TypeInv, NEW r \in Requests, Statement(r)
  PROVE  TypeInv'
<1> USE DEF TypeInv, TypeOK
<1>a. "done" \in Pc /\ "failed" \in Pc /\ "event" \in Pc /\ "output" \in Pc
      /\ "update" \in Pc /\ "reset" \in Pc
  BY DEF Pc, Waiting
<1>b. ASSUME pc[r] # "idle" PROVE Target(r) \in Executions
  BY <1>b DEF CallsOK
<1>1. CASE InsertExecution(r)
  <2>1. execution' \in [Executions -> ExecutionRow]
    BY <1>1, <1>b DEF InsertExecution, EmptyRow, ExecutionRow, ExecutionStatus,
                      RowState
  <2>2. pc' \in [Requests -> Pc] /\ CallsOK'
    BY <1>1, <1>a, GotoTyped DEF InsertExecution, Proceed, CallsOK
  <2>p. PromisesOK'
    BY <1>1, <1>a, GotoKeepsPromises DEF InsertExecution, Proceed
  <2> QED BY <1>1, <2>1, <2>2, <2>p DEF InsertExecution, tables
<1>2. CASE WriteStatus(r)
  <2>1. execution' \in [Executions -> ExecutionRow]
    <3>1. call[r].status \in ExecutionStatus
      BY <1>2 DEF WriteStatus, CallsOK
    <3> QED BY <1>2, <1>b, <3>1, RowsAreTyped DEF WriteStatus
  <2>2. pc' \in [Requests -> Pc] /\ CallsOK'
    BY <1>2, <1>a, GotoTyped DEF WriteStatus, AfterWrite, Proceed, CallsOK
  <2>p. PromisesOK'
    BY <1>2, <1>a, GotoKeepsPromises DEF WriteStatus, AfterWrite, Proceed
  <2> QED BY <1>2, <2>1, <2>2, <2>p DEF WriteStatus
<1>3. CASE WriteFailure(r)
  <2>1. execution' \in [Executions -> ExecutionRow]
    <3>1. "FAILED" \in ExecutionStatus /\ seen[r] + 1 \in Nat
      BY DEF ExecutionStatus
    <3>2. \A row \in ExecutionRow :
            [Transition(row, "FAILED") EXCEPT !.retries = NextRetries(r)]
              \in ExecutionRow
      BY <3>1, RowsAreTyped DEF NextRetries
    <3> QED BY <1>3, <1>b, <3>2 DEF WriteFailure
  <2>2. pc' \in [Requests -> Pc] /\ CallsOK'
    BY <1>3, <1>a, GotoTyped DEF WriteFailure, AfterWrite, Proceed
  <2>3. failures' \in [Executions -> Nat]
    BY <1>3, <1>b DEF WriteFailure
  <2>p. PromisesOK'
    BY <1>3, <1>a, GotoKeepsPromises DEF WriteFailure, AfterWrite, Proceed
  <2> QED BY <1>3, <2>1, <2>2, <2>3, <2>p DEF WriteFailure
<1>4. CASE InsertEvent(r)
  <2>1. events' \subseteq EventRow
    <3>1. EventType(r) \in {"created"} \union ExecutionStatus
      BY <1>4 DEF InsertEvent, CallsOK, EventType
    <3> QED BY <1>4, <1>b, <3>1 DEF InsertEvent, EventRow
  <2>2. pc' \in [Requests -> Pc] /\ CallsOK'
    BY <1>4, <1>a, GotoTyped DEF InsertEvent, Proceed, AfterEvent
  <2>p. PromisesOK'
    BY <1>4, <1>a, GotoKeepsPromises DEF InsertEvent, Proceed, AfterEvent
  <2> QED BY <1>4, <2>1, <2>2, <2>p DEF InsertEvent
<1>5. CASE WriteOutput(r)
  <2>1. execution' \in [Executions -> ExecutionRow]
    BY <1>5, <1>b DEF WriteOutput, ExecutionRow
  <2>2. pc' \in [Requests -> Pc] /\ CallsOK'
    BY <1>5, <1>a, GotoTyped DEF WriteOutput, Proceed
  <2>p. PromisesOK'
    BY <1>5, <1>a, GotoKeepsPromises DEF WriteOutput, Proceed
  <2> QED BY <1>5, <2>1, <2>2, <2>p DEF WriteOutput
<1>6. CASE AppendTask(r)
  <2>1. task' \in [Tasks -> TaskRow]
    BY <1>6, <1>b, TasksAreTyped DEF AppendTask, CallsOK
  <2>2. pc' \in [Requests -> Pc] /\ CallsOK'
    BY <1>6, <1>a, GotoTyped DEF AppendTask, Proceed
  <2>p. PromisesOK'
    BY <1>6, <1>a, GotoKeepsPromises DEF AppendTask, Proceed
  <2> QED BY <1>6, <2>1, <2>2, <2>p DEF AppendTask
<1>7. CASE FindExecution(r)
  <2>1. seen' \in [Requests -> Nat]
    BY <1>7, <1>b DEF FindExecution, ExecutionRow
  <2>2. pc' \in [Requests -> Pc] /\ CallsOK'
    BY <1>7, <1>a, GotoTyped DEF FindExecution, CallsOK
  <2>p. PromisesOK'
    BY <1>7, <1>a, GotoKeepsPromises DEF FindExecution
  <2> QED BY <1>7, <2>1, <2>2, <2>p DEF FindExecution, tables
<1>8. CASE FindTasks(r)
  <2>1. promise' \in [Requests -> [Tasks -> Promise]]
    BY <1>8 DEF FindTasks, Promise
  <2>2. pc' \in [Requests -> Pc] /\ CallsOK'
    BY <1>8, <1>a, GotoTyped DEF FindTasks, CallsOK
  <2>p. PromisesOK'
    BY <1>8 DEF FindTasks, Goto, PromisesOK
  <2> QED BY <1>8, <2>1, <2>2, <2>p DEF FindTasks, tables
<1>9. CASE StepNotFound(r)
  <2>1. pc' \in [Requests -> Pc] /\ CallsOK'
    BY <1>9, <1>a, GotoTyped DEF StepNotFound
  <2>p. PromisesOK'
    BY <1>9, <1>a, GotoKeepsPromises DEF StepNotFound
  <2> QED BY <1>9, <2>1, <2>p DEF StepNotFound, tables
<1>10. CASE DeleteExecution(r)
  <2>1. execution' \in [Executions -> ExecutionRow]
    BY <1>10, <1>b DEF DeleteExecution, EmptyRow, ExecutionRow, ExecutionStatus,
                       RowState
  <2>2. task' \in [Tasks -> TaskRow]
    BY <1>10, TasksAreTyped DEF DeleteExecution, Orphaned
  <2>3. events' \subseteq EventRow
    BY <1>10 DEF DeleteExecution, Detached, EventRow
  <2>4. pc' \in [Requests -> Pc] /\ CallsOK'
    BY <1>10, <1>a, GotoTyped DEF DeleteExecution, Proceed
  <2>p. PromisesOK'
    BY <1>10, <1>a, GotoKeepsPromises DEF DeleteExecution, Proceed
  <2> QED BY <1>10, <2>1, <2>2, <2>3, <2>4, <2>p DEF DeleteExecution
<1>11. CASE Fail(r)
  <2>1. pc' \in [Requests -> Pc] /\ CallsOK'
    BY <1>11, <1>a, GotoTyped DEF Fail, Waiting
  <2>p. PromisesOK'
    BY <1>11, <1>a, GotoKeepsPromises DEF Fail, Waiting
  <2> QED BY <1>11, <2>1, <2>p DEF Fail, tables
<1>12. ASSUME NEW t \in Tasks, ResetTask(r, t) PROVE TypeInv'
  <2>1. task' \in [Tasks -> TaskRow]
    BY <1>12 DEF ResetTask, TaskRow, TaskStatus
  <2>2. promise' \in [Requests -> [Tasks -> Promise]]
    <3>1. Settle(r, t, "fulfilled") \/ Settle(r, t, "rejected")
      BY <1>12 DEF ResetTask
    <3> QED BY <3>1, SettleTyped DEF Promise
  <2>3. pc' \in [Requests -> Pc] /\ CallsOK'
    <3>1. pc[r] # "idle"
      BY <1>12 DEF ResetTask, PromisesOK
    <3>2. CASE Goto(r, "failed")
      BY <1>12, <1>a, <3>1, <3>2, GotoTyped DEF ResetTask
    <3>3. CASE pc[r] = "reset" /\ Goto(r, "update")
      BY <1>12, <1>a, <3>3, GotoTyped DEF ResetTask, CallsOK
    <3>4. CASE UNCHANGED pc
      BY <1>12, <3>4 DEF ResetTask, CallsOK, Target
    <3> QED BY <1>12, <3>1, <3>2, <3>3, <3>4 DEF ResetTask
  <2>4. PromisesOK'
    <3>1. \A q \in Requests, u \in Tasks :
            /\ promise'[q][u] = "pending" => promise[q][u] = "pending"
            /\ q # r => pc'[q] = pc[q]
      BY <1>12 DEF ResetTask, Settle, Goto
    <3>2. \/ pc'[r] = pc[r] \/ pc'[r] = "failed"
          \/ \A u \in Tasks : promise'[r][u] # "pending"
      BY <1>12 DEF ResetTask, Goto, NonePending
    <3> QED BY <1>12, <3>1, <3>2 DEF ResetTask, PromisesOK
  <2> QED BY <1>12, <2>1, <2>2, <2>3, <2>4 DEF ResetTask
<1>13. ASSUME NEW t \in Tasks, RejectReset(r, t) PROVE TypeInv'
  <2>1. promise' \in [Requests -> [Tasks -> Promise]]
    BY <1>13, SettleTyped DEF RejectReset, Promise
  <2>2. pc' \in [Requests -> Pc] /\ CallsOK'
    BY <1>13, <1>a, GotoTyped DEF RejectReset, PromisesOK
  <2>3. PromisesOK'
    BY <1>13 DEF RejectReset, Settle, Goto, PromisesOK
  <2> QED BY <1>13, <2>1, <2>2, <2>3 DEF RejectReset, tables
<1> QED
  BY <1>1, <1>2, <1>3, <1>4, <1>5, <1>6, <1>7, <1>8, <1>9, <1>10, <1>11,
     <1>12, <1>13 DEF Statement

LEMMA BeginTyped ==
  ASSUME TypeInv, NEW r \in Requests, Begin(r)
  PROVE  TypeInv'
<1> USE DEF TypeInv, TypeOK
<1>0. PICK e \in Executions : \E d \in CallsOn(e) \union {Creation(e)} :
        call' = [call EXCEPT ![r] = d]
  BY DEF Begin
<1>1. PICK c \in CallsOn(e) \union {Creation(e)} :
        call' = [call EXCEPT ![r] = c]
  BY <1>0
<1>2. call' \in [Requests -> Call]
  BY <1>1, CallsAreTyped
<1>3. pc' = [pc EXCEPT ![r] = FirstStatement(c.op)]
  BY <1>1 DEF Begin, Goto
<1>4. pc' \in [Requests -> Pc]
  BY <1>1, <1>3, CallsAreTyped DEF Pc
<1>5. CallsOK'
  BY <1>1, <1>3, CallsAreTyped DEF CallsOK, Target
<1>6. PromisesOK'
  BY <1>1, <1>3 DEF PromisesOK, Begin
<1> QED
  BY <1>2, <1>4, <1>5, <1>6 DEF Begin, tables

LEMMA OthersTyped ==
  ASSUME TypeInv, (\E t \in Tasks : WorkerUpdate(t)) \/ Crash \/ UNCHANGED vars
  PROVE  TypeInv'
<1> USE DEF TypeInv, TypeOK
<1>1. ASSUME NEW t \in Tasks, WorkerUpdate(t) PROVE TypeInv'
  <2>1. task' \in [Tasks -> TaskRow]
    BY <1>1, ReportsAreTyped DEF WorkerUpdate
  <2> QED
    BY <1>1, <2>1 DEF WorkerUpdate, CallsOK, Target, PromisesOK
<1>2. CASE Crash
  <2>1. pc' \in [Requests -> Pc]
    BY <1>2 DEF Crash, Pc
  <2>2. promise' \in [Requests -> [Tasks -> Promise]]
    BY <1>2 DEF Crash, Promise
  <2>3. CallsOK'
    BY <1>2 DEF Crash, CallsOK, Target, Waiting
  <2>4. PromisesOK'
    BY <1>2 DEF Crash, PromisesOK
  <2> QED BY <1>2, <2>1, <2>2, <2>3, <2>4 DEF Crash, tables
<1>3. CASE UNCHANGED vars
  BY <1>3 DEF vars, CallsOK, Target, PromisesOK
<1> QED BY <1>1, <1>2, <1>3

(* Whatever the interleaving, the failures and the crashes, the tables hold *)
(* rows of their types and each request issues statements of its own call.  *)
THEOREM TypeCorrect == Spec => []TypeOK
<1>1. TypeInv /\ [Next]_vars => TypeInv'
  BY BeginTyped, StatementTyped, OthersTyped DEF Next
<1>2. TypeInv => TypeOK
  BY DEF TypeInv
<1> QED
  BY InitTyped, <1>1, <1>2, PTL DEF Spec

LEMMA Typing == Spec => []TypeInv
<1>1. TypeInv /\ [Next]_vars => TypeInv'
  BY BeginTyped, StatementTyped, OthersTyped DEF Next
<1> QED
  BY InitTyped, <1>1, PTL DEF Spec

----------------------------------------------------------------------------
(***************************************************************************)
(* The audit trail.  What makes it inductive: before its write a request   *)
(* is not in wrote; waiting to insert its event it is, and it is not a     *)
(* markFailed; once past the event its row is there.                       *)
(***************************************************************************)
BeforeWrite == {"idle", "insert", "find", "reset", "update", "append", "delete"}

AuditInv ==
  /\ EventsAreBacked
  /\ SuccessIsRecorded
  /\ \A r \in Requests :
       /\ pc[r] \in BeforeWrite => r \notin wrote
       /\ pc[r] = "event" => r \in wrote
       /\ pc[r] = "output" => Recorded(r)

LEMMA AuditInit == Init => AuditInv
BY DEF Init, AuditInv, EventsAreBacked, SuccessIsRecorded, BeforeWrite

(* A step that adds no write and no event, and sends nobody past the event *)
(* or to success who has written.                                          *)
LEMMA AuditQuiet ==
  ASSUME TypeInv, AuditInv, wrote' = wrote,
         \A q \in Requests : call'[q] = call[q] \/ pc[q] = "idle",
         \A q \in Requests : Recorded(q) => Recorded(q)',
         \A ev \in events' : \E old \in events :
           ev.request = old.request /\ ev.type = old.type,
         \A q \in Requests :
           \/ pc'[q] = pc[q] \/ pc'[q] = "failed"
           \/ pc[q] \in BeforeWrite /\ pc'[q] \in BeforeWrite \union {"done"}
           \/ pc[q] = "output" /\ pc'[q] = "done"
  PROVE  AuditInv'
<1> USE DEF TypeInv, TypeOK, AuditInv
<1>1. EventsAreBacked'
  <2> SUFFICES ASSUME NEW ev \in events'
               PROVE  ev.request \in wrote /\ ev.type = EventType(ev.request)'
    BY DEF EventsAreBacked, EventType
  <2>1. PICK old \in events : ev.request = old.request /\ ev.type = old.type
    OBVIOUS
  <2>2. old.request \in wrote /\ old.type = EventType(old.request)
    BY DEF EventsAreBacked, EventType
  <2>3. call'[old.request] = call[old.request]
    BY <2>2 DEF BeforeWrite
  <2> QED BY <2>1, <2>2, <2>3 DEF EventType
<1>2. SuccessIsRecorded'
  BY DEF SuccessIsRecorded, BeforeWrite
<1>3. ASSUME NEW q \in Requests
      PROVE  /\ pc'[q] \in BeforeWrite => q \notin wrote'
             /\ pc'[q] = "event" => q \in wrote'
             /\ pc'[q] = "output" => Recorded(q)'
  BY DEF BeforeWrite
<1> QED BY <1>1, <1>2, <1>3
(* A status write: from before the write to the event, to failure, or,     *)
(* for markFailed, to success.                                             *)
LEMMA AuditWrite ==
  ASSUME TypeInv, AuditInv, NEW r \in Requests, pc[r] \in BeforeWrite \ {"idle"},
         wrote' = wrote \union {r}, UNCHANGED <<events, call>>,
         \/ Goto(r, "event") \/ Goto(r, "failed")
         \/ Goto(r, "done") /\ call[r].op = "markFailed"
  PROVE  AuditInv'
<1> USE DEF TypeInv, TypeOK, AuditInv
<1>1. EventsAreBacked'
  BY DEF EventsAreBacked, EventType
<1>2. SuccessIsRecorded'
  BY DEF SuccessIsRecorded, BeforeWrite, Goto, Recorded
<1>3. ASSUME NEW q \in Requests
      PROVE  /\ pc'[q] \in BeforeWrite => q \notin wrote'
             /\ pc'[q] = "event" => q \in wrote'
             /\ pc'[q] = "output" => Recorded(q)'
  BY DEF BeforeWrite, Goto, Recorded
<1> QED BY <1>1, <1>2, <1>3

LEMMA AuditLog ==
  ASSUME TypeInv, AuditInv, NEW r \in Requests, InsertEvent(r)
  PROVE  AuditInv'
<1> USE DEF TypeInv, TypeOK, AuditInv
<1> DEFINE new == [request |-> r, execution |-> Target(r), type |-> EventType(r)]
<1>1. r \in wrote /\ wrote' = wrote /\ call' = call
      /\ events' = events \union {new}
  BY DEF InsertEvent
<1>2. new.request = r /\ new.type = EventType(r)
  OBVIOUS
<1> HIDE DEF new
<1>3. EventsAreBacked'
  BY <1>1, <1>2 DEF EventsAreBacked, EventType
<1>4. Recorded(r)' /\ \A q \in Requests : Recorded(q) => Recorded(q)'
  BY <1>1, <1>2 DEF Recorded
<1>5. Goto(r, AfterEvent(r)) \/ Goto(r, "failed")
  BY DEF InsertEvent, Proceed
<1>6. SuccessIsRecorded'
  BY <1>1, <1>4, <1>5 DEF SuccessIsRecorded, Goto
<1>7. ASSUME NEW q \in Requests
      PROVE  /\ pc'[q] \in BeforeWrite => q \notin wrote'
             /\ pc'[q] = "event" => q \in wrote'
             /\ pc'[q] = "output" => Recorded(q)'
  BY <1>1, <1>4, <1>5 DEF BeforeWrite, Goto, AfterEvent
<1> QED BY <1>3, <1>6, <1>7

LEMMA AuditDelete ==
  ASSUME TypeInv, AuditInv, NEW r \in Requests, DeleteExecution(r)
  PROVE  AuditInv'
<1> USE DEF TypeInv, TypeOK
<1> DEFINE Detach(ev) ==
      [ev EXCEPT !.execution = IF @ = Target(r) THEN NoExecution ELSE @]
<1>1. \A ev \in events : /\ Detach(ev).request = ev.request
                        /\ Detach(ev).type = ev.type
  BY DEF EventRow
<1>2. events' = {Detach(ev) : ev \in events}
  BY DEF DeleteExecution, Detached
<1> HIDE DEF Detach
<1>3. \A q \in Requests : Recorded(q) => Recorded(q)'
  BY <1>1, <1>2 DEF Recorded
<1>4. \A ev \in events' : \E old \in events :
        ev.request = old.request /\ ev.type = old.type
  BY <1>1, <1>2
<1>5. \A q \in Requests :
        \/ pc'[q] = pc[q] \/ pc'[q] = "failed"
        \/ pc[q] \in BeforeWrite /\ pc'[q] \in BeforeWrite \union {"done"}
  BY DEF DeleteExecution, Proceed, Goto, BeforeWrite
<1> QED
  BY <1>3, <1>4, <1>5, AuditQuiet DEF DeleteExecution

LEMMA AuditStatement ==
  ASSUME TypeInv, AuditInv, NEW r \in Requests, Statement(r)
  PROVE  AuditInv'
<1> USE DEF TypeInv, TypeOK
<1>1. CASE InsertExecution(r)
  BY <1>1, AuditWrite DEF InsertExecution, Proceed, BeforeWrite
<1>2. CASE WriteStatus(r)
  BY <1>2, AuditWrite DEF WriteStatus, AfterWrite, Proceed, BeforeWrite
<1>3. CASE WriteFailure(r)
  BY <1>3, AuditWrite DEF WriteFailure, AfterWrite, Proceed, BeforeWrite
<1>4. CASE InsertEvent(r)
  BY <1>4, AuditLog
<1>5. CASE WriteOutput(r)
  BY <1>5, AuditQuiet DEF WriteOutput, Proceed, Goto, Recorded
<1>6. CASE AppendTask(r)
  BY <1>6, AuditQuiet DEF AppendTask, Proceed, Goto, BeforeWrite, Recorded
<1>7. CASE FindExecution(r)
  BY <1>7, AuditQuiet
     DEF FindExecution, Proceed, Goto, BeforeWrite, Recorded, tables
<1>8. CASE FindTasks(r)
  BY <1>8, AuditQuiet
     DEF FindTasks, Proceed, Goto, BeforeWrite, Recorded, tables
<1>9. CASE StepNotFound(r)
  BY <1>9, AuditQuiet DEF StepNotFound, Goto, Recorded, tables
<1>10. CASE DeleteExecution(r)
  BY <1>10, AuditDelete
<1>11. CASE Fail(r)
  BY <1>11, AuditQuiet DEF Fail, Goto, Recorded, tables
<1>12. ASSUME NEW t \in Tasks, ResetTask(r, t) PROVE AuditInv'
  <2>1. \/ UNCHANGED pc \/ Goto(r, "failed")
        \/ pc[r] = "reset" /\ Goto(r, "update")
    BY <1>12 DEF ResetTask
  <2> QED
    BY <1>12, <2>1, AuditQuiet DEF ResetTask, Goto, BeforeWrite, Recorded
<1>13. ASSUME NEW t \in Tasks, RejectReset(r, t) PROVE AuditInv'
  BY <1>13, AuditQuiet DEF RejectReset, Goto, Recorded, tables
<1> QED
  BY <1>1, <1>2, <1>3, <1>4, <1>5, <1>6, <1>7, <1>8, <1>9, <1>10, <1>11,
     <1>12, <1>13 DEF Statement

LEMMA AuditBegin ==
  ASSUME TypeInv, AuditInv, NEW r \in Requests, Begin(r)
  PROVE  AuditInv'
<1> USE DEF TypeInv, TypeOK
<1>0. PICK e \in Executions : \E d \in CallsOn(e) \union {Creation(e)} :
        call' = [call EXCEPT ![r] = d]
  BY DEF Begin
<1>1. PICK c \in CallsOn(e) \union {Creation(e)} :
        call' = [call EXCEPT ![r] = c]
  BY <1>0
<1>2. pc[r] = "idle" /\ pc' = [pc EXCEPT ![r] = FirstStatement(c.op)]
  BY <1>1 DEF Begin, Goto
<1>3. c.op \in Ops \ {"none"}
  BY CallsAreTyped DEF Call
<1>4. FirstStatement(c.op) \in BeforeWrite
  BY <1>3, FirstStatements DEF Ops, BeforeWrite
<1> QED
  BY <1>1, <1>2, <1>4, AuditQuiet DEF Begin, BeforeWrite, Recorded, tables

LEMMA AuditOthers ==
  ASSUME TypeInv, AuditInv,
         (\E t \in Tasks : WorkerUpdate(t)) \/ Crash \/ UNCHANGED vars
  PROVE  AuditInv'
<1> USE DEF TypeInv, TypeOK
<1>1. ASSUME NEW t \in Tasks, WorkerUpdate(t) PROVE AuditInv'
  BY <1>1, AuditQuiet DEF WorkerUpdate, Recorded
<1>2. CASE Crash
  BY <1>2, AuditQuiet DEF Crash, Recorded, tables
<1>3. CASE UNCHANGED vars
  BY <1>3, AuditQuiet DEF vars, Recorded
<1> QED BY <1>1, <1>2, <1>3

LEMMA AuditNext == TypeInv /\ AuditInv /\ [Next]_vars => AuditInv'
BY AuditStatement, AuditBegin, AuditOthers DEF Next

(* Every event row tells of a status write that took effect, under         *)
(* concurrent updates, failures between write and event, crashes and the   *)
(* deletion of the execution.                                              *)
THEOREM AuditTrailIsTrue == Spec => []EventsAreBacked
<1>1. AuditInv => EventsAreBacked
  BY DEF AuditInv
<1> QED
  BY AuditInit, AuditNext, Typing, <1>1, PTL DEF Spec

(* A call that wrote a status and reported success has left its event.     *)
THEOREM SuccessLeavesEvent == Spec => []SuccessIsRecorded
<1>1. AuditInv => SuccessIsRecorded
  BY DEF AuditInv
<1> QED
  BY AuditInit, AuditNext, Typing, <1>1, PTL DEF Spec

----------------------------------------------------------------------------
(***************************************************************************)
(* Retries.  Inductive with the stale counts: what a markFailed read is no *)
(* more than the failures marked so far, which never decrease.             *)
(***************************************************************************)
RetryInv ==
  /\ RetriesBounded
  /\ \A r \in Requests : call[r].op = "markFailed" /\ pc[r] = "update" =>
       seen[r] <= failures[Target(r)]

LEMMA RetryInit == Init => RetryInv
BY DEF Init, RetryInv, RetriesBounded, EmptyRow

(* A step that raises no count and sends no markFailed to its update.      *)
LEMMA RetryQuiet ==
  ASSUME TypeInv, RetryInv, UNCHANGED <<seen, failures>>,
         \A e \in Executions :
           execution'[e].retries \in {0, execution[e].retries},
         \A r \in Requests : call'[r].op = "markFailed" /\ pc'[r] = "update" =>
           call'[r] = call[r] /\ pc[r] = "update"
  PROVE  RetryInv'
<1> USE DEF TypeInv, TypeOK, RetryInv, RetriesBounded
<1>1. \A r \in Requests : pc[r] = "update" => failures[Target(r)] \in Nat
  BY DEF CallsOK
<1>2. \A e \in Executions : execution[e].retries \in Nat
  BY DEF ExecutionRow
<1> QED
  BY <1>1, <1>2 DEF Target

LEMMA RetryWrite ==
  ASSUME TypeInv, RetryInv, NEW r \in Requests, WriteFailure(r)
  PROVE  RetryInv'
<1> USE DEF TypeInv, TypeOK, RetryInv, RetriesBounded
<1>1. Target(r) \in Executions /\ seen[r] <= failures[Target(r)]
  BY DEF WriteFailure, CallsOK
<1>2. \A e \in Executions :
        execution'[e].retries =
          IF e = Target(r) THEN seen[r] + 1 ELSE execution[e].retries
  BY <1>1 DEF WriteFailure, ExecutionRow, Transition, NextRetries
<1>3. \A e \in Executions :
        /\ failures[e] \in Nat
        /\ failures'[e] = IF e = Target(r) THEN failures[e] + 1 ELSE failures[e]
  BY <1>1 DEF WriteFailure
<1>4. RetriesBounded'
  BY <1>1, <1>2, <1>3
<1>5. ASSUME NEW q \in Requests, call'[q].op = "markFailed", pc'[q] = "update"
      PROVE  seen'[q] <= failures'[Target(q)']
  <2>1. pc[q] = "update" /\ call[q].op = "markFailed" /\ Target(q)' = Target(q)
    BY <1>5 DEF WriteFailure, AfterWrite, Proceed, Goto, Target
  <2>2. Target(q) \in Executions /\ seen[q] <= failures[Target(q)]
    BY <2>1 DEF CallsOK
  <2> QED BY <2>1, <2>2, <1>3 DEF WriteFailure
<1> QED BY <1>4, <1>5

LEMMA RetryRead ==
  ASSUME TypeInv, RetryInv, NEW r \in Requests, FindExecution(r)
  PROVE  RetryInv'
<1> USE DEF TypeInv, TypeOK, RetryInv, RetriesBounded
<1>1. Target(r) \in Executions
  BY DEF FindExecution, CallsOK
<1>2. execution[Target(r)].retries <= failures[Target(r)]
  BY <1>1
<1>3. ASSUME NEW q \in Requests, call'[q].op = "markFailed", pc'[q] = "update"
      PROVE  seen'[q] <= failures'[Target(q)']
  BY <1>2, <1>3 DEF FindExecution, Goto, Target, tables
<1> QED
  BY <1>3 DEF FindExecution, tables

LEMMA RetryNext == TypeInv /\ RetryInv /\ [Next]_vars => RetryInv'
<1> SUFFICES ASSUME TypeInv, RetryInv, [Next]_vars PROVE RetryInv'
  OBVIOUS
<1> USE DEF TypeInv, TypeOK
<1>1. ASSUME NEW r \in Requests, Begin(r) PROVE RetryInv'
  <2>0. PICK e \in Executions : \E d \in CallsOn(e) \union {Creation(e)} :
          call' = [call EXCEPT ![r] = d]
    BY <1>1 DEF Begin
  <2>1. PICK c \in CallsOn(e) \union {Creation(e)} :
          call' = [call EXCEPT ![r] = c]
    BY <2>0
  <2>2. pc' = [pc EXCEPT ![r] = FirstStatement(c.op)]
    BY <1>1, <2>1 DEF Begin, Goto
  <2>3. \A q \in Requests : call'[q].op = "markFailed" /\ pc'[q] = "update" =>
          call'[q] = call[q] /\ pc[q] = "update"
    BY <2>1, <2>2, FirstStatements
  <2> QED BY <1>1, <2>3, RetryQuiet DEF Begin, tables
<1>2. ASSUME NEW r \in Requests, InsertExecution(r) PROVE RetryInv'
  BY <1>2, RetryQuiet DEF InsertExecution, EmptyRow, Proceed, Goto
<1>3. ASSUME NEW r \in Requests, WriteStatus(r) PROVE RetryInv'
  <2>1. \A e \in Executions : execution'[e].retries = execution[e].retries
    BY <1>3 DEF WriteStatus, Transition, ExecutionRow
  <2> QED BY <1>3, <2>1, RetryQuiet DEF WriteStatus, AfterWrite, Proceed, Goto
<1>4. ASSUME NEW r \in Requests, WriteFailure(r) PROVE RetryInv'
  BY <1>4, RetryWrite
<1>5. ASSUME NEW r \in Requests, InsertEvent(r) PROVE RetryInv'
  BY <1>5, RetryQuiet DEF InsertEvent, Proceed, Goto, AfterEvent
<1>6. ASSUME NEW r \in Requests, WriteOutput(r) PROVE RetryInv'
  <2>1. \A e \in Executions : execution'[e].retries = execution[e].retries
    BY <1>6 DEF WriteOutput, ExecutionRow
  <2> QED BY <1>6, <2>1, RetryQuiet DEF WriteOutput, Proceed, Goto
<1>7. ASSUME NEW r \in Requests, AppendTask(r) PROVE RetryInv'
  BY <1>7, RetryQuiet DEF AppendTask, Proceed, Goto
<1>8. ASSUME NEW r \in Requests, FindExecution(r) PROVE RetryInv'
  BY <1>8, RetryRead
<1>9. ASSUME NEW r \in Requests, FindTasks(r) \/ StepNotFound(r) \/ Fail(r)
      PROVE  RetryInv'
  BY <1>9, RetryQuiet DEF FindTasks, StepNotFound, Fail, Goto, tables
<1>10. ASSUME NEW r \in Requests, DeleteExecution(r) PROVE RetryInv'
  BY <1>10, RetryQuiet DEF DeleteExecution, EmptyRow, Proceed, Goto
<1>11. ASSUME NEW r \in Requests, NEW t \in Tasks, ResetTask(r, t) PROVE RetryInv'
  <2>1. call[r].op = "replay"
    BY <1>11 DEF ResetTask, PromisesOK
  <2> QED BY <1>11, <2>1, RetryQuiet DEF ResetTask, Goto
<1>12. ASSUME NEW r \in Requests, NEW t \in Tasks, RejectReset(r, t) PROVE RetryInv'
  BY <1>12, RetryQuiet DEF RejectReset, Goto, tables
<1>13. ASSUME NEW t \in Tasks, WorkerUpdate(t) PROVE RetryInv'
  BY <1>13, RetryQuiet DEF WorkerUpdate
<1>14. CASE Crash
  BY <1>14, RetryQuiet DEF Crash, tables
<1>15. CASE UNCHANGED vars
  BY <1>15, RetryQuiet DEF vars
<1> QED
  BY <1>1, <1>2, <1>3, <1>4, <1>5, <1>6, <1>7, <1>8, <1>9, <1>10, <1>11,
     <1>12, <1>13, <1>14, <1>15 DEF Next, Statement

(* However many markFailed calls race with counts they read earlier, the   *)
(* retries stored never exceed the failures marked.                        *)
THEOREM RetriesNeverOvercount == Spec => []RetriesBounded
<1>1. RetryInv => RetriesBounded
  BY DEF RetryInv
<1> QED
  BY RetryInit, RetryNext, Typing, <1>1, PTL DEF Spec

----------------------------------------------------------------------------
(***************************************************************************)
(* Foreign keys: with types, NoOrphans is inductive.                       *)
(***************************************************************************)
LEMMA OrphansInit == Init => NoOrphans
BY DEF Init, NoOrphans, Live, NoTask, PendingTask

(* A step after which every live task and every attached event is one of   *)
(* before, and every execution that was live still is.                     *)
LEMMA OrphansQuiet ==
  ASSUME NoOrphans, UNCHANGED events,
         \A t \in Tasks : task'[t].row = task[t].row
                         /\ task'[t].execution = task[t].execution,
         \A e : Live(e) => Live(e)'
  PROVE  NoOrphans'
BY DEF NoOrphans

LEMMA OrphansNext == TypeInv /\ NoOrphans /\ [Next]_vars => NoOrphans'
<1> SUFFICES ASSUME TypeInv, NoOrphans, [Next]_vars PROVE NoOrphans'
  OBVIOUS
<1> USE DEF TypeInv, TypeOK
<1>1. ASSUME NEW r \in Requests, InsertExecution(r) PROVE NoOrphans'
  BY <1>1, OrphansQuiet DEF InsertExecution, EmptyRow, Live
<1>2. ASSUME NEW r \in Requests, WriteStatus(r) PROVE NoOrphans'
  BY <1>2, OrphansQuiet DEF WriteStatus, Transition, Live, ExecutionRow
<1>3. ASSUME NEW r \in Requests, WriteFailure(r) PROVE NoOrphans'
  BY <1>3, OrphansQuiet DEF WriteFailure, Transition, Live, ExecutionRow
<1>4. ASSUME NEW r \in Requests, InsertEvent(r) PROVE NoOrphans'
  BY <1>4 DEF InsertEvent, NoOrphans, Live
<1>5. ASSUME NEW r \in Requests, WriteOutput(r) PROVE NoOrphans'
  BY <1>5, OrphansQuiet DEF WriteOutput, Live, ExecutionRow
<1>6. ASSUME NEW r \in Requests, AppendTask(r) PROVE NoOrphans'
  BY <1>6 DEF AppendTask, NoOrphans, Live, PendingTask, CallsOK
<1>7. ASSUME NEW r \in Requests, DeleteExecution(r) PROVE NoOrphans'
  <2>1. Target(r) \in Executions
    BY <1>7 DEF DeleteExecution, CallsOK
  <2>2. \A e \in Executions \ {Target(r)} : Live(e) => Live(e)'
    BY <1>7 DEF DeleteExecution, Live
  <2>3. \A t \in Tasks : task'[t].row = "live" =>
          task'[t] = task[t] /\ task[t].execution # Target(r)
    BY <1>7 DEF DeleteExecution, Orphaned, TasksOf, NoTask
  <2>4. \A t \in Tasks : task'[t].row = "live" =>
          task'[t].execution \in Executions /\ execution'[task'[t].execution].row = "live"
    BY <2>2, <2>3 DEF NoOrphans, Live
  <2>5. ASSUME NEW ev \in events', ev.execution # NoExecution
        PROVE  Live(ev.execution)'
    <3>1. PICK old \in events :
            ev = [old EXCEPT !.execution =
                    IF @ = Target(r) THEN NoExecution ELSE @]
      BY <1>7 DEF DeleteExecution, Detached
    <3>2. ev.execution = old.execution /\ old.execution # Target(r)
      BY <2>5, <3>1 DEF EventRow
    <3>3. Live(old.execution) /\ old.execution \in Executions
      BY <2>5, <3>2 DEF NoOrphans, EventRow
    <3> QED BY <2>2, <3>2, <3>3 DEF Live
  <2> QED BY <2>4, <2>5 DEF NoOrphans, Live
<1>8. ASSUME NEW r \in Requests, NEW t \in Tasks, ResetTask(r, t) PROVE NoOrphans'
  BY <1>8, OrphansQuiet DEF ResetTask, Live, TaskRow
<1>9. ASSUME NEW t \in Tasks, WorkerUpdate(t) PROVE NoOrphans'
  BY <1>9, OrphansQuiet DEF WorkerUpdate, Report, Live, TaskRow
<1>10. CASE UNCHANGED tables
  BY <1>10, OrphansQuiet DEF tables, Live
<1> QED
  BY <1>1, <1>2, <1>3, <1>4, <1>5, <1>6, <1>7, <1>8, <1>9, <1>10
     DEF Next, Statement, Begin, FindExecution, FindTasks, StepNotFound, Fail,
         RejectReset, Crash, vars, tables

(* Appends, resets and events that race the deletion of their execution    *)
(* never leave a task or an event that refers to a row that is gone.       *)
THEOREM ForeignKeysHold == Spec => []NoOrphans
BY OrphansInit, OrphansNext, Typing, PTL DEF Spec
============================================================================
