----------------------- MODULE ExecutionReplay_proofs ------------------------
(* That a replay which moves its execution to RUNNING has reset every task *)
(* it was to reset and none before them, and that what is deleted stays    *)
(* so, for any set of executions, tasks and requests.                      *)
EXTENDS ExecutionLifecycle_proofs

(***************************************************************************)
(* What makes it inductive: nothing is read before the tasks are; a replay *)
(* past its resets has none pending or rejected; and a task the replay     *)
(* leaves alone comes no later than a task of the step that it resets and  *)
(* that lives as long as the execution of both.                            *)
(***************************************************************************)
Chosen(r, f) ==
  /\ promise[r][f] \in {"pending", "fulfilled", "rejected"}
  /\ task[f].row = "live"
  /\ task[f].execution = Target(r)
  /\ task[f].step = call[r].step

Early == {"idle", "find", "reset", "failed"}

UnreadBefore(r) ==
  pc[r] \in {"idle", "find"} \/ call[r].op # "replay" =>
    \A t \in Tasks : promise[r][t] = "unread"
NoneRejected(r) ==
  pc[r] = "reset" => \A t \in Tasks : promise[r][t] # "rejected"
AllFulfilled(r) ==
  pc[r] \notin Early \/ r \in wrote =>
    \A t \in Tasks : promise[r][t] \in {"unread", "kept", "fulfilled"}
KeptAreEarlier(r) ==
  \A t \in Tasks : promise[r][t] = "kept" =>
    /\ task[t].row \in {"live", "gone"}
    /\ task[t].row = "live" =>
         /\ task[t].execution = Target(r)
         /\ \E f \in Tasks : Chosen(r, f) /\ task[t].at <= task[f].at

ReplayOK(r) ==
  UnreadBefore(r) /\ NoneRejected(r) /\ AllFulfilled(r) /\ KeptAreEarlier(r)

ReplayInv == \A r \in Requests : ReplayOK(r)

LEMMA ReplayInit == Init => ReplayInv
BY DEF Init, ReplayInv, ReplayOK, UnreadBefore, NoneRejected, KeptAreEarlier, AllFulfilled

(* A task keeps its execution, step and place until it is gone, and goes   *)
(* with every other task of its execution.                                 *)
TasksStay ==
  \A t \in Tasks : task[t].row \in {"live", "gone"} =>
    /\ task'[t].row \in {"live", "gone"}
    /\ task'[t].row = "live" =>
         /\ task[t].row = "live"
         /\ task'[t].execution = task[t].execution
         /\ task'[t].step = task[t].step
         /\ task'[t].at = task[t].at
         /\ \A f \in Tasks :
              task[f].row = "live" /\ task[f].execution = task[t].execution =>
                task'[f].row = "live"

LEMMA TasksStayNext ==
  ASSUME TypeInv, [Next]_vars
  PROVE  TasksStay
<1> USE DEF TypeInv, TypeOK
<1>1. ASSUME UNCHANGED task PROVE TasksStay
  BY <1>1 DEF TasksStay
<1>2. ASSUME NEW r \in Requests, AppendTask(r) PROVE TasksStay
  BY <1>2 DEF AppendTask, TasksStay
<1>3. ASSUME NEW r \in Requests, DeleteExecution(r) PROVE TasksStay
  BY <1>3 DEF DeleteExecution, Orphaned, TasksOf, NoTask, TasksStay
<1>4. ASSUME NEW r \in Requests, NEW u \in Tasks, ResetTask(r, u) PROVE TasksStay
  BY <1>4 DEF ResetTask, TaskRow, TasksStay
<1>5. ASSUME NEW u \in Tasks, WorkerUpdate(u) PROVE TasksStay
  BY <1>5 DEF WorkerUpdate, Report, TaskRow, TasksStay
<1> QED
  BY <1>1, <1>2, <1>3, <1>4, <1>5
     DEF Next, Statement, Begin, InsertExecution, WriteStatus, WriteFailure,
         InsertEvent, WriteOutput, FindExecution, FindTasks, StepNotFound, Fail,
         RejectReset, Crash, vars, tables

LEMMA EarlierStay ==
  ASSUME TypeInv, [Next]_vars, NEW r \in Requests, KeptAreEarlier(r),
         call'[r] = call[r],
         \A t \in Tasks : promise'[r][t] = "kept" => promise[r][t] = "kept",
         \A t \in Tasks :
           promise[r][t] \in {"pending", "fulfilled", "rejected"} =>
             promise'[r][t] \in {"pending", "fulfilled", "rejected"}
  PROVE  KeptAreEarlier(r)'
<1> SUFFICES ASSUME NEW t \in Tasks, promise'[r][t] = "kept"
             PROVE  /\ task'[t].row \in {"live", "gone"}
                    /\ task'[t].row = "live" =>
                         /\ task'[t].execution = Target(r)
                         /\ \E f \in Tasks :
                              Chosen(r, f)' /\ task'[t].at <= task'[f].at
  BY DEF KeptAreEarlier, Target
<1>1. task[t].row \in {"live", "gone"}
  BY DEF KeptAreEarlier
<1>2. TasksStay
  BY TasksStayNext
<1>3. task'[t].row \in {"live", "gone"}
  BY <1>1, <1>2 DEF TasksStay
<1>4. ASSUME task'[t].row = "live"
      PROVE  /\ task'[t].execution = Target(r)
             /\ \E f \in Tasks : Chosen(r, f)' /\ task'[t].at <= task'[f].at
  <2>1. /\ task[t].row = "live" /\ task'[t].execution = task[t].execution
        /\ task'[t].at = task[t].at
    BY <1>1, <1>2, <1>4 DEF TasksStay
  <2>2. task[t].execution = Target(r)
    BY <2>1 DEF KeptAreEarlier
  <2>3. PICK f \in Tasks : Chosen(r, f) /\ task[t].at <= task[f].at
    BY <2>1 DEF KeptAreEarlier
  <2>4. task'[f].row = "live"
    BY <1>1, <1>2, <1>4, <2>1, <2>2, <2>3 DEF TasksStay, Chosen
  <2>5. /\ task'[f].execution = task[f].execution
        /\ task'[f].step = task[f].step /\ task'[f].at = task[f].at
    BY <1>2, <2>3, <2>4 DEF TasksStay, Chosen
  <2>6. Chosen(r, f)'
    BY <2>3, <2>4, <2>5 DEF Chosen, Target
  <2> QED BY <2>1, <2>2, <2>3, <2>5, <2>6
<1> QED BY <1>3, <1>4

(* A step that changes no promise of a request.                            *)
LEMMA ReplayQuiet ==
  ASSUME TypeInv, [Next]_vars, NEW r \in Requests, ReplayOK(r),
         promise'[r] = promise[r], call'[r] = call[r],
         r \in wrote' => r \in wrote \/ pc[r] \notin Early,
         \/ pc'[r] = pc[r] \/ pc'[r] = "failed"
         \/ pc[r] \notin Early /\ pc'[r] \notin Early
         \/ pc[r] = "find" /\ pc'[r] = "update"
  PROVE  ReplayOK(r)'
<1>1. KeptAreEarlier(r)'
  BY EarlierStay DEF ReplayOK
<1>2. UnreadBefore(r)' /\ NoneRejected(r)' /\ AllFulfilled(r)'
  BY DEF ReplayOK, UnreadBefore, NoneRejected, AllFulfilled, Early
<1> QED BY <1>1, <1>2 DEF ReplayOK

(* The tasks a replay leaves alone when it has read them.                  *)
LEMMA ReplayReads ==
  ASSUME TypeInv, AuditInv, NEW r \in Requests, ReplayOK(r), FindTasks(r)
  PROVE  ReplayOK(r)'
<1> USE DEF TypeInv, TypeOK
<1>1. PICK S \in Suffixes(TasksOf(Target(r)), call[r].step) :
        promise' = [promise EXCEPT ![r] =
          [t \in Tasks |-> IF t \in S THEN "pending"
                           ELSE IF t \in TasksOf(Target(r)) THEN "kept"
                           ELSE "unread"]]
  BY DEF FindTasks
<1>2. \A t \in Tasks : promise'[r][t] = IF t \in S THEN "pending"
                                       ELSE IF t \in TasksOf(Target(r)) THEN "kept"
                                       ELSE "unread"
  BY <1>1
<1>3. /\ pc[r] = "find" /\ pc'[r] = "reset" /\ call[r].op = "replay"
      /\ UNCHANGED <<task, call, wrote>>
  BY DEF FindTasks, Goto, tables
<1>4. r \notin wrote'
  BY <1>3 DEF AuditInv, BeforeWrite
<1>5. UnreadBefore(r)' /\ NoneRejected(r)' /\ AllFulfilled(r)'
  BY <1>2, <1>3, <1>4 DEF UnreadBefore, NoneRejected, AllFulfilled, Early
<1>6. PICK f \in S :
        /\ task[f].step = call[r].step
        /\ \A t \in TasksOf(Target(r)) : task[t].at > task[f].at => t \in S
  BY DEF Suffixes
<1>7. f \in TasksOf(Target(r)) /\ promise'[r][f] = "pending"
  BY <1>2 DEF Suffixes, TasksOf
<1>8. Chosen(r, f)'
  BY <1>3, <1>6, <1>7 DEF Chosen, Target, TasksOf
<1>9. ASSUME NEW t \in Tasks, promise'[r][t] = "kept"
      PROVE  /\ t \in TasksOf(Target(r))
             /\ task[t].at <= task[f].at
  <2>1. t \in TasksOf(Target(r)) /\ t \notin S
    BY <1>2, <1>9
  <2>2. task[t].at \in Nat /\ task[f].at \in Nat
    BY <1>7 DEF TaskRow, TasksOf
  <2> QED BY <1>6, <2>1, <2>2
<1>10. KeptAreEarlier(r)'
  BY <1>3, <1>7, <1>8, <1>9 DEF KeptAreEarlier, TasksOf, Target
<1> QED BY <1>5, <1>10 DEF ReplayOK

(* A reset that settles.                                                   *)
LEMMA ReplaySettles ==
  ASSUME TypeInv, AuditInv, NEW r \in Requests, NEW t \in Tasks, ReplayOK(r),
         ResetTask(r, t) \/ RejectReset(r, t)
  PROVE  ReplayOK(r)'
<1> USE DEF TypeInv, TypeOK
<1>1. /\ promise[r][t] = "pending"
      /\ UNCHANGED <<call, wrote>>
      /\ call[r].op = "replay" /\ pc[r] \in {"reset", "failed"}
  BY DEF ResetTask, RejectReset, PromisesOK, tables
<1>2. /\ promise'[r][t] \in {"fulfilled", "rejected"}
      /\ \A u \in Tasks \ {t} : promise'[r][u] = promise[r][u]
  BY DEF ResetTask, RejectReset, Settle
<1>3. \/ pc'[r] = "failed"
      \/ pc'[r] = pc[r] /\ promise'[r][t] = "fulfilled"
      \/ /\ pc[r] = "reset" /\ pc'[r] = "update" /\ promise'[r][t] = "fulfilled"
         /\ \A u \in Tasks : promise'[r][u] # "pending"
  BY DEF ResetTask, RejectReset, Settle, Goto, NonePending
<1>4. r \notin wrote
  BY <1>1 DEF ReplayOK, AllFulfilled
<1>5. UnreadBefore(r)' /\ NoneRejected(r)'
  BY <1>1, <1>2, <1>3 DEF ReplayOK, UnreadBefore, NoneRejected
<1>6. AllFulfilled(r)'
  <2>1. CASE pc'[r] \in {"reset", "failed"}
    BY <1>1, <1>4, <2>1 DEF AllFulfilled, Early
  <2>2. CASE pc'[r] = "update"
    <3>1. \A u \in Tasks : promise'[r][u] \notin {"pending", "rejected"}
      BY <1>1, <1>2, <1>3, <2>2 DEF ReplayOK, NoneRejected
    <3>2. \A u \in Tasks : promise'[r][u] \in Promise
      BY <1>2 DEF Promise
    <3> QED BY <3>1, <3>2 DEF AllFulfilled, Promise
  <2> QED BY <1>1, <1>3, <2>1, <2>2
<1>7. [Next]_vars
  BY DEF Next, Statement
<1>8. KeptAreEarlier(r)'
  BY <1>1, <1>2, <1>7, EarlierStay DEF ReplayOK
<1> QED BY <1>5, <1>6, <1>8 DEF ReplayOK

LEMMA ReplayNext == TypeInv /\ AuditInv /\ ReplayInv /\ [Next]_vars => ReplayInv'
<1> SUFFICES ASSUME TypeInv, AuditInv, ReplayInv, [Next]_vars,
                    NEW q \in Requests
             PROVE  ReplayOK(q)'
  BY DEF ReplayInv
<1>0. ReplayOK(q)
  BY DEF ReplayInv
<1> USE DEF TypeInv, TypeOK
<1>1. ASSUME NEW r \in Requests,
             InsertExecution(r) \/ WriteStatus(r) \/ WriteFailure(r)
      PROVE  ReplayOK(q)'
  BY <1>0, <1>1, ReplayQuiet
     DEF InsertExecution, WriteStatus, WriteFailure, AfterWrite, Proceed, Goto,
         Early
<1>2. ASSUME NEW r \in Requests,
             InsertEvent(r) \/ WriteOutput(r) \/ AppendTask(r)
               \/ DeleteExecution(r)
      PROVE  ReplayOK(q)'
  BY <1>0, <1>2, ReplayQuiet
     DEF InsertEvent, AfterEvent, WriteOutput, AppendTask, DeleteExecution,
         Proceed, Goto, Early
<1>3. ASSUME NEW r \in Requests, FindExecution(r) \/ StepNotFound(r) \/ Fail(r)
      PROVE  ReplayOK(q)'
  BY <1>0, <1>3, ReplayQuiet DEF FindExecution, StepNotFound, Fail, Goto
<1>4. ASSUME NEW r \in Requests, FindTasks(r) PROVE ReplayOK(q)'
  <2>1. CASE q = r
    BY <1>0, <1>4, <2>1, ReplayReads
  <2>2. CASE q # r
    BY <1>0, <1>4, <2>2, ReplayQuiet DEF FindTasks, Goto
  <2> QED BY <2>1, <2>2
<1>5. ASSUME NEW r \in Requests, NEW t \in Tasks,
             ResetTask(r, t) \/ RejectReset(r, t)
      PROVE  ReplayOK(q)'
  <2>1. CASE q = r
    BY <1>0, <1>5, <2>1, ReplaySettles
  <2>2. CASE q # r
    <3>1. promise'[q] = promise[q] /\ pc'[q] = pc[q] /\ UNCHANGED <<call, wrote>>
      BY <1>5, <2>2 DEF ResetTask, RejectReset, Settle, Goto
    <3> QED BY <1>0, <3>1, ReplayQuiet
  <2> QED BY <2>1, <2>2
<1>6. ASSUME NEW r \in Requests, Begin(r) PROVE ReplayOK(q)'
  <2>1. CASE q = r
    <3>1. /\ pc[r] = "idle" /\ UNCHANGED <<promise, wrote>>
          /\ \A t \in Tasks : promise[r][t] = "unread"
      BY <1>0, <1>6, <2>1 DEF Begin, ReplayOK, UnreadBefore
    <3> QED BY <2>1, <3>1 DEF ReplayOK, UnreadBefore, NoneRejected, AllFulfilled,
                              KeptAreEarlier
  <2>2. CASE q # r
    BY <1>0, <1>6, <2>2, ReplayQuiet DEF Begin, Goto
  <2> QED BY <2>1, <2>2
<1>7. ASSUME NEW t \in Tasks, WorkerUpdate(t) PROVE ReplayOK(q)'
  BY <1>0, <1>7, ReplayQuiet DEF WorkerUpdate
<1>8. CASE Crash
  <2>1. /\ UNCHANGED <<call, wrote, task>>
        /\ pc'[q] = IF pc[q] \in Waiting THEN "failed" ELSE pc[q]
        /\ \A t \in Tasks :
             promise'[q][t] = IF promise[q][t] = "pending" THEN "rejected"
                              ELSE promise[q][t]
    BY <1>8 DEF Crash, tables
  <2>2. UnreadBefore(q)' /\ NoneRejected(q)' /\ AllFulfilled(q)'
    BY <1>0, <2>1
       DEF ReplayOK, UnreadBefore, NoneRejected, AllFulfilled, Early, Waiting
  <2>3. KeptAreEarlier(q)'
    BY <1>0, <2>1, EarlierStay DEF ReplayOK
  <2> QED BY <2>2, <2>3 DEF ReplayOK
<1>9. CASE UNCHANGED vars
  BY <1>0, <1>9, ReplayQuiet DEF vars
<1> QED
  BY <1>1, <1>2, <1>3, <1>4, <1>5, <1>6, <1>7, <1>8, <1>9 DEF Next, Statement

(* Whatever fails, crashes, is deleted or appended meanwhile, a replay     *)
(* that moves its execution on has reset every task it chose, and the      *)
(* tasks it left alone come no later than one of the step it resets.       *)
THEOREM ReplaysAreComplete == Spec => []ReplayIsComplete
<1>1. TypeInv /\ ReplayInv => ReplayIsComplete
  <2> SUFFICES ASSUME TypeInv, ReplayInv, NEW r \in wrote, NEW t \in Tasks
               PROVE  /\ promise[r][t] \in {"unread", "kept", "fulfilled"}
                      /\ promise[r][t] = "kept" /\ task[t].row = "live" =>
                           \E f \in Tasks : /\ promise[r][f] = "fulfilled"
                                            /\ task[f].step = call[r].step
                                            /\ task[t].at <= task[f].at
    BY DEF ReplayIsComplete
  <2>1. AllFulfilled(r) /\ KeptAreEarlier(r)
    BY DEF TypeInv, TypeOK, ReplayInv, ReplayOK
  <2> QED BY <2>1 DEF AllFulfilled, KeptAreEarlier, Chosen
<1> QED
  BY ReplayInit, ReplayNext, Typing, AuditInit, AuditNext, <1>1, PTL DEF Spec

(***************************************************************************)
(* A task whose reset is pending comes no earlier than a task of the step, *)
(* which lives as long as it does.                                         *)
(***************************************************************************)
OfStep(r, f) == f \in TasksOf(Target(r)) /\ task[f].step = call[r].step
Follows(r) ==
  \A t \in Tasks : promise[r][t] = "pending" =>
    /\ task[t].row \in {"live", "gone"}
    /\ task[t].row = "live" =>
         /\ task[t].execution = Target(r)
         /\ \E f \in Tasks : OfStep(r, f) /\ task[f].at <= task[t].at
FollowInv == \A r \in Requests : Follows(r)

LEMMA FollowInit == Init => FollowInv
BY DEF Init, FollowInv, Follows

LEMMA FollowStays ==
  ASSUME TypeInv, [Next]_vars, NEW r \in Requests, Follows(r),
         call'[r] = call[r],
         \A t \in Tasks : promise'[r][t] = "pending" => promise[r][t] = "pending"
  PROVE  Follows(r)'
<1> SUFFICES ASSUME NEW t \in Tasks, promise'[r][t] = "pending"
             PROVE  /\ task'[t].row \in {"live", "gone"}
                    /\ task'[t].row = "live" =>
                         /\ task'[t].execution = Target(r)
                         /\ \E f \in Tasks :
                              OfStep(r, f)' /\ task'[f].at <= task'[t].at
  BY DEF Follows, Target
<1>1. task[t].row \in {"live", "gone"}
  BY DEF Follows
<1>2. TasksStay
  BY TasksStayNext
<1>3. task'[t].row \in {"live", "gone"}
  BY <1>1, <1>2 DEF TasksStay
<1>4. ASSUME task'[t].row = "live"
      PROVE  /\ task'[t].execution = Target(r)
             /\ \E f \in Tasks : OfStep(r, f)' /\ task'[f].at <= task'[t].at
  <2>1. /\ task[t].row = "live" /\ task'[t].execution = task[t].execution
        /\ task'[t].at = task[t].at
    BY <1>1, <1>2, <1>4 DEF TasksStay
  <2>2. task[t].execution = Target(r)
    BY <2>1 DEF Follows
  <2>3. PICK f \in Tasks : OfStep(r, f) /\ task[f].at <= task[t].at
    BY <2>1 DEF Follows
  <2>4. task[f].row = "live" /\ task[f].execution = Target(r)
    BY <2>3 DEF OfStep, TasksOf
  <2>5. task'[f].row = "live"
    BY <1>1, <1>2, <1>4, <2>1, <2>2, <2>4 DEF TasksStay
  <2>6. /\ task'[f].execution = task[f].execution
        /\ task'[f].step = task[f].step /\ task'[f].at = task[f].at
    BY <1>2, <2>4, <2>5 DEF TasksStay
  <2>7. OfStep(r, f)'
    BY <2>3, <2>4, <2>5, <2>6 DEF OfStep, TasksOf, Target
  <2> QED BY <2>1, <2>2, <2>3, <2>6, <2>7
<1> QED BY <1>3, <1>4

LEMMA FollowReads ==
  ASSUME TypeInv, NEW r \in Requests, FindTasks(r)
  PROVE  Follows(r)'
<1> USE DEF TypeInv, TypeOK
<1>1. PICK S \in Suffixes(TasksOf(Target(r)), call[r].step) :
        promise' = [promise EXCEPT ![r] =
          [t \in Tasks |-> IF t \in S THEN "pending"
                           ELSE IF t \in TasksOf(Target(r)) THEN "kept"
                           ELSE "unread"]]
  BY DEF FindTasks
<1>2. UNCHANGED <<task, call>>
  BY DEF FindTasks, tables
<1>3. PICK f \in S :
        /\ task[f].step = call[r].step
        /\ \A t \in TasksOf(Target(r)) : task[t].at < task[f].at => t \notin S
  BY DEF Suffixes
<1>4. f \in TasksOf(Target(r)) /\ f \in Tasks /\ OfStep(r, f)'
  BY <1>2, <1>3 DEF Suffixes, TasksOf, OfStep, Target
<1>5. ASSUME NEW t \in Tasks, promise'[r][t] = "pending"
      PROVE  t \in TasksOf(Target(r)) /\ task[f].at <= task[t].at
  <2>1. t \in S /\ t \in TasksOf(Target(r))
    BY <1>1, <1>5 DEF Suffixes
  <2>2. task[t].at \in Nat /\ task[f].at \in Nat
    BY <1>4 DEF TaskRow
  <2> QED BY <1>3, <2>1, <2>2
<1> QED BY <1>2, <1>4, <1>5 DEF Follows, TasksOf, Target

LEMMA FollowNext == TypeInv /\ ReplayInv /\ FollowInv /\ [Next]_vars => FollowInv'
<1> SUFFICES ASSUME TypeInv, ReplayInv, FollowInv, [Next]_vars, NEW q \in Requests
             PROVE  Follows(q)'
  BY DEF FollowInv
<1>0. Follows(q)
  BY DEF FollowInv
<1> USE DEF TypeInv, TypeOK
<1>1. ASSUME NEW r \in Requests, Begin(r) PROVE Follows(q)'
  <2>1. CASE q = r
    <3>1. pc[r] = "idle" /\ UNCHANGED promise /\ UnreadBefore(r)
      BY <1>1 DEF Begin, ReplayInv, ReplayOK
    <3> QED BY <2>1, <3>1 DEF UnreadBefore, Follows
  <2>2. CASE q # r
    BY <1>0, <1>1, <2>2, FollowStays DEF Begin
  <2> QED BY <2>1, <2>2
<1>2. ASSUME NEW r \in Requests, FindTasks(r) PROVE Follows(q)'
  <2>1. CASE q = r
    BY <1>2, <2>1, FollowReads
  <2>2. CASE q # r
    BY <1>0, <1>2, <2>2, FollowStays DEF FindTasks
  <2> QED BY <2>1, <2>2
<1>3. ASSUME NEW r \in Requests, NEW t \in Tasks,
             ResetTask(r, t) \/ RejectReset(r, t)
      PROVE  Follows(q)'
  BY <1>0, <1>3, FollowStays DEF ResetTask, RejectReset, Settle
<1>4. CASE Crash
  BY <1>0, <1>4, FollowStays DEF Crash
<1>5. CASE UNCHANGED <<promise, call>>
  BY <1>0, <1>5, FollowStays
<1> QED
  BY <1>1, <1>2, <1>3, <1>4, <1>5
     DEF Next, Statement, InsertExecution, WriteStatus, WriteFailure,
         InsertEvent, WriteOutput, AppendTask, FindExecution, StepNotFound,
         DeleteExecution, Fail, WorkerUpdate, vars

(* A promise is fulfilled by the reset of its task.                        *)
LEMMA FulfilledByReset ==
  ASSUME TypeInv, [Next]_vars, NEW r \in Requests, NEW t \in Tasks,
         promise[r][t] = "pending", promise'[r][t] = "fulfilled"
  PROVE  task[t].row = "live"
<1> USE DEF TypeInv, TypeOK
<1>1. ASSUME NEW q \in Requests, NEW u \in Tasks,
             ResetTask(q, u) \/ RejectReset(q, u)
      PROVE  task[t].row = "live"
  BY <1>1 DEF ResetTask, RejectReset, Settle
<1>2. ASSUME NEW q \in Requests, FindTasks(q) PROVE FALSE
  <2>1. PICK S : promise' = [promise EXCEPT ![q] =
                   [x \in Tasks |-> IF x \in S THEN "pending"
                                    ELSE IF x \in TasksOf(Target(q)) THEN "kept"
                                    ELSE "unread"]]
    BY <1>2 DEF FindTasks
  <2> QED BY <2>1
<1>3. CASE Crash
  BY <1>3 DEF Crash
<1>4. CASE UNCHANGED promise
  BY <1>4
<1> QED
  BY <1>1, <1>2, <1>3, <1>4
     DEF Next, Statement, Begin, InsertExecution, WriteStatus, WriteFailure,
         InsertEvent, WriteOutput, AppendTask, FindExecution, StepNotFound,
         DeleteExecution, Fail, WorkerUpdate, vars

(* No replay, nor what still runs of a failed one, resets a task that      *)
(* comes before every task of the step it was asked for.                   *)
THEOREM ReplaysSpareEarlier == Spec => ReplaySparesEarlierTasks
<1>1. TypeInv /\ FollowInv /\ [Next]_vars =>
        [\A r \in Requests, t \in Tasks :
           promise[r][t] = "pending" /\ promise'[r][t] = "fulfilled" =>
             \E f \in TasksOf(Target(r)) : /\ task[f].step = call[r].step
                                           /\ task[f].at <= task[t].at]_vars
  <2> SUFFICES ASSUME TypeInv, FollowInv, [Next]_vars,
                      NEW r \in Requests, NEW t \in Tasks,
                      promise[r][t] = "pending", promise'[r][t] = "fulfilled"
               PROVE  \E f \in TasksOf(Target(r)) : /\ task[f].step = call[r].step
                                                    /\ task[f].at <= task[t].at
    OBVIOUS
  <2>1. task[t].row = "live"
    BY FulfilledByReset
  <2>2. PICK f \in Tasks : OfStep(r, f) /\ task[f].at <= task[t].at
    BY <2>1 DEF FollowInv, Follows
  <2> QED BY <2>2 DEF OfStep
<1> QED
  BY ReplayInit, ReplayNext, FollowInit, FollowNext, Typing, AuditInit,
     AuditNext, <1>1, PTL DEF Spec, ReplaySparesEarlierTasks

(***************************************************************************)
(* Ids are used once: a creation is the only one of its id, which nothing  *)
(* has had when the row is inserted; and a row that is gone is empty.      *)
(***************************************************************************)
IsCreation(r) == call[r].op = "create"
UsedOnce ==
  \A r \in Requests :
    /\ IsCreation(r) => call[r] = Creation(Target(r))
    /\ pc[r] = "insert" => IsCreation(r) /\ execution[Target(r)].row = "never"
    /\ \A q \in Requests :
         IsCreation(r) /\ IsCreation(q) /\ Target(r) = Target(q) => r = q
GoneIsEmpty ==
  \A e \in Executions : execution[e].row = "gone" => execution[e] = EmptyRow("gone")
NamedIsThere ==
  \A r \in Requests : pc[r] = "delete" => execution[Target(r)].row # "never"
DeletionInv == UsedOnce /\ GoneIsEmpty /\ NamedIsThere

LEMMA DeletionInit == Init => DeletionInv
BY DEF Init, DeletionInv, UsedOnce, GoneIsEmpty, NamedIsThere, IsCreation,
       NoCall, MakeCall, EmptyRow

(* What a step does to an execution: nothing, the insert of a row that     *)
(* never was, a write on a live one, or its end.                           *)
RowMoves(e) ==
  \/ execution'[e] = execution[e]
  \/ /\ execution[e].row = "never" /\ execution'[e].row = "live"
     /\ \E r \in Requests : pc[r] = "insert" /\ Target(r) = e /\ pc'[r] # "insert"
  \/ execution[e].row = "live" /\ execution'[e].row = "live"
  \/ execution[e].row # "never" /\ execution'[e] = EmptyRow("gone")

LEMMA RowsMove ==
  ASSUME TypeInv, DeletionInv, [Next]_vars, NEW e \in Executions
  PROVE  RowMoves(e)
<1> USE DEF TypeInv, TypeOK
<1>1. ASSUME NEW r \in Requests, InsertExecution(r) PROVE RowMoves(e)
  <2>1. pc[r] = "insert" /\ pc'[r] # "insert"
    BY <1>1 DEF InsertExecution, Proceed, Goto
  <2>2. execution[Target(r)].row = "never"
    BY <2>1 DEF DeletionInv, UsedOnce
  <2>3. execution'[e] = IF e = Target(r) THEN EmptyRow("live") ELSE execution[e]
    BY <1>1 DEF InsertExecution
  <2> QED BY <2>1, <2>2, <2>3 DEF RowMoves, EmptyRow
<1>2. ASSUME NEW r \in Requests, WriteStatus(r) PROVE RowMoves(e)
  BY <1>2 DEF WriteStatus, Transition, Live, RowMoves, ExecutionRow
<1>3. ASSUME NEW r \in Requests, WriteFailure(r) PROVE RowMoves(e)
  BY <1>3 DEF WriteFailure, Transition, Live, RowMoves, ExecutionRow
<1>4. ASSUME NEW r \in Requests, WriteOutput(r) PROVE RowMoves(e)
  BY <1>4 DEF WriteOutput, Live, RowMoves, ExecutionRow
<1>5. ASSUME NEW r \in Requests, DeleteExecution(r) PROVE RowMoves(e)
  BY <1>5 DEF DeleteExecution, DeletionInv, NamedIsThere, RowMoves
<1>6. ASSUME UNCHANGED execution PROVE RowMoves(e)
  BY <1>6 DEF RowMoves
<1> QED
  BY <1>1, <1>2, <1>3, <1>4, <1>5, <1>6
     DEF Next, Statement, Begin, InsertEvent, AppendTask, FindExecution,
         FindTasks, StepNotFound, Fail, ResetTask, RejectReset, WorkerUpdate,
         Crash, vars, tables

LEMMA GoneNext ==
  ASSUME TypeInv, DeletionInv, [Next]_vars
  PROVE  GoneIsEmpty'
<1> SUFFICES ASSUME NEW e \in Executions, execution'[e].row = "gone"
             PROVE  execution'[e] = EmptyRow("gone")
  BY DEF GoneIsEmpty, EmptyRow
<1>1. RowMoves(e)
  BY RowsMove
<1> QED BY <1>1 DEF RowMoves, DeletionInv, GoneIsEmpty

(* A step that begins no call.                                             *)
LEMMA CallsGoOn ==
  ASSUME TypeInv, DeletionInv, [Next]_vars, UNCHANGED call,
         \A r \in Requests : pc'[r] \in {"insert", "delete"} => pc'[r] = pc[r]
  PROVE  UsedOnce' /\ NamedIsThere'
<1>1. ASSUME NEW r \in Requests, pc'[r] = "delete"
      PROVE  execution'[Target(r)].row # "never"
  <2>1. pc[r] = "delete" /\ execution[Target(r)].row # "never"
    BY <1>1 DEF DeletionInv, NamedIsThere
  <2>2. Target(r) \in Executions
    BY <2>1 DEF TypeInv, CallsOK
  <2>3. RowMoves(Target(r))
    BY <2>2, RowsMove
  <2> QED BY <2>1, <2>3 DEF RowMoves, EmptyRow
<1>2. ASSUME NEW r \in Requests, pc'[r] = "insert"
      PROVE  IsCreation(r) /\ execution'[Target(r)].row = "never"
  <2>1. pc[r] = "insert" /\ IsCreation(r) /\ execution[Target(r)].row = "never"
    BY <1>2 DEF DeletionInv, UsedOnce
  <2>2. Target(r) \in Executions
    BY <2>1 DEF TypeInv, CallsOK
  <2>3. RowMoves(Target(r))
    BY <2>2, RowsMove
  <2>4. ASSUME NEW q \in Requests, pc[q] = "insert", Target(q) = Target(r),
               pc'[q] # "insert"
        PROVE  FALSE
    <3>1. IsCreation(q)
      BY <2>4 DEF DeletionInv, UsedOnce
    <3>2. q = r
      BY <2>1, <2>4, <3>1 DEF DeletionInv, UsedOnce
    <3> QED BY <1>2, <2>4, <3>2
  <2> QED BY <2>1, <2>3, <2>4 DEF RowMoves
<1>3. NamedIsThere'
  BY <1>1 DEF NamedIsThere, Target
<1>4. UsedOnce'
  BY <1>2 DEF UsedOnce, DeletionInv, IsCreation, Target
<1> QED BY <1>3, <1>4

LEMMA CallsBegin ==
  ASSUME TypeInv, DeletionInv, NEW r \in Requests, Begin(r)
  PROVE  UsedOnce' /\ NamedIsThere'
<1> USE DEF TypeInv, TypeOK
<1>1. PICK e \in Executions :
        \/ /\ execution[e].row # "never"
           /\ \E c \in CallsOn(e) : call' = [call EXCEPT ![r] = c]
        \/ /\ execution[e].row = "never"
           /\ \A q \in Requests : call[q] # Creation(e)
           /\ call' = [call EXCEPT ![r] = Creation(e)]
  BY DEF Begin
<1>2. /\ UNCHANGED execution
      /\ pc' = [pc EXCEPT ![r] = FirstStatement(call'[r].op)]
      /\ \A q \in Requests \ {r} : call'[q] = call[q] /\ pc'[q] = pc[q]
      /\ pc'[r] = FirstStatement(call'[r].op)
  BY <1>1 DEF Begin, Goto, tables
<1>3. CASE /\ execution[e].row # "never"
           /\ \E c \in CallsOn(e) : call' = [call EXCEPT ![r] = c]
  <2>1. call'[r] \in CallsOn(e)
    BY <1>3
  <2>2. call'[r].op # "create" /\ call'[r].execution = e
    BY <2>1 DEF CallsOn, MakeCall
  <2>3. pc'[r] # "insert"
    BY <1>2, <2>1, FirstStatements DEF CallsOn, MakeCall
  <2>4. UsedOnce'
    BY <1>2, <2>2, <2>3 DEF DeletionInv, UsedOnce, IsCreation, Target
  <2>5. NamedIsThere'
    BY <1>2, <1>3, <2>2 DEF DeletionInv, NamedIsThere, Target
  <2> QED BY <2>4, <2>5
<1>4. CASE /\ execution[e].row = "never"
           /\ \A q \in Requests : call[q] # Creation(e)
           /\ call' = [call EXCEPT ![r] = Creation(e)]
  <2>1. call'[r] = Creation(e) /\ call'[r].op = "create" /\ call'[r].execution = e
    BY <1>4 DEF Creation, MakeCall
  <2>2. pc'[r] = "insert"
    BY <1>2, <2>1, FirstStatements
  <2>3. ASSUME NEW q \in Requests, IsCreation(q) PROVE Target(q) # e
    BY <1>4, <2>3 DEF DeletionInv, UsedOnce
  <2>4. ASSUME NEW p \in Requests
        PROVE  /\ IsCreation(p)' => call'[p] = Creation(Target(p)')
               /\ pc'[p] = "insert" =>
                    IsCreation(p)' /\ execution'[Target(p)'].row = "never"
    BY <1>2, <1>4, <2>1, <2>2 DEF DeletionInv, UsedOnce, IsCreation, Target
  <2>5. ASSUME NEW p \in Requests, NEW q \in Requests,
               IsCreation(p)', IsCreation(q)', Target(p)' = Target(q)'
        PROVE  p = q
    BY <1>2, <2>1, <2>3, <2>5 DEF DeletionInv, UsedOnce, IsCreation, Target
  <2>6. UsedOnce'
    BY <2>4, <2>5 DEF UsedOnce
  <2>7. NamedIsThere'
    BY <1>2, <2>2 DEF DeletionInv, NamedIsThere, Target
  <2> QED BY <2>6, <2>7
<1> QED BY <1>1, <1>3, <1>4

LEMMA DeletionNext == TypeInv /\ DeletionInv /\ [Next]_vars => DeletionInv'
<1> SUFFICES ASSUME TypeInv, DeletionInv, [Next]_vars PROVE DeletionInv'
  OBVIOUS
<1> USE DEF TypeInv, TypeOK
<1>1. GoneIsEmpty'
  BY GoneNext
<1>2. UsedOnce' /\ NamedIsThere'
  <2>1. ASSUME NEW r \in Requests, Begin(r) PROVE UsedOnce' /\ NamedIsThere'
    BY <2>1, CallsBegin
  <2>2. ASSUME NEW r \in Requests, Statement(r)
        PROVE  /\ UNCHANGED call
               /\ \A q \in Requests :
                    pc'[q] \in {"insert", "delete"} => pc'[q] = pc[q]
    BY <2>2
       DEF Statement, InsertExecution, WriteStatus, WriteFailure, InsertEvent,
           WriteOutput, AppendTask, FindExecution, FindTasks, StepNotFound,
           DeleteExecution, Fail, ResetTask, RejectReset, AfterWrite,
           AfterEvent, Proceed, Goto
  <2>3. ASSUME (\E t \in Tasks : WorkerUpdate(t)) \/ Crash \/ UNCHANGED vars
        PROVE  /\ UNCHANGED call
               /\ \A q \in Requests :
                    pc'[q] \in {"insert", "delete"} => pc'[q] = pc[q]
    BY <2>3 DEF WorkerUpdate, Crash, vars
  <2> QED BY <2>1, <2>2, <2>3, CallsGoOn DEF Next
<1> QED BY <1>1, <1>2 DEF DeletionInv

LEMMA EventsRemain ==
  ASSUME TypeInv, [Next]_vars, NEW ev \in events
  PROVE  \E new \in events' :
           /\ new.request = ev.request /\ new.type = ev.type
           /\ new.execution \in {ev.execution, NoExecution}
<1>1. events \subseteq events' \/ \E r \in Requests : DeleteExecution(r)
  BY DEF Next, Statement, Begin, InsertExecution, WriteStatus, WriteFailure,
         InsertEvent, WriteOutput, AppendTask, FindExecution, FindTasks,
         StepNotFound, Fail, ResetTask, RejectReset, WorkerUpdate, Crash,
         vars, tables
<1>2. ASSUME NEW r \in Requests, DeleteExecution(r)
      PROVE  \E new \in events' :
               /\ new.request = ev.request /\ new.type = ev.type
               /\ new.execution \in {ev.execution, NoExecution}
  <2> DEFINE new == [ev EXCEPT !.execution =
                       IF @ = Target(r) THEN NoExecution ELSE @]
  <2>1. new \in events'
    BY <1>2 DEF DeleteExecution, Detached
  <2>2. ev \in EventRow
    BY DEF TypeInv, TypeOK
  <2>3. /\ new.request = ev.request /\ new.type = ev.type
        /\ new.execution \in {ev.execution, NoExecution}
    BY <2>2 DEF EventRow
  <2> HIDE DEF new
  <2> QED BY <2>1, <2>3
<1> QED BY <1>1, <1>2

LEMMA GoneTasksRest ==
  ASSUME TypeInv, [Next]_vars, NEW t \in Tasks, task[t].row = "gone"
  PROVE  task'[t] = task[t]
<1> USE DEF TypeInv, TypeOK
<1>1. ASSUME NEW r \in Requests, AppendTask(r) PROVE task'[t] = task[t]
  BY <1>1 DEF AppendTask
<1>2. ASSUME NEW r \in Requests, DeleteExecution(r) PROVE task'[t] = task[t]
  BY <1>2 DEF DeleteExecution, Orphaned, TasksOf
<1>3. ASSUME NEW r \in Requests, NEW u \in Tasks, ResetTask(r, u)
      PROVE  task'[t] = task[t]
  BY <1>3 DEF ResetTask
<1>4. ASSUME NEW u \in Tasks, WorkerUpdate(u) PROVE task'[t] = task[t]
  BY <1>4 DEF WorkerUpdate
<1> QED
  BY <1>1, <1>2, <1>3, <1>4
     DEF Next, Statement, Begin, InsertExecution, WriteStatus, WriteFailure,
         InsertEvent, WriteOutput, FindExecution, FindTasks, StepNotFound, Fail,
         RejectReset, Crash, vars, tables

(* Nothing in flight, and no later call, brings a deleted execution or its *)
(* tasks back, and a deletion removes no event.                            *)
THEOREM DeletedRestForGood == Spec => DeletedStaysDeleted
<1> DEFINE Rest ==
      /\ \A e \in Executions : execution[e].row = "gone" =>
           execution'[e] = execution[e]
      /\ \A t \in Tasks : task[t].row = "gone" => task'[t] = task[t]
      /\ \A ev \in events : \E new \in events' :
           /\ new.request = ev.request /\ new.type = ev.type
           /\ new.execution \in {ev.execution, NoExecution}
<1>1. TypeInv /\ DeletionInv /\ [Next]_vars => Rest
  <2> SUFFICES ASSUME TypeInv, DeletionInv, [Next]_vars PROVE Rest
    OBVIOUS
  <2>1. ASSUME NEW e \in Executions, execution[e].row = "gone"
        PROVE  execution'[e] = execution[e]
    <3>1. RowMoves(e) /\ execution[e] = EmptyRow("gone")
      BY <2>1, RowsMove DEF DeletionInv, GoneIsEmpty
    <3> QED BY <2>1, <3>1 DEF RowMoves
  <2> QED BY <2>1, EventsRemain, GoneTasksRest
<1>2. TypeInv /\ DeletionInv /\ [Next]_vars => [Rest]_vars
  BY <1>1
<1> QED
  BY DeletionInit, DeletionNext, Typing, <1>2, PTL DEF Spec, DeletedStaysDeleted
----------------------------------------------------------------------------
(***************************************************************************)
(* The safety half of "every call is answered".  A call goes through its   *)
(* statements in one direction, and while a replay awaits its resets some  *)
(* are pending.                                                            *)
(***************************************************************************)
Stage ==
  [idle |-> 0, find |-> 1, reset |-> 2, insert |-> 3, update |-> 3,
   append |-> 3, delete |-> 3, event |-> 4, output |-> 5,
   done |-> 6, failed |-> 6]
Pending(r) == {t \in Tasks : promise[r][t] = "pending"}

NoReplayHangs == \A r \in Requests : pc[r] = "reset" => Pending(r) # {}

Forward(r) == Stage[pc[r]] < Stage[pc'[r]]
FewerPending(r) ==
  /\ pc'[r] = pc[r]
  /\ Pending(r)' \subseteq Pending(r) /\ Pending(r)' # Pending(r)
Rests(r) == pc'[r] = pc[r] /\ Pending(r)' = Pending(r)

CallsAdvance ==
  [][\A r \in Requests :
       /\ Forward(r) \/ FewerPending(r) \/ Rests(r)
       /\ Statement(r) => Forward(r) \/ FewerPending(r)]_vars

LEMMA Stages ==
  /\ Stage["idle"] = 0 /\ Stage["find"] = 1 /\ Stage["reset"] = 2
  /\ Stage["insert"] = 3 /\ Stage["update"] = 3 /\ Stage["append"] = 3
  /\ Stage["delete"] = 3 /\ Stage["event"] = 4 /\ Stage["output"] = 5
  /\ Stage["done"] = 6 /\ Stage["failed"] = 6
BY DEF Stage

LEMMA ResetsAdvance ==
  ASSUME TypeInv, NEW r \in Requests, NEW t \in Tasks,
         ResetTask(r, t) \/ RejectReset(r, t)
  PROVE  /\ Forward(r) \/ FewerPending(r)
         /\ pc'[r] = "reset" => Pending(r)' # {}
<1> USE DEF TypeInv, TypeOK
<1>1. promise[r][t] = "pending" /\ pc[r] \in {"reset", "failed"}
  BY DEF ResetTask, RejectReset, PromisesOK
<1>2. \/ Settle(r, t, "fulfilled") \/ Settle(r, t, "rejected")
  BY DEF ResetTask, RejectReset
<1>3. /\ promise'[r][t] # "pending"
      /\ \A u \in Tasks \ {t} : promise'[r][u] = promise[r][u]
  BY <1>2 DEF Settle
<1>4. Pending(r)' \subseteq Pending(r) /\ Pending(r)' # Pending(r)
  <2>1. t \in Pending(r) /\ t \notin Pending(r)'
    BY <1>1, <1>3 DEF Pending
  <2>2. \A u \in Tasks : u \in Pending(r)' => u \in Pending(r)
    BY <1>3 DEF Pending
  <2>3. Pending(r)' \subseteq Tasks
    BY DEF Pending
  <2> QED BY <2>1, <2>2, <2>3
<1>5. \/ pc'[r] = "failed"
      \/ pc[r] = "reset" /\ pc'[r] = "update"
      \/ pc'[r] = pc[r] /\ (pc[r] = "reset" => ~NonePending(promise'[r]))
  BY DEF ResetTask, RejectReset, Goto
<1>6. Forward(r) \/ FewerPending(r)
  <2>1. CASE pc'[r] = pc[r]
    BY <1>4, <2>1 DEF FewerPending
  <2>2. CASE pc'[r] # pc[r]
    <3>1. pc[r] = "reset" /\ pc'[r] \in {"failed", "update"}
      BY <1>1, <1>5, <2>2
    <3>2. Stage[pc[r]] = 2 /\ Stage[pc'[r]] \in {3, 6}
      BY <3>1, Stages
    <3> QED BY <3>2 DEF Forward
  <2> QED BY <2>1, <2>2
<1>7. pc'[r] = "reset" => Pending(r)' # {}
  BY <1>5 DEF NonePending, Pending
<1> QED BY <1>6, <1>7

LEMMA StatementsAdvance ==
  ASSUME TypeInv, NEW r \in Requests, Statement(r)
  PROVE  /\ Forward(r) \/ FewerPending(r)
         /\ pc'[r] = "reset" => Pending(r)' # {}
<1> USE DEF TypeInv, TypeOK
<1>1. CASE \E t \in Tasks : ResetTask(r, t) \/ RejectReset(r, t)
  BY <1>1, ResetsAdvance
<1>2. CASE InsertExecution(r) \/ WriteStatus(r) \/ WriteFailure(r)
  <2>1. /\ pc[r] \in {"insert", "update"}
        /\ pc'[r] \in {"event", "done", "failed"}
    BY <1>2 DEF InsertExecution, WriteStatus, WriteFailure, AfterWrite, Proceed, Goto
  <2>2. Stage[pc[r]] = 3 /\ Stage[pc'[r]] \in {4, 6}
    BY <2>1, Stages
  <2> QED BY <2>1, <2>2 DEF Forward
<1>3. CASE InsertEvent(r)
  <2>1. pc[r] = "event" /\ pc'[r] \in {"output", "done", "failed"}
    BY <1>3 DEF InsertEvent, AfterEvent, Proceed, Goto
  <2>2. Stage[pc[r]] = 4 /\ Stage[pc'[r]] \in {5, 6}
    BY <2>1, Stages
  <2> QED BY <2>1, <2>2 DEF Forward
<1>4. CASE WriteOutput(r) \/ AppendTask(r) \/ DeleteExecution(r) \/ StepNotFound(r)
  <2>1. /\ pc[r] \in {"output", "append", "delete", "find"}
        /\ pc'[r] \in {"done", "failed"}
    BY <1>4 DEF WriteOutput, AppendTask, DeleteExecution, StepNotFound, Proceed, Goto
  <2>2. Stage[pc[r]] \in {1, 3, 5} /\ Stage[pc'[r]] = 6
    BY <2>1, Stages
  <2> QED BY <2>1, <2>2 DEF Forward
<1>5. CASE FindExecution(r)
  <2>1. pc[r] = "find" /\ pc'[r] = "update"
    BY <1>5 DEF FindExecution, Goto
  <2>2. Stage[pc[r]] = 1 /\ Stage[pc'[r]] = 3
    BY <2>1, Stages
  <2> QED BY <2>1, <2>2 DEF Forward
<1>6. CASE FindTasks(r)
  <2>1. pc[r] = "find" /\ pc'[r] = "reset"
    BY <1>6 DEF FindTasks, Goto
  <2>2. Stage[pc[r]] = 1 /\ Stage[pc'[r]] = 2
    BY <2>1, Stages
  <2>3. PICK S \in Suffixes(TasksOf(Target(r)), call[r].step) :
          promise' = [promise EXCEPT ![r] =
            [t \in Tasks |-> IF t \in S THEN "pending"
                             ELSE IF t \in TasksOf(Target(r)) THEN "kept"
                             ELSE "unread"]]
    BY <1>6 DEF FindTasks
  <2>4. PICK f \in S : f \in Tasks
    BY DEF Suffixes, TasksOf
  <2>5. f \in Pending(r)'
    BY <2>3, <2>4 DEF Pending
  <2> QED BY <2>2, <2>5 DEF Forward
<1>7. CASE Fail(r)
  <2>1. pc[r] \in Waiting \ {"reset"} /\ pc'[r] = "failed"
    BY <1>7 DEF Fail, Goto
  <2>2. Stage[pc[r]] \in {1, 3, 4, 5} /\ Stage[pc'[r]] = 6
    BY <2>1, Stages DEF Waiting
  <2> QED BY <2>1, <2>2 DEF Forward
<1> QED BY <1>1, <1>2, <1>3, <1>4, <1>5, <1>6, <1>7 DEF Statement

(* A statement of one request is none of another's. *)
LEMMA OthersRest ==
  ASSUME TypeInv, NEW r \in Requests, Statement(r) \/ Begin(r),
         NEW q \in Requests \ {r}
  PROVE  Rests(q)
<1> USE DEF TypeInv, TypeOK
<1>1. pc'[q] = pc[q] /\ promise'[q] = promise[q]
  <2>1. CASE \E t \in Tasks : ResetTask(r, t) \/ RejectReset(r, t)
    BY <2>1 DEF ResetTask, RejectReset, Settle, Goto
  <2>2. CASE FindTasks(r)
    BY <2>2 DEF FindTasks, Goto
  <2>3. CASE \/ InsertExecution(r) \/ WriteStatus(r) \/ WriteFailure(r)
             \/ InsertEvent(r) \/ WriteOutput(r) \/ AppendTask(r)
    BY <2>3 DEF InsertExecution, WriteStatus, WriteFailure, AfterWrite, InsertEvent,
                AfterEvent, WriteOutput, AppendTask, Proceed, Goto
  <2>4. CASE \/ FindExecution(r) \/ StepNotFound(r) \/ DeleteExecution(r)
             \/ Fail(r) \/ Begin(r)
    BY <2>4 DEF FindExecution, StepNotFound, DeleteExecution, Fail, Begin,
                Proceed, Goto
  <2> QED BY <2>1, <2>2, <2>3, <2>4 DEF Statement
<1> QED BY <1>1 DEF Rests, Pending

LEMMA BeginsForward ==
  ASSUME TypeInv, NEW r \in Requests, Begin(r)
  PROVE  Forward(r) /\ pc'[r] # "reset"
<1> USE DEF TypeInv, TypeOK
<1>1. PICK e \in Executions : \E c \in CallsOn(e) \union {Creation(e)} :
        call' = [call EXCEPT ![r] = c]
  BY DEF Begin
<1>2. PICK c \in CallsOn(e) \union {Creation(e)} : call' = [call EXCEPT ![r] = c]
  BY <1>1
<1>3. c.op \in Ops \ {"none"}
  BY CallsAreTyped DEF Call
<1>4. FirstStatement(c.op) \in {"insert", "append", "delete", "find", "update"}
  BY <1>3, FirstStatements DEF Ops
<1>5. pc[r] = "idle" /\ pc'[r] = FirstStatement(c.op)
  BY <1>2 DEF Begin, Goto
<1>6. Stage[pc[r]] = 0 /\ Stage[pc'[r]] \in {1, 3}
  BY <1>4, <1>5, Stages
<1> QED BY <1>4, <1>5, <1>6 DEF Forward

LEMMA CrashesAdvance ==
  ASSUME TypeInv, Crash, NEW r \in Requests
  PROVE  /\ Forward(r) \/ FewerPending(r) \/ Rests(r)
         /\ pc'[r] # "reset" /\ Pending(r)' = {}
<1> USE DEF TypeInv, TypeOK
<1>1. /\ pc'[r] = IF pc[r] \in Waiting THEN "failed" ELSE pc[r]
      /\ \A t \in Tasks : promise'[r][t] # "pending"
  BY DEF Crash
<1>2. Pending(r)' = {}
  BY <1>1 DEF Pending
<1>3. pc'[r] # "reset"
  BY <1>1 DEF Waiting
<1>4. CASE pc[r] \in Waiting
  <2>1. Stage[pc[r]] \in {1, 2, 3, 4, 5} /\ Stage[pc'[r]] = 6
    BY <1>1, <1>4, Stages DEF Waiting
  <2> QED BY <1>2, <1>3, <2>1 DEF Forward
<1>5. CASE pc[r] \notin Waiting
  BY <1>1, <1>2, <1>3, <1>5 DEF FewerPending, Rests
<1> QED BY <1>4, <1>5

(* While a replay awaits Promise.all some reset is pending: its answer, or *)
(* its failure, will let the await return.                                 *)
THEOREM ReplaysNeverHang == Spec => []NoReplayHangs
<1>1. Init => NoReplayHangs
  BY DEF Init, NoReplayHangs
<1>2. TypeInv /\ NoReplayHangs /\ [Next]_vars => NoReplayHangs'
  <2> SUFFICES ASSUME TypeInv, NoReplayHangs, [Next]_vars, NEW r \in Requests,
                      pc'[r] = "reset"
               PROVE  Pending(r)' # {}
    BY DEF NoReplayHangs
  <2>1. CASE Statement(r) \/ Begin(r)
    BY <2>1, StatementsAdvance, BeginsForward
  <2>2. ASSUME NEW q \in Requests, q # r, Statement(q) \/ Begin(q)
        PROVE  Pending(r)' # {}
    BY <2>2, OthersRest DEF Rests, NoReplayHangs
  <2>3. CASE Crash
    BY <2>3, CrashesAdvance
  <2>4. CASE UNCHANGED <<pc, promise>>
    BY <2>4 DEF NoReplayHangs, Pending
  <2>5. (\E t \in Tasks : WorkerUpdate(t)) \/ UNCHANGED vars =>
          UNCHANGED <<pc, promise>>
    BY DEF WorkerUpdate, vars
  <2> QED BY <2>1, <2>2, <2>3, <2>4, <2>5 DEF Next
<1> QED BY <1>1, <1>2, Typing, PTL DEF Spec

(* Whatever runs beside it, a call never goes back: each of its statements *)
(* brings it on, or settles one reset for good, and no step of another     *)
(* call, of a worker or of a crash undoes that.                            *)
THEOREM CallsOnlyAdvance == Spec => CallsAdvance
<1> DEFINE Advances(r) ==
      /\ Forward(r) \/ FewerPending(r) \/ Rests(r)
      /\ Statement(r) => Forward(r) \/ FewerPending(r)
<1>1. TypeInv /\ [Next]_vars => [\A r \in Requests : Advances(r)]_vars
  <2> SUFFICES ASSUME TypeInv, Next, NEW r \in Requests PROVE Advances(r)
    OBVIOUS
  <2>1. CASE Statement(r)
    BY <2>1, StatementsAdvance
  <2>2. CASE ~Statement(r)
    <3>1. CASE Begin(r)
      BY <2>2, <3>1, BeginsForward
    <3>2. ASSUME NEW q \in Requests, q # r, Statement(q) \/ Begin(q)
          PROVE  Advances(r)
      BY <2>2, <3>2, OthersRest
    <3>3. CASE Crash
      BY <2>2, <3>3, CrashesAdvance
    <3>4. CASE \E t \in Tasks : WorkerUpdate(t)
      BY <2>2, <3>4 DEF WorkerUpdate, Rests, Pending
    <3> QED BY <2>2, <3>1, <3>2, <3>3, <3>4 DEF Next
  <2> QED BY <2>1, <2>2
<1> QED BY <1>1, Typing, PTL DEF Spec, CallsAdvance
----------------------------------------------------------------------------
(***************************************************************************)
(* The trail of an execution: its events are attached to it as long as it  *)
(* is there, and to nothing afterwards.  Inductive together with: what a   *)
(* request has written was there then.                                     *)
(***************************************************************************)
EventsFollow ==
  \A ev \in events :
    ev.execution = IF Live(Target(ev.request)) THEN Target(ev.request)
                   ELSE NoExecution
WrittenWasThere ==
  \A r \in wrote : Target(r) \in Executions /\ execution[Target(r)].row # "never"
TrailInv == EventsFollow /\ WrittenWasThere

LEMMA TrailInit == Init => TrailInv
BY DEF Init, TrailInv, EventsFollow, WrittenWasThere

(* Only its deletion ends an execution. *)
LEMMA LiveStays ==
  ASSUME TypeInv, [Next]_vars, NEW e \in Executions, Live(e),
         \A r \in Requests : DeleteExecution(r) => Target(r) # e
  PROVE  Live(e)'
<1> USE DEF TypeInv, TypeOK
<1>1. ASSUME NEW r \in Requests,
             InsertExecution(r) \/ WriteStatus(r) \/ WriteFailure(r) \/ WriteOutput(r)
      PROVE  Live(e)'
  <2>1. CASE InsertExecution(r)
    BY <2>1 DEF InsertExecution, EmptyRow, Live
  <2>2. CASE WriteStatus(r)
    BY <2>2 DEF WriteStatus, Transition, Live, ExecutionRow
  <2>3. CASE WriteFailure(r)
    BY <2>3 DEF WriteFailure, Transition, Live, ExecutionRow
  <2>4. CASE WriteOutput(r)
    BY <2>4 DEF WriteOutput, Live, ExecutionRow
  <2> QED BY <1>1, <2>1, <2>2, <2>3, <2>4
<1>2. ASSUME NEW r \in Requests, DeleteExecution(r) PROVE Live(e)'
  BY <1>2 DEF DeleteExecution, Live
<1>3. ASSUME UNCHANGED execution PROVE Live(e)'
  BY <1>3 DEF Live
<1> QED
  BY <1>1, <1>2, <1>3
     DEF Next, Statement, Begin, InsertEvent, AppendTask, FindExecution,
         FindTasks, StepNotFound, Fail, ResetTask, RejectReset, WorkerUpdate,
         Crash, vars, tables

LEMMA WrittenStays ==
  ASSUME TypeInv, AuditInv, DeletionInv, WrittenWasThere, [Next]_vars
  PROVE  /\ \A r \in wrote : call'[r] = call[r]
         /\ WrittenWasThere'
<1> USE DEF TypeInv, TypeOK
<1>1. ASSUME NEW r \in wrote PROVE call'[r] = call[r]
  <2>1. r \in Requests /\ pc[r] # "idle"
    BY DEF AuditInv, BeforeWrite
  <2>2. UNCHANGED call \/ \E q \in Requests : Begin(q)
    BY DEF Next, Statement, InsertExecution, WriteStatus, WriteFailure,
           InsertEvent, WriteOutput, AppendTask, FindExecution, FindTasks,
           StepNotFound, DeleteExecution, Fail, ResetTask, RejectReset,
           WorkerUpdate, Crash, vars, tables
  <2> QED BY <2>1, <2>2 DEF Begin
<1>2. ASSUME NEW r \in wrote
      PROVE  Target(r)' \in Executions /\ execution'[Target(r)'].row # "never"
  <2>1. Target(r)' = Target(r) /\ Target(r) \in Executions
    BY <1>1 DEF Target, WrittenWasThere
  <2>2. RowMoves(Target(r)) /\ execution[Target(r)].row # "never"
    BY <2>1, RowsMove DEF WrittenWasThere
  <2> QED BY <2>1, <2>2 DEF RowMoves, EmptyRow
<1>3. ASSUME NEW r \in wrote' \ wrote
      PROVE  Target(r)' \in Executions /\ execution'[Target(r)'].row # "never"
  <2>1. /\ r \in Requests
        /\ InsertExecution(r) \/ WriteStatus(r) \/ WriteFailure(r)
    BY <1>3
       DEF Next, Statement, Begin, InsertExecution, WriteStatus, WriteFailure,
           InsertEvent, WriteOutput, AppendTask, FindExecution, FindTasks,
           StepNotFound, DeleteExecution, Fail, ResetTask, RejectReset,
           WorkerUpdate, Crash, vars, tables
  <2>2. Target(r)' = Target(r) /\ Target(r) \in Executions
    BY <2>1 DEF InsertExecution, WriteStatus, WriteFailure, Target, CallsOK
  <2>3. execution'[Target(r)].row = "live"
    <3>1. CASE InsertExecution(r)
      BY <2>2, <3>1 DEF InsertExecution, EmptyRow
    <3>2. CASE WriteStatus(r)
      BY <2>2, <3>2 DEF WriteStatus, Transition, Live, ExecutionRow
    <3>3. CASE WriteFailure(r)
      BY <2>2, <3>3 DEF WriteFailure, Transition, Live, ExecutionRow
    <3> QED BY <2>1, <3>1, <3>2, <3>3
  <2> QED BY <2>2, <2>3
<1> QED BY <1>1, <1>2, <1>3 DEF WrittenWasThere

LEMMA TrailNext ==
  TypeInv /\ AuditInv /\ DeletionInv /\ TrailInv /\ [Next]_vars => TrailInv'
<1> SUFFICES ASSUME TypeInv, AuditInv, DeletionInv, TrailInv, [Next]_vars
             PROVE  EventsFollow'
  BY WrittenStays DEF TrailInv
<1> USE DEF TypeInv, TypeOK
<1> DEFINE Trail(e) == IF Live(e) THEN e ELSE NoExecution
<1>1. ASSUME NEW old \in events
      PROVE  /\ old.request \in wrote /\ Target(old.request)' = Target(old.request)
             /\ Target(old.request) \in Executions
             /\ execution[Target(old.request)].row # "never"
             /\ old.execution = Trail(Target(old.request))
  <2>1. old.request \in wrote
    BY DEF AuditInv, EventsAreBacked
  <2> QED BY <2>1, WrittenStays DEF TrailInv, WrittenWasThere, EventsFollow, Target
<1>2. ASSUME NEW e \in Executions, execution[e].row # "never",
             \A r \in Requests : DeleteExecution(r) => Target(r) # e
      PROVE  Trail(e)' = Trail(e)
  <2>1. CASE Live(e)
    BY <1>2, <2>1, LiveStays
  <2>2. CASE ~Live(e)
    <3>1. execution[e].row \in RowState
      BY DEF ExecutionRow
    <3>2. RowMoves(e) /\ execution[e].row = "gone"
      BY <1>2, <2>2, <3>1, RowsMove DEF Live, RowState
    <3>3. ~Live(e)'
      BY <3>2 DEF RowMoves, Live, EmptyRow
    <3> QED BY <2>2, <3>3
  <2> QED BY <2>1, <2>2
<1>3. ASSUME NEW r \in Requests, DeleteExecution(r) PROVE EventsFollow'
  <2>1. ASSUME NEW d \in Executions, d = Target(r) PROVE ~Live(d)'
    BY <1>3, <2>1 DEF DeleteExecution, Live, EmptyRow
  <2>2. ASSUME NEW ev \in events' PROVE ev.execution = Trail(Target(ev.request))'
    <3>1. PICK old \in events :
            ev = [old EXCEPT !.execution =
                    IF @ = Target(r) THEN NoExecution ELSE @]
      BY <1>3 DEF DeleteExecution, Detached
    <3>2. /\ ev.request = old.request
          /\ ev.execution = IF old.execution = Target(r) THEN NoExecution
                            ELSE old.execution
      BY <3>1 DEF EventRow
    <3>3. Target(ev.request)' = Target(old.request)
      BY <1>1, <3>2
    <3>4. PICK d \in Executions : d = Target(old.request)
      BY <1>1
    <3>5. execution[d].row # "never" /\ old.execution = Trail(d)
      BY <1>1, <3>4
    <3>6. CASE d = Target(r)
      <4>1. ~Live(d)' /\ ev.execution = NoExecution
        BY <2>1, <3>2, <3>5, <3>6
      <4> QED BY <3>3, <3>4, <4>1
    <3>7. CASE d # Target(r)
      <4>1. Trail(d)' = Trail(d)
        <5>1. ASSUME NEW q \in Requests, DeleteExecution(q) PROVE Target(q) # d
          BY <1>3, <5>1, <3>7 DEF DeleteExecution, Proceed, Goto
        <5> QED BY <1>2, <3>5, <5>1
      <4>2. ev.execution = Trail(d)
        BY <3>2, <3>5, <3>7
      <4> QED BY <3>3, <3>4, <4>1, <4>2
    <3> QED BY <3>6, <3>7
  <2> QED BY <2>2 DEF EventsFollow
<1>4. ASSUME NEW r \in Requests, InsertEvent(r) PROVE EventsFollow'
  <2> DEFINE new == [request |-> r, execution |-> Target(r), type |-> EventType(r)]
  <2>1. events' = events \union {new} /\ UNCHANGED <<execution, call>> /\ Live(Target(r))
    BY <1>4 DEF InsertEvent
  <2>2. new.request = r /\ new.execution = Target(r)
    OBVIOUS
  <2> HIDE DEF new
  <2> QED BY <2>1, <2>2 DEF TrailInv, EventsFollow, Target, Live
<1>5. ASSUME UNCHANGED events, \A r \in Requests : ~DeleteExecution(r)
      PROVE  EventsFollow'
  <2> SUFFICES ASSUME NEW ev \in events PROVE ev.execution = Trail(Target(ev.request))'
    BY <1>5 DEF EventsFollow
  <2>1. PICK d \in Executions : d = Target(ev.request)
    BY <1>1
  <2>2. Trail(d)' = Trail(d)
    BY <1>1, <1>2, <1>5, <2>1
  <2> QED BY <1>1, <2>1, <2>2
<1> QED
  BY <1>3, <1>4, <1>5
     DEF Next, Statement, Begin, InsertExecution, WriteStatus, WriteFailure,
         WriteOutput, AppendTask, FindExecution, FindTasks, StepNotFound, Fail,
         ResetTask, RejectReset, WorkerUpdate, Crash, vars, tables

(* The trail of an execution stays whole: every event a call recorded is   *)
(* attached to the execution the call named for as long as that is there,  *)
(* and to nothing once it is deleted, though events are inserted by calls  *)
(* that other calls, deletions and crashes overtake.                       *)
THEOREM TrailsFollowExecutions == Spec => []EventsFollow
<1>1. TrailInv => EventsFollow
  BY DEF TrailInv
<1> QED
  BY TrailInit, TrailNext, DeletionInit, DeletionNext, AuditInit, AuditNext,
     Typing, <1>1, PTL DEF Spec
----------------------------------------------------------------------------
(***************************************************************************)
(* The stamps of an execution.  updateStatus is no state machine: any      *)
(* status may follow any other; but the stamps agree with the status, and  *)
(* what is stamped or stored stays while the row does.                     *)
(***************************************************************************)
Stamped(row) ==
  /\ row.status = "RUNNING" => row.started_at
  /\ row.status \in Terminal => row.completed_at
StampsFollow == \A e \in Executions : Stamped(execution[e])

(* new keeps what old has. *)
Keeps(old, new) ==
  /\ new.row = "live"
  /\ old.started_at => new.started_at
  /\ old.completed_at => new.completed_at
  /\ old.output => new.output
  /\ Stamped(old) => Stamped(new)

StampsLast ==
  [][\A e \in Executions : Live(e) =>
       Keeps(execution[e], execution'[e]) \/ execution'[e] = EmptyRow("gone")]_vars

LEMMA TransitionsKeep ==
  ASSUME NEW row \in ExecutionRow, row.row = "live", NEW s \in ExecutionStatus
  PROVE  Keeps(row, Transition(row, s))
BY DEF Keeps, Stamped, Transition, ExecutionRow, Terminal

LEMMA RowsKeep ==
  ASSUME TypeInv, DeletionInv, [Next]_vars, NEW e \in Executions
  PROVE  \/ execution'[e] = execution[e]
         \/ execution'[e] = EmptyRow("gone")
         \/ execution[e].row = "never" /\ execution'[e] = EmptyRow("live")
         \/ Live(e) /\ Keeps(execution[e], execution'[e])
<1> USE DEF TypeInv, TypeOK
<1>1. ASSUME NEW r \in Requests, InsertExecution(r)
      PROVE  \/ execution'[e] = execution[e]
             \/ execution[e].row = "never" /\ execution'[e] = EmptyRow("live")
  BY <1>1 DEF InsertExecution, DeletionInv, UsedOnce
<1>2. ASSUME NEW r \in Requests, WriteStatus(r)
      PROVE  \/ execution'[e] = execution[e]
             \/ Live(e) /\ Keeps(execution[e], execution'[e])
  <2>1. call[r].status \in ExecutionStatus
    BY <1>2 DEF WriteStatus, CallsOK
  <2>2. CASE e # Target(r)
    BY <1>2, <2>2 DEF WriteStatus
  <2>3. CASE e = Target(r)
    <3>1. Live(e) /\ execution'[e] = Transition(execution[e], call[r].status)
      BY <1>2, <2>3 DEF WriteStatus
    <3>2. PICK s \in ExecutionStatus : s = call[r].status
      BY <2>1
    <3>3. PICK row \in ExecutionRow : row = execution[e] /\ row.row = "live"
      BY <3>1 DEF Live
    <3> QED BY <3>1, <3>2, <3>3, TransitionsKeep
  <2> QED BY <2>2, <2>3
<1>3. ASSUME NEW r \in Requests, WriteFailure(r)
      PROVE  \/ execution'[e] = execution[e]
             \/ Live(e) /\ Keeps(execution[e], execution'[e])
  <2>1. CASE e # Target(r)
    BY <1>3, <2>1 DEF WriteFailure
  <2>2. CASE e = Target(r)
    <3>1. PICK row \in ExecutionRow : row = execution[e] /\ row.row = "live"
      BY <1>3, <2>2 DEF WriteFailure, Live
    <3>2. PICK n \in Nat : n = NextRetries(r)
      BY DEF NextRetries
    <3>3. execution'[e] = [Transition(row, "FAILED") EXCEPT !.retries = n]
      BY <1>3, <2>2, <3>1, <3>2 DEF WriteFailure
    <3>4. PICK new \in ExecutionRow : new = Transition(row, "FAILED")
      BY RowsAreTyped DEF ExecutionStatus
    <3>5. Keeps(row, new)
      BY <3>1, <3>4, TransitionsKeep DEF ExecutionStatus
    <3>6. Keeps(row, [new EXCEPT !.retries = n])
      BY <3>5 DEF Keeps, Stamped, ExecutionRow
    <3> QED BY <3>1, <3>3, <3>4, <3>6 DEF Live
  <2> QED BY <2>1, <2>2
<1>4. ASSUME NEW r \in Requests, WriteOutput(r)
      PROVE  \/ execution'[e] = execution[e]
             \/ Live(e) /\ Keeps(execution[e], execution'[e])
  BY <1>4 DEF WriteOutput, Live, Keeps, Stamped, ExecutionRow
<1>5. ASSUME NEW r \in Requests, DeleteExecution(r)
      PROVE  execution'[e] = execution[e] \/ execution'[e] = EmptyRow("gone")
  BY <1>5 DEF DeleteExecution
<1> QED
  BY <1>1, <1>2, <1>3, <1>4, <1>5
     DEF Next, Statement, Begin, InsertEvent, AppendTask, FindExecution,
         FindTasks, StepNotFound, Fail, ResetTask, RejectReset, WorkerUpdate,
         Crash, vars, tables

(* However calls interleave, an execution that is RUNNING has started_at,  *)
(* one that is COMPLETED, FAILED or CANCELLED has completed_at.            *)
THEOREM StatusIsStamped == Spec => []StampsFollow
<1>1. Init => StampsFollow
  <2> SUFFICES ASSUME Init, NEW e \in Executions PROVE Stamped(execution[e])
    BY DEF StampsFollow
  <2>1. execution[e] \in {EmptyRow("never"), EmptyRow("live")}
    BY DEF Init
  <2> QED BY <2>1 DEF Stamped, EmptyRow, Terminal
<1>2. TypeInv /\ DeletionInv /\ StampsFollow /\ [Next]_vars => StampsFollow'
  <2> SUFFICES ASSUME TypeInv, DeletionInv, StampsFollow, [Next]_vars,
                      NEW e \in Executions
               PROVE  Stamped(execution'[e])
    BY DEF StampsFollow
  <2>1. \A state : Stamped(EmptyRow(state))
    BY DEF Stamped, EmptyRow, Terminal
  <2> QED BY <2>1, RowsKeep DEF StampsFollow, Keeps
<1> QED
  BY <1>1, <1>2, DeletionInit, DeletionNext, Typing, PTL DEF Spec

(* No call clears a stamp or an output: what an execution has been, and    *)
(* what it answered, is told by its row until it is deleted.  In           *)
(* particular a replay leaves it completed_at and its output.              *)
THEOREM StampsAreKept == Spec => StampsLast
<1> DEFINE Step ==
      \A e \in Executions : Live(e) =>
        Keeps(execution[e], execution'[e]) \/ execution'[e] = EmptyRow("gone")
<1>1. TypeInv /\ DeletionInv /\ [Next]_vars => Step
  <2> SUFFICES ASSUME TypeInv, DeletionInv, [Next]_vars,
                      NEW e \in Executions, Live(e)
               PROVE  \/ Keeps(execution[e], execution'[e])
                      \/ execution'[e] = EmptyRow("gone")
    OBVIOUS
  <2>1. Keeps(execution[e], execution[e])
    BY DEF Keeps, Live
  <2> QED BY <2>1, RowsKeep DEF Live
<1>2. TypeInv /\ DeletionInv /\ [Next]_vars => [Step]_vars
  BY <1>1
<1> QED
  BY DeletionInit, DeletionNext, Typing, <1>2, PTL DEF Spec, StampsLast
============================================================================
