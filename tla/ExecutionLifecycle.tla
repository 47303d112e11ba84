-------------------------- MODULE ExecutionLifecycle --------------------------
(***************************************************************************)
(* The execution service (src/src/services/execution.service.ts) over its  *)
(* repositories: requests that run concurrently in one or several server   *)
(* processes, each a sequence of database statements with an await after   *)
(* every one.  No statement sequence is a transaction, so every action     *)
(* below is one statement and everything may interleave between two.       *)
(*                                                                         *)
(* A repository update is updateMany followed by a findFirst that throws   *)
(* when the row is missing.  The value read back is only returned to the   *)
(* caller, so the two are one action with the outcomes of both: the write  *)
(* took effect and the request goes on; it took effect and the request     *)
(* fails (answer lost, row deleted before the read back); no effect.       *)
(***************************************************************************)
EXTENDS Integers

CONSTANTS Executions,   \* execution ids
          Tasks,        \* task ids
          Requests,     \* ids of service calls
          Steps,        \* step names
          Ticks,        \* created_at values of task rows
          Requested,    \* statuses a client may ask for
          NoExecution,  \* null execution_id
          NoStep,
          NoStatus

ExecutionStatus ==
  {"PENDING", "RUNNING", "COMPLETED", "FAILED", "CANCELLED", "PAUSED"}
Terminal == {"COMPLETED", "FAILED", "CANCELLED"}
(* SKIPPED and RETRYING, which no code tells from FAILED, are left out. *)
TaskStatus == {"PENDING", "RUNNING", "COMPLETED", "FAILED"}

ASSUME ConstantsAssumption ==
  /\ Ticks \subseteq Nat
  /\ Requested \subseteq ExecutionStatus
  /\ NoExecution \notin Executions
  /\ NoStep \notin Steps
  /\ NoStatus \notin ExecutionStatus

RowState == {"never", "live", "gone"}   \* ids are UUIDs: never used twice

ExecutionRow ==
  [row: RowState, status: ExecutionStatus, started_at: BOOLEAN,
   completed_at: BOOLEAN, output: BOOLEAN, retries: Nat]
TaskRow ==
  [row: RowState, execution: Executions \union {NoExecution},
   step: Steps \union {NoStep}, at: Nat,
   status: TaskStatus, output: BOOLEAN]

EmptyRow(state) ==
  [row |-> state, status |-> "PENDING", started_at |-> FALSE,
   completed_at |-> FALSE, output |-> FALSE, retries |-> 0]
NoTask(state) ==
  [row |-> state, execution |-> NoExecution, step |-> NoStep, at |-> 0,
   status |-> "PENDING", output |-> FALSE]
PendingTask(e, step, at) ==
  [row |-> "live", execution |-> e, step |-> step, at |-> at,
   status |-> "PENDING", output |-> FALSE]

(***************************************************************************)
(* The calls.  status is the status the call writes, output whether        *)
(* markComplete was given one.                                             *)
(***************************************************************************)
Ops == {"none", "create", "updateStatus", "append", "markComplete",
        "markFailed", "replay", "delete"}
Call ==
  [op: Ops, execution: Executions \union {NoExecution},
   status: ExecutionStatus \union {NoStatus},
   step: Steps \union {NoStep}, output: BOOLEAN]

MakeCall(op, e, status, step, output) ==
  [op |-> op, execution |-> e, status |-> status, step |-> step,
   output |-> output]
NoCall == MakeCall("none", NoExecution, NoStatus, NoStep, FALSE)
CallsOn(e) ==
       {MakeCall("updateStatus", e, s, NoStep, FALSE) : s \in Requested}
  \union {MakeCall("append", e, NoStatus, step, FALSE) : step \in Steps}
  \union {MakeCall("replay", e, "RUNNING", step, FALSE) : step \in Steps}
  \union {MakeCall("markComplete", e, "COMPLETED", NoStep, TRUE),
          MakeCall("markComplete", e, "COMPLETED", NoStep, FALSE),
          MakeCall("markFailed", e, "FAILED", NoStep, FALSE),
          MakeCall("delete", e, NoStatus, NoStep, FALSE)}
Creation(e) == MakeCall("create", e, "PENDING", NoStep, FALSE)

(* pc names the statement a request waits to issue. *)
Waiting == {"insert", "find", "reset", "update", "event", "output",
            "append", "delete"}
Pc == Waiting \union {"idle", "done", "failed"}
FirstOf ==
  [create |-> "insert", append |-> "append", delete |-> "delete",
   markFailed |-> "find", replay |-> "find",
   updateStatus |-> "update", markComplete |-> "update"]
FirstStatement(op) == FirstOf[op]

(* What a replay knows of a task: "kept" (before the step), or the state   *)
(* of the promise that resets it.                                          *)
Promise == {"unread", "kept", "pending", "fulfilled", "rejected"}

EventRow == [request: Requests, execution: Executions \union {NoExecution},
             type: {"created"} \union ExecutionStatus]

VARIABLES
  execution,  \* table executions
  task,       \* table tasks
  events,     \* table events, the rows this service writes
  pc,         \* next statement of each request
  call,       \* the call a request makes
  seen,       \* existing.retries, read by markFailed
  promise,    \* per replay and task
  wrote,      \* history: requests whose status write took effect
  failures    \* history: markFailed writes per execution

tables == <<execution, task, events>>
vars == <<execution, task, events, pc, call, seen, promise, wrote, failures>>

Init ==
  /\ execution \in [Executions -> {EmptyRow("never"), EmptyRow("live")}]
  /\ task \in [Tasks -> {NoTask("never")} \union
                 {PendingTask(e, step, at) :
                    e \in Executions, step \in Steps, at \in Ticks}]
  /\ \A t \in Tasks : task[t].row = "live" =>
       execution[task[t].execution].row = "live"
  /\ events = {}
  /\ pc = [r \in Requests |-> "idle"]
  /\ call = [r \in Requests |-> NoCall]
  /\ seen = [r \in Requests |-> 0]
  /\ promise = [r \in Requests |-> [t \in Tasks |-> "unread"]]
  /\ wrote = {}
  /\ failures = [e \in Executions |-> 0]

----------------------------------------------------------------------------
InFlight(r) ==
  pc[r] \in Waiting \/ \E t \in Tasks : promise[r][t] = "pending"
Target(r) == call[r].execution
Live(e) == execution[e].row = "live"
Goto(r, label) == pc' = [pc EXCEPT ![r] = label]
(* The statement's answer arrives, or the promise rejects although the     *)
(* statement took effect.                                                  *)
Proceed(r, label) == Goto(r, label) \/ Goto(r, "failed")
(* Operators named Bad... are slips this code could have made.  Nothing    *)
(* uses them; each breaks some property below.                             *)
BadTypeFromRow(r) ==
  IF call[r].op = "create" THEN "created" ELSE execution[Target(r)].status
(* The type comes from the call, not from the row read back. *)
EventType(r) == IF call[r].op = "create" THEN "created" ELSE call[r].status

(* A client calls the service.  It names an execution it was told of; a    *)
(* creation gets a fresh id.                                               *)
Begin(r) ==
  /\ pc[r] = "idle"
  /\ \E e \in Executions :
       \/ /\ execution[e].row # "never"
          /\ \E c \in CallsOn(e) : call' = [call EXCEPT ![r] = c]
       \/ /\ execution[e].row = "never"
          /\ \A q \in Requests : call[q] # Creation(e)
          /\ call' = [call EXCEPT ![r] = Creation(e)]
  /\ Goto(r, FirstStatement(call'[r].op))
  /\ UNCHANGED <<tables, seen, promise, wrote, failures>>

(* createExecution: the row, PENDING with no retries. *)
InsertExecution(r) ==
  /\ pc[r] = "insert"
  /\ execution' = [execution EXCEPT ![Target(r)] = EmptyRow("live")]
  /\ wrote' = wrote \union {r}
  /\ Proceed(r, "event")
  /\ UNCHANGED <<task, events, call, seen, promise, failures>>

(* The row updateStatus leaves: status, and the stamps that go with it.    *)
(* Nothing is cleared, and the old status is not looked at.                *)
Transition(row, status) ==
  [row EXCEPT !.status = status,
              !.started_at = @ \/ status = "RUNNING",
              !.completed_at = @ \/ status \in Terminal]

BadNoEvent(r) == "done"
BadOutputFirst(r) == IF call[r].output THEN "output" ELSE "event"
AfterWrite(r) == IF call[r].op = "markFailed" THEN "done" ELSE "event"

(* updateStatus, also as called by markComplete and replayFromStep. *)
WriteStatus(r) ==
  /\ pc[r] = "update"
  /\ call[r].op # "markFailed"
  /\ Live(Target(r))
  /\ execution' = [execution EXCEPT
                     ![Target(r)] = Transition(@, call[r].status)]
  /\ wrote' = wrote \union {r}
  /\ Proceed(r, AfterWrite(r))
  /\ UNCHANGED <<task, events, call, seen, promise, failures>>

BadCountDown(r) == seen[r] - 1                              \* counts what is left
BadIncrement(r) == execution[Target(r)].retries + seen[r] + 1  \* increment: n + 1
NextRetries(r) == seen[r] + 1

(* markFailed: one more than the retries read earlier; no event follows. *)
WriteFailure(r) ==
  /\ pc[r] = "update"
  /\ call[r].op = "markFailed"
  /\ Live(Target(r))
  /\ execution' = [execution EXCEPT
                     ![Target(r)] = [Transition(@, "FAILED")
                                       EXCEPT !.retries = NextRetries(r)]]
  /\ failures' = [failures EXCEPT ![Target(r)] = @ + 1]
  /\ wrote' = wrote \union {r}
  /\ Proceed(r, AfterWrite(r))
  /\ UNCHANGED <<task, events, call, seen, promise>>

AfterEvent(r) ==
  IF call[r].op = "markComplete" /\ call[r].output THEN "output" ELSE "done"

(* eventRepository.create; the foreign key wants the execution to exist. *)
InsertEvent(r) ==
  /\ pc[r] = "event"
  /\ Live(Target(r))
  /\ events' = events \union {[request |-> r, execution |-> Target(r),
                               type |-> EventType(r)]}
  /\ Proceed(r, AfterEvent(r))
  /\ UNCHANGED <<execution, task, call, seen, promise, wrote, failures>>

(* markComplete's second update. *)
WriteOutput(r) ==
  /\ pc[r] = "output"
  /\ Live(Target(r))
  /\ execution' = [execution EXCEPT ![Target(r)].output = TRUE]
  /\ Proceed(r, "done")
  /\ UNCHANGED <<task, events, call, seen, promise, wrote, failures>>

(* appendTask.  created_at comes from the clock of whichever process runs  *)
(* the insert, so it need not follow that of the rows already there.       *)
AppendTask(r) ==
  /\ pc[r] = "append"
  /\ Live(Target(r))
  /\ \E t \in Tasks, at \in Ticks :
       /\ task[t].row = "never"
       /\ task' = [task EXCEPT
                     ![t] = PendingTask(Target(r), call[r].step, at)]
  /\ Proceed(r, "done")
  /\ UNCHANGED <<execution, events, call, seen, promise, wrote, failures>>

(* markFailed reads the row. *)
FindExecution(r) ==
  /\ pc[r] = "find"
  /\ call[r].op = "markFailed"
  /\ Live(Target(r))
  /\ seen' = [seen EXCEPT ![r] = execution[Target(r)].retries]
  /\ Goto(r, "update")
  /\ UNCHANGED <<tables, call, promise, wrote, failures>>

TasksOf(e) == {t \in Tasks : task[t].row = "live" /\ task[t].execution = e}

BadSliceAfter(T, step) ==   \* slice(stepIndex + 1)
  {{t \in T : task[t].at > task[f].at} : f \in {g \in T : task[g].step = step}}
BadSliceAll(T, step) == {T} \* no slice
(* tasks.slice(findIndex(step_name = step)) over rows ordered by           *)
(* created_at: the suffixes that start at a first task of that step.  Rows *)
(* with equal created_at come in any order.                                *)
Suffixes(T, step) ==
  {S \in SUBSET T :
     \E f \in S :
       /\ task[f].step = step
       /\ \A t \in T :
            /\ task[t].at > task[f].at => t \in S
            /\ task[t].at < task[f].at => t \notin S
            /\ task[t].step = step => t \in S}

(* replayFromStep reads the tasks and starts one update for each. *)
FindTasks(r) ==
  /\ pc[r] = "find"
  /\ call[r].op = "replay"
  /\ Live(Target(r))
  /\ \E S \in Suffixes(TasksOf(Target(r)), call[r].step) :
       promise' = [promise EXCEPT ![r] =
         [t \in Tasks |-> IF t \in S THEN "pending"
                          ELSE IF t \in TasksOf(Target(r)) THEN "kept"
                          ELSE "unread"]]
  /\ Goto(r, "reset")
  /\ UNCHANGED <<tables, call, seen, wrote, failures>>

(* findIndex returned -1. *)
StepNotFound(r) ==
  /\ pc[r] = "find"
  /\ call[r].op = "replay"
  /\ Live(Target(r))
  /\ \A t \in TasksOf(Target(r)) : task[t].step # call[r].step
  /\ Goto(r, "failed")
  /\ UNCHANGED <<tables, call, seen, promise, wrote, failures>>

BadAllFulfilled(p) == \A t \in Tasks : p[t] = "fulfilled"  \* counts the kept ones
NonePending(p) == \A t \in Tasks : p[t] # "pending"

Settle(r, t, outcome) == promise' = [promise EXCEPT ![r][t] = outcome]

(* One of the concurrent task updates.  output: undefined is no change to  *)
(* Prisma, so the task keeps its output.  The last fulfilment lets the     *)
(* await of Promise.all return, unless it already threw.                   *)
ResetTask(r, t) ==
  /\ promise[r][t] = "pending"
  /\ task[t].row = "live"
  /\ task' = [task EXCEPT ![t].status = "PENDING"]
  /\ \/ /\ Settle(r, t, "fulfilled")
        /\ IF pc[r] = "reset" /\ NonePending(promise'[r])
           THEN Goto(r, "update")
           ELSE UNCHANGED pc
     \/ /\ Settle(r, t, "rejected")
        /\ Goto(r, "failed")
  /\ UNCHANGED <<execution, events, call, seen, wrote, failures>>

(* A task update that fails, or finds its row deleted.  Promise.all        *)
(* rejects at once; the updates still pending run on.                      *)
RejectReset(r, t) ==
  /\ promise[r][t] = "pending"
  /\ Settle(r, t, "rejected")
  /\ Goto(r, "failed")
  /\ UNCHANGED <<tables, call, seen, wrote, failures>>

BadNoCascade(T) == task       \* no ON DELETE CASCADE
Orphaned(T) ==
  [t \in Tasks |-> IF t \in T THEN NoTask("gone") ELSE task[t]]

BadCascade(e) == {ev \in events : ev.execution # e}   \* CASCADE for events too
Detached(e) ==
  {[ev EXCEPT !.execution = IF @ = e THEN NoExecution ELSE @] : ev \in events}

(* executionRepository.delete: tasks CASCADE, events SET NULL. *)
DeleteExecution(r) ==
  /\ pc[r] = "delete"
  /\ execution' = [execution EXCEPT ![Target(r)] = EmptyRow("gone")]
  /\ task' = Orphaned(TasksOf(Target(r)))
  /\ events' = Detached(Target(r))
  /\ Proceed(r, "done")
  /\ UNCHANGED <<call, seen, promise, wrote, failures>>

(* A statement of r is refused, times out, or finds no row: the service    *)
(* logs and rethrows.                                                      *)
Fail(r) ==
  /\ pc[r] \in Waiting \ {"reset"}
  /\ Goto(r, "failed")
  /\ UNCHANGED <<tables, call, seen, promise, wrote, failures>>

(* A worker reports on a task through taskRepository.update. *)
Report(row, status) ==
  [row EXCEPT !.status = status, !.output = @ \/ status = "COMPLETED"]
WorkerUpdate(t) ==
  /\ task[t].row = "live"
  /\ \E s \in TaskStatus \ {"PENDING"} :
       task' = [task EXCEPT ![t] = Report(@, s)]
  /\ UNCHANGED <<execution, events, pc, call, seen, promise, wrote, failures>>

(* The server process ends: requests in flight and pending task updates    *)
(* are gone, the tables stay.                                              *)
Crash ==
  /\ \E r \in Requests : InFlight(r)
  /\ pc' = [r \in Requests |->
              IF pc[r] \in Waiting THEN "failed" ELSE pc[r]]
  /\ promise' = [r \in Requests |-> [t \in Tasks |->
                   IF promise[r][t] = "pending" THEN "rejected"
                   ELSE promise[r][t]]]
  /\ UNCHANGED <<tables, call, seen, wrote, failures>>

Statement(r) ==
  \/ InsertExecution(r) \/ WriteStatus(r) \/ WriteFailure(r)
  \/ InsertEvent(r) \/ WriteOutput(r) \/ AppendTask(r)
  \/ FindExecution(r) \/ FindTasks(r) \/ StepNotFound(r)
  \/ DeleteExecution(r) \/ Fail(r)
  \/ \E t \in Tasks : ResetTask(r, t) \/ RejectReset(r, t)

Next ==
  \/ \E r \in Requests : Begin(r) \/ Statement(r)
  \/ \E t \in Tasks : WorkerUpdate(t)
  \/ Crash

Spec == Init /\ [][Next]_vars

(* Every statement is answered or times out: the engine's query and pool   *)
(* timeouts reject what the database does not answer.                      *)
Fairness == \A r \in Requests : WF_vars(Statement(r))

FairSpec == Spec /\ Fairness

----------------------------------------------------------------------------
(* The tables and the requests keep their types.                           *)
TypeOK ==
  /\ execution \in [Executions -> ExecutionRow]
  /\ task \in [Tasks -> TaskRow]
  /\ events \subseteq EventRow
  /\ pc \in [Requests -> Pc]
  /\ call \in [Requests -> Call]
  /\ seen \in [Requests -> Nat]
  /\ promise \in [Requests -> [Tasks -> Promise]]
  /\ wrote \subseteq Requests
  /\ failures \in [Executions -> Nat]

Recorded(r) == \E ev \in events : ev.request = r

(* The audit trail: an event row tells of a write that took effect, with   *)
(* the type of that write, whatever was deleted meanwhile; and a call that *)
(* reported success, other than markFailed, left its event.                *)
EventsAreBacked ==
  \A ev \in events :
    /\ ev.request \in wrote
    /\ ev.type = IF call[ev.request].op = "create" THEN "created"
                 ELSE call[ev.request].status
SuccessIsRecorded ==
  \A r \in wrote : pc[r] = "done" /\ call[r].op # "markFailed" => Recorded(r)

(* retries never exceeds the failures marked, though writers race with a   *)
(* stale count: no path counts one failure twice.                          *)
RetriesBounded ==
  \A e \in Executions : execution[e].retries <= failures[e]

(* The foreign keys hold while appends, resets and events race a delete.   *)
NoOrphans ==
  /\ \A t \in Tasks : task[t].row = "live" =>
       task[t].execution \in Executions /\ Live(task[t].execution)
  /\ \A ev \in events : ev.execution # NoExecution => Live(ev.execution)

(* A replay moves the execution to RUNNING only if each of its resets was  *)
(* fulfilled (a rejected or still pending one keeps the status as it is),  *)
(* and the tasks it left alone all come before the step.                   *)
ReplayIsComplete ==
  \A r \in wrote : call[r].op = "replay" =>
    \A t \in Tasks :
      /\ promise[r][t] \in {"unread", "kept", "fulfilled"}
      /\ promise[r][t] = "kept" /\ task[t].row = "live" =>
           \E f \in Tasks : /\ promise[r][f] = "fulfilled"
                            /\ task[f].step = call[r].step
                            /\ task[t].at <= task[f].at

(* An output is stored only on an execution that some markComplete had     *)
(* moved to COMPLETED, and whose completion is recorded.                   *)
OutputIsEarned ==
  \A e \in Executions : execution[e].output =>
    \E r \in wrote : /\ Target(r) = e
                     /\ call[r].op = "markComplete"
                     /\ Recorded(r)

(* A replay (or what still runs of a failed one) resets no task that       *)
(* precedes every task of the step it was asked for: "preserves all        *)
(* earlier task outputs".                                                  *)
ReplaySparesEarlierTasks ==
  [][\A r \in Requests, t \in Tasks :
       promise[r][t] = "pending" /\ promise'[r][t] = "fulfilled" =>
         \E f \in TasksOf(Target(r)) : /\ task[f].step = call[r].step
                                       /\ task[f].at <= task[t].at]_vars

(* Nothing in flight brings a deleted execution or its tasks back, and no  *)
(* event is ever removed or re-attached.                                   *)
DeletedStaysDeleted ==
  [][/\ \A e \in Executions : execution[e].row = "gone" =>
          execution'[e] = execution[e]
     /\ \A t \in Tasks : task[t].row = "gone" => task'[t] = task[t]
     /\ \A ev \in events : \E new \in events' :
          /\ new.request = ev.request /\ new.type = ev.type
          /\ new.execution \in {ev.execution, NoExecution}]_vars

(* Every call is answered, and every task update a replay started settles  *)
(* even when the replay has already failed.                                *)
RequestsSettle == \A r \in Requests : InFlight(r) ~> ~InFlight(r)

(* The audit trail as promised (module StatusJournal).                     *)
Announcing == {r \in wrote : call[r].op # "markFailed"}
Journal == INSTANCE StatusJournal WITH
  written <- Announcing,
  logged <- {r \in Requests : Recorded(r)},
  lost <- {r \in Announcing : pc[r] = "failed" /\ ~Recorded(r)}
JournalSpec == Journal!Spec
JournalFairSpec == Journal!FairSpec

----------------------------------------------------------------------------
(* What a comment says of the service and the code does not do.            *)

(* markFailed's comment: marks as FAILED, "incrementing retries".  With    *)
(* nothing in flight the count equals the failures marked.                 *)
EveryFailureCounted ==
  (\A r \in Requests : ~InFlight(r)) =>
    \A e \in Executions : Live(e) => execution[e].retries = failures[e]
============================================================================
