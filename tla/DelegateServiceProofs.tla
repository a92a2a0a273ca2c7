------------------------ MODULE DelegateServiceProofs ------------------------
(***************************************************************************)
(* Proofs about DelegateService, for any tasks, intents, inputs, batches,  *)
(* registrations and workers.                                              *)
(***************************************************************************)
EXTENDS DelegateService, TLAPS

USE StoreAssumption, ServerAssumption, ServiceAssumption

-----------------------------------------------------------------------------
(* Type correctness.                                                        *)

LEMMA InitType == Init => TypeOK
<1> SUFFICES ASSUME Init PROVE TypeOK
  OBVIOUS
<1>1. StoreTypeOK
  BY DEF Init, StoreInit, StoreTypeOK, Status
<1>2. ServerTypeOK
  BY DEF Init, ServerInit, ServerTypeOK, TasksOf
<1>3. IdleWorker \in WorkerState
  BY DEF IdleWorker, WorkerState
<1>4. NoSession \in SessionState
  BY DEF NoSession, SessionState
<1>5. RunsOfRows
  BY DEF Init, IdleWorker, RunsOfRows
<1>6. SessionsOfTasks
  BY DEF Init, NoSession, TasksOf, SessionsOfTasks
<1>7. ServiceTypeOK
  BY <1>3, <1>4, <1>5, <1>6 DEF Init, ServiceTypeOK
<1> QED BY <1>1, <1>2, <1>7 DEF TypeOK

\* What a step may do to the task table: close pending rows, or leave it alone...
CloseStep ==
    \/ \E ids \in SUBSET Task : CancelTasks(ids) \/ FailTasks(ids)
    \/ \E b \in Batch :
           /\ session[b].ended # NoBatch
           /\ session[b].ok
           /\ CompleteTasks(session[b].ended, TasksOf(session[b].regs))
    \/ UNCHANGED storeVars

\* ... or add the row of a request that looked for overlaps.
StoreStep ==
    \/ \E t \in Task : AddTask(t)
    \/ CloseStep

LEMMA RequestStore ==
    ASSUME TypeOK, NEW t \in Task, Request(t) PROVE AddTask(t) \/ CloseStep
<1>1. Overlapping(t) \in SUBSET Task /\ {t} \in SUBSET Task
  BY DEF Overlapping, PendingOfInputs, Pending
<1>2. CASE CancelOverlapping(t) \/ ScheduleError(t)
  BY <1>1, <1>2 DEF CancelOverlapping, ScheduleError, CloseStep
<1>3. CASE UNCHANGED storeVars
  BY <1>3 DEF CloseStep
<1> QED
  BY <1>2, <1>3 DEF Request, Delegate, LockAndCheck, RejectOverlap, DelegateDbError, ScheduleTask

LEMMA RegisterStore ==
    ASSUME TypeOK, NEW w \in Worker, RegisterDelegate(w) PROVE CloseStep
<1>1. CASE FailRegistration(w)
  <2>1. {worker[w].task} \in SUBSET Task
    BY <1>1 DEF FailRegistration, TypeOK, ServiceTypeOK, RunsOfRows
  <2> QED BY <1>1, <2>1 DEF FailRegistration, CloseStep
<1>2. CASE UNCHANGED storeVars
  BY <1>2 DEF CloseStep
<1> QED
  BY <1>1, <1>2 DEF RegisterDelegate, ReadTask, RegisterIntent, RegisterError,
     RegisterAnswerLost, StoreRegistered

LEMMA SessionStore ==
    ASSUME TypeOK, NEW b \in Batch, BatchSession(b) PROVE CloseStep
<1>1. CASE OnBatchFinalized(b)
  BY <1>1 DEF OnBatchFinalized, CloseStep
<1>2. CASE UNCHANGED storeVars
  BY <1>2 DEF CloseStep
<1> QED
  BY <1>1, <1>2 DEF BatchSession, ListenBatchStarted, ConfirmRegistration, ConfirmError,
     OpenStream, SessionError, SubmitForfeits, OnBatchFailed

LEMMA OtherStore ==
    ASSUME Server \/ Monitor \/ Lifecycle \/ UNCHANGED vars PROVE CloseStep
<1>1. CASE UNCHANGED storeVars
  BY <1>1 DEF CloseStep
<1>2. CASE Server
  BY <1>1, <1>2 DEF Server, ServerStartsBatch, ServerFinalizes, ServerSettlesBatch,
     ServerAbortsBatch, SpendOutside
<1>3. CASE Monitor
  <2>1. PendingOfInputs(spentOutpoints) \in SUBSET Task
    BY DEF PendingOfInputs, Pending
  <2> QED BY <1>3, <2>1 DEF Monitor, ReceiveSpent, MonitorTick, CloseStep
<1>4. CASE Lifecycle
  BY <1>1, <1>4 DEF Lifecycle, Start, Stop, Crash
<1> QED BY <1>1, <1>2, <1>3, <1>4 DEF vars

LEMMA StoreSteps == ASSUME TypeOK, [Next]_vars PROVE StoreStep
BY RequestStore, RegisterStore, SessionStore, OtherStore DEF Next, StoreStep

LEMMA CloseType ==
    ASSUME TypeOK, NEW ids, NEW s \in TerminalStatus
    PROVE  /\ ClosePending(ids, s) \in [Task -> Status]
           /\ \A t \in Task : ClosePending(ids, s)[t] = "none" <=> status[t] = "none"
BY DEF TypeOK, StoreTypeOK, ClosePending, Status, TerminalStatus

\* Rows are never deleted.
RowsStay == \A t \in Task : status[t] # "none" => status'[t] # "none"

LEMMA StoreType ==
    ASSUME TypeOK, StoreStep PROVE StoreTypeOK' /\ RowsStay
<1>1. ASSUME NEW t \in Task, AddTask(t) PROVE StoreTypeOK' /\ RowsStay
  <2>1. want[t] \in Intent
    BY <1>1 DEF AddTask, TypeOK, ServiceTypeOK
  <2> QED BY <1>1, <2>1 DEF AddTask, Add, TypeOK, StoreTypeOK, Status, RowsStay
<1>2. ASSUME NEW ids \in SUBSET Task, CancelTasks(ids) \/ FailTasks(ids)
      PROVE  StoreTypeOK' /\ RowsStay
  BY <1>2, CloseType DEF CancelTasks, FailTasks, TerminalStatus, TypeOK, StoreTypeOK, RowsStay
<1>3. ASSUME NEW b \in Batch, CompleteTasks(session[b].ended, TasksOf(session[b].regs))
      PROVE  StoreTypeOK' /\ RowsStay
  <2>1. session[b].ended \in Batch \cup {NoBatch}
    BY DEF TypeOK, ServiceTypeOK, SessionState
  <2> QED
    BY <1>3, <2>1, CloseType
    DEF CompleteTasks, TerminalStatus, TypeOK, StoreTypeOK, RowsStay
<1>4. CASE UNCHANGED storeVars
  BY <1>4 DEF storeVars, TypeOK, StoreTypeOK, RowsStay
<1> QED BY <1>1, <1>2, <1>3, <1>4 DEF StoreStep, CloseStep

LEMMA ServerUnchangedType ==
    ASSUME TypeOK, RowsStay, UNCHANGED serverVars PROVE ServerTypeOK'
BY DEF TypeOK, ServerTypeOK, TasksOf, serverVars, RowsStay

LEMMA RegistrationType ==
    ASSUME TypeOK, RowsStay, NEW r \in Reg, NEW t \in Task, status[t] # "none",
           AcceptRegistration(r, t)
    PROVE  ServerTypeOK'
BY DEF TypeOK, ServerTypeOK, TasksOf, AcceptRegistration, RowsStay

\* A session's registrations stay those of tasks: owners do not change.
LEMMA SessionsKeepTasks ==
    ASSUME TypeOK, UNCHANGED session,
           UNCHANGED owner \/ \E r \in Reg, t \in Task : AcceptRegistration(r, t)
    PROVE  SessionsOfTasks'
BY DEF TypeOK, ServerTypeOK, ServiceTypeOK, TasksOf, AcceptRegistration, SessionState, SessionsOfTasks

\* The runs of registerDelegate stay those of tasks: rows are not deleted.
LEMMA WorkersKeepTasks ==
    ASSUME TypeOK, RowsStay, UNCHANGED worker
    PROVE  RunsOfRows'
BY DEF TypeOK, ServiceTypeOK, RunsOfRows, RowsStay

\* A step of a Delegate request.
LEMMA RequestStepType ==
    ASSUME TypeOK, RowsStay, NEW t \in Task, NEW f \in BOOLEAN, NEW i \in Intent \cup {NoIntent},
           NEW at \in {"idle", "checked", "cancelling", "adding", "added", "done"},
           at \in {"checked", "cancelling", "adding"} => i \in Intent,
           call' = [call EXCEPT ![t] = at],
           want' = [want EXCEPT ![t] = i],
           allowReplace' = [allowReplace EXCEPT ![t] = f],
           delegateMtx' \in Task \cup {NoTask},
           scheduled' \subseteq Task,
           UNCHANGED <<owner, running, worker, registeredIntents, session, monitorVars>>
    PROVE  ServiceTypeOK'
<1>1. /\ (call \in [Task -> {"idle", "checked", "cancelling", "adding", "added", "done"}])'
      /\ (want \in [Task -> Intent \cup {NoIntent}])'
      /\ (allowReplace \in [Task -> BOOLEAN])'
  BY DEF TypeOK, ServiceTypeOK
<1>2. (\A u \in Task : call[u] \in {"checked", "cancelling", "adding"} => want[u] \in Intent)'
  BY DEF TypeOK, ServiceTypeOK
<1> QED
  BY <1>1, <1>2, WorkersKeepTasks, SessionsKeepTasks DEF TypeOK, ServiceTypeOK, monitorVars

LEMMA RequestType ==
    ASSUME TypeOK, RowsStay, NEW t \in Task, Request(t)
    PROVE  ServerTypeOK' /\ ServiceTypeOK'
<1>a. /\ call \in [Task -> {"idle", "checked", "cancelling", "adding", "added", "done"}]
      /\ want \in [Task -> Intent \cup {NoIntent}]
      /\ allowReplace \in [Task -> BOOLEAN]
      /\ delegateMtx \in Task \cup {NoTask}
      /\ scheduled \subseteq Task
      /\ call[t] \in {"checked", "cancelling", "adding"} => want[t] \in Intent
  BY DEF TypeOK, ServiceTypeOK
<1>c. ServerTypeOK'
  <2>1. UNCHANGED serverVars
    BY DEF Request, Delegate, LockAndCheck, RejectOverlap, CancelOverlapping, AddTask,
       DelegateDbError, ScheduleTask, ScheduleError, Return
  <2> QED BY <2>1, ServerUnchangedType
<1>b. ASSUME NEW at \in {"checked", "cancelling", "adding", "added"},
             at # "added" => want[t] \in Intent,
             call' = [call EXCEPT ![t] = at],
             delegateMtx' \in Task \cup {NoTask},
             UNCHANGED <<want, allowReplace, scheduled, owner, running, worker,
                         registeredIntents, session, monitorVars>>
      PROVE  ServiceTypeOK'
  <2>1. /\ want' = [want EXCEPT ![t] = want[t]]
        /\ allowReplace' = [allowReplace EXCEPT ![t] = allowReplace[t]]
        /\ want[t] \in Intent \cup {NoIntent}
        /\ allowReplace[t] \in BOOLEAN
    BY <1>a, <1>b
  <2>2. at \in {"checked", "cancelling", "adding"} => want[t] \in Intent
    BY <1>b
  <2>3. scheduled' \subseteq Task
    BY <1>a, <1>b
  <2> QED BY <1>b, <2>1, <2>2, <2>3, RequestStepType DEF serverVars
<1>1. ASSUME NEW i \in Intent, NEW replace \in BOOLEAN, Delegate(t, i, replace)
      PROVE  ServiceTypeOK'
  BY <1>1, <1>a, RequestStepType DEF Delegate, serverVars
<1>2. CASE LockAndCheck(t)
  <2> DEFINE at == IF Overlapping(t) = {} THEN "adding" ELSE "cancelling"
  <2>1. call' = [call EXCEPT ![t] = at] /\ at \in {"adding", "cancelling"}
    BY <1>2 DEF LockAndCheck
  <2>2. want[t] \in Intent /\ delegateMtx' = t
    BY <1>2, <1>a DEF LockAndCheck
  <2>3. UNCHANGED <<want, allowReplace, scheduled, owner, running, worker,
                  registeredIntents, session, monitorVars>>
    BY <1>2 DEF LockAndCheck, serverVars
  <2> HIDE DEF at
  <2> QED BY <1>b, <1>c, <2>1, <2>2, <2>3
<1>3. ASSUME NEW at \in {"idle", "done"}, Return(t, at), scheduled' \subseteq Task
      PROVE  ServiceTypeOK'
  BY <1>3, <1>a, RequestStepType DEF Return, serverVars
<1>4. CASE CancelOverlapping(t)
  <2>1. call' = [call EXCEPT ![t] = "adding"] /\ want[t] \in Intent /\ delegateMtx' \in Task \cup {NoTask}
    BY <1>4, <1>a DEF CancelOverlapping
  <2>2. UNCHANGED <<want, allowReplace, scheduled, owner, running, worker,
                  registeredIntents, session, monitorVars>>
    BY <1>4 DEF CancelOverlapping, serverVars
  <2> QED BY <1>b, <1>c, <2>1, <2>2
<1>5. CASE AddTask(t)
  <2>1. call' = [call EXCEPT ![t] = "added"] /\ want[t] \in Intent /\ delegateMtx' \in Task \cup {NoTask}
    BY <1>5, <1>a DEF AddTask
  <2>2. UNCHANGED <<want, allowReplace, scheduled, owner, running, worker,
                  registeredIntents, session, monitorVars>>
    BY <1>5 DEF AddTask, serverVars
  <2> QED BY <1>b, <1>c, <2>1, <2>2
<1>6. CASE RejectOverlap(t) \/ DelegateDbError(t)
  <2>1. Return(t, "idle") /\ UNCHANGED scheduled
    BY <1>6 DEF RejectOverlap, DelegateDbError
  <2>2. scheduled' \subseteq Task
    BY <2>1, <1>a
  <2> QED BY <1>c, <2>1, <2>2, <1>3
<1>7. CASE ScheduleTask(t) \/ ScheduleError(t)
  <2>1. Return(t, "done") /\ scheduled' \subseteq Task
    BY <1>7, <1>a DEF ScheduleTask, ScheduleError
  <2> QED BY <1>c, <2>1, <1>3
<1> QED BY <1>1, <1>2, <1>4, <1>5, <1>6, <1>7, <1>c DEF Request

\* A step of a registerDelegate run, which may change the map and the schedule.
LEMMA WorkerStepType ==
    ASSUME TypeOK, RowsStay, NEW w \in Worker, NEW v \in WorkerState,
           v.at # "idle" => v.task \in Task /\ status[v.task] # "none",
           v.at = "store" => v.reg \in Reg,
           worker' = [worker EXCEPT ![w] = v],
           scheduled' \subseteq Task,
           registeredIntents' \subseteq Reg,
           UNCHANGED <<requestVars, delegateMtx, running, session, monitorVars>>,
           UNCHANGED owner \/ \E r \in Reg, t \in Task : AcceptRegistration(r, t)
    PROVE  ServiceTypeOK'
<1>1. worker' \in [Worker -> WorkerState]
  BY DEF TypeOK, ServiceTypeOK
<1>2. RunsOfRows'
  BY DEF TypeOK, ServiceTypeOK, RunsOfRows, RowsStay
<1>3. SessionsOfTasks'
  BY SessionsKeepTasks
<1> QED BY <1>1, <1>2, <1>3 DEF TypeOK, ServiceTypeOK, requestVars, monitorVars

LEMMA RegisterType ==
    ASSUME TypeOK, RowsStay, NEW w \in Worker, RegisterDelegate(w) PROVE ServerTypeOK' /\ ServiceTypeOK'
<1>a. worker[w] \in WorkerState /\ scheduled \subseteq Task /\ registeredIntents \subseteq Reg
  BY DEF TypeOK, ServiceTypeOK
<1>b. /\ worker[w].at # "idle" => worker[w].task \in Task /\ status[worker[w].task] # "none"
      /\ worker[w].at = "store" => worker[w].reg \in Reg
  BY DEF TypeOK, ServiceTypeOK, RunsOfRows
<1>c. IdleWorker \in WorkerState /\ IdleWorker.at = "idle"
  BY DEF IdleWorker, WorkerState
<1>d. /\ [worker[w] EXCEPT !.at = "fail"] \in WorkerState
      /\ [worker[w] EXCEPT !.at = "fail"].at = "fail"
      /\ [worker[w] EXCEPT !.at = "fail"].task = worker[w].task
  BY <1>a DEF WorkerState
<1>1. ASSUME NEW t \in Task, ReadTask(w, t) PROVE ServerTypeOK' /\ ServiceTypeOK'
  <2> DEFINE v == [at |-> "register", task |-> t, reg |-> NoReg]
  <2>1. v \in WorkerState /\ worker[w].at = "idle"
    BY <1>1 DEF WorkerState, ReadTask
  <2>2. \/ worker' = [worker EXCEPT ![w] = v] /\ status[t] = "pending"
        \/ worker' = [worker EXCEPT ![w] = worker[w]]
    BY <1>1 DEF ReadTask, TypeOK, ServiceTypeOK
  <2>3. CASE worker' = [worker EXCEPT ![w] = v] /\ status[t] = "pending"
    <3>1. ServiceTypeOK'
      BY <1>1, <1>a, <2>1, <2>3, WorkerStepType DEF ReadTask, serverVars
    <3> QED BY <1>1, <3>1, ServerUnchangedType DEF ReadTask, TypeOK
  <2>4. CASE worker' = [worker EXCEPT ![w] = worker[w]]
    <3>1. ServiceTypeOK'
      BY <1>1, <1>a, <2>1, <2>4, WorkerStepType DEF ReadTask, serverVars
    <3> QED BY <1>1, <3>1, ServerUnchangedType DEF ReadTask, TypeOK
  <2> QED BY <2>2, <2>3, <2>4
<1>2. ASSUME NEW r \in Reg, RegisterIntent(w, r) PROVE ServerTypeOK' /\ ServiceTypeOK'
  <2> DEFINE v == [worker[w] EXCEPT !.at = "store", !.reg = r]
  <2>1. v \in WorkerState /\ v.task = worker[w].task /\ v.reg = r
    BY <1>a DEF WorkerState
  <2>2. /\ worker[w].task \in Task /\ status[worker[w].task] # "none"
        /\ worker' = [worker EXCEPT ![w] = v]
    BY <1>2, <1>b DEF RegisterIntent
  <2>3. ServiceTypeOK'
    BY <1>2, <1>a, <2>1, <2>2, WorkerStepType DEF RegisterIntent
  <2> QED BY <1>2, <2>2, <2>3, RegistrationType DEF RegisterIntent, TypeOK
<1>3. ASSUME NEW r \in Reg, RegisterAnswerLost(w, r) PROVE ServerTypeOK' /\ ServiceTypeOK'
  <2>1. worker[w].task \in Task /\ status[worker[w].task] # "none"
    BY <1>3, <1>b DEF RegisterAnswerLost
  <2>2. ServiceTypeOK'
    BY <1>3, <1>a, <1>d, <2>1, WorkerStepType DEF RegisterAnswerLost
  <2> QED BY <1>3, <2>1, <2>2, RegistrationType DEF RegisterAnswerLost, TypeOK
<1>4. CASE RegisterError(w)
  <2>1. ServiceTypeOK'
    BY <1>4, <1>a, <1>b, <1>d, WorkerStepType DEF RegisterError, serverVars
  <2> QED BY <1>4, <2>1, ServerUnchangedType DEF RegisterError, TypeOK
<1>5. CASE StoreRegistered(w)
  <2>1. ServiceTypeOK'
    BY <1>5, <1>a, <1>b, <1>c, WorkerStepType DEF StoreRegistered, serverVars
  <2> QED BY <1>5, <2>1, ServerUnchangedType DEF StoreRegistered, TypeOK
<1>6. CASE FailRegistration(w)
  <2>1. ServiceTypeOK'
    BY <1>6, <1>a, <1>c, WorkerStepType DEF FailRegistration, serverVars
  <2> QED
    BY <1>6, <2>1, ServerUnchangedType DEF FailRegistration, TypeOK
<1> QED BY <1>1, <1>2, <1>3, <1>4, <1>5, <1>6 DEF RegisterDelegate

\* A step of the session of a batch.
LEMMA SessionStepType ==
    ASSUME TypeOK, RowsStay, NEW b \in Batch, NEW v \in SessionState,
           TasksOf(v.regs) \subseteq Task,
           session' = [session EXCEPT ![b] = v],
           scheduled' \subseteq Task,
           registeredIntents' \subseteq Reg,
           UNCHANGED <<requestVars, delegateMtx, running, worker, monitorVars, owner>>
    PROVE  ServiceTypeOK'
<1>1. session' \in [Batch -> SessionState]
  BY DEF TypeOK, ServiceTypeOK
<1>2. SessionsOfTasks'
  BY DEF TypeOK, ServiceTypeOK, TasksOf, SessionsOfTasks
<1> QED
  BY <1>1, <1>2, WorkersKeepTasks DEF TypeOK, ServiceTypeOK, requestVars, monitorVars

LEMMA SessionType ==
    ASSUME TypeOK, RowsStay, NEW b \in Batch, BatchSession(b) PROVE ServerTypeOK' /\ ServiceTypeOK'
<1>a. session[b] \in SessionState /\ scheduled \subseteq Task /\ registeredIntents \subseteq Reg
  BY DEF TypeOK, ServiceTypeOK
<1>b. TasksOf(session[b].regs) \subseteq Task
  BY DEF TypeOK, ServiceTypeOK, SessionsOfTasks
<1>c. Over(b) \in SessionState /\ TasksOf(Over(b).regs) = {}
  BY DEF Over, NoSession, SessionState, TasksOf
<1>1. CASE ListenBatchStarted(b)
  <2> DEFINE mine == session[b].regs \cap registeredIntents
             v == [NoSession EXCEPT !.at = "confirming", !.regs = mine, !.todo = mine]
  <2>1. v \in SessionState /\ v.regs = mine
    BY <1>a DEF NoSession, SessionState
  <2>2. TasksOf(mine) \subseteq TasksOf(session[b].regs)
    BY DEF TasksOf
  <2>3. session' = [session EXCEPT ![b] = Over(b)] \/ session' = [session EXCEPT ![b] = v]
    BY <1>1 DEF ListenBatchStarted
  <2>4. ServiceTypeOK'
    BY <1>1, <1>a, <1>b, <1>c, <2>1, <2>2, <2>3, SessionStepType
    DEF ListenBatchStarted, serverVars
  <2> QED BY <1>1, <2>4, ServerUnchangedType DEF ListenBatchStarted, TypeOK
<1>d. ASSUME NEW r \in Reg
      PROVE  /\ [session[b] EXCEPT !.todo = session[b].todo \ {r}] \in SessionState
             /\ [session[b] EXCEPT !.todo = session[b].todo \ {r}].regs = session[b].regs
  BY <1>a DEF SessionState
<1>2. ASSUME NEW r \in Reg, ConfirmRegistration(b, r) PROVE ServerTypeOK' /\ ServiceTypeOK'
  <2>1. ServiceTypeOK'
    BY <1>2, <1>a, <1>b, <1>d, SessionStepType DEF ConfirmRegistration, AcceptConfirmation
  <2>2. ServerTypeOK'
    BY <1>2 DEF ConfirmRegistration, CanConfirm, AcceptConfirmation, ServerTypeOK, TypeOK, TasksOf, RowsStay
  <2> QED BY <1>2, <2>1, <2>2 DEF ConfirmRegistration, TypeOK
<1>3. ASSUME NEW r \in Reg, ConfirmError(b, r) PROVE ServerTypeOK' /\ ServiceTypeOK'
  <2>1. ServiceTypeOK'
    BY <1>3, <1>a, <1>b, <1>d, SessionStepType DEF ConfirmError, serverVars
  <2> QED BY <1>3, <2>1, ServerUnchangedType DEF ConfirmError, TypeOK
<1>4. CASE OpenStream(b)
  <2>1. /\ [session[b] EXCEPT !.at = "open"] \in SessionState
        /\ [session[b] EXCEPT !.at = "open"].regs = session[b].regs
    BY <1>a DEF SessionState
  <2>2. ServiceTypeOK'
    BY <1>4, <1>a, <1>b, <2>1, SessionStepType DEF OpenStream, serverVars
  <2> QED BY <1>4, <2>2, ServerUnchangedType DEF OpenStream, TypeOK
<1>5. CASE SessionError(b)
  <2>1. ServiceTypeOK'
    BY <1>5, <1>a, <1>c, SessionStepType DEF SessionError, serverVars
  <2> QED BY <1>5, <2>1, ServerUnchangedType DEF SessionError, TypeOK
<1>6. CASE SubmitForfeits(b)
  <2>1. ServerTypeOK'
    BY <1>6 DEF SubmitForfeits, AcceptForfeits, ServerTypeOK, TypeOK, TasksOf, RowsStay
  <2>2. ServiceTypeOK'
    BY <1>6, WorkersKeepTasks DEF SubmitForfeits, AcceptForfeits, serviceVars, ServiceTypeOK, TypeOK, TasksOf, SessionsOfTasks
  <2> QED BY <1>6, <2>1, <2>2 DEF SubmitForfeits, TypeOK
<1>7. CASE OnBatchFinalized(b)
  <2>1. /\ [session[b] EXCEPT !.ended = NoBatch] \in SessionState
        /\ [session[b] EXCEPT !.ended = NoBatch].regs = session[b].regs
    BY <1>a DEF SessionState
  <2>2. ServiceTypeOK'
    BY <1>7, <1>a, <1>b, <1>c, <2>1, SessionStepType DEF OnBatchFinalized, serverVars
  <2> QED BY <1>7, <2>2, ServerUnchangedType DEF OnBatchFinalized, TypeOK
<1>8. CASE OnBatchFailed(b)
  <2>1. ServiceTypeOK'
    BY <1>8, <1>a, <1>b, <1>c, SessionStepType DEF OnBatchFailed, serverVars
  <2> QED BY <1>8, <2>1, ServerUnchangedType DEF OnBatchFailed, TypeOK
<1> QED BY <1>1, <1>2, <1>3, <1>4, <1>5, <1>6, <1>7, <1>8 DEF BatchSession

LEMMA ServerType ==
    ASSUME TypeOK, RowsStay, Server PROVE ServerTypeOK' /\ ServiceTypeOK'
<1> USE DEF requestVars, monitorVars
<1>a. session \in [Batch -> SessionState]
  BY DEF TypeOK, ServiceTypeOK
<1>1. ASSUME NEW b \in Batch, NEW regs \in SUBSET Reg, ServerStartsBatch(b, regs)
      PROVE  ServerTypeOK' /\ ServiceTypeOK'
  <2> DEFINE v == [NoSession EXCEPT !.at = "announced", !.regs = regs]
  <2>1. ServerTypeOK' /\ TasksOf(regs) \subseteq Task
    BY <1>1 DEF ServerStartsBatch, BeginBatch, ServerTypeOK, TypeOK, TasksOf, RowsStay
  <2>2. /\ v \in SessionState
        /\ v.regs = regs
        /\ Over(b) \in SessionState
        /\ TasksOf(Over(b).regs) = {}
    BY DEF Over, NoSession, SessionState, TasksOf
  <2>3. session' = [session EXCEPT ![b] = v] \/ session' = [session EXCEPT ![b] = Over(b)]
    BY <1>1 DEF ServerStartsBatch
  <2>4. scheduled \subseteq Task /\ registeredIntents \subseteq Reg
    BY DEF TypeOK, ServiceTypeOK
  <2>5. ServiceTypeOK'
    BY <1>1, <2>1, <2>2, <2>3, <2>4, SessionStepType DEF ServerStartsBatch, BeginBatch
  <2> QED BY <1>1, <2>1, <2>5 DEF ServerStartsBatch, TypeOK
<1>2. CASE ServerFinalizes
  <2>1. ServerTypeOK'
    BY <1>2 DEF ServerFinalizes, BeginFinalization, ServerTypeOK, TypeOK, TasksOf, RowsStay
  <2>2. ServiceTypeOK'
    BY <1>2, WorkersKeepTasks DEF ServerFinalizes, BeginFinalization, serviceVars, ServiceTypeOK, TypeOK, TasksOf, SessionsOfTasks
  <2> QED BY <1>2, <2>1, <2>2 DEF ServerFinalizes, TypeOK
\* What a session hears leaves it a session of the same registrations.
<1>b. ASSUME NEW heard, NEW success \in BOOLEAN, Hear(heard, success), UNCHANGED owner
      PROVE  /\ session' \in [Batch -> SessionState]
             /\ SessionsOfTasks'
  <2>1. round \in Batch \cup {NoBatch}
    BY DEF TypeOK, ServerTypeOK
  <2>2. ASSUME NEW b \in Batch
        PROVE  /\ session[b] \in SessionState
               /\ [session[b] EXCEPT !.ended = round, !.ok = success] \in SessionState
               /\ [session[b] EXCEPT !.ended = round, !.ok = success].regs = session[b].regs
    BY <1>a, <2>1 DEF SessionState
  <2>3. session' \in [Batch -> SessionState] /\ \A b \in Batch : session'[b].regs = session[b].regs
    BY <1>a, <1>b, <2>2 DEF Hear
  <2>4. \A b \in Batch : TasksOf(session[b].regs) \subseteq Task
    BY DEF TypeOK, ServiceTypeOK, SessionsOfTasks
  <2> QED BY <1>b, <2>3, <2>4 DEF TasksOf, SessionsOfTasks
<1>3. ASSUME NEW heard \in SUBSET Batch, ServerSettlesBatch(heard) PROVE ServerTypeOK' /\ ServiceTypeOK'
  <2>1. ServerTypeOK' /\ UNCHANGED owner
    <3>1. ASSUME NEW r \in confirmed PROVE InputsOfReg(r) \subseteq Input
      BY DEF TypeOK, StoreTypeOK, ServerTypeOK, TasksOf, InputsOfReg
    <3>2. (settled \subseteq Batch \cup {NoBatch} /\ spent \subseteq Input)'
      BY <1>3, <3>1 DEF ServerSettlesBatch, SettleBatch, TypeOK, ServerTypeOK
    <3>3. (settledIn \in [Reg -> Batch \cup {NoBatch}])'
      BY <1>3 DEF ServerSettlesBatch, SettleBatch, TypeOK, ServerTypeOK
    <3> QED
      BY <1>3, <3>2, <3>3
      DEF ServerSettlesBatch, SettleBatch, ServerTypeOK, TypeOK, TasksOf, RowsStay
  <2>2. session' \in [Batch -> SessionState]
        /\ SessionsOfTasks'
    BY <1>3, <1>b, <2>1 DEF ServerSettlesBatch
  <2>3. ServiceTypeOK'
    BY <1>3, <2>1, <2>2, WorkersKeepTasks DEF ServerSettlesBatch, ServiceTypeOK, ServerTypeOK, TypeOK
  <2> QED BY <1>3, <2>1, <2>3 DEF ServerSettlesBatch, TypeOK
<1>4. ASSUME NEW heard \in SUBSET Batch, ServerAbortsBatch(heard) PROVE ServerTypeOK' /\ ServiceTypeOK'
  <2>1. ServerTypeOK' /\ UNCHANGED owner
    BY <1>4 DEF ServerAbortsBatch, AbortBatch, ServerTypeOK, TypeOK, TasksOf, RowsStay
  <2>2. session' \in [Batch -> SessionState]
        /\ SessionsOfTasks'
    BY <1>4, <1>b, <2>1 DEF ServerAbortsBatch
  <2>3. ServiceTypeOK'
    BY <1>4, <2>2, WorkersKeepTasks DEF ServerAbortsBatch, ServiceTypeOK, TypeOK
  <2> QED BY <1>4, <2>1, <2>3 DEF ServerAbortsBatch, TypeOK
<1>5. ASSUME NEW x \in Input, SpendOutside(x) PROVE ServerTypeOK' /\ ServiceTypeOK'
  <2>1. ServerTypeOK'
    BY <1>5 DEF SpendOutside, SpendElsewhere, ServerTypeOK, TypeOK, TasksOf, RowsStay
  <2>2. ServiceTypeOK'
    BY <1>5, WorkersKeepTasks DEF SpendOutside, SpendElsewhere, ServiceTypeOK, TypeOK, TasksOf, SessionsOfTasks
  <2> QED BY <1>5, <2>1, <2>2 DEF SpendOutside, TypeOK
<1> QED BY <1>1, <1>2, <1>3, <1>4, <1>5 DEF Server

LEMMA MonitorType ==
    ASSUME TypeOK, RowsStay, Monitor PROVE ServerTypeOK' /\ ServiceTypeOK'
<1> USE DEF requestVars
<1>1. ASSUME NEW x \in Input, ReceiveSpent(x) PROVE ServerTypeOK' /\ ServiceTypeOK'
  <2>1. ServiceTypeOK'
    BY <1>1, WorkersKeepTasks DEF ReceiveSpent, ServiceTypeOK, TypeOK, TasksOf, SessionsOfTasks, serverVars
  <2> QED BY <1>1, <2>1, ServerUnchangedType DEF ReceiveSpent, TypeOK
<1>2. CASE MonitorTick
  <2>1. ServiceTypeOK'
    BY <1>2, WorkersKeepTasks DEF MonitorTick, ServiceTypeOK, TypeOK, TasksOf, SessionsOfTasks, serverVars
  <2> QED
    BY <1>2, <2>1, ServerUnchangedType DEF MonitorTick, TypeOK
<1> QED BY <1>1, <1>2 DEF Monitor

LEMMA LifecycleType ==
    ASSUME TypeOK, RowsStay, Lifecycle PROVE ServerTypeOK' /\ ServiceTypeOK'
<1> USE DEF requestVars, monitorVars
<1>a. session \in [Batch -> SessionState]
  BY DEF TypeOK, ServiceTypeOK
<1>b. ASSUME EndGoroutines, UNCHANGED owner
      PROVE  /\ session' \in [Batch -> SessionState]
             /\ SessionsOfTasks'
  <2>1. \A b \in Batch : Over(b) \in SessionState /\ TasksOf(Over(b).regs) = {}
    BY DEF Over, NoSession, SessionState, TasksOf
  <2>2. \A b \in Batch : TasksOf(session[b].regs) \subseteq Task
    BY DEF TypeOK, ServiceTypeOK, SessionsOfTasks
  <2>3. \A b \in Batch : session'[b] = Over(b) \/ session'[b] = session[b]
    BY <1>b DEF EndGoroutines
  <2>4. session' \in [Batch -> SessionState]
    BY <1>a, <1>b, <2>1 DEF EndGoroutines
  <2> QED BY <1>b, <2>1, <2>2, <2>3, <2>4 DEF TasksOf, SessionsOfTasks
<1>1. CASE Start
  <2>1. ServiceTypeOK'
    BY <1>1, WorkersKeepTasks DEF Start, RestorePendingTasks, Pending, ServiceTypeOK, TypeOK, TasksOf, SessionsOfTasks, serverVars
  <2> QED BY <1>1, <2>1, ServerUnchangedType DEF Start, TypeOK
<1>2. CASE Stop
  <2>1. ServiceTypeOK'
    BY <1>2, <1>b, WorkersKeepTasks DEF Stop, EndGoroutines, ServiceTypeOK, TypeOK, serverVars
  <2> QED BY <1>2, <2>1, ServerUnchangedType DEF Stop, TypeOK
<1>3. CASE Crash
  <2>1. worker' \in [Worker -> WorkerState] /\ \A w \in Worker : worker'[w].at = "idle"
    BY <1>3 DEF Crash, IdleWorker, WorkerState
  <2>2. RunsOfRows'
    BY <2>1 DEF RunsOfRows, WorkerState
  <2>3. SessionsOfTasks' /\ session' \in [Batch -> SessionState]
    BY <1>3, <1>b DEF Crash, serverVars
  <2>4. ServiceTypeOK'
    BY <1>3, <2>1, <2>2, <2>3 DEF Crash, EndGoroutines, ServiceTypeOK, TypeOK
  <2> QED BY <1>3, <2>4, ServerUnchangedType DEF Crash, TypeOK
<1> QED BY <1>1, <1>2, <1>3 DEF Lifecycle

LEMMA StepType == ASSUME TypeOK, [Next]_vars PROVE TypeOK'
<1>1. StoreTypeOK' /\ RowsStay
  BY StoreSteps, StoreType
<1>2. CASE UNCHANGED vars
  BY <1>1, <1>2, ServerUnchangedType, WorkersKeepTasks
  DEF vars, serverVars, serviceVars, ServiceTypeOK, TypeOK, TasksOf, SessionsOfTasks, RowsStay
<1> QED
  BY <1>1, <1>2, RequestType, RegisterType, SessionType, ServerType, MonitorType, LifecycleType
  DEF Next, TypeOK

\* Every variable keeps its type, whatever the numbers of tasks, intents,
\* inputs, batches and goroutines: in particular a registration is stored only
\* when the server handed it out, and a session only works for known tasks.
THEOREM TypeCorrect == Spec => []TypeOK
<1>1. Init => TypeOK
  BY InitType
<1>2. TypeOK /\ [Next]_vars => TypeOK'
  BY StepType
<1> QED BY <1>1, <1>2, PTL DEF Spec

-----------------------------------------------------------------------------
(* The inductive invariant.                                                 *)

LEMMA InitInvariant == Init => IInv
<1> SUFFICES ASSUME Init PROVE IInv
  OBVIOUS
<1>1. Pending = {}
  BY DEF Init, StoreInit, Pending
<1>2. LockInv /\ MonitorInv
  BY DEF Init, StoreInit, LockInv, MonitorInv
<1>3. CheckInv /\ NoOverlap
  BY <1>1 DEF Init, CheckInv, NoOverlap
<1>4. SessionInv
  BY DEF Init, ServerInit, SessionInv, NoSession
<1>5. CompletionIsBacked
  BY DEF Init, StoreInit, CompletionIsBacked
<1> QED BY InitType, <1>1, <1>2, <1>3, <1>4, <1>5 DEF IInv

\* Closing leaves fewer tasks pending and nothing else that matters here.
Fewer ==
    /\ UNCHANGED intent
    /\ \A t \in Task : status'[t] = "none" <=> status[t] = "none"
    /\ \A t \in Task : status'[t] = "pending" => status[t] = "pending"

LEMMA CloseFewer == ASSUME TypeOK, CloseStep PROVE Fewer
<1>1. ASSUME NEW ids, NEW s \in TerminalStatus, status' = ClosePending(ids, s), UNCHANGED intent
      PROVE  Fewer
  BY <1>1 DEF ClosePending, TerminalStatus, Fewer, TypeOK, StoreTypeOK
<1>2. CASE UNCHANGED storeVars
  BY <1>2 DEF storeVars, Fewer
<1> QED
  BY <1>1, <1>2 DEF CloseStep, CancelTasks, FailTasks, CompleteTasks, TerminalStatus

\* What delegateMtx protects is disturbed by requests and by the end of the
\* process only.
Bystander == CloseStep /\ UNCHANGED <<requestVars, delegateMtx>>

LEMMA Bystanders ==
    ASSUME TypeOK,
           \/ \E w \in Worker : RegisterDelegate(w)
           \/ \E b \in Batch : BatchSession(b)
           \/ Server \/ Monitor \/ Start \/ Stop \/ UNCHANGED vars
    PROVE  Bystander
<1>1. ASSUME NEW w \in Worker, RegisterDelegate(w) PROVE UNCHANGED <<requestVars, delegateMtx>>
  BY <1>1 DEF RegisterDelegate, ReadTask, RegisterIntent, RegisterError, RegisterAnswerLost,
     StoreRegistered, FailRegistration
<1>2. ASSUME NEW b \in Batch, BatchSession(b) PROVE UNCHANGED <<requestVars, delegateMtx>>
  BY <1>2 DEF BatchSession, ListenBatchStarted, ConfirmRegistration, ConfirmError, OpenStream,
     SessionError, SubmitForfeits, OnBatchFinalized, OnBatchFailed, serviceVars, requestVars
<1>3. ASSUME Server PROVE UNCHANGED <<requestVars, delegateMtx>>
  BY <1>3 DEF Server, ServerStartsBatch, ServerFinalizes, ServerSettlesBatch,
     ServerAbortsBatch, SpendOutside, serviceVars, requestVars
<1>4. ASSUME Monitor PROVE UNCHANGED <<requestVars, delegateMtx>>
  BY <1>4 DEF Monitor, ReceiveSpent, MonitorTick
<1>5. ASSUME Start \/ Stop PROVE UNCHANGED <<requestVars, delegateMtx>>
  BY <1>5 DEF Start, Stop
<1>6. ASSUME UNCHANGED vars PROVE UNCHANGED <<requestVars, delegateMtx>>
  BY <1>6 DEF vars, serviceVars, requestVars
<1> QED
  BY <1>1, <1>2, <1>3, <1>4, <1>5, <1>6, RegisterStore, SessionStore, OtherStore
  DEF Bystander, Lifecycle

LEMMA StepCases ==
    ASSUME TypeOK, [Next]_vars
    PROVE  (\E t \in Task : Request(t)) \/ Crash \/ Bystander
BY Bystanders DEF Next, Lifecycle

\* What a request does to the table beside the calls, AddTask apart.
LEMMA RequestFewer ==
    ASSUME TypeOK, NEW t \in Task, Request(t), ~AddTask(t) PROVE Fewer
BY RequestStore, CloseFewer

LEMMA LockStep == ASSUME IInv, [Next]_vars PROVE LockInv'
<1> USE DEF IInv, TypeOK, StoreTypeOK, ServiceTypeOK
<1>1. ASSUME NEW t \in Task, Request(t) PROVE LockInv'
  <2>1. ASSUME NEW i \in Intent, NEW replace \in BOOLEAN, Delegate(t, i, replace) PROVE LockInv'
    BY <2>1 DEF Delegate, LockInv, storeVars
  <2>2. CASE LockAndCheck(t)
    BY <2>2 DEF LockAndCheck, LockInv, storeVars
  <2>3. CASE RejectOverlap(t)
    BY <2>3 DEF RejectOverlap, Return, LockInv, storeVars
  <2>4. CASE CancelOverlapping(t)
    <3>1. Fewer
      BY <2>4, <1>1, RequestFewer DEF AddTask, CancelOverlapping
    <3> QED BY <2>4, <3>1 DEF CancelOverlapping, LockInv, Fewer
  <2>5. CASE AddTask(t)
    BY <2>5 DEF AddTask, Add, LockInv
  <2>6. CASE DelegateDbError(t)
    BY <2>6 DEF DelegateDbError, Return, LockInv, storeVars
  <2>7. CASE ScheduleTask(t)
    BY <2>7 DEF ScheduleTask, Return, LockInv, storeVars
  <2>8. CASE ScheduleError(t)
    <3>1. Fewer
      BY <2>8, <1>1, RequestFewer DEF AddTask, ScheduleError
    <3> QED BY <2>8, <3>1 DEF ScheduleError, Return, LockInv, Fewer
  <2> QED BY <1>1, <2>1, <2>2, <2>3, <2>4, <2>5, <2>6, <2>7, <2>8 DEF Request
<1>2. CASE Crash
  BY <1>2 DEF Crash, LockInv, storeVars
<1>3. CASE Bystander
  BY <1>3, CloseFewer DEF Bystander, Fewer, LockInv, requestVars
<1> QED BY <1>1, <1>2, <1>3, StepCases

\* The check stays true while the mutex is held: only its holder adds.
LEMMA CheckStep == ASSUME IInv, [Next]_vars PROVE CheckInv'
<1> USE DEF IInv, TypeOK, StoreTypeOK, ServiceTypeOK
<1>a. ASSUME Fewer, NEW u \in Task, Overlapping(u) = {}, want'[u] = want[u]
      PROVE  Overlapping(u)' = {}
  BY <1>a DEF Fewer, Overlapping, PendingOfInputs, Pending
<1>1. ASSUME NEW t \in Task, Request(t) PROVE CheckInv'
  <2>1. ASSUME NEW i \in Intent, NEW replace \in BOOLEAN, Delegate(t, i, replace) PROVE CheckInv'
    <3>1. Fewer
      BY <2>1 DEF Delegate, Fewer, storeVars
    <3> QED BY <2>1, <3>1, <1>a DEF Delegate, CheckInv
  <2>2. CASE LockAndCheck(t)
    <3>1. Fewer
      BY <2>2 DEF LockAndCheck, Fewer, storeVars
    <3> QED BY <2>2, <3>1, <1>a DEF LockAndCheck, CheckInv
  <2>3. ASSUME NEW at \in {"idle", "done"}, Return(t, at), Fewer PROVE CheckInv'
    BY <2>3, <1>a DEF Return, CheckInv
  <2>4. CASE CancelOverlapping(t)
    <3>1. Fewer
      BY <2>4, <1>1, RequestFewer DEF AddTask, CancelOverlapping
    <3>2. Overlapping(t)' = {}
      BY <2>4 DEF CancelOverlapping, CancelTasks, ClosePending, Overlapping, PendingOfInputs, Pending
    <3> QED BY <2>4, <3>1, <3>2, <1>a DEF CancelOverlapping, CheckInv
  <2>5. CASE AddTask(t)
    <3>1. ASSUME NEW u \in Task, call'[u] = "adding" PROVE FALSE
      <4>1. call[u] = "adding" /\ call[t] = "adding" /\ u # t
        BY <2>5, <3>1 DEF AddTask
      <4> QED BY <4>1 DEF LockInv
    <3> QED BY <3>1 DEF CheckInv
  <2>6. CASE RejectOverlap(t) \/ DelegateDbError(t) \/ ScheduleTask(t) \/ ScheduleError(t)
    <3>1. Return(t, "idle") \/ Return(t, "done")
      BY <2>6 DEF RejectOverlap, DelegateDbError, ScheduleTask, ScheduleError
    <3>2. Fewer
      <4>1. CASE ScheduleError(t)
        BY <4>1, <1>1, RequestFewer DEF AddTask, ScheduleError
      <4>2. CASE UNCHANGED storeVars
        BY <4>2 DEF storeVars, Fewer
      <4> QED BY <2>6, <4>1, <4>2 DEF RejectOverlap, DelegateDbError, ScheduleTask
    <3> QED BY <3>1, <3>2, <2>3
  <2> QED BY <1>1, <2>1, <2>2, <2>4, <2>5, <2>6 DEF Request
<1>2. CASE Crash
  BY <1>2 DEF Crash, CheckInv
<1>3. CASE Bystander
  BY <1>3, <1>a, CloseFewer DEF Bystander, CheckInv, requestVars
<1> QED BY <1>1, <1>2, <1>3, StepCases

LEMMA NoOverlapStep == ASSUME IInv, [Next]_vars PROVE NoOverlap'
<1> USE DEF IInv, TypeOK, StoreTypeOK
<1>1. ASSUME NEW t \in Task, AddTask(t) PROVE NoOverlap'
  <2>1. Overlapping(t) = {} /\ status' = [status EXCEPT ![t] = "pending"]
        /\ intent' = [intent EXCEPT ![t] = want[t]]
    BY <1>1 DEF AddTask, Add, CheckInv
  <2>2. \A u \in Pending : InputsOf[intent[u]] \cap InputsOf[want[t]] = {}
    BY <2>1 DEF Overlapping, PendingOfInputs
  <2>3. Pending' = Pending \cup {t}
    BY <2>1 DEF Pending
  <2> QED BY <2>1, <2>2, <2>3 DEF NoOverlap, Pending
<1>2. CASE CloseStep
  BY <1>2, CloseFewer DEF Fewer, NoOverlap, Pending
<1> QED BY <1>1, <1>2, StoreSteps DEF StoreStep

\* What the server tells or keeps that the records refer to only grows.
Grows ==
    /\ settled \subseteq settled'
    /\ spent \subseteq spent'
    /\ \A r \in Reg : owner[r] # NoTask => owner'[r] = owner[r]

LEMMA ServerGrows == ASSUME TypeOK, [Next]_vars PROVE Grows
<1>1. CASE UNCHANGED serverVars
  BY <1>1 DEF serverVars, Grows
<1>2. ASSUME NEW r \in Reg, NEW t, AcceptRegistration(r, t) PROVE Grows
  BY <1>2 DEF AcceptRegistration, Grows, TypeOK, ServerTypeOK
<1>3. ASSUME NEW t \in Task, Request(t) PROVE UNCHANGED serverVars
  BY <1>3 DEF Request, Delegate, LockAndCheck, RejectOverlap, CancelOverlapping, AddTask,
     DelegateDbError, ScheduleTask, ScheduleError, Return
<1>4. ASSUME NEW w \in Worker, RegisterDelegate(w) PROVE Grows
  BY <1>1, <1>2, <1>4 DEF RegisterDelegate, ReadTask, RegisterIntent, RegisterError,
     RegisterAnswerLost, StoreRegistered, FailRegistration
<1>5. ASSUME NEW b \in Batch, BatchSession(b) PROVE Grows
  BY <1>1, <1>5 DEF BatchSession, ListenBatchStarted, ConfirmRegistration, ConfirmError,
     OpenStream, SessionError, SubmitForfeits, OnBatchFinalized, OnBatchFailed,
     AcceptConfirmation, AcceptForfeits, Grows
<1>6. CASE Server
  BY <1>6 DEF Server, ServerStartsBatch, ServerFinalizes, ServerSettlesBatch,
     ServerAbortsBatch, SpendOutside, BeginBatch, BeginFinalization, SettleBatch, AbortBatch,
     SpendElsewhere, Grows
<1>7. CASE Monitor \/ Lifecycle
  BY <1>1, <1>7 DEF Monitor, ReceiveSpent, MonitorTick, Lifecycle, Start, Stop, Crash
<1>8. CASE UNCHANGED vars
  BY <1>1, <1>8 DEF vars
<1> QED BY <1>1, <1>3, <1>4, <1>5, <1>6, <1>7, <1>8 DEF Next

LEMMA MonitorStep == ASSUME IInv, [Next]_vars PROVE MonitorInv'
<1>1. Grows
  BY ServerGrows DEF IInv
<1>2. txEvents \subseteq spent /\ spentOutpoints \subseteq spent
  BY DEF IInv, MonitorInv
<1>3. CASE UNCHANGED monitorVars
  BY <1>1, <1>2, <1>3 DEF monitorVars, Grows, MonitorInv
<1>4. ASSUME NEW t \in Task, Request(t) PROVE UNCHANGED monitorVars
  BY <1>4 DEF Request, Delegate, LockAndCheck, RejectOverlap, CancelOverlapping, AddTask,
     DelegateDbError, ScheduleTask, ScheduleError, Return
<1>5. ASSUME NEW w \in Worker, RegisterDelegate(w) PROVE UNCHANGED monitorVars
  BY <1>5 DEF RegisterDelegate, ReadTask, RegisterIntent, RegisterError, RegisterAnswerLost,
     StoreRegistered, FailRegistration
<1>6. ASSUME NEW b \in Batch, BatchSession(b) PROVE UNCHANGED monitorVars
  BY <1>6 DEF BatchSession, ListenBatchStarted, ConfirmRegistration, ConfirmError, OpenStream,
     SessionError, SubmitForfeits, OnBatchFinalized, OnBatchFailed, serviceVars, monitorVars
<1>7. CASE Server
  <2>1. txEvents' \subseteq txEvents \cup spent' /\ UNCHANGED spentOutpoints
    BY <1>7 DEF Server, ServerStartsBatch, ServerFinalizes, ServerSettlesBatch,
       ServerAbortsBatch, SpendOutside, SpendElsewhere, serviceVars, monitorVars
  <2> QED BY <1>1, <1>2, <2>1 DEF Grows, MonitorInv
<1>8. CASE Monitor
  BY <1>1, <1>2, <1>8 DEF Monitor, ReceiveSpent, MonitorTick, Grows, MonitorInv
<1>9. CASE Lifecycle
  BY <1>1, <1>2, <1>9 DEF Lifecycle, Start, Stop, Crash, EndGoroutines, Grows, MonitorInv,
     monitorVars
<1>10. CASE UNCHANGED vars
  BY <1>3, <1>10 DEF vars, serviceVars, monitorVars
<1> QED BY <1>3, <1>4, <1>5, <1>6, <1>7, <1>8, <1>9, <1>10 DEF Next

LEMMA SessionStep == ASSUME IInv, [Next]_vars PROVE SessionInv'
<1> USE DEF IInv
<1>1. Grows
  BY ServerGrows
<1>a. session \in [Batch -> SessionState] /\ round \in Batch \cup {NoBatch}
  BY DEF TypeOK, ServiceTypeOK, ServerTypeOK
<1>b. \A b \in Batch : session[b] \in SessionState /\ Over(b).ended = NoBatch
  BY <1>a DEF Over, NoSession
<1>2. (phase # "idle" => round \in Batch)'
  <2>1. CASE UNCHANGED <<phase, round>>
    BY <2>1 DEF SessionInv
  <2>2. ASSUME NEW t \in Task, Request(t) PROVE UNCHANGED serverVars
    BY <2>2 DEF Request, Delegate, LockAndCheck, RejectOverlap, CancelOverlapping, AddTask,
       DelegateDbError, ScheduleTask, ScheduleError, Return
  <2>3. ASSUME NEW w \in Worker, RegisterDelegate(w) PROVE UNCHANGED <<phase, round>>
    BY <2>3 DEF RegisterDelegate, ReadTask, RegisterIntent, RegisterError, RegisterAnswerLost,
       StoreRegistered, FailRegistration, AcceptRegistration, serverVars
  <2>4. ASSUME NEW b \in Batch, BatchSession(b) PROVE UNCHANGED <<phase, round>>
    BY <2>4 DEF BatchSession, ListenBatchStarted, ConfirmRegistration, ConfirmError, OpenStream,
       SessionError, SubmitForfeits, OnBatchFinalized, OnBatchFailed, serverVars,
       AcceptConfirmation, AcceptForfeits
  <2>5. CASE Server
    BY <2>5 DEF Server, ServerStartsBatch, ServerFinalizes, ServerSettlesBatch,
       ServerAbortsBatch, SpendOutside, BeginBatch, BeginFinalization, SettleBatch, AbortBatch,
       SpendElsewhere, SessionInv
  <2>6. CASE Monitor \/ Lifecycle \/ UNCHANGED vars
    BY <2>1, <2>6 DEF Monitor, ReceiveSpent, MonitorTick, Lifecycle, Start, Stop, Crash, vars,
       serverVars
  <2> QED BY <2>1, <2>2, <2>3, <2>4, <2>5, <2>6 DEF Next, serverVars
\* A session keeps what it heard, forgets it, or hears of a batch that settled.
<1>3. ASSUME NEW b \in Batch
      PROVE  \/ session'[b].ended = session[b].ended /\ session'[b].ok = session[b].ok
             \/ session'[b].ended = NoBatch
             \/ session'[b].ended \in settled'
             \/ ~session'[b].ok
  <2>1. CASE UNCHANGED session
    BY <2>1
  <2>2. ASSUME NEW t \in Task, Request(t) PROVE UNCHANGED session
    BY <2>2 DEF Request, Delegate, LockAndCheck, RejectOverlap, CancelOverlapping, AddTask,
       DelegateDbError, ScheduleTask, ScheduleError, Return
  <2>3. ASSUME NEW w \in Worker, RegisterDelegate(w) PROVE UNCHANGED session
    BY <2>3 DEF RegisterDelegate, ReadTask, RegisterIntent, RegisterError, RegisterAnswerLost,
       StoreRegistered, FailRegistration
  <2>4. ASSUME NEW c \in Batch, BatchSession(c)
        PROVE  \/ session'[b].ended = session[b].ended /\ session'[b].ok = session[b].ok
               \/ session'[b].ended = NoBatch
    <3>1. CASE UNCHANGED session
      BY <3>1
    <3>2. ASSUME session' = [session EXCEPT ![c] = Over(c)]
          PROVE  session'[b] = session[b] \/ session'[b].ended = NoBatch
      BY <3>2, <1>a, <1>b
    <3>3. CASE ListenBatchStarted(c)
      <4> DEFINE mine == session[c].regs \cap registeredIntents
      <4>1. \/ session' = [session EXCEPT ![c] = Over(c)]
            \/ session' = [session EXCEPT ![c] =
                              [NoSession EXCEPT !.at = "confirming", !.regs = mine, !.todo = mine]]
        BY <3>3 DEF ListenBatchStarted
      <4>2. [NoSession EXCEPT !.at = "confirming", !.regs = mine, !.todo = mine].ended = NoBatch
        BY DEF NoSession
      <4> QED BY <1>a, <3>2, <4>1, <4>2
    <3>4. ASSUME NEW r \in Reg, ConfirmRegistration(c, r) \/ ConfirmError(c, r)
          PROVE  session'[b].ended = session[b].ended /\ session'[b].ok = session[b].ok
      BY <3>4, <1>a, <1>b DEF ConfirmRegistration, ConfirmError, SessionState
    <3>5. CASE OpenStream(c)
      BY <3>5, <1>a, <1>b DEF OpenStream, SessionState
    <3>6. CASE OnBatchFinalized(c)
      BY <3>2, <3>6, <1>a, <1>b DEF OnBatchFinalized, SessionState
    <3>7. CASE SessionError(c) \/ OnBatchFailed(c)
      BY <3>2, <3>7 DEF SessionError, OnBatchFailed
    <3>8. CASE SubmitForfeits(c)
      BY <3>1, <3>8 DEF SubmitForfeits, serviceVars
    <3> QED BY <2>4, <3>3, <3>4, <3>5, <3>6, <3>7, <3>8 DEF BatchSession
  <2>5. CASE Server
    <3>1. ASSUME NEW heard \in SUBSET Batch, ServerSettlesBatch(heard)
          PROVE  \/ session'[b] = session[b]
                 \/ session'[b].ended \in settled'
      BY <3>1, <1>a, <1>b DEF ServerSettlesBatch, SettleBatch, Hear, SessionState
    <3>2. ASSUME NEW heard \in SUBSET Batch, ServerAbortsBatch(heard)
          PROVE  session'[b] = session[b] \/ ~session'[b].ok
      BY <3>2, <1>a, <1>b DEF ServerAbortsBatch, Hear, SessionState
    <3>3. ASSUME NEW c \in Batch, NEW regs \in SUBSET Reg, ServerStartsBatch(c, regs)
          PROVE  session'[b] = session[b] \/ session'[b].ended = NoBatch
      BY <3>3, <1>a, <1>b DEF ServerStartsBatch, NoSession
    <3> QED
      BY <2>5, <3>1, <3>2, <3>3 DEF Server, ServerFinalizes, SpendOutside, serviceVars
  <2>6. CASE Monitor
    BY <2>6 DEF Monitor, ReceiveSpent, MonitorTick
  <2>7. CASE Lifecycle
    BY <2>7, <1>b DEF Lifecycle, Start, Stop, Crash, EndGoroutines
  <2>8. CASE UNCHANGED vars
    BY <2>8 DEF vars, serviceVars
  <2> QED BY <2>1, <2>2, <2>3, <2>4, <2>5, <2>6, <2>7, <2>8 DEF Next
<1> QED BY <1>1, <1>2, <1>3 DEF SessionInv, Grows

\* A completion comes from a session that heard that a batch settled, for a
\* task it holds a registration of.
LEMMA CompletionStep == ASSUME IInv, [Next]_vars PROVE CompletionIsBacked'
<1> USE DEF IInv
<1>1. Grows
  BY ServerGrows
<1>a. /\ status \in [Task -> Status]
      /\ commitmentTxid \in [Task -> Batch \cup {NoBatch}]
      /\ owner \in [Reg -> Task \cup {NoTask}]
  BY DEF TypeOK, StoreTypeOK, ServerTypeOK
\* What is already completed stays backed.
<1>2. ASSUME NEW t \in Task, status[t] = "completed"
      PROVE  commitmentTxid[t] \in settled' /\ \E r \in Reg : owner'[r] = t
  BY <1>1, <1>2 DEF CompletionIsBacked, Grows
<1>3. ASSUME NEW t \in Task, AddTask(t) PROVE CompletionIsBacked'
  <2>1. status[t] = "none"
    BY <1>3 DEF AddTask, LockInv
  <2> QED BY <1>3, <1>2, <1>a, <2>1 DEF AddTask, Add, CompletionIsBacked
<1>4. ASSUME NEW ids \in SUBSET Task, CancelTasks(ids) \/ FailTasks(ids)
      PROVE  CompletionIsBacked'
  BY <1>4, <1>2, <1>a DEF CancelTasks, FailTasks, ClosePending, CompletionIsBacked
<1>5. ASSUME NEW b \in Batch,
             session[b].ended # NoBatch,
             session[b].ok,
             CompleteTasks(session[b].ended, TasksOf(session[b].regs))
      PROVE  CompletionIsBacked'
  <2>1. session[b].ended \in settled'
    BY <1>1, <1>5 DEF SessionInv, Grows
  <2>2. session[b].regs \subseteq Reg
    BY DEF TypeOK, ServiceTypeOK, SessionState
  <2>3. ASSUME NEW t \in Task, t \in TasksOf(session[b].regs)
        PROVE  \E r \in Reg : owner'[r] = t
    BY <1>1, <2>2, <2>3 DEF TasksOf, Grows
  <2> DEFINE closed == {t \in TasksOf(session[b].regs) : status[t] = "pending"}
  <2>4. ASSUME NEW t \in Task, t \in closed
        PROVE  status'[t] = "completed" /\ commitmentTxid'[t] = session[b].ended
    BY <1>5, <2>4 DEF CompleteTasks, ClosePending
  <2>5. ASSUME NEW t \in Task, t \notin closed
        PROVE  status'[t] = status[t] /\ commitmentTxid'[t] = commitmentTxid[t]
    BY <1>5, <2>5 DEF CompleteTasks, ClosePending
  <2>6. ASSUME NEW t \in Task
        PROVE  /\ (status'[t] = "completed") <=> (commitmentTxid'[t] # NoBatch)
               /\ status'[t] = "completed" =>
                      commitmentTxid'[t] \in settled' /\ \E r \in Reg : owner'[r] = t
    <3>1. CASE t \in closed
      BY <1>5, <2>1, <2>3, <2>4, <3>1
    <3>2. CASE t \notin closed
      BY <1>2, <2>5, <3>2 DEF CompletionIsBacked
    <3> QED BY <3>1, <3>2
  <2> QED BY <2>6 DEF CompletionIsBacked
<1>6. CASE UNCHANGED storeVars
  BY <1>6, <1>2 DEF storeVars, CompletionIsBacked
<1> QED BY <1>3, <1>4, <1>5, <1>6, StoreSteps DEF StoreStep, CloseStep

LEMMA InvariantStep == ASSUME IInv, [Next]_vars PROVE IInv'
BY StepType, LockStep, CheckStep, NoOverlapStep, MonitorStep, SessionStep, CompletionStep DEF IInv

LEMMA Invariant == Spec => []IInv
<1>1. Init => IInv
  BY InitInvariant
<1>2. IInv /\ [Next]_vars => IInv'
  BY InvariantStep
<1> QED BY <1>1, <1>2, PTL DEF Spec

\* No VTXO is ever delegated to two pending tasks: the check of Delegate and
\* the insert are one critical section of delegateMtx, and nothing but an
\* insert makes a task pending.
THEOREM DelegatedOnce == Spec => []NoOverlap
<1>1. IInv => NoOverlap
  BY DEF IInv
<1> QED BY <1>1, Invariant, PTL

\* A completed task names a batch that settled, and no other task names one,
\* however late, repeated or lost the events of the batches are.
THEOREM CompletedIsBacked == Spec => []CompletionIsBacked
<1>1. IInv => CompletionIsBacked
  BY DEF IInv
<1> QED BY <1>1, Invariant, PTL

-----------------------------------------------------------------------------
(* Action properties.                                                       *)

\* A task that is completed, failed or cancelled stays so and keeps what it
\* names, whichever of the racing updates comes second.
THEOREM ClosedForGood == Spec => TerminalIsFinal
<1>1. ASSUME IInv, [Next]_vars, NEW t \in Task, status[t] \in TerminalStatus
      PROVE  /\ status'[t] = status[t]
             /\ commitmentTxid'[t] = commitmentTxid[t]
             /\ intent'[t] = intent[t]
  <2> USE DEF IInv, TypeOK, StoreTypeOK
  <2>1. ASSUME NEW u \in Task, AddTask(u)
        PROVE  /\ status'[t] = status[t]
               /\ commitmentTxid'[t] = commitmentTxid[t]
               /\ intent'[t] = intent[t]
    <3>1. status[u] = "none"
      BY <1>1, <2>1 DEF AddTask, LockInv
    <3> QED BY <1>1, <2>1, <3>1 DEF AddTask, Add, TerminalStatus
  <2>2. CASE CloseStep
    BY <1>1, <2>2 DEF CloseStep, CancelTasks, FailTasks, CompleteTasks, ClosePending,
       TerminalStatus, storeVars
  <2> QED BY <1>1, <2>1, <2>2, StoreSteps DEF StoreStep
<1>2. IInv /\ [Next]_vars => [\A t \in Task : status[t] \in TerminalStatus =>
                                 /\ status'[t] = status[t]
                                 /\ commitmentTxid'[t] = commitmentTxid[t]
                                 /\ intent'[t] = intent[t]]_vars
  BY <1>1
<1> QED BY <1>2, Invariant, PTL DEF Spec, TerminalIsFinal

\* Who may cancel: a request that holds the mutex, and the monitor.
LEMMA Cancellers ==
    ASSUME IInv, [Next]_vars, NEW t \in Task, status[t] = "pending", status'[t] = "cancelled"
    PROVE  MonitorTick \/ \E u \in Task : CancelOverlapping(u)
<1> USE DEF IInv
<1>1. ASSUME NEW ids, FailTasks(ids) \/ (\E b : CompleteTasks(b, ids)) PROVE FALSE
  BY <1>1 DEF FailTasks, CompleteTasks, ClosePending
<1>2. ASSUME UNCHANGED storeVars PROVE FALSE
  BY <1>2 DEF storeVars
<1>3. ASSUME NEW u \in Task, Request(u) PROVE CancelOverlapping(u)
  <2>1. ASSUME AddTask(u) PROVE FALSE
    BY <2>1 DEF AddTask, Add, TypeOK, StoreTypeOK
  <2>2. ASSUME ScheduleError(u) PROVE FALSE
    BY <1>1, <1>2, <2>2 DEF ScheduleError
  <2> QED
    BY <1>2, <1>3, <2>1, <2>2 DEF Request, Delegate, LockAndCheck, RejectOverlap,
       DelegateDbError, ScheduleTask
<1>4. ASSUME NEW w \in Worker, RegisterDelegate(w) PROVE FALSE
  BY <1>1, <1>2, <1>4 DEF RegisterDelegate, ReadTask, RegisterIntent, RegisterError,
     RegisterAnswerLost, StoreRegistered, FailRegistration
<1>5. ASSUME NEW b \in Batch, BatchSession(b) PROVE FALSE
  BY <1>1, <1>2, <1>5 DEF BatchSession, ListenBatchStarted, ConfirmRegistration, ConfirmError,
     OpenStream, SessionError, SubmitForfeits, OnBatchFinalized, OnBatchFailed
<1>6. CASE Server
  BY <1>2, <1>6 DEF Server, ServerStartsBatch, ServerFinalizes, ServerSettlesBatch,
     ServerAbortsBatch, SpendOutside
<1>7. CASE Monitor
  BY <1>2, <1>7 DEF Monitor, ReceiveSpent
<1>8. CASE Lifecycle
  BY <1>2, <1>8 DEF Lifecycle, Start, Stop, Crash
<1>9. CASE UNCHANGED vars
  BY <1>2, <1>9 DEF vars
<1> QED BY <1>3, <1>4, <1>5, <1>6, <1>7, <1>8, <1>9 DEF Next

\* No delegation is cancelled without cause: its VTXO is spent, or somebody who
\* may replace it asked to.
THEOREM NoCancelWithoutCause == Spec => CancelledForCause
<1>1. ASSUME IInv, [Next]_vars, NEW t \in Task, status[t] = "pending", status'[t] = "cancelled"
      PROVE  \/ InputsOf[intent[t]] \cap spent # {}
             \/ \E u \in Task :
                    /\ delegateMtx = u
                    /\ allowReplace[u]
                    /\ InputsOf[intent[t]] \cap InputsOf[want[u]] # {}
  <2>1. CASE MonitorTick
    <3>1. t \in PendingOfInputs(spentOutpoints)
      BY <1>1, <2>1 DEF MonitorTick, CancelTasks, ClosePending, storeVars
    <3> QED BY <1>1, <3>1 DEF PendingOfInputs, IInv, MonitorInv
  <2>2. ASSUME NEW u \in Task, CancelOverlapping(u)
        PROVE  /\ delegateMtx = u
               /\ allowReplace[u]
               /\ InputsOf[intent[t]] \cap InputsOf[want[u]] # {}
    <3>1. t \in Overlapping(u)
      BY <1>1, <2>2 DEF CancelOverlapping, CancelTasks, ClosePending
    <3>2. delegateMtx = u /\ allowReplace[u]
      BY <1>1, <2>2 DEF CancelOverlapping, IInv, LockInv
    <3> QED BY <3>1, <3>2 DEF Overlapping, PendingOfInputs
  <2> QED BY <1>1, <2>1, <2>2, Cancellers
<1>2. IInv /\ [Next]_vars =>
          [\A t \in Task : (status[t] = "pending" /\ status'[t] = "cancelled") =>
               \/ InputsOf[intent[t]] \cap spent # {}
               \/ \E u \in Task :
                      /\ delegateMtx = u
                      /\ allowReplace[u]
                      /\ InputsOf[intent[t]] \cap InputsOf[want[u]] # {}]_vars
  BY <1>1
<1> QED BY <1>2, Invariant, PTL DEF Spec, CancelledForCause

-----------------------------------------------------------------------------
(* The service implements the custody of VTXOs.                             *)

LEMMA CustodianNow ==
    ASSUME NoOverlap, NEW x, NEW t \in Pending, x \in InputsOf[intent[t]]
    PROVE  Custodian(x) = t
<1>1. \A u \in Pending : x \in InputsOf[intent[u]] => u = t
  BY DEF NoOverlap
<1> QED BY <1>1 DEF Custodian

LEMMA CustodianNext ==
    ASSUME NoOverlap', NEW x, NEW t \in Pending', x \in InputsOf[intent'[t]]
    PROVE  Custodian(x)' = t
<1>1. \A u \in Pending' : x \in InputsOf[intent'[u]] => u = t
  BY DEF NoOverlap
<1> QED BY <1>1 DEF Custodian

LEMMA NoCustodian ==
    ASSUME NEW x
    PROVE  /\ (\A t \in Pending : x \notin InputsOf[intent[t]]) => Custodian(x) = NoTask
           /\ (\A t \in Pending' : x \notin InputsOf[intent'[t]]) => Custodian(x)' = NoTask
BY DEF Custodian

LEMMA AddEntrusts ==
    ASSUME IInv, IInv', NEW t \in Task, AddTask(t) PROVE Custody!CustodyNext
<1> USE DEF IInv, TypeOK, StoreTypeOK
<1> DEFINE ins == InputsOf[want[t]]
<1>1. /\ status[t] = "none"
      /\ Overlapping(t) = {}
      /\ want[t] \in Intent
      /\ status' = [status EXCEPT ![t] = "pending"]
      /\ intent' = [intent EXCEPT ![t] = want[t]]
  BY DEF AddTask, Add, LockInv, CheckInv, ServiceTypeOK
<1>2. ins \in SUBSET Input /\ ins # {}
  BY <1>1
<1>3. /\ Pending' = Pending \cup {t}
      /\ t \notin Pending
      /\ intent'[t] = want[t]
      /\ \A u \in Pending : intent'[u] = intent[u]
  BY <1>1 DEF Pending
<1>4. \A u \in Pending : InputsOf[intent[u]] \cap ins = {}
  BY <1>1 DEF Overlapping, PendingOfInputs
<1>5. ASSUME NEW x \in ins PROVE Custodian(x) = NoTask /\ Custodian(x)' = t
  <2>1. Custodian(x) = NoTask
    BY <1>4, NoCustodian
  <2>2. Custodian(x)' = t
    <3>1. t \in Pending' /\ x \in InputsOf[intent'[t]]
      BY <1>3
    <3> QED BY <3>1, CustodianNext
  <2> QED BY <2>1, <2>2
<1>6. ASSUME NEW x \in Input, x \notin ins PROVE Custodian(x)' = Custodian(x)
  <2>1. CASE \E u \in Pending : x \in InputsOf[intent[u]]
    <3>1. PICK u \in Pending : x \in InputsOf[intent[u]]
      BY <2>1
    <3>2. Custodian(x) = u
      BY <3>1, CustodianNow
    <3>3. Custodian(x)' = u
      <4>1. u \in Pending' /\ x \in InputsOf[intent'[u]]
        BY <1>3, <3>1
      <4> QED BY <4>1, CustodianNext
    <3> QED BY <3>2, <3>3
  <2>2. CASE \A u \in Pending : x \notin InputsOf[intent[u]]
    <3>1. Custodian(x) = NoTask
      BY <2>2, NoCustodian
    <3>2. Custodian(x)' = NoTask
      BY <1>3, <1>6, <2>2, NoCustodian
    <3> QED BY <3>1, <3>2
  <2> QED BY <2>1, <2>2
<1>7. Custody!Entrust(t, ins)
  BY <1>1, <1>2, <1>5, <1>6 DEF Custody!Entrust
<1> QED BY <1>2, <1>7 DEF Custody!CustodyNext

LEMMA CloseReleases ==
    ASSUME IInv, IInv', NEW ids, NEW s \in TerminalStatus,
           status' = ClosePending(ids, s), UNCHANGED intent
    PROVE  Custody!CustodyNext
<1> USE DEF IInv, TypeOK, StoreTypeOK
<1> DEFINE ts == {t \in Pending : t \in ids}
<1>1. ts \in SUBSET Task /\ NoTask \notin ts
  BY DEF Pending
<1>2. Pending' = Pending \ ts
  BY DEF Pending, ClosePending, TerminalStatus
<1>3. status' = [t \in Task |-> IF t \in ts THEN s ELSE status[t]]
  BY DEF Pending, ClosePending
<1>4. ASSUME NEW x \in Input
      PROVE  Custodian(x)' = IF Custodian(x) \in ts THEN NoTask ELSE Custodian(x)
  <2>1. CASE \E u \in Pending : x \in InputsOf[intent[u]]
    <3>1. PICK u \in Pending : x \in InputsOf[intent[u]]
      BY <2>1
    <3>2. Custodian(x) = u
      BY <3>1, CustodianNow
    <3>3. CASE u \in ts
      <4>1. \A v \in Pending' : x \notin InputsOf[intent'[v]]
        BY <1>2, <3>1, <3>3 DEF NoOverlap
      <4>2. Custodian(x)' = NoTask
        BY <4>1, NoCustodian
      <4> QED BY <3>2, <3>3, <4>2
    <3>4. CASE u \notin ts
      <4>1. Custodian(x)' = u
        <5>1. u \in Pending' /\ x \in InputsOf[intent'[u]]
          BY <1>2, <3>1, <3>4
        <5> QED BY <5>1, CustodianNext
      <4> QED BY <3>2, <3>4, <4>1
    <3> QED BY <3>3, <3>4
  <2>2. CASE \A u \in Pending : x \notin InputsOf[intent[u]]
    <3>1. Custodian(x) = NoTask
      BY <2>2, NoCustodian
    <3>2. Custodian(x)' = NoTask
      BY <1>2, <2>2, NoCustodian
    <3> QED BY <1>1, <3>1, <3>2
  <2> QED BY <2>1, <2>2
<1>5. Custody!Release(ts, s)
  BY <1>3, <1>4 DEF Custody!Release, Pending
<1> QED BY <1>1, <1>5 DEF Custody!CustodyNext, Custody!Outcome, TerminalStatus

\* Whatever the service does to its table keeps the promise of VtxoCustody: a
\* VTXO is entrusted to one task at a time, with all of its task's others, and
\* given back once, by the step that decides the task's outcome.
THEOREM ServiceKeepsCustody == Spec => KeepsCustody
<1>1. Init => Custody!CustodyInit
  <2> SUFFICES ASSUME Init PROVE Custody!CustodyInit
    OBVIOUS
  <2>1. Pending = {}
    BY DEF Init, StoreInit, Pending
  <2>2. ASSUME NEW x \in Input PROVE Custodian(x) = NoTask
    BY <2>1 DEF Custodian
  <2> QED BY <2>2 DEF Init, StoreInit, Custody!CustodyInit
<1>2. ASSUME IInv, IInv', [Next]_vars PROVE [Custody!CustodyNext]_(Custody!custodyVars)
  <2>1. ASSUME NEW t \in Task, AddTask(t) PROVE Custody!CustodyNext
    BY <1>2, <2>1, AddEntrusts
  <2>2. ASSUME UNCHANGED storeVars PROVE UNCHANGED Custody!custodyVars
    BY <2>2 DEF storeVars, Custody!custodyVars, Custodian, Pending
  <2>3. ASSUME CloseStep PROVE Custody!CustodyNext \/ UNCHANGED storeVars
    BY <1>2, <2>3, CloseReleases DEF CloseStep, CancelTasks, FailTasks, CompleteTasks,
       TerminalStatus
  <2> QED BY <1>2, <2>1, <2>2, <2>3, StoreSteps DEF StoreStep, IInv
<1> QED BY <1>1, <1>2, Invariant, PTL DEF Spec, KeepsCustody, Custody!CustodySpec
-----------------------------------------------------------------------------
(* No pending task is forgotten.                                            *)

Known(t) ==
    \/ t \in scheduled
    \/ call[t] = "added"
    \/ \E w \in Worker : worker[w].at # "idle" /\ worker[w].task = t
    \/ \E r \in Reg : owner[r] = t

\* A run that is about to store a registration made it for its task: when it ends,
\* the server knows the task.
RegisteredRuns ==
    \A w \in Worker : worker[w].at = "store" => owner[worker[w].reg] = worker[w].task

KInv == IInv /\ RegisteredRuns /\ PendingIsKept

\* The step leaves everybody who knows of the task u his knowledge.
Keeps(u) ==
    /\ u \in scheduled => u \in scheduled'
    /\ call[u] = "added" => call'[u] = "added"
    /\ \A w \in Worker : worker[w].at # "idle" /\ worker[w].task = u =>
           worker'[w].at # "idle" /\ worker'[w].task = u
    /\ \A r \in Reg : owner[r] = u => owner'[r] = u

LEMMA KeptIsKnown == ASSUME NEW u \in Task, Keeps(u), Known(u) PROVE Known(u)'
  BY DEF Keeps, Known

\* What is left to show of a step that neither adds a task nor starts the service.
LEMMA KnownStays ==
    ASSUME KInv, Fewer, running' => running,
           \A u \in Task : status'[u] = "pending" /\ running' /\ Known(u) => Known(u)'
    PROVE  PendingIsKept'
  BY DEF KInv, PendingIsKept, Pending, Fewer, Known

LEMMA PendingKnown ==
    PendingIsKept <=> \A u \in Task : status[u] = "pending" /\ running => Known(u)
  BY DEF PendingIsKept, Pending, Known

LEMMA RegistrationKept ==
    ASSUME TypeOK, NEW r \in Reg, NEW t \in Task, AcceptRegistration(r, t)
    PROVE  /\ owner'[r] = t
           /\ \A q \in Reg : owner[q] \in Task => owner'[q] = owner[q]
  BY DEF AcceptRegistration, TypeOK, ServerTypeOK

LEMMA RequestKnown ==
    ASSUME ~Faults, KInv, NEW t \in Task, Request(t) PROVE RegisteredRuns' /\ PendingIsKept'
<1>0. /\ TypeOK
      /\ call \in [Task -> {"idle", "checked", "cancelling", "adding", "added", "done"}]
      /\ status \in [Task -> Status]
  BY DEF KInv, IInv, TypeOK, ServiceTypeOK, StoreTypeOK
<1>1. UNCHANGED <<worker, owner, running>>
  BY DEF Request, Delegate, LockAndCheck, RejectOverlap, CancelOverlapping, AddTask,
         DelegateDbError, ScheduleTask, ScheduleError, Return, serverVars
<1>2. RegisteredRuns'
  BY <1>1 DEF KInv, RegisteredRuns
<1>3. CASE AddTask(t)
  <2>1. /\ status' = [status EXCEPT ![t] = "pending"]
        /\ call' = [call EXCEPT ![t] = "added"]
        /\ UNCHANGED scheduled
    BY <1>3 DEF AddTask, Add
  <2>2. ASSUME NEW u \in Task, u # t, Known(u) PROVE Known(u)'
    BY <1>0, <1>1, <2>1, <2>2 DEF Known
  <2>3. Known(t)'
    BY <1>0, <2>1 DEF Known
  <2>4. \A u \in Task : u # t => status'[u] = status[u]
    BY <1>0, <2>1
  <2> QED
    <3>1. ASSUME NEW u \in Task, status'[u] = "pending", running' PROVE Known(u)'
      BY <1>1, <2>2, <2>3, <2>4, <3>1, PendingKnown DEF KInv
    <3> QED
      BY <1>2, <3>1 DEF PendingIsKept, Pending, Known
<1>4. CASE ~AddTask(t)
  <2>1. Fewer
    BY <1>0, <1>4, RequestFewer
  <2>2. CASE ScheduleTask(t)
    <3>1. t \in scheduled' /\ \A u \in Task \ {t} : Keeps(u)
      BY <1>0, <1>1, <2>2 DEF ScheduleTask, Return, Keeps
    <3>2. Known(t)'
      BY <3>1 DEF Known
    <3> QED
      BY <1>1, <1>2, <2>1, <3>1, <3>2, KnownStays, KeptIsKnown
  <2>3. CASE ScheduleError(t)
    <3>1. status'[t] # "pending"
      BY <1>0, <2>3 DEF ScheduleError, FailTasks, ClosePending
    <3>2. \A u \in Task \ {t} : Keeps(u)
      BY <1>0, <1>1, <2>3 DEF ScheduleError, Return, Keeps
    <3> QED
      BY <1>1, <1>2, <2>1, <3>1, <3>2, KnownStays, KeptIsKnown
  <2>4. CASE ~ScheduleTask(t) /\ ~ScheduleError(t)
    <3>1. \A u \in Task : Keeps(u)
      BY <1>0, <1>1, <1>4, <2>4 DEF Request, Delegate, LockAndCheck, RejectOverlap, CancelOverlapping,
                              DelegateDbError, Return, Keeps
    <3> QED
      BY <1>1, <1>2, <2>1, <3>1, KnownStays, KeptIsKnown
  <2> QED
    BY <2>2, <2>3, <2>4
<1> QED
  BY <1>2, <1>3, <1>4

\* What the two answers of RegisterIntent make of the run.
LEMMA EditedWorker ==
    ASSUME NEW w \in Worker, NEW r \in Reg, worker \in [Worker -> WorkerState],
           \/ worker' = [worker EXCEPT ![w] = [@ EXCEPT !.at = "store", !.reg = r]]
           \/ worker' = [worker EXCEPT ![w] = [@ EXCEPT !.at = "fail"]]
    PROVE  /\ \A v \in Worker \ {w} : worker'[v] = worker[v]
           /\ worker'[w].task = worker[w].task
           /\ \/ worker'[w].at = "store" /\ worker'[w].reg = r
              \/ worker'[w].at = "fail"
<1>1. worker[w] \in WorkerState
  OBVIOUS
<1>2. \/ worker'[w] = [worker[w] EXCEPT !.at = "store", !.reg = r]
      \/ worker'[w] = [worker[w] EXCEPT !.at = "fail"]
  OBVIOUS
<1>3. \A v \in Worker \ {w} : worker'[v] = worker[v]
  OBVIOUS
<1> QED
  BY <1>1, <1>2, <1>3 DEF WorkerState

LEMMA WorkerKnown ==
    ASSUME ~Faults, KInv, NEW w \in Worker, RegisterDelegate(w)
    PROVE  RegisteredRuns' /\ PendingIsKept'
<1>0. /\ TypeOK
      /\ RegisteredRuns
      /\ status \in [Task -> Status]
      /\ worker \in [Worker -> WorkerState]
      /\ \A v \in Worker : worker[v].at # "idle" => worker[v].task \in Task
      /\ \A v \in Worker : worker[v].at = "store" => worker[v].reg \in Reg
  BY DEF KInv, IInv, TypeOK, ServiceTypeOK, StoreTypeOK, RunsOfRows
<1>1. Fewer
  BY <1>0, RegisterStore, CloseFewer
<1>2. UNCHANGED <<call, running>>
  BY DEF RegisterDelegate, ReadTask, RegisterIntent, RegisterAnswerLost, RegisterError,
         StoreRegistered, FailRegistration, requestVars
<1>3. ASSUME NEW t \in Task, ReadTask(w, t) PROVE RegisteredRuns' /\ PendingIsKept'
  <2>1. /\ worker[w].at = "idle"
        /\ scheduled' = scheduled \ {t}
        /\ UNCHANGED <<status, owner>>
    BY <1>3 DEF ReadTask, storeVars, serverVars
  <2>2. CASE /\ worker' = [worker EXCEPT ![w] = [at |-> "register", task |-> t, reg |-> NoReg]]
    <3>1. RegisteredRuns'
      BY <1>0, <2>1, <2>2 DEF RegisteredRuns
    <3>2. Known(t)'
      BY <1>0, <2>2 DEF Known
    <3>3. \A u \in Task \ {t} : Keeps(u)
      BY <1>0, <1>2, <2>1, <2>2 DEF Keeps
    <3> QED
      BY <1>1, <1>2, <3>1, <3>2, <3>3, KnownStays, KeptIsKnown
  <2>3. CASE UNCHANGED worker /\ ~(running /\ status[t] = "pending")
    <3>1. RegisteredRuns'
      BY <1>0, <2>1, <2>3 DEF RegisteredRuns
    <3>2. \A u \in Task \ {t} : Keeps(u)
      BY <1>0, <1>2, <2>1, <2>3 DEF Keeps
    <3> QED
      BY <1>1, <1>2, <2>1, <2>3, <3>1, <3>2, KnownStays, KeptIsKnown
  <2> QED
    BY <1>3, <2>2, <2>3 DEF ReadTask
<1>4. ASSUME NEW r \in Reg, RegisterIntent(w, r) \/ RegisterAnswerLost(w, r)
      PROVE  RegisteredRuns' /\ PendingIsKept'
  <2>1. worker[w].task \in Task /\ AcceptRegistration(r, worker[w].task) /\ UNCHANGED scheduled
    BY <1>0, <1>4 DEF RegisterIntent, RegisterAnswerLost
  <2>2. \/ worker' = [worker EXCEPT ![w] = [@ EXCEPT !.at = "store", !.reg = r]]
        \/ worker' = [worker EXCEPT ![w] = [@ EXCEPT !.at = "fail"]]
    BY <1>0, <1>4 DEF RegisterIntent, RegisterAnswerLost
  <2>3. RegisteredRuns'
    <3>1. ASSUME NEW v \in Worker, worker'[v].at = "store"
          PROVE  owner'[worker'[v].reg] = worker'[v].task
      <4>1. CASE v = w
        <5>1. worker'[w].reg = r /\ worker'[w].task = worker[w].task
          BY <1>0, <2>2, <3>1, <4>1, EditedWorker
        <5> QED
          BY <1>0, <2>1, <4>1, <5>1, RegistrationKept
      <4>2. CASE v # w
        <5>1. worker'[v] = worker[v]
          BY <1>0, <2>2, <4>2
        <5>2. worker[v].reg \in Reg /\ owner[worker[v].reg] \in Task
          BY <1>0, <3>1, <5>1 DEF RegisteredRuns
        <5> QED
          BY <1>0, <2>1, <3>1, <5>1, <5>2, RegistrationKept DEF RegisteredRuns
      <4> QED
        BY <4>1, <4>2
    <3> QED
      BY <3>1 DEF RegisteredRuns
  <2>4. \A u \in Task : Keeps(u)
    <3>1. \A v \in Worker : worker[v].at # "idle" =>
             worker'[v].at # "idle" /\ worker'[v].task = worker[v].task
      BY <1>0, <2>2, EditedWorker
    <3> QED
      BY <1>0, <1>2, <2>1, <3>1, RegistrationKept DEF Keeps
  <2> QED
    BY <1>1, <1>2, <2>3, <2>4, KnownStays, KeptIsKnown
<1>5. CASE RegisterError(w)
  <2>1. /\ worker[w].at = "register"
        /\ worker' = [worker EXCEPT ![w] = [@ EXCEPT !.at = "fail"]]
        /\ UNCHANGED <<owner, scheduled>>
    BY <1>5 DEF RegisterError, serverVars
  <2>2. RegisteredRuns'
    BY <1>0, <2>1 DEF RegisteredRuns, WorkerState
  <2>3. \A u \in Task : Keeps(u)
    BY <1>0, <1>2, <2>1 DEF Keeps, WorkerState
  <2> QED
    BY <1>1, <1>2, <2>2, <2>3, KnownStays, KeptIsKnown
<1>6. CASE StoreRegistered(w) \/ FailRegistration(w)
  <2>1. worker' = [worker EXCEPT ![w] = IdleWorker] /\ UNCHANGED <<owner, scheduled>>
    BY <1>6 DEF StoreRegistered, FailRegistration, serverVars
  <2>2. RegisteredRuns'
    BY <1>0, <2>1 DEF RegisteredRuns, IdleWorker
  <2>3. PICK t \in Task : t = worker[w].task
    BY <1>0, <1>6 DEF StoreRegistered, FailRegistration
  <2>4. \A u \in Task \ {t} : Keeps(u)
    BY <1>0, <1>2, <1>6, <2>1, <2>3 DEF Keeps
  <2>5. CASE StoreRegistered(w)
    <3>1. worker[w].reg \in Reg /\ owner'[worker[w].reg] = t
      BY <1>0, <2>1, <2>3, <2>5 DEF StoreRegistered, RegisteredRuns
    <3>2. Known(t)'
      BY <3>1 DEF Known
    <3> QED
      BY <1>1, <1>2, <2>2, <2>4, <3>2, KnownStays, KeptIsKnown
  <2>6. CASE FailRegistration(w)
    <3>1. running => status'[t] # "pending"
      BY <1>0, <2>3, <2>6 DEF FailRegistration, FailTasks, ClosePending
    <3> QED
      BY <1>1, <1>2, <2>2, <2>4, <3>1, KnownStays, KeptIsKnown
  <2> QED
    BY <1>6, <2>5, <2>6
<1> QED
  BY <1>3, <1>4, <1>5, <1>6 DEF RegisterDelegate

LEMMA OtherKnown ==
    ASSUME KInv, \/ \E b \in Batch : BatchSession(b)
                 \/ Server \/ Monitor \/ Stop \/ UNCHANGED vars
    PROVE  RegisteredRuns' /\ PendingIsKept'
<1> USE DEF KInv, IInv
<1>1. CASE \E b \in Batch : BatchSession(b)
  <2>1. UNCHANGED <<worker, owner, call, running>> /\ scheduled \subseteq scheduled'
    BY <1>1 DEF BatchSession, ListenBatchStarted, ConfirmRegistration, ConfirmError, OpenStream,
         SessionError, SubmitForfeits, OnBatchFinalized, OnBatchFailed, AcceptConfirmation,
         AcceptForfeits, serverVars, serviceVars, requestVars
  <2>2. \A u \in Task : Keeps(u)
    BY <2>1 DEF Keeps
  <2> QED
    BY <1>1, <2>1, <2>2, SessionStore, CloseFewer, KnownStays, KeptIsKnown DEF RegisteredRuns
<1>2. CASE Server \/ Monitor \/ Stop \/ UNCHANGED vars
  <2>1. UNCHANGED <<worker, owner, call, scheduled>> /\ (running' => running)
    <3>1. CASE Server
      <4>1. ASSUME NEW c \in Batch, NEW regs \in SUBSET Reg, ServerStartsBatch(c, regs)
            PROVE  UNCHANGED <<worker, owner, call, scheduled, running>>
        BY <4>1 DEF ServerStartsBatch, BeginBatch, requestVars
      <4>2. CASE ServerFinalizes
        BY <4>2 DEF ServerFinalizes, BeginFinalization, serviceVars
      <4>3. ASSUME NEW heard \in SUBSET Batch, ServerSettlesBatch(heard) \/ ServerAbortsBatch(heard)
            PROVE  UNCHANGED <<worker, owner, call, scheduled, running>>
        BY <4>3 DEF ServerSettlesBatch, ServerAbortsBatch, SettleBatch, AbortBatch, requestVars
      <4>4. ASSUME NEW x \in Input, SpendOutside(x)
            PROVE  UNCHANGED <<worker, owner, call, scheduled, running>>
        BY <4>4 DEF SpendOutside, SpendElsewhere, requestVars
      <4> QED
        BY <3>1, <4>1, <4>2, <4>3, <4>4 DEF Server
    <3>2. CASE Monitor
      BY <3>2 DEF Monitor, ReceiveSpent, MonitorTick, serverVars, requestVars
    <3>3. CASE Stop \/ UNCHANGED vars
      BY <3>3 DEF Stop, EndGoroutines, vars, serverVars, serviceVars, requestVars
    <3> QED
      BY <1>2, <3>1, <3>2, <3>3
  <2>2. \A u \in Task : Keeps(u)
    BY <2>1 DEF Keeps
  <2> QED
    BY <1>2, <2>1, <2>2, OtherStore, CloseFewer, KnownStays, KeptIsKnown
    DEF RegisteredRuns, Lifecycle
<1> QED
  BY <1>1, <1>2

LEMMA KnownStep == ASSUME ~Faults PROVE KInv /\ [Next]_vars => KInv'
<1> SUFFICES ASSUME KInv, [Next]_vars PROVE RegisteredRuns' /\ PendingIsKept'
  BY InvariantStep DEF KInv
<1>1. CASE Start
  <2>1. scheduled' = scheduled \cup Pending /\ UNCHANGED <<storeVars, serverVars, worker>>
    BY <1>1 DEF Start, RestorePendingTasks
  <2> QED
    BY <2>1 DEF PendingIsKept, Pending, KInv, RegisteredRuns, storeVars, serverVars
<1>2. CASE Crash
  BY <1>2 DEF Crash, EndGoroutines, PendingIsKept, RegisteredRuns, IdleWorker
<1> QED
  BY <1>1, <1>2, RequestKnown, WorkerKnown, OtherKnown DEF Next, Lifecycle

\* Unless the task table or the scheduler fails, a service that runs has every
\* pending task in the scheduler, in the request that stores it, in a
\* registerDelegate run or registered with the server, whatever is stopped,
\* started, killed, lost or refused: only what waits for the server can wait for ever.
THEOREM PendingNotForgotten == ASSUME ~Faults PROVE Spec => []PendingIsKept
<1>1. Init => KInv
  BY InitInvariant DEF Init, StoreInit, KInv, RegisteredRuns, IdleWorker, PendingIsKept, Pending
<1>2. KInv /\ [Next]_vars => KInv'
  BY KnownStep
<1>3. KInv => PendingIsKept
  BY DEF KInv
<1> QED
  BY <1>1, <1>2, <1>3, PTL DEF Spec

\* What leaves the monitor's list is spent by no pending task any more.
HeardIsActedOn ==
    \A x \in spentOutpoints \ spentOutpoints' :
        running' => \A t \in Pending' : x \notin InputsOf[intent'[t]]

\* Unless the task table fails, an outpoint leaves the monitor's list only when no
\* pending task spends it or the service stops: no tick acts on part of its list.
THEOREM NothingHeardIsDropped == ASSUME ~Faults PROVE Spec => [][HeardIsActedOn]_vars
<1>1. ASSUME [Next]_vars, running', NEW x \in spentOutpoints \ spentOutpoints'
      PROVE  \A t \in Pending' : x \notin InputsOf[intent'[t]]
  <2>1. MonitorTick
    BY <1>1 DEF Next, Request, Delegate, LockAndCheck, RejectOverlap, CancelOverlapping, AddTask,
         DelegateDbError, ScheduleTask, ScheduleError, Return, RegisterDelegate, ReadTask,
         RegisterIntent, RegisterAnswerLost, RegisterError, StoreRegistered, FailRegistration,
         BatchSession, ListenBatchStarted, ConfirmRegistration, ConfirmError, OpenStream,
         SessionError, SubmitForfeits, OnBatchFinalized, OnBatchFailed, Server, ServerStartsBatch,
         ServerFinalizes, ServerSettlesBatch, ServerAbortsBatch, SpendOutside, Monitor, ReceiveSpent,
         Lifecycle, Start, Stop, Crash, EndGoroutines, vars, serviceVars, monitorVars
  <2>2. CancelTasks(PendingOfInputs(spentOutpoints))
    BY <2>1 DEF MonitorTick
  <2> QED
    BY <1>1, <2>2 DEF CancelTasks, ClosePending, PendingOfInputs, Pending
<1>2. [Next]_vars => HeardIsActedOn
  BY <1>1 DEF HeardIsActedOn
<1> QED
  BY <1>2, PTL DEF Spec

=============================================================================
