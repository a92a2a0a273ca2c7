--------------------------- MODULE DelegateService ---------------------------
(***************************************************************************)
(* The delegate service: it stores the delegations clients submit, runs    *)
(* each when it is due by registering its intent with the Ark server,      *)
(* joins every batch that selects one of its registrations, and cancels    *)
(* the tasks whose VTXOs are spent elsewhere.                              *)
(*                                                                         *)
(* Processes: one goroutine per Delegate request (requests are named by    *)
(* the task id they draw), registerDelegate goroutines (Worker), the batch *)
(* listener, one joinDelegateBatch session per batch whose start the       *)
(* listener acted on, and the spent-VTXO monitor.  They share the task     *)
(* table, delegateMtx, the registeredIntents map and the context that Stop *)
(* cancels.                                                                *)
(***************************************************************************)
EXTENDS ArkServer

CONSTANTS
    Worker,     \* bound: registerDelegate runs in flight at once
    Faults      \* TRUE: the task table and the scheduler may return errors

ASSUME ServiceAssumption == Faults \in BOOLEAN

VARIABLES
    call,               \* Delegate requests: where each one is
    want,               \* the intent each request submits
    allowReplace,       \* its allowReplace argument
    delegateMtx,        \* the request that holds delegateMtx, or NoTask
    running,            \* s.ctx exists and is not cancelled
    scheduled,          \* tasks handed to the scheduler, run not yet begun
    worker,             \* registerDelegate runs
    registeredIntents,  \* the registeredIntents map: intent ids it holds
    session,            \* joinDelegateBatch, by the batch that launched it
    txEvents,           \* spent VTXOs on the transaction stream
    spentOutpoints      \* spentVtxosOutpoints of the monitor

serviceVars == <<call, want, allowReplace, delegateMtx, running, scheduled, worker,
                 registeredIntents, session, txEvents, spentOutpoints>>
vars == <<storeVars, serverVars, serviceVars>>

requestVars == <<call, want, allowReplace>>
monitorVars == <<txEvents, spentOutpoints>>

IdleWorker == [at |-> "idle", task |-> NoTask, reg |-> NoReg]

\* A session: where it is, the registrations it was launched for, those left
\* to confirm, and the batch whose end is next on its stream (0: none).
NoSession == [at |-> "none", regs |-> {}, todo |-> {}, ended |-> NoBatch, ok |-> FALSE]
Over(b) == [NoSession EXCEPT !.at = "over"]

Init ==
    /\ StoreInit
    /\ ServerInit
    /\ call = [t \in Task |-> "idle"]
    /\ want = [t \in Task |-> NoIntent]
    /\ allowReplace = [t \in Task |-> FALSE]
    /\ delegateMtx = NoTask
    /\ running = FALSE
    /\ scheduled = {}
    /\ worker = [w \in Worker |-> IdleWorker]
    /\ registeredIntents = {}
    /\ session = [b \in Batch |-> NoSession]
    /\ txEvents = {}
    /\ spentOutpoints = {}

-----------------------------------------------------------------------------
(* Delegate.                                                                *)

\* The request returns and lets go of delegateMtx, if it came so far.  When
\* nothing was stored its id is free to stand for another request.
Return(t, at) ==
    /\ call' = [call EXCEPT ![t] = at]
    /\ want' = [want EXCEPT ![t] = NoIntent]
    /\ allowReplace' = [allowReplace EXCEPT ![t] = FALSE]
    /\ delegateMtx' = NoTask
    /\ UNCHANGED <<serverVars, running, worker, registeredIntents, session, monitorVars>>

\* newDelegateTask: of what it validates, the VTXOs of a valid intent can change
\* under it: none of them is spent.
NewDelegateTask(i) == InputsOf[i] \cap spent = {}

\* Up to the duplicate check, which is made before the mutex is taken and whose
\* error is ignored.  A request that the check or a validation turns away
\* leaves no trace.
Delegate(t, i, replace) ==
    /\ running
    /\ call[t] = "idle"
    /\ NewDelegateTask(i)
    /\ PendingOfIntent(i) = {} \/ Faults
    /\ call' = [call EXCEPT ![t] = "checked"]
    /\ want' = [want EXCEPT ![t] = i]
    /\ allowReplace' = [allowReplace EXCEPT ![t] = replace]
    /\ UNCHANGED <<storeVars, serverVars, delegateMtx, running, scheduled, worker,
                   registeredIntents, session, monitorVars>>

Overlapping(t) == PendingOfInputs(InputsOf[want[t]])

\* Faulty variant: the overlap check without the mutex.
LockAndCheckUnlocked(t) ==
    /\ call[t] = "checked"
    /\ Overlapping(t) = {} \/ allowReplace[t]
    /\ call' = [call EXCEPT ![t] = IF Overlapping(t) = {} THEN "adding" ELSE "cancelling"]
    /\ delegateMtx' = t
    /\ UNCHANGED <<storeVars, serverVars, want, allowReplace, running, scheduled, worker,
                   registeredIntents, session, monitorVars>>

\* Faulty variant: allowReplace is not looked at.
LockAndCheckReplacing(t) ==
    /\ call[t] = "checked"
    /\ delegateMtx = NoTask
    /\ call' = [call EXCEPT ![t] = IF Overlapping(t) = {} THEN "adding" ELSE "cancelling"]
    /\ delegateMtx' = t
    /\ UNCHANGED <<storeVars, serverVars, want, allowReplace, running, scheduled, worker,
                   registeredIntents, session, monitorVars>>

\* Take delegateMtx and look for pending tasks that spend one of the inputs.
LockAndCheck(t) ==
    /\ call[t] = "checked"
    /\ delegateMtx = NoTask
    /\ Overlapping(t) = {} \/ allowReplace[t]
    /\ call' = [call EXCEPT ![t] = IF Overlapping(t) = {} THEN "adding" ELSE "cancelling"]
    /\ delegateMtx' = t
    /\ UNCHANGED <<storeVars, serverVars, want, allowReplace, running, scheduled, worker,
                   registeredIntents, session, monitorVars>>

RejectOverlap(t) ==
    /\ call[t] = "checked"
    /\ delegateMtx = NoTask
    /\ Overlapping(t) # {}
    /\ ~allowReplace[t]
    /\ Return(t, "idle")
    /\ UNCHANGED <<storeVars, scheduled>>

\* Faulty variant: the overlapping tasks are left pending.
CancelOverlappingSkipped(t) ==
    /\ call[t] = "cancelling"
    /\ call' = [call EXCEPT ![t] = "adding"]
    /\ UNCHANGED <<storeVars, serverVars, want, allowReplace, delegateMtx, running,
                   scheduled, worker, registeredIntents, session, monitorVars>>

\* CancelTasks on the ids read under the lock.  Nobody adds a task while it is
\* held, so those still pending are the overlapping ones of this instant.
CancelOverlapping(t) ==
    /\ call[t] = "cancelling"
    /\ CancelTasks(Overlapping(t))
    /\ call' = [call EXCEPT ![t] = "adding"]
    /\ UNCHANGED <<serverVars, want, allowReplace, delegateMtx, running, scheduled, worker,
                   registeredIntents, session, monitorVars>>

AddTask(t) ==
    /\ call[t] = "adding"
    /\ Add(t, want[t])
    /\ call' = [call EXCEPT ![t] = "added"]
    /\ UNCHANGED <<serverVars, want, allowReplace, delegateMtx, running, scheduled, worker,
                   registeredIntents, session, monitorVars>>

\* The overlap query, CancelTasks or Add fails: the request ends, what it
\* cancelled stays so.
DelegateDbError(t) ==
    /\ Faults
    /\ call[t] \in {"checked", "cancelling", "adding"}
    /\ call[t] = "checked" => delegateMtx = NoTask
    /\ Return(t, "idle")
    /\ UNCHANGED <<storeVars, scheduled>>

\* ScheduleTaskAtTime, then the deferred Unlock.
ScheduleTask(t) ==
    /\ call[t] = "added"
    /\ scheduled' = scheduled \cup {t}
    /\ Return(t, "done")
    /\ UNCHANGED storeVars

\* ScheduleTaskAtTime fails: the task stored a moment ago is failed.
ScheduleError(t) ==
    /\ call[t] = "added"
    /\ FailTasks({t}) \/ (Faults /\ UNCHANGED storeVars)
    /\ Return(t, "done")
    /\ UNCHANGED scheduled

-----------------------------------------------------------------------------
(* registerDelegate, run by the scheduler when the task is due.             *)

\* Read the task under delegateMtx and let go of the mutex.  The run ends at
\* once when the task cannot be read, because the context is cancelled or for
\* another error, or is no longer pending.
ReadTask(w, t) ==
    /\ worker[w].at = "idle"
    /\ t \in scheduled
    /\ delegateMtx = NoTask
    /\ scheduled' = scheduled \ {t}
    /\ \/ /\ running
          /\ status[t] = "pending"
          /\ worker' = [worker EXCEPT ![w] = [at |-> "register", task |-> t, reg |-> NoReg]]
       \/ /\ running /\ status[t] = "pending" => Faults
          /\ UNCHANGED worker
    /\ UNCHANGED <<storeVars, serverVars, requestVars, delegateMtx, running,
                   registeredIntents, session, monitorVars>>

\* RegisterIntent succeeds; the server may start a batch before the map knows.
RegisterIntent(w, r) ==
    /\ worker[w].at = "register"
    /\ running
    /\ AcceptRegistration(r, worker[w].task)
    /\ worker' = [worker EXCEPT ![w] = [@ EXCEPT !.at = "store", !.reg = r]]
    /\ UNCHANGED <<storeVars, requestVars, delegateMtx, running, scheduled,
                   registeredIntents, session, monitorVars>>

\* Faulty variant: the error is ignored and the empty answer used.
RegisterErrorIgnored(w) ==
    /\ worker[w].at = "register"
    /\ worker' = [worker EXCEPT ![w].at = "store"]
    /\ UNCHANGED <<storeVars, serverVars, requestVars, delegateMtx, running, scheduled,
                   registeredIntents, session, monitorVars>>

\* RegisterIntent fails at the server or because the context was cancelled.
RegisterError(w) ==
    /\ worker[w].at = "register"
    /\ worker' = [worker EXCEPT ![w] = [@ EXCEPT !.at = "fail"]]
    /\ UNCHANGED <<storeVars, serverVars, requestVars, delegateMtx, running, scheduled,
                   registeredIntents, session, monitorVars>>

\* The server registered the intent but its answer is lost.
RegisterAnswerLost(w, r) ==
    /\ worker[w].at = "register"
    /\ AcceptRegistration(r, worker[w].task)
    /\ worker' = [worker EXCEPT ![w] = [@ EXCEPT !.at = "fail"]]
    /\ UNCHANGED <<storeVars, requestVars, delegateMtx, running, scheduled,
                   registeredIntents, session, monitorVars>>

StoreRegistered(w) ==
    /\ worker[w].at = "store"
    /\ registeredIntents' = registeredIntents \cup {worker[w].reg}
    /\ worker' = [worker EXCEPT ![w] = IdleWorker]
    /\ UNCHANGED <<storeVars, serverVars, requestVars, delegateMtx, running, scheduled,
                   session, monitorVars>>

\* FailTasks runs under the context of the moment and without delegateMtx: a
\* cancelled context makes it fail, a context Start renewed lets it through.
FailRegistration(w) ==
    /\ worker[w].at = "fail"
    /\ worker' = [worker EXCEPT ![w] = IdleWorker]
    /\ \/ running /\ FailTasks({worker[w].task})
       \/ (Faults \/ ~running) /\ UNCHANGED storeVars
    /\ UNCHANGED <<serverVars, requestVars, delegateMtx, running, scheduled,
                   registeredIntents, session, monitorVars>>

-----------------------------------------------------------------------------
(* listenBatchStartedEvents and joinDelegateBatch.                          *)

\* The server starts a batch and tells the streams that are open.
ServerStartsBatch(b, regs) ==
    /\ BeginBatch(b, regs)
    /\ session' = [session EXCEPT ![b] =
           IF running THEN [NoSession EXCEPT !.at = "announced", !.regs = regs] ELSE Over(b)]
    /\ UNCHANGED <<storeVars, requestVars, delegateMtx, running, scheduled, worker,
                   registeredIntents, monitorVars>>

\* The listener launches a session when the map holds a selected intent.
ListenBatchStarted(b) ==
    /\ session[b].at = "announced"
    /\ LET mine == session[b].regs \cap registeredIntents
       IN  session' = [session EXCEPT ![b] =
               IF mine = {} THEN Over(b)
               ELSE [NoSession EXCEPT !.at = "confirming", !.regs = mine, !.todo = mine]]
    /\ UNCHANGED <<storeVars, serverVars, requestVars, delegateMtx, running, scheduled,
                   worker, registeredIntents, monitorVars>>

\* ConfirmRegistration for one of the selected intents...
ConfirmRegistration(b, r) ==
    /\ session[b].at = "confirming"
    /\ r \in session[b].todo
    /\ CanConfirm(b, r)
    /\ AcceptConfirmation(r)
    /\ session' = [session EXCEPT ![b] = [@ EXCEPT !.todo = session[b].todo \ {r}]]
    /\ UNCHANGED <<storeVars, requestVars, delegateMtx, running, scheduled, worker,
                   registeredIntents, monitorVars>>

\* ... which may fail: the loop goes on and the task stays selected.
ConfirmError(b, r) ==
    /\ session[b].at = "confirming"
    /\ r \in session[b].todo
    /\ session' = [session EXCEPT ![b] = [@ EXCEPT !.todo = session[b].todo \ {r}]]
    /\ UNCHANGED <<storeVars, serverVars, requestVars, delegateMtx, running, scheduled,
                   worker, registeredIntents, monitorVars>>

\* GetEventStream: what happened before is not on the stream.
OpenStream(b) ==
    /\ session[b].at = "confirming"
    /\ session[b].todo = {}
    /\ session' = [session EXCEPT ![b] = [@ EXCEPT !.at = "open"]]
    /\ UNCHANGED <<storeVars, serverVars, requestVars, delegateMtx, running, scheduled,
                   worker, registeredIntents, monitorVars>>

\* An announcement lost with its stream, or a session that ends in an error:
\* the stream cannot be opened, is closed, or sends an event out of order.
SessionError(b) ==
    /\ \/ session[b].at \in {"announced", "open"}
       \/ session[b].at = "confirming" /\ session[b].todo = {}
    /\ session' = [session EXCEPT ![b] = Over(b)]
    /\ UNCHANGED <<storeVars, serverVars, requestVars, delegateMtx, running, scheduled,
                   worker, registeredIntents, monitorVars>>

ServerFinalizes ==
    /\ BeginFinalization
    /\ UNCHANGED <<storeVars, serviceVars>>

\* The forfeits registrations need, one per input that is not recoverable.
Forfeits(regs) == {f \in regs \X Input : f[2] \in InputsOfReg(f[1]) \ Recoverable}

\* submitForfeitTxs: the forfeits of every selected task, whatever its status,
\* unless they outnumber the connectors the server sent for the confirmed.
SubmitForfeits(b) ==
    /\ session[b].at = "open"
    /\ session[b].ended = NoBatch
    /\ phase = "finalizing"
    /\ Forfeits(session[b].regs) # {}
    /\ Cardinality(Forfeits(session[b].regs)) <= Cardinality(Forfeits(confirmed))
    /\ AcceptForfeits(session[b].regs \cap confirmed)
    /\ UNCHANGED <<storeVars, serviceVars>>

\* The end of a batch reaches the streams that are open and not cut off; each
\* session acts on the first end it hears of.
Hear(heard, success) ==
    /\ heard \subseteq {b \in Batch : session[b].at = "open" /\ session[b].ended = NoBatch}
    /\ session' = [b \in Batch |->
           IF b \in heard THEN [session[b] EXCEPT !.ended = round, !.ok = success]
           ELSE session[b]]

ServerSettlesBatch(heard) ==
    /\ SettleBatch
    /\ Hear(heard, TRUE)
    /\ txEvents' = IF running THEN txEvents \cup (spent' \ spent) ELSE txEvents
    /\ UNCHANGED <<storeVars, requestVars, delegateMtx, running, scheduled, worker,
                   registeredIntents, spentOutpoints>>

ServerAbortsBatch(heard) ==
    /\ AbortBatch
    /\ Hear(heard, FALSE)
    /\ UNCHANGED <<storeVars, requestVars, delegateMtx, running, scheduled, worker,
                   registeredIntents, monitorVars>>

\* OnBatchFinalized: forget the intents, then complete the tasks.  When that
\* update fails the session goes on listening.
OnBatchFinalized(b) ==
    /\ session[b].at = "open"
    /\ session[b].ended # NoBatch
    /\ session[b].ok
    /\ registeredIntents' = registeredIntents \ session[b].regs
    /\ \/ /\ CompleteTasks(session[b].ended, TasksOf(session[b].regs))
          /\ session' = [session EXCEPT ![b] = Over(b)]
       \/ /\ Faults
          /\ UNCHANGED storeVars
          /\ session' = [session EXCEPT ![b] = [@ EXCEPT !.ended = NoBatch]]
    /\ UNCHANGED <<serverVars, requestVars, delegateMtx, running, scheduled, worker,
                   monitorVars>>

\* Faulty variant: a failed batch is handled as a finalized one.
OnBatchFailedCompletes(b) ==
    /\ session[b].at = "open"
    /\ session[b].ended # NoBatch
    /\ ~session[b].ok
    /\ CompleteTasks(session[b].ended, TasksOf(session[b].regs))
    /\ session' = [session EXCEPT ![b] = Over(b)]
    /\ UNCHANGED <<serverVars, requestVars, delegateMtx, running, scheduled, worker,
                   registeredIntents, monitorVars>>

\* OnBatchFailed: registerDelegate for every selected task; the intents of the
\* failed batch stay in the map.
OnBatchFailed(b) ==
    /\ session[b].at = "open"
    /\ session[b].ended # NoBatch
    /\ ~session[b].ok
    /\ scheduled' = scheduled \cup TasksOf(session[b].regs)
    /\ session' = [session EXCEPT ![b] = Over(b)]
    /\ UNCHANGED <<storeVars, serverVars, requestVars, delegateMtx, running, worker,
                   registeredIntents, monitorVars>>

-----------------------------------------------------------------------------
(* monitorVtxosSpent.                                                       *)

SpendOutside(x) ==
    /\ SpendElsewhere(x)
    /\ txEvents' = IF running THEN txEvents \cup {x} ELSE txEvents
    /\ UNCHANGED <<storeVars, requestVars, delegateMtx, running, scheduled, worker,
                   registeredIntents, session, spentOutpoints>>

\* A transaction event arrives.  One that never does is a lost event.
ReceiveSpent(x) ==
    /\ x \in txEvents
    /\ txEvents' = txEvents \ {x}
    /\ spentOutpoints' = spentOutpoints \cup {x}
    /\ UNCHANGED <<storeVars, serverVars, requestVars, delegateMtx, running, scheduled,
                   worker, registeredIntents, session>>

\* Faulty variant: the list is reset and its outpoints are not acted on.
MonitorTickForgets ==
    /\ running
    /\ spentOutpoints # {}
    /\ delegateMtx = NoTask
    /\ spentOutpoints' = {}
    /\ UNCHANGED <<storeVars, serverVars, requestVars, delegateMtx, running, scheduled,
                   worker, registeredIntents, session, txEvents>>

\* The tick takes the list and, under delegateMtx, cancels the pending tasks
\* that spend one of its outpoints.  A failed update loses the list.
MonitorTick ==
    /\ running
    /\ spentOutpoints # {}
    /\ delegateMtx = NoTask
    /\ spentOutpoints' = {}
    /\ \/ CancelTasks(PendingOfInputs(spentOutpoints))
       \/ Faults /\ UNCHANGED storeVars
    /\ UNCHANGED <<serverVars, requestVars, delegateMtx, running, scheduled, worker,
                   registeredIntents, session, txEvents>>

-----------------------------------------------------------------------------
(* Start, Stop and the end of the process.                                  *)

\* Faulty variant: nothing is restored.
StartWithoutRestore ==
    /\ ~running
    /\ running' = TRUE
    /\ UNCHANGED <<storeVars, serverVars, requestVars, delegateMtx, scheduled, worker,
                   registeredIntents, session, monitorVars>>

\* Schedules every pending task, but goes on when it cannot list them or
\* schedule one of them.
RestorePendingTasks ==
    \E restored \in SUBSET Pending :
        /\ restored = Pending \/ Faults
        /\ scheduled' = scheduled \cup restored

\* A new context, the restored tasks, the listener and the monitor.
Start ==
    /\ ~running
    /\ running' = TRUE
    /\ RestorePendingTasks
    /\ UNCHANGED <<storeVars, serverVars, requestVars, delegateMtx, worker,
                   registeredIntents, session, monitorVars>>

\* Sessions, listener and monitor see the cancelled context and end.
EndGoroutines ==
    /\ running' = FALSE
    /\ session' = [b \in Batch |->
           IF session[b].at \in {"announced", "confirming", "open"} THEN Over(b)
           ELSE session[b]]
    /\ txEvents' = {}
    /\ spentOutpoints' = {}

\* Stop cancels the context.  registeredIntents is kept; so are scheduled runs,
\* which end in ReadTask or merge with those the next Start schedules.
Stop ==
    /\ running
    /\ EndGoroutines
    /\ UNCHANGED <<storeVars, serverVars, requestVars, delegateMtx, scheduled, worker,
                   registeredIntents>>

\* The process dies: all but the task table and the server is gone.
Crash ==
    /\ EndGoroutines
    /\ call' = [t \in Task |-> IF call[t] \in {"added", "done"} THEN "done" ELSE "idle"]
    /\ want' = [t \in Task |-> NoIntent]
    /\ allowReplace' = [t \in Task |-> FALSE]
    /\ delegateMtx' = NoTask
    /\ scheduled' = {}
    /\ worker' = [w \in Worker |-> IdleWorker]
    /\ registeredIntents' = {}
    /\ UNCHANGED <<storeVars, serverVars>>

-----------------------------------------------------------------------------
Request(t) ==
    \/ \E i \in Intent, replace \in BOOLEAN : Delegate(t, i, replace)
    \/ LockAndCheck(t)
    \/ RejectOverlap(t)
    \/ CancelOverlapping(t)
    \/ AddTask(t)
    \/ DelegateDbError(t)
    \/ ScheduleTask(t)
    \/ ScheduleError(t)

RegisterDelegate(w) ==
    \/ \E t \in Task : ReadTask(w, t)
    \/ \E r \in Reg : RegisterIntent(w, r)
    \/ \E r \in Reg : RegisterAnswerLost(w, r)
    \/ RegisterError(w)
    \/ StoreRegistered(w)
    \/ FailRegistration(w)

BatchSession(b) ==
    \/ ListenBatchStarted(b)
    \/ \E r \in Reg : ConfirmRegistration(b, r)
    \/ \E r \in Reg : ConfirmError(b, r)
    \/ OpenStream(b)
    \/ SessionError(b)
    \/ SubmitForfeits(b)
    \/ OnBatchFinalized(b)
    \/ OnBatchFailed(b)

Server ==
    \/ \E b \in Batch, regs \in SUBSET Reg : ServerStartsBatch(b, regs)
    \/ ServerFinalizes
    \/ \E heard \in SUBSET Batch : ServerSettlesBatch(heard)
    \/ \E heard \in SUBSET Batch : ServerAbortsBatch(heard)
    \/ \E x \in Input : SpendOutside(x)

Monitor == (\E x \in Input : ReceiveSpent(x)) \/ MonitorTick

Lifecycle == Start \/ Stop \/ Crash

Next ==
    \/ \E t \in Task : Request(t)
    \/ \E w \in Worker : RegisterDelegate(w)
    \/ \E b \in Batch : BatchSession(b)
    \/ Server
    \/ Monitor
    \/ Lifecycle

Spec == Init /\ [][Next]_vars

\* Goroutines that are ready run: a request goes on to its return, a scheduled
\* task begins, a registerDelegate run ends, the ticker ticks.  Nothing is
\* assumed of clients, of the server, of streams or of lock and unlock.
Fairness ==
    /\ \A t \in Task : WF_vars(LockAndCheck(t) \/ RejectOverlap(t) \/ CancelOverlapping(t)
                               \/ AddTask(t) \/ ScheduleTask(t) \/ ScheduleError(t))
    /\ \A t \in Task : SF_vars(\E w \in Worker : ReadTask(w, t))
    /\ \A w \in Worker : WF_vars((\E r \in Reg : RegisterIntent(w, r)) \/ RegisterError(w)
                                 \/ StoreRegistered(w) \/ FailRegistration(w))
    /\ SF_vars(MonitorTick)

FairSpec == Spec /\ Fairness

-----------------------------------------------------------------------------
(* Properties.                                                              *)

WorkerState ==
    [at : {"idle", "register", "store", "fail"}, task : Task \cup {NoTask}, reg : Reg \cup {NoReg}]

SessionState ==
    [at : {"none", "announced", "confirming", "open", "over"}, regs : SUBSET Reg,
     todo : SUBSET Reg, ended : Batch \cup {NoBatch}, ok : BOOLEAN]

\* A run that began is that of a row, and stores what the server handed out.
RunsOfRows ==
    \A w \in Worker :
        /\ worker[w].at # "idle" => worker[w].task \in Task /\ status[worker[w].task] # "none"
        /\ worker[w].at = "store" => worker[w].reg \in Reg

\* A session works for registrations made for tasks.
SessionsOfTasks == \A b \in Batch : TasksOf(session[b].regs) \subseteq Task

ServiceTypeOK ==
    /\ call \in [Task -> {"idle", "checked", "cancelling", "adding", "added", "done"}]
    /\ want \in [Task -> Intent \cup {NoIntent}]
    /\ \A t \in Task : call[t] \in {"checked", "cancelling", "adding"} => want[t] \in Intent
    /\ allowReplace \in [Task -> BOOLEAN]
    /\ delegateMtx \in Task \cup {NoTask}
    /\ running \in BOOLEAN
    /\ scheduled \subseteq Task
    /\ worker \in [Worker -> WorkerState]
    /\ RunsOfRows
    /\ registeredIntents \subseteq Reg
    /\ session \in [Batch -> SessionState]
    /\ SessionsOfTasks
    /\ txEvents \subseteq Input
    /\ spentOutpoints \subseteq Input

\* Every variable has its type: the rows of the task table, what the server
\* keeps, and the goroutines of the service.
TypeOK == StoreTypeOK /\ ServerTypeOK /\ ServiceTypeOK

\* No VTXO is delegated twice at a time: the pending tasks have disjoint
\* inputs, however requests, failures and completions interleave with the
\* check Delegate makes under delegateMtx.
NoOverlap ==
    \A t, u \in Pending : t # u => InputsOf[intent[t]] \cap InputsOf[intent[u]] = {}

\* A task is completed exactly when it names a commitment transaction, and
\* then that batch did settle and the task had been registered.
CompletionIsBacked ==
    \A t \in Task :
        /\ (status[t] = "completed") <=> (commitmentTxid[t] # NoBatch)
        /\ status[t] = "completed" =>
               /\ commitmentTxid[t] \in settled
               /\ \E r \in Reg : owner[r] = t

\* What closes a task closes it for good: a completion, a failure, a
\* cancellation and a replacement race, and the first one wins.
TerminalIsFinal ==
    [][\A t \in Task : status[t] \in TerminalStatus =>
           /\ status'[t] = status[t]
           /\ commitmentTxid'[t] = commitmentTxid[t]
           /\ intent'[t] = intent[t]]_vars

\* A pending task is cancelled for one of two reasons: one of its inputs is
\* spent, or a request that may replace it and shares an input holds the lock.
CancelledForCause ==
    [][\A t \in Task : (status[t] = "pending" /\ status'[t] = "cancelled") =>
           \/ InputsOf[intent[t]] \cap spent # {}
           \/ \E u \in Task :
                  /\ delegateMtx = u
                  /\ allowReplace[u]
                  /\ InputsOf[intent[t]] \cap InputsOf[want[u]] # {}]_vars

\* Of a pending task of a service that runs somebody knows: the scheduler, the
\* request that stores it, a registerDelegate run or the server.  No Stop, Start
\* or crash, and no failure at the server, leaves one that nobody will try; errors
\* of the task table and of the scheduler do, for they are logged only.
PendingIsKept ==
    \A t \in Pending :
        running => \/ t \in scheduled
                   \/ call[t] = "added"
                   \/ \E w \in Worker : worker[w].at # "idle" /\ worker[w].task = t
                   \/ \E r \in Reg : owner[r] = t

\* Every pending task is registered with the server at least once, unless it
\* is closed first: neither a Stop nor a crash loses a task for good.
PendingIsTried ==
    \A t \in Task :
        (status[t] = "pending" /\ running) ~>
            (status[t] # "pending" \/ (\E r \in Reg : owner[r] = t) \/ ~running)

\* Once the monitor heard that an input is spent, the pending task that spends
\* it is closed.
SpentIsClosed ==
    \A t \in Task :
        (/\ status[t] = "pending"
         /\ running
         /\ InputsOf[intent[t]] \cap spentOutpoints # {}) ~>
            (status[t] # "pending" \/ ~running)

-----------------------------------------------------------------------------
(* The inductive invariant: why the properties above hold.                  *)

\* delegateMtx is held through the critical section of Delegate; a row exists
\* from AddTask on, and a replacement is made only on behalf of its flag.
LockInv ==
    \A t \in Task :
        /\ call[t] \in {"cancelling", "adding", "added"} => delegateMtx = t
        /\ call[t] = "cancelling" => allowReplace[t]
        /\ status[t] = "none" <=> call[t] \in {"idle", "checked", "cancelling", "adding"}

\* What the check found under the mutex is still true when the task is added.
CheckInv ==
    \A t \in Task : call[t] = "adding" => Overlapping(t) = {}

\* The monitor knows of no input that is not spent.
MonitorInv ==
    /\ txEvents \subseteq spent
    /\ spentOutpoints \subseteq spent

\* A session is told of the end of a batch that ended as it is told.
SessionInv ==
    /\ phase # "idle" => round \in Batch
    /\ \A b \in Batch : (session[b].ended # NoBatch /\ session[b].ok) =>
           session[b].ended \in settled

IInv ==
    /\ TypeOK
    /\ LockInv
    /\ CheckInv
    /\ NoOverlap
    /\ MonitorInv
    /\ SessionInv
    /\ CompletionIsBacked

-----------------------------------------------------------------------------
(* The service implements the custody of VTXOs: the custodian of a VTXO is  *)
(* the pending task that spends it.                                         *)

Custodian(x) ==
    IF \E t \in Pending : x \in InputsOf[intent[t]]
    THEN CHOOSE t \in Pending : x \in InputsOf[intent[t]]
    ELSE NoTask

Custody == INSTANCE VtxoCustody WITH
    custodian <- [x \in Input |-> Custodian(x)],
    outcome <- status

\* Whatever the service does to the task table hands VTXOs over, or gives them
\* back, as VtxoCustody allows.
KeepsCustody == Custody!CustodySpec

-----------------------------------------------------------------------------
(* What the code, its comments and the README say of it and it does not do. *)

\* A task is recorded as completed by the batch that refreshed its VTXOs.
CompletedWasRefreshed ==
    \A t \in Task : status[t] = "completed" =>
        \E r \in Reg : owner[r] = t /\ settledIn[r] = commitmentTxid[t]
=============================================================================
