---------------------------- MODULE DelegateStore ----------------------------
(***************************************************************************)
(* The table of delegate tasks behind domain.DelegateRepository, with the  *)
(* semantics of its SQLite implementation: every operation is one SQL      *)
(* statement or one transaction, and the three terminal updates change     *)
(* only rows whose status is still pending (WHERE status = 0).             *)
(*                                                                         *)
(* A row is kept as three functions of the task id: status, the intent it  *)
(* registers (its txid stands for proof, message and forfeits, all         *)
(* immutable) and the commitment txid written on completion.               *)
(***************************************************************************)
EXTENDS Naturals, FiniteSets

CONSTANTS
    Task,       \* task ids: the uuids drawn by newDelegateTask
    Intent,     \* intents clients submit, named by their txid
    Input,      \* outpoints of VTXOs
    Batch,      \* batches of the Ark server, named by their commitment txid
    InputsOf,   \* the outpoints an intent spends
    NoIntent,   \* intent of a row that does not exist
    NoBatch     \* commitment txid of a row that has none

ASSUME StoreAssumption ==
    /\ InputsOf \in [Intent -> (SUBSET Input) \ {{}}]
    /\ NoIntent \notin Intent
    /\ NoBatch \notin Batch

VARIABLES
    status,         \* status of each task; "none" before the row is inserted
    intent,         \* intent of each task
    commitmentTxid  \* the batch that completed the task

storeVars == <<status, intent, commitmentTxid>>

\* domain.DelegateTaskStatus; "none" is the absence of a row.
TerminalStatus == {"completed", "failed", "cancelled"}
Status == {"none", "pending"} \cup TerminalStatus

StoreInit ==
    /\ status = [t \in Task |-> "none"]
    /\ intent = [t \in Task |-> NoIntent]
    /\ commitmentTxid = [t \in Task |-> NoBatch]

-----------------------------------------------------------------------------
(* Queries.                                                                 *)

\* GetAllPending
Pending == {t \in Task : status[t] = "pending"}

\* GetPendingTaskByIntentTxID: the pending tasks of an intent.
PendingOfIntent(i) == {t \in Pending : intent[t] = i}

\* GetPendingTaskIDsByInputs: the pending tasks that spend one of the inputs.
PendingOfInputs(ins) == {t \in Pending : InputsOf[intent[t]] \cap ins # {}}

-----------------------------------------------------------------------------
(* Updates.                                                                 *)

\* Add: one transaction inserts the task and its inputs.
Add(t, i) ==
    /\ status' = [status EXCEPT ![t] = "pending"]
    /\ intent' = [intent EXCEPT ![t] = i]
    /\ UNCHANGED commitmentTxid

\* Faulty variant: the WHERE clause forgets the status.
CloseAny(ids, s) ==
    [t \in Task |-> IF t \in ids /\ status[t] # "none" THEN s ELSE status[t]]

\* UPDATE ... SET status = s WHERE status = 0 AND id IN ids
ClosePending(ids, s) ==
    [t \in Task |-> IF t \in ids /\ status[t] = "pending" THEN s ELSE status[t]]

CancelTasks(ids) ==
    /\ status' = ClosePending(ids, "cancelled")
    /\ UNCHANGED <<intent, commitmentTxid>>

FailTasks(ids) ==
    /\ status' = ClosePending(ids, "failed")
    /\ UNCHANGED <<intent, commitmentTxid>>

\* The same statement sets the status and the commitment txid.
CompleteTasks(b, ids) ==
    /\ status' = ClosePending(ids, "completed")
    /\ commitmentTxid' = [t \in Task |->
           IF t \in ids /\ status[t] = "pending" THEN b ELSE commitmentTxid[t]]
    /\ UNCHANGED intent

-----------------------------------------------------------------------------
StoreTypeOK ==
    /\ status \in [Task -> Status]
    /\ intent \in [Task -> Intent \cup {NoIntent}]
    /\ commitmentTxid \in [Task -> Batch \cup {NoBatch}]
    /\ \A t \in Task : status[t] # "none" => intent[t] \in Intent
=============================================================================
