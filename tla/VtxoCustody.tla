----------------------------- MODULE VtxoCustody -----------------------------
(***************************************************************************)
(* What the delegate promises the owners of VTXOs, with nothing of how it  *)
(* does it: a VTXO is in the custody of at most one task at a time.  A     *)
(* task takes custody of all its VTXOs at once, only of VTXOs nobody has,  *)
(* and gives all of them back in the step that decides its outcome, once.  *)
(***************************************************************************)
CONSTANTS
    Task,
    Input,
    NoTask

Outcome == {"completed", "failed", "cancelled"}

VARIABLES
    custodian,  \* the task that has custody of each VTXO, or NoTask
    outcome     \* "none" before a task exists, "pending" while it is open

custodyVars == <<custodian, outcome>>

CustodyInit ==
    /\ custodian = [x \in Input |-> NoTask]
    /\ outcome = [t \in Task |-> "none"]

Entrust(t, ins) ==
    /\ outcome[t] = "none"
    /\ ins # {}
    /\ \A x \in ins : custodian[x] = NoTask
    /\ custodian' = [x \in Input |-> IF x \in ins THEN t ELSE custodian[x]]
    /\ outcome' = [outcome EXCEPT ![t] = "pending"]

\* Several tasks may be closed by one cause: a batch, a spending transaction.
Release(ts, o) ==
    /\ \A t \in ts : outcome[t] = "pending"
    /\ custodian' = [x \in Input |-> IF custodian[x] \in ts THEN NoTask ELSE custodian[x]]
    /\ outcome' = [t \in Task |-> IF t \in ts THEN o ELSE outcome[t]]

CustodyNext ==
    \/ \E t \in Task, ins \in SUBSET Input : Entrust(t, ins)
    \/ \E ts \in SUBSET Task, o \in Outcome : Release(ts, o)

CustodySpec == CustodyInit /\ [][CustodyNext]_custodyVars
=============================================================================
