------------------------------ MODULE ArkServer ------------------------------
(***************************************************************************)
(* The Ark server, external to this repository, as the delegate service    *)
(* uses it through client.Client and indexer.Indexer: it accepts intent    *)
(* registrations, runs one batch at a time over some of them and those of  *)
(* other participants, includes the confirmed, needs their forfeits, and   *)
(* settles or fails the batch.  It decides everything nondeterministically;*)
(* what it knows (which batch settled, which registrations it refreshed,   *)
(* which VTXOs are spent) is the truth the delegate's own records are      *)
(* compared with.                                                          *)
(***************************************************************************)
EXTENDS DelegateStore

CONSTANTS
    Reg,            \* intent ids the server hands out, one per registration
    Recoverable,    \* inputs that are swept or expired: no forfeit is needed
    NoTask,
    NoReg

ASSUME ServerAssumption ==
    /\ Batch \subseteq Nat \ {0}
    /\ NoBatch = 0
    /\ Recoverable \subseteq Input
    /\ NoTask \notin Task
    /\ NoReg \notin Reg

VARIABLES
    owner,      \* the task each registration was made for
    queue,      \* registrations waiting for a batch
    round,      \* number of the last batch started, 0 before the first
    phase,      \* of that batch: "idle" once it is over
    selected,   \* registrations it was started with
    confirmed,  \* those of them that were confirmed in time
    forfeited,  \* those of them whose forfeits were submitted
    settled,    \* the batches that settled
    settledIn,  \* the batch that refreshed each registration
    spent       \* VTXOs that are spent

serverVars ==
    <<owner, queue, round, phase, selected, confirmed, forfeited, settled, settledIn,
      spent>>

ServerInit ==
    /\ owner = [r \in Reg |-> NoTask]
    /\ queue = {}
    /\ round = NoBatch
    /\ phase = "idle"
    /\ selected = {}
    /\ confirmed = {}
    /\ forfeited = {}
    /\ settled = {}
    /\ settledIn = [r \in Reg |-> NoBatch]
    /\ spent = {}

-----------------------------------------------------------------------------
InputsOfReg(r) == InputsOf[intent[owner[r]]]
TasksOf(regs) == {owner[r] : r \in regs}

\* Registrations that a batch cannot settle without a forfeit.
NeedForfeit(regs) == {r \in regs : InputsOfReg(r) \ Recoverable # {}}

\* RegisterIntent: a new intent id, refused once an input is spent.
AcceptRegistration(r, t) ==
    /\ owner[r] = NoTask
    /\ InputsOf[intent[t]] \cap spent = {}
    /\ owner' = [owner EXCEPT ![r] = t]
    /\ queue' = queue \cup {r}
    /\ UNCHANGED <<round, phase, selected, confirmed, forfeited, settled, settledIn, spent>>

\* A batch starts over some of the registrations that wait, or none of ours.
BeginBatch(b, regs) ==
    /\ phase = "idle"
    /\ b = round + 1
    /\ regs \subseteq queue
    /\ round' = b
    /\ phase' = "started"
    /\ queue' = queue \ regs
    /\ selected' = regs
    /\ confirmed' = {}
    /\ forfeited' = {}
    /\ UNCHANGED <<owner, settled, settledIn, spent>>

\* ConfirmRegistration is honoured while the batch is being assembled, for
\* inputs that are unspent and that no other confirmed registration spends.
CanConfirm(b, r) ==
    /\ round = b
    /\ phase = "started"
    /\ r \in selected
    /\ InputsOfReg(r) \cap spent = {}
    /\ \A q \in confirmed \ {r} : InputsOfReg(q) \cap InputsOfReg(r) = {}

AcceptConfirmation(r) ==
    /\ confirmed' = confirmed \cup {r}
    /\ UNCHANGED <<owner, queue, round, phase, selected, forfeited, settled, settledIn, spent>>

\* The tree is signed: the server asks the confirmed for their forfeits.
BeginFinalization ==
    /\ phase = "started"
    /\ phase' = "finalizing"
    /\ UNCHANGED <<owner, queue, round, selected, confirmed, forfeited, settled, settledIn, spent>>

AcceptForfeits(regs) ==
    /\ forfeited' = forfeited \cup regs
    /\ UNCHANGED <<owner, queue, round, phase, selected, confirmed, settled, settledIn, spent>>

\* The commitment transaction refreshes the confirmed registrations.
CanSettle ==
    /\ phase = "finalizing"
    /\ NeedForfeit(confirmed) \subseteq forfeited
    /\ \A r \in confirmed : InputsOfReg(r) \cap spent = {}

SettleBatch ==
    /\ CanSettle
    /\ phase' = "idle"
    /\ settled' = settled \cup {round}
    /\ settledIn' = [r \in Reg |-> IF r \in confirmed THEN round ELSE settledIn[r]]
    /\ spent' = spent \cup UNION {InputsOfReg(r) : r \in confirmed}
    /\ UNCHANGED <<owner, queue, round, selected, confirmed, forfeited>>

\* The server gives up the batch and forgets its registrations.
AbortBatch ==
    /\ phase # "idle"
    /\ phase' = "idle"
    /\ UNCHANGED <<owner, queue, round, selected, confirmed, forfeited, settled, settledIn, spent>>

\* The owner of a VTXO spends it without the delegate.
SpendElsewhere(x) ==
    /\ x \notin spent
    /\ spent' = spent \cup {x}
    /\ UNCHANGED <<owner, queue, round, phase, selected, confirmed, forfeited, settled, settledIn>>

-----------------------------------------------------------------------------
ServerTypeOK ==
    /\ owner \in [Reg -> Task \cup {NoTask}]
    /\ \A r \in Reg : owner[r] # NoTask => status[owner[r]] # "none"
    /\ queue \subseteq Reg
    /\ round \in Batch \cup {NoBatch}
    /\ phase \in {"idle", "started", "finalizing"}
    /\ selected \subseteq Reg
    /\ TasksOf(queue \cup selected) \subseteq Task
    /\ confirmed \subseteq selected
    /\ forfeited \subseteq Reg
    /\ settled \subseteq Batch \cup {NoBatch}
    /\ settledIn \in [Reg -> Batch \cup {NoBatch}]
    /\ spent \subseteq Input
=============================================================================
