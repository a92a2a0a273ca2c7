--------------------------- MODULE WalletLifecycle ---------------------------
(***************************************************************************)
(* The life cycle of the wallet: Setup, UnlockNode, LockNode and           *)
(* ResetWallet, called by gRPC, web and start-up goroutines that share the *)
(* fields of Service without a mutex, and the goroutines UnlockNode leaves *)
(* behind: one waits for the wallet to sync, holding syncLock, and the     *)
(* next assembles what the wallet's users need and opens the gate that     *)
(* isInitializedAndUnlocked guards, or unwinds the unlock.                 *)
(***************************************************************************)
CONSTANTS
    Call,       \* bound: calls under way at once; a call that ended is reused
    NoCall,
    Op,         \* the operations clients call: "setup" "unlock" "lock" "reset"
    Faults,     \* calls that may fail: "unlock" "assemble" "dump" "lock"
    Serial      \* TRUE: a client calls when the call before has returned, and resets
                \* the wallet when nothing is left of the calls before

ASSUME LifecycleAssumption ==
    /\ NoCall \notin Call
    /\ Op \subseteq {"setup", "unlock", "lock", "reset"}
    /\ Faults \subseteq {"unlock", "assemble", "dump", "lock"}
    /\ Serial \in BOOLEAN

VARIABLES
    isInitialized,
    locked,         \* Wallet.IsLocked, kept by the SDK
    walletReady,
    synced,         \* syncEvent # nil
    syncCh,         \* the channel in the field syncCh, named by the call that made it
    chan,           \* state of the channel each call made; its capacity is one event
    syncLock,       \* the call whose sync goroutine holds syncLock
    key,            \* privateKey and publicKey are set
    delegate,       \* the delegate service is started
    scheduler,      \* the scheduler is started
    subscription,   \* externalSubscription is live
    call,           \* where each call is
    op,             \* the operation of each call
    final,          \* where the goroutines left by each unlock are
    sendTo,         \* the channel on which a sync goroutine sends
    panicked        \* the process has died of a panic

fields == <<isInitialized, locked, walletReady, synced, syncCh, key, delegate, scheduler,
            subscription>>
channels == <<chan, syncLock, sendTo, panicked>>
vars == <<fields, channels, call, op, final>>

\* isInitializedAndUnlocked
GateOpen == isInitialized /\ ~locked /\ synced /\ walletReady

\* newService: a wallet found in the data directory is initialized and locked.
Init ==
    /\ isInitialized \in BOOLEAN
    /\ locked = TRUE
    /\ walletReady = FALSE
    /\ synced = FALSE
    /\ syncCh = NoCall
    /\ chan = [q \in Call |-> "none"]
    /\ syncLock = NoCall
    /\ key = FALSE
    /\ delegate = FALSE
    /\ scheduler = FALSE
    /\ subscription = FALSE
    /\ call = [q \in Call |-> "idle"]
    /\ op = [q \in Call |-> "none"]
    /\ final = [q \in Call |-> "none"]
    /\ sendTo = [q \in Call |-> NoCall]
    /\ panicked = FALSE

-----------------------------------------------------------------------------
(* Steps of the two kinds of threads.                                       *)

CallGoes(q, from, to) ==
    /\ ~panicked
    /\ call[q] = from
    /\ call' = [call EXCEPT ![q] = to]
    /\ UNCHANGED <<op, final>>

FinalGoes(q, from, to) ==
    /\ ~panicked
    /\ final[q] = from
    /\ final' = [final EXCEPT ![q] = to]
    /\ UNCHANGED <<op, call>>

\* A client calls operation o.  The name q is free once nothing is left of the
\* call that had it.
Begin(q, o) ==
    /\ ~panicked
    /\ o \in Op
    /\ call[q] = "idle"
    /\ final[q] = "none"
    /\ Serial => \A p \in Call : call[p] = "idle"
    /\ op' = [op EXCEPT ![q] = o]
    /\ UNCHANGED final

\* No call and no goroutine of an unlock is under way.
Resting == \A q \in Call : call[q] = "idle" /\ final[q] = "none"

-----------------------------------------------------------------------------
(* Setup and UnlockNode.                                                    *)

\* The wallet is created, and is locked.
Setup(q) ==
    /\ Begin(q, "setup")
    /\ ~isInitialized
    /\ isInitialized' = TRUE
    /\ locked' = TRUE
    /\ UNCHANGED <<walletReady, synced, syncCh, key, delegate, scheduler, subscription,
                   channels, call>>

\* Unlocking an unlocked wallet does nothing.
UnlockNode(q) ==
    /\ Begin(q, "unlock")
    /\ isInitialized
    /\ locked
    /\ call' = [call EXCEPT ![q] = "unlock"]
    /\ UNCHANGED <<fields, channels>>

\* The gate is closed, then the SDK unlocks the wallet or refuses to.
UnlockWallet(q) ==
    /\ \/ CallGoes(q, "unlock", "assemble") /\ locked' = FALSE
       \/ "unlock" \in Faults /\ CallGoes(q, "unlock", "idle") /\ UNCHANGED locked
    /\ walletReady' = FALSE
    /\ UNCHANGED <<isInitialized, synced, syncCh, key, delegate, scheduler, subscription,
                   channels>>

\* The scheduler is started; the configuration or the subscription may fail,
\* and the call returns the error.
Assemble(q) ==
    /\ \/ CallGoes(q, "assemble", "arm") /\ subscription' = TRUE
       \/ "assemble" \in Faults /\ CallGoes(q, "assemble", "idle") /\ UNCHANGED subscription
    /\ scheduler' = TRUE
    /\ UNCHANGED <<isInitialized, locked, walletReady, synced, syncCh, key, delegate, channels>>

\* Faulty variant: the field is set before the channel is made.
ArmSyncUnmade(q) ==
    /\ ~panicked
    /\ call[q] = "arm"
    /\ \A p \in Call : sendTo[p] # q
    /\ syncCh' = q
    /\ call' = [call EXCEPT ![q] = "idle"]
    /\ final' = [final EXCEPT ![q] = "acquire"]
    /\ UNCHANGED <<isInitialized, locked, walletReady, synced, key, delegate, scheduler,
                   subscription, channels, op>>

\* A new channel for the event, and the goroutines that wait for it.
ArmSync(q) ==
    /\ ~panicked
    /\ call[q] = "arm"
    /\ \A p \in Call : sendTo[p] # q
    /\ syncCh' = q
    /\ chan' = [chan EXCEPT ![q] = "open"]
    /\ call' = [call EXCEPT ![q] = "idle"]
    /\ final' = [final EXCEPT ![q] = "acquire"]
    /\ UNCHANGED <<isInitialized, locked, walletReady, synced, key, delegate, scheduler,
                   subscription, syncLock, sendTo, panicked, op>>

-----------------------------------------------------------------------------
(* The goroutines UnlockNode leaves behind.                                 *)

AcquireSyncLock(q) ==
    /\ FinalGoes(q, "acquire", "event")
    /\ syncLock = NoCall
    /\ syncLock' = q
    /\ UNCHANGED <<fields, chan, sendTo, panicked>>

\* The wallet, while it is unlocked, reports that it is synced.
SyncEvent(q) ==
    /\ FinalGoes(q, "event", "send")
    /\ ~locked
    /\ synced' = TRUE
    /\ sendTo' = [sendTo EXCEPT ![q] = syncCh]
    /\ UNCHANGED <<isInitialized, locked, walletReady, syncCh, key, delegate, scheduler,
                   subscription, chan, syncLock, panicked>>

\* Faulty variant: syncLock is not released.
SendEventLocked(q) ==
    /\ FinalGoes(q, "send", "key")
    /\ sendTo[q] # NoCall
    /\ chan[sendTo[q]] = "open"
    /\ chan' = [chan EXCEPT ![sendTo[q]] = "full"]
    /\ sendTo' = [sendTo EXCEPT ![q] = NoCall]
    /\ UNCHANGED <<fields, syncLock, panicked>>

\* The send blocks on a nil channel for ever and on a full one until a reader
\* comes; then syncLock is released and the next goroutine goes on.
SendEvent(q) ==
    /\ FinalGoes(q, "send", "key")
    /\ sendTo[q] # NoCall
    /\ chan[sendTo[q]] = "open"
    /\ chan' = [chan EXCEPT ![sendTo[q]] = "full"]
    /\ sendTo' = [sendTo EXCEPT ![q] = NoCall]
    /\ syncLock' = NoCall
    /\ UNCHANGED <<fields, panicked>>

\* A send on a closed channel panics.
SendPanics(q) ==
    /\ ~panicked
    /\ final[q] = "send"
    /\ sendTo[q] # NoCall
    /\ chan[sendTo[q]] = "closed"
    /\ panicked' = TRUE
    /\ UNCHANGED <<fields, chan, syncLock, sendTo, call, op, final>>

\* A web client that waits for the event takes it.
ReadEvent(q) ==
    /\ ~panicked
    /\ chan[q] = "full"
    /\ chan' = [chan EXCEPT ![q] = "open"]
    /\ UNCHANGED <<fields, syncLock, sendTo, panicked, call, op, final>>

\* The event is gone: somebody locked or reset the wallet, there is nothing to do.
GiveUp(q) ==
    /\ FinalGoes(q, "key", "none")
    /\ ~synced
    /\ UNCHANGED <<fields, channels>>

\* The delegate's signer key is loaded.
LoadKey(q) ==
    /\ FinalGoes(q, "key", "start")
    /\ synced
    /\ key' = TRUE
    /\ UNCHANGED <<isInitialized, locked, walletReady, synced, syncCh, delegate, scheduler,
                   subscription, channels>>

\* Faulty variant: the error is logged only.
DumpFailsLogged(q) ==
    /\ "dump" \in Faults
    /\ synced
    /\ FinalGoes(q, "key", "start")
    /\ UNCHANGED <<fields, channels>>

\* Faulty variant: the wallet is locked first, as LockNode does it.
DumpFailsRelocking(q) ==
    /\ "dump" \in Faults
    /\ synced
    /\ FinalGoes(q, "key", "unwind services")
    /\ locked' = TRUE
    /\ UNCHANGED <<isInitialized, walletReady, synced, syncCh, key, delegate, scheduler,
                   subscription, channels>>

\* It cannot be loaded: unwindFailedUnlock.
DumpFails(q) ==
    /\ "dump" \in Faults
    /\ synced
    /\ FinalGoes(q, "key", "unwind services")
    /\ UNCHANGED <<fields, channels>>

\* onUnlock: DelegateService.Start.
StartDelegate(q) ==
    /\ FinalGoes(q, "start", "open")
    /\ delegate' = TRUE
    /\ UNCHANGED <<isInitialized, locked, walletReady, synced, syncCh, key, scheduler,
                   subscription, channels>>

OpenGate(q) ==
    /\ FinalGoes(q, "open", "none")
    /\ walletReady' = TRUE
    /\ UNCHANGED <<isInitialized, locked, synced, syncCh, key, delegate, scheduler,
                   subscription, channels>>

-----------------------------------------------------------------------------
(* LockNode, ResetWallet and unwindFailedUnlock tear the same things down.  *)

LockNode(q) ==
    /\ Begin(q, "lock")
    /\ GateOpen
    /\ call' = [call EXCEPT ![q] = "lock"]
    /\ UNCHANGED <<fields, channels>>

\* LockNode locks the wallet first, and returns the error when it cannot.
LockWallet(q) ==
    /\ \/ CallGoes(q, "lock", "delegate") /\ locked' = TRUE
       \/ "lock" \in Faults /\ CallGoes(q, "lock", "idle") /\ UNCHANGED locked
    /\ UNCHANGED <<isInitialized, walletReady, synced, syncCh, key, delegate, scheduler,
                   subscription, channels>>

\* ResetWallet asks nobody: the SDK wipes the wallet, which may lock it.
ResetWallet(q) ==
    /\ Begin(q, "reset")
    /\ Serial => Resting
    /\ locked' \in {locked, TRUE}
    /\ call' = [call EXCEPT ![q] = "delegate"]
    /\ UNCHANGED <<isInitialized, walletReady, synced, syncCh, key, delegate, scheduler,
                   subscription, channels>>

\* Faulty variant: the delegate service is left running.
StopDelegateKeeps(q) ==
    /\ \/ CallGoes(q, "delegate", "services")
       \/ FinalGoes(q, "unwind delegate", "unwind gate")
    /\ key' = FALSE
    /\ UNCHANGED <<isInitialized, locked, walletReady, synced, syncCh, delegate, scheduler,
                   subscription, channels>>

\* onLock, then clearSignerKey.
StopDelegate(q) ==
    /\ \/ CallGoes(q, "delegate", "services")
       \/ FinalGoes(q, "unwind delegate", "unwind gate")
    /\ delegate' = FALSE
    /\ key' = FALSE
    /\ UNCHANGED <<isInitialized, locked, walletReady, synced, syncCh, scheduler,
                   subscription, channels>>

StopServices(q) ==
    /\ \/ CallGoes(q, "services", "gate")
       \/ FinalGoes(q, "unwind services", "unwind delegate")
    /\ scheduler' = FALSE
    /\ subscription' = FALSE
    /\ UNCHANGED <<isInitialized, locked, walletReady, synced, syncCh, key, delegate, channels>>

\* The gate is closed and the channel, if there is one; closing it twice panics.
CloseGate(q) ==
    /\ \/ /\ CallGoes(q, "gate", "channel")
          /\ isInitialized' = (isInitialized /\ op[q] # "reset")
       \/ /\ FinalGoes(q, "unwind gate", "unwind channel")
          /\ UNCHANGED isInitialized
    /\ walletReady' = FALSE
    /\ synced' = FALSE
    /\ IF syncCh = NoCall THEN UNCHANGED <<chan, panicked>>
       ELSE /\ chan' = [chan EXCEPT ![syncCh] = "closed"]
            /\ panicked' = (chan[syncCh] = "closed")
    /\ UNCHANGED <<locked, syncCh, key, delegate, scheduler, subscription, syncLock, sendTo>>

\* Faulty variant: the field keeps the closed channel.
ForgetChannelKept(q) ==
    /\ CallGoes(q, "channel", "idle") \/ FinalGoes(q, "unwind channel", "relock")
    /\ UNCHANGED <<fields, channels>>

ForgetChannel(q) ==
    /\ CallGoes(q, "channel", "idle") \/ FinalGoes(q, "unwind channel", "relock")
    /\ syncCh' = NoCall
    /\ UNCHANGED <<isInitialized, locked, walletReady, synced, key, delegate, scheduler,
                   subscription, channels>>

\* Faulty variant: the failed unlock leaves the wallet unlocked.
RelockForgotten(q) ==
    /\ FinalGoes(q, "relock", "none")
    /\ UNCHANGED <<fields, channels>>

\* unwindFailedUnlock locks the wallet last; that it cannot is logged only.
Relock(q) ==
    /\ FinalGoes(q, "relock", "none")
    /\ \/ locked' = TRUE
       \/ "lock" \in Faults /\ UNCHANGED locked
    /\ UNCHANGED <<isInitialized, walletReady, synced, syncCh, key, delegate, scheduler,
                   subscription, channels>>

-----------------------------------------------------------------------------
Calls(q) ==
    \/ Setup(q)
    \/ UnlockNode(q)
    \/ UnlockWallet(q)
    \/ Assemble(q)
    \/ ArmSync(q)
    \/ LockNode(q)
    \/ LockWallet(q)
    \/ ResetWallet(q)

Finishes(q) ==
    \/ AcquireSyncLock(q)
    \/ SyncEvent(q)
    \/ SendEvent(q)
    \/ SendPanics(q)
    \/ GiveUp(q)
    \/ LoadKey(q)
    \/ DumpFails(q)
    \/ StartDelegate(q)
    \/ OpenGate(q)
    \/ Relock(q)

TearsDown(q) ==
    \/ StopDelegate(q)
    \/ StopServices(q)
    \/ CloseGate(q)
    \/ ForgetChannel(q)

Next == \E q \in Call : Calls(q) \/ Finishes(q) \/ TearsDown(q) \/ ReadEvent(q)

Spec == Init /\ [][Next]_vars

\* Goroutines that are ready run, and an unlocked wallet syncs.  Nothing is
\* assumed of clients: no call needs to begin and no event to be read.
FairSpec ==
    /\ Spec
    /\ \A q \in Call : WF_vars(Finishes(q) \/ TearsDown(q))
    /\ \A q \in Call : WF_vars(UnlockWallet(q) \/ Assemble(q) \/ ArmSync(q) \/ LockWallet(q))

-----------------------------------------------------------------------------
(* Properties.                                                              *)

CallState == {"idle", "unlock", "assemble", "arm", "lock", "delegate", "services", "gate", "channel"}

FinalState ==
    {"none", "acquire", "event", "send", "key", "start", "open", "unwind services",
     "unwind delegate", "unwind gate", "unwind channel", "relock"}

\* Every variable has its type; the field syncCh is nil or a channel that was made.
TypeOK ==
    /\ isInitialized \in BOOLEAN
    /\ locked \in BOOLEAN
    /\ walletReady \in BOOLEAN
    /\ synced \in BOOLEAN
    /\ syncCh \in Call \cup {NoCall}
    /\ chan \in [Call -> {"none", "open", "full", "closed"}]
    /\ syncLock \in Call \cup {NoCall}
    /\ key \in BOOLEAN
    /\ delegate \in BOOLEAN
    /\ scheduler \in BOOLEAN
    /\ subscription \in BOOLEAN
    /\ call \in [Call -> CallState]
    /\ op \in [Call -> Op \cup {"none"}]
    /\ final \in [Call -> FinalState]
    /\ sendTo \in [Call -> Call \cup {NoCall}]
    /\ panicked \in BOOLEAN
    /\ syncCh # NoCall => chan[syncCh] # "none"

\* Who passes isInitializedAndUnlocked finds the wallet assembled: the signer
\* key is loaded, the delegate service, the scheduler and the subscription run.
\* A reset under way is excepted: it stops them before it closes the gate.
GateIsBacked ==
    GateOpen => \/ key /\ delegate /\ scheduler /\ subscription
                \/ \E q \in Call : call[q] # "idle" /\ op[q] = "reset"

Down ==
    /\ locked \/ ~isInitialized
    /\ ~key /\ ~delegate /\ ~scheduler /\ ~subscription
    /\ syncCh = NoCall

\* When no call and no goroutine of an unlock is under way the node is down, with
\* no key left behind the lock or of a wiped wallet, or all of it is up: an unlock
\* that fails can be tried again.
SettlesUpOrDown == Resting => Down \/ GateOpen

\* DelegateService.Start replaces the context of a service that runs and leaks
\* its goroutines: it is called only when the service is stopped.
StartsStopped == \A q \in Call : final[q] = "start" => ~delegate

\* The threads between the close of syncCh and its reset, or about to close it.
Closing == {q \in Call : call[q] \in {"gate", "channel"}}
           \cup {q \in Call : final[q] \in {"unwind gate", "unwind channel"}}

\* The process dies of a send on a closed syncCh, or of two teardowns that close
\* it at the same time: tearing down twice in a row is safe.
PanicTakesTwo ==
    [][panicked' # panicked =>
         (\E p, q \in Closing : p # q) \/ \E q \in Call : final[q] = "send"]_vars

\* No goroutine sends on a closed syncCh or closes it twice.
NoPanic == ~panicked

-----------------------------------------------------------------------------
(* The life cycle keeps the promise of WalletPhases.                        *)

\* The calls under way, with what they left behind, are of operation o.
Only(o) == \A q \in Call : call[q] # "idle" \/ final[q] # "none" => op[q] = o

RestPhase ==
    IF Down THEN IF isInitialized THEN "down" ELSE "none"
            ELSE IF GateOpen THEN "up" ELSE "wedged"

Phase ==
    IF Resting THEN RestPhase
    ELSE IF Only("unlock") THEN "unlocking"
    ELSE IF Only("lock") THEN "locking"
    ELSE IF Only("reset") THEN "resetting" ELSE "mixed"

Phases == INSTANCE WalletPhases WITH
    phase <- Phase,
    serving <- GateOpen,
    MayWedge <- Faults \cap {"assemble", "lock"} # {}

\* The operations take one another's turns: the gate stays closed through an unlock
\* until it is concluded and never opens again under a lock or a reset, and a node at
\* rest is down with no key left behind the lock or of a wiped wallet, or all of it
\* is up: an unlock that fails can be tried again, unless the failure is one that
\* UnlockNode does not undo.
KeepsPhases == Phases!PhasesSpec

\* An unlock that returned without error is concluded: the goroutines it left
\* behind open the gate or unwind it.
UnlockConcludes == \A q \in Call : final[q] # "none" ~> final[q] = "none"
=============================================================================
