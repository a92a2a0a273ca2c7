------------------------ MODULE WalletLifecycleProofs ------------------------
(***************************************************************************)
(* Theorems about WalletLifecycle: type correctness and what a panic takes *)
(* for every use of the wallet, and the safety properties of the unlock    *)
(* and the lock, whatever fails, when clients wait for each other, and     *)
(* reset the wallet when nothing of an unlock is left: in particular that  *)
(* the life cycle implements WalletPhases.                                 *)
(***************************************************************************)
EXTENDS WalletLifecycle, TLAPS

\* Of the calls of UnlockNode and LockNode only those fail whose failure is unwound,
\* or reported before anything has changed.
Unwound == Faults \subseteq {"unlock", "dump"}

-----------------------------------------------------------------------------
(* Type correctness.                                                        *)

LEMMA InitType == Init => TypeOK
  BY LifecycleAssumption, ZenonT(60) DEF Init, TypeOK, CallState, FinalState

LEMMA CallsType == ASSUME TypeOK, NEW q \in Call, Calls(q) PROVE TypeOK'
<1> USE LifecycleAssumption DEF TypeOK, fields, channels, CallState, FinalState
<1>1. CASE Setup(q)
  BY <1>1 DEF Setup, Begin
<1>2. CASE UnlockNode(q)
  BY <1>2 DEF UnlockNode, Begin
<1>3. CASE UnlockWallet(q)
  BY <1>3, ZenonT(60) DEF UnlockWallet, CallGoes
<1>4. CASE Assemble(q)
  BY <1>4, ZenonT(60) DEF Assemble, CallGoes
<1>5. CASE ArmSync(q)
  BY <1>5 DEF ArmSync
<1>6. CASE LockNode(q)
  BY <1>6, ZenonT(60) DEF LockNode, Begin
<1>7. CASE LockWallet(q)
  BY <1>7, ZenonT(60) DEF LockWallet, CallGoes
<1>8. CASE ResetWallet(q)
  BY <1>8, ZenonT(60) DEF ResetWallet, Begin
<1> QED
  BY <1>1, <1>2, <1>3, <1>4, <1>5, <1>6, <1>7, <1>8 DEF Calls

LEMMA FinishesType == ASSUME TypeOK, NEW q \in Call, Finishes(q) PROVE TypeOK'
<1> USE LifecycleAssumption DEF TypeOK, fields, channels, CallState, FinalState, FinalGoes
<1>1. CASE AcquireSyncLock(q)
  BY <1>1 DEF AcquireSyncLock
<1>2. CASE SyncEvent(q)
  BY <1>2 DEF SyncEvent
<1>3. CASE SendEvent(q)
  BY <1>3 DEF SendEvent
<1>4. CASE SendPanics(q)
  BY <1>4, ZenonT(60) DEF SendPanics
<1>5. CASE GiveUp(q)
  BY <1>5 DEF GiveUp
<1>6. CASE LoadKey(q)
  BY <1>6 DEF LoadKey
<1>7. CASE DumpFails(q)
  BY <1>7 DEF DumpFails
<1>8. CASE StartDelegate(q)
  BY <1>8 DEF StartDelegate
<1>9. CASE OpenGate(q)
  BY <1>9 DEF OpenGate
<1>10. CASE Relock(q)
  BY <1>10, ZenonT(60) DEF Relock
<1> QED
  BY <1>1, <1>2, <1>3, <1>4, <1>5, <1>6, <1>7, <1>8, <1>9, <1>10 DEF Finishes

LEMMA TearsDownType == ASSUME TypeOK, NEW q \in Call, TearsDown(q) PROVE TypeOK'
<1> USE LifecycleAssumption DEF TypeOK, fields, channels, CallState, FinalState, CallGoes, FinalGoes
<1>1. CASE StopDelegate(q)
  BY <1>1, ZenonT(60) DEF StopDelegate
<1>2. CASE StopServices(q)
  BY <1>2, ZenonT(60) DEF StopServices
<1>3. CASE CloseGate(q)
  BY <1>3, ZenonT(60) DEF CloseGate
<1>4. CASE ForgetChannel(q)
  BY <1>4, ZenonT(60) DEF ForgetChannel
<1> QED
  BY <1>1, <1>2, <1>3, <1>4 DEF TearsDown

LEMMA NextType == TypeOK /\ [Next]_vars => TypeOK'
<1> SUFFICES ASSUME TypeOK, [Next]_vars PROVE TypeOK'
  OBVIOUS
<1>1. ASSUME NEW q \in Call, ReadEvent(q) PROVE TypeOK'
  BY <1>1 DEF ReadEvent, TypeOK, fields
<1>2. CASE UNCHANGED vars
  BY <1>2 DEF TypeOK, vars, fields, channels
<1> QED
  BY <1>1, <1>2, CallsType, FinishesType, TearsDownType DEF Next

\* Every variable keeps its type, whatever clients call at the same time and
\* whatever fails, and the field syncCh is nil or a channel that was made.
THEOREM LifecycleTypeCorrect == Spec => []TypeOK
<1>1. Init => TypeOK
  BY InitType
<1>2. TypeOK /\ [Next]_vars => TypeOK'
  BY NextType
<1> QED
  BY <1>1, <1>2, PTL DEF Spec

-----------------------------------------------------------------------------
(* What a panic takes.                                                      *)

\* A thread between the close of syncCh and its reset.
Forgetting(q) == call[q] = "channel" \/ final[q] = "unwind channel"

\* A call has returned when its goroutines go on.
OneThread == \A q \in Call : call[q] = "idle" \/ final[q] = "none"

\* The field holds a closed channel only as long as the thread that closed it is
\* about to forget it: no step makes the field point to a closed one.
ClosedIsForgotten ==
    syncCh # NoCall /\ chan[syncCh] = "closed" => \E q \in Call : Forgetting(q)

FInv == TypeOK /\ OneThread /\ ClosedIsForgotten

LEMMA CallsFInv ==
    ASSUME FInv, NEW q \in Call, Calls(q) PROVE OneThread' /\ ClosedIsForgotten'
<1> USE LifecycleAssumption DEF FInv, TypeOK, fields, channels, OneThread
<1>1. CASE ArmSync(q)
  BY <1>1 DEF ArmSync, ClosedIsForgotten, Forgetting
<1>2. CASE UNCHANGED <<syncCh, chan, final>> /\ call[q] # "channel" /\ final[q] = "none"
           /\ \E to \in CallState : call' = [call EXCEPT ![q] = to]
  BY <1>2 DEF ClosedIsForgotten, Forgetting
<1>3. ASSUME NEW from \in CallState \ {"idle", "channel"}, NEW to \in CallState,
             CallGoes(q, from, to), UNCHANGED <<syncCh, chan>>
      PROVE  OneThread' /\ ClosedIsForgotten'
  BY <1>2, <1>3 DEF CallGoes
<1>4. CASE Setup(q)
  BY <1>4 DEF Setup, Begin, ClosedIsForgotten, Forgetting
<1>5. CASE UnlockNode(q) \/ LockNode(q) \/ ResetWallet(q)
  BY <1>2, <1>5 DEF UnlockNode, LockNode, ResetWallet, Begin, CallState
<1>6. CASE UnlockWallet(q) \/ Assemble(q) \/ LockWallet(q)
  BY <1>3, <1>6 DEF UnlockWallet, Assemble, LockWallet, CallState
<1> QED
  BY <1>1, <1>4, <1>5, <1>6 DEF Calls

LEMMA FinishesFInv ==
    ASSUME FInv, NEW q \in Call, Finishes(q) PROVE OneThread' /\ ClosedIsForgotten'
<1> USE DEF FInv, TypeOK, fields, channels, OneThread
<1>1. CASE SendPanics(q)
  BY <1>1 DEF SendPanics, ClosedIsForgotten, Forgetting
<1>2. /\ UNCHANGED <<syncCh, call>>
      /\ syncCh # NoCall /\ chan'[syncCh] = "closed" => chan[syncCh] = "closed"
  BY DEF Finishes, AcquireSyncLock, SyncEvent, SendEvent, SendPanics, GiveUp, LoadKey, DumpFails,
         StartDelegate, OpenGate, Relock, FinalGoes
<1>3. CASE ~SendPanics(q)
  <2>1. /\ final[q] \notin {"none", "unwind channel"}
        /\ \E to \in FinalState : final' = [final EXCEPT ![q] = to]
    BY <1>3 DEF Finishes, AcquireSyncLock, SyncEvent, SendEvent, GiveUp, LoadKey, DumpFails,
                StartDelegate, OpenGate, Relock, FinalGoes, FinalState
  <2> QED
    BY <1>2, <2>1 DEF ClosedIsForgotten, Forgetting
<1> QED
  BY <1>1, <1>3

LEMMA TearsDownFInv ==
    ASSUME FInv, NEW q \in Call, TearsDown(q) PROVE OneThread' /\ ClosedIsForgotten'
<1> USE LifecycleAssumption DEF FInv, TypeOK, fields, channels, OneThread, CallGoes, FinalGoes
<1>1. OneThread'
  BY DEF TearsDown, StopDelegate, StopServices, CloseGate, ForgetChannel
<1>2. CASE StopDelegate(q) \/ StopServices(q)
  BY <1>2 DEF StopDelegate, StopServices, ClosedIsForgotten, Forgetting
<1>3. CASE CloseGate(q)
  BY <1>3 DEF CloseGate, ClosedIsForgotten, Forgetting
<1>4. CASE ForgetChannel(q)
  BY <1>4 DEF ForgetChannel, ClosedIsForgotten
<1> QED
  BY <1>1, <1>2, <1>3, <1>4 DEF TearsDown

LEMMA NextFInv == FInv /\ [Next]_vars => OneThread' /\ ClosedIsForgotten'
<1> SUFFICES ASSUME FInv, [Next]_vars PROVE OneThread' /\ ClosedIsForgotten'
  OBVIOUS
<1>1. ASSUME NEW q \in Call, ReadEvent(q) PROVE OneThread' /\ ClosedIsForgotten'
  BY <1>1 DEF ReadEvent, FInv, TypeOK, fields, OneThread, ClosedIsForgotten, Forgetting
<1>2. CASE UNCHANGED vars
  BY <1>2 DEF vars, fields, channels, FInv, OneThread, ClosedIsForgotten, Forgetting
<1> QED
  BY <1>1, <1>2, CallsFInv, FinishesFInv, TearsDownFInv DEF Next

LEMMA ForgottenInvariant == Spec => []FInv
<1>1. Init => FInv
  BY InitType DEF Init, FInv, OneThread, ClosedIsForgotten
<1>2. FInv /\ [Next]_vars => FInv'
  BY NextType, NextFInv DEF FInv
<1> QED
  BY <1>1, <1>2, PTL DEF Spec

\* A teardown finds the channel closed by another one that has not yet forgotten it.
LEMMA ClosingTwice ==
    ASSUME FInv, NEW q \in Call, CloseGate(q), ~panicked, panicked'
    PROVE  \E p \in Closing : p \in Closing /\ q \in Closing /\ p # q
<1>1. syncCh # NoCall /\ chan[syncCh] = "closed"
  BY DEF CloseGate, CallGoes, FinalGoes
<1>2. PICK p \in Call : Forgetting(p)
  BY <1>1 DEF FInv, ClosedIsForgotten
<1>3. call[q] = "gate" \/ final[q] = "unwind gate"
  BY DEF CloseGate, CallGoes, FinalGoes
<1>4. p # q
  BY <1>2, <1>3 DEF FInv, OneThread, Forgetting
<1> QED
  BY <1>2, <1>3, <1>4 DEF Closing, Forgetting

\* Whatever clients call at the same time and whatever fails, the process dies of a
\* send, or of two teardowns between their close of syncCh and its reset.
THEOREM PanicsTakeTwo == Spec => PanicTakesTwo
<1>1. ASSUME FInv, [Next]_vars, panicked' # panicked
      PROVE  (\E p, q \in Closing : p # q) \/ \E q \in Call : final[q] = "send"
  <2>1. PICK q \in Call : Calls(q) \/ Finishes(q) \/ TearsDown(q) \/ ReadEvent(q)
    BY <1>1 DEF Next, vars, channels
  <2>2. CASE SendPanics(q)
    BY <2>2 DEF SendPanics
  <2>3. CASE CloseGate(q)
    <3>1. ~panicked /\ panicked'
      BY <1>1, <2>3 DEF CloseGate, CallGoes, FinalGoes, FInv, TypeOK
    <3> QED
      BY <1>1, <2>3, <3>1, ClosingTwice
  <2>4. CASE ~SendPanics(q) /\ ~CloseGate(q)
    BY <1>1, <2>1, <2>4 DEF Calls, Finishes, TearsDown, ReadEvent, channels,
         Setup, UnlockNode, UnlockWallet, Assemble, ArmSync, LockNode, LockWallet, ResetWallet,
         AcquireSyncLock, SyncEvent, SendEvent, GiveUp, LoadKey, DumpFails, StartDelegate, OpenGate,
         Relock, StopDelegate, StopServices, ForgetChannel
  <2> QED
    BY <2>2, <2>3, <2>4
<1> QED
  BY <1>1, ForgottenInvariant, PTL DEF Spec, PanicTakesTwo

-----------------------------------------------------------------------------
(* The inductive invariant: one thread at a time has the wallet in hand, and *)
(* where it is tells which of the fields are set.                            *)

Active(q) == call[q] # "idle" \/ final[q] # "none"

OneActor ==
    /\ \A p, q \in Call : Active(p) /\ Active(q) => p = q
    /\ \A q \in Call : call[q] = "idle" \/ final[q] = "none"

Closed == ~walletReady /\ ~synced
Keyless == ~key /\ ~delegate
Serving == scheduler /\ subscription
Idling == ~scheduler /\ ~subscription
Usable == syncCh \in Call /\ chan[syncCh] \in {"open", "full"}

TearingDown(q) == call[q] \in {"delegate", "services", "gate", "channel"}

\* What the thread of call q has done so far.
CallStage(q) ==
    /\ call[q] = "unlock" =>
         isInitialized /\ locked /\ Closed /\ Keyless /\ Idling /\ syncCh = NoCall
    /\ call[q] = "assemble" =>
         isInitialized /\ ~locked /\ Closed /\ Keyless /\ Idling /\ syncCh = NoCall
    /\ call[q] = "arm" =>
         isInitialized /\ ~locked /\ Closed /\ Keyless /\ Serving /\ syncCh = NoCall
    /\ call[q] = "lock" => GateOpen /\ key /\ delegate /\ Serving /\ Usable
    /\ TearingDown(q) /\ op[q] # "reset" => locked /\ isInitialized
    /\ call[q] \in {"delegate", "services", "gate"} => syncCh = NoCall \/ Usable
    /\ call[q] \in {"services", "gate", "channel"} => Keyless
    /\ call[q] \in {"gate", "channel"} => Idling
    /\ call[q] = "channel" => Closed /\ (op[q] = "reset" => ~isInitialized)

\* What the goroutines of the unlock q have done so far.
FinalStage(q) ==
    /\ final[q] # "none" => isInitialized /\ ~locked /\ ~walletReady
    /\ final[q] \in {"acquire", "event", "send"} => chan[q] = "open"
    /\ final[q] \in {"acquire", "event"} => Closed /\ Keyless /\ Serving /\ syncCh = q
    /\ final[q] = "send" => Keyless /\ Serving /\ syncCh = q /\ sendTo[q] = q
    /\ final[q] \in {"key", "unwind services"} => synced /\ Keyless /\ Serving /\ Usable
    /\ final[q] = "start" => synced /\ key /\ ~delegate /\ Serving /\ Usable
    /\ final[q] = "open" => synced /\ key /\ delegate /\ Serving /\ Usable
    /\ final[q] \in {"unwind delegate", "unwind gate"} => Keyless /\ Idling /\ Usable
    /\ final[q] = "unwind channel" => Closed /\ Keyless /\ Idling
    /\ final[q] = "relock" => Closed /\ Keyless /\ Idling /\ syncCh = NoCall
    /\ final[q] # "send" => sendTo[q] = NoCall
    /\ final[q] = "send" => synced

\* Unlocked behind a closed gate: what failed is neither undone nor tried again.
Wedged == isInitialized /\ ~locked /\ Closed /\ Keyless /\ syncCh = NoCall

\* It is down or up, or an unlock could be neither completed nor undone...
AtRest ==
    \/ (locked \/ ~isInitialized) /\ Closed /\ Keyless /\ Idling /\ syncCh = NoCall
    \/ GateOpen /\ key /\ delegate /\ Serving /\ Usable
    \/ ~Unwound /\ Wedged

\* ... when nobody has it in hand.
RestStage == (\A q \in Call : ~Active(q)) => AtRest

IInv ==
    /\ TypeOK
    /\ NoPanic
    /\ OneActor
    /\ \A q \in Call : CallStage(q) /\ FinalStage(q)
    /\ RestStage

-----------------------------------------------------------------------------
(* The invariant is inductive.                                              *)

\* The invariant seen from call q: the other calls are free, ...
Alone(q) ==
    \A p \in Call \ {q} : call[p] = "idle" /\ final[p] = "none" /\ sendTo[p] = NoCall

\* ... and the wallet is where q has left it.
Stage(q) ==
    /\ call[q] = "idle" \/ final[q] = "none"
    /\ CallStage(q)
    /\ FinalStage(q)
    /\ call[q] = "idle" /\ final[q] = "none" => AtRest

LEMMA InitIInv == Init => IInv
<1> SUFFICES ASSUME Init PROVE IInv
  OBVIOUS
<1>1. TypeOK
  BY InitType
<1> QED
  BY <1>1 DEF Init, IInv, NoPanic, OneActor, Active, CallStage, TearingDown, FinalStage,
              RestStage, AtRest, Closed, Keyless, Idling

\* While q has the wallet in hand, the other calls are free.
LEMMA InHand == ASSUME IInv, NEW q \in Call, Active(q) PROVE Alone(q) /\ Stage(q)
  BY DEF IInv, OneActor, Active, FinalStage, Alone, Stage

\* A client that waits for the others begins when nobody has the wallet in hand.
LEMMA BeginsAlone ==
    ASSUME Serial, IInv, NEW q \in Call,
           Setup(q) \/ UnlockNode(q) \/ LockNode(q) \/ ResetWallet(q)
    PROVE  Alone(q) /\ Stage(q) /\ AtRest
<1>1. \A p \in Call : call[p] = "idle"
  BY DEF Setup, UnlockNode, LockNode, ResetWallet, Resting, Begin
<1>2. \A p \in Call : final[p] = "none"
  BY DEF IInv, FinalStage, Setup, UnlockNode, LockNode, ResetWallet, Resting, GateOpen
<1> QED
  BY <1>1, <1>2 DEF IInv, FinalStage, RestStage, Active, Alone, Stage

\* What is left to show of a step of q when the other calls are free.
LEMMA StepOfOne ==
    ASSUME NEW q \in Call, TypeOK', ~panicked', Alone(q)', Stage(q)'
    PROVE  IInv'
<1>1. \A p \in Call : CallStage(p)' /\ FinalStage(p)'
  BY DEF Alone, Stage, CallStage, TearingDown, FinalStage
<1>2. OneActor'
  BY DEF OneActor, Active, Alone, Stage
<1>3. RestStage'
  BY DEF RestStage, Active, Stage
<1> QED
  BY <1>1, <1>2, <1>3 DEF IInv, NoPanic

LEMMA CallsIInv == ASSUME Serial, IInv, NEW q \in Call, Calls(q) PROVE IInv'
<1> USE LifecycleAssumption DEF fields, channels, Begin, CallGoes
<1>1. TypeOK /\ TypeOK' /\ ~panicked
  BY CallsType DEF IInv, NoPanic
<1>3. /\ Alone(q) /\ Stage(q)
      /\ Setup(q) \/ UnlockNode(q) \/ LockNode(q) \/ ResetWallet(q) => AtRest
  BY BeginsAlone, InHand DEF Calls, Active, UnlockWallet, Assemble, ArmSync, LockWallet
<1>4. Alone(q)' /\ ~panicked'
  <2>1. /\ UNCHANGED <<panicked, sendTo>>
        /\ call' = call \/ \E to \in CallState : call' = [call EXCEPT ![q] = to]
        /\ final' = final \/ final' = [final EXCEPT ![q] = "acquire"]
    BY DEF Calls, Setup, UnlockNode, LockNode, ResetWallet, UnlockWallet, Assemble, ArmSync,
           LockWallet, CallState
  <2> QED
    BY <1>1, <1>3, <2>1 DEF Alone, TypeOK
<1>5. /\ call \in [Call -> CallState]
      /\ final \in [Call -> FinalState]
      /\ op \in [Call -> Op \cup {"none"}]
      /\ chan \in [Call -> {"none", "open", "full", "closed"}]
      /\ syncCh # NoCall => syncCh \in Call
  BY <1>1 DEF TypeOK
<1>6. Stage(q)'
  <2> USE DEF Stage, CallStage, TearingDown, FinalStage, AtRest, Wedged, Closed, Keyless,
              Serving, Idling, Usable, GateOpen
  <2>1. CASE Setup(q)
    BY <1>5, <1>3, <2>1 DEF Setup
  <2>2. CASE UnlockNode(q)
    BY <1>5, <1>3, <2>2 DEF UnlockNode
  <2>3. CASE UnlockWallet(q)
    BY <1>5, <1>3, <2>3 DEF UnlockWallet
  <2>4. CASE Assemble(q)
    <3>1. /\ call[q] = "assemble"
          /\ UNCHANGED <<isInitialized, locked, walletReady, synced, syncCh, key, delegate, chan,
                         sendTo, op, final>>
      BY <2>4 DEF Assemble
    <3>2. CASE call' = [call EXCEPT ![q] = "arm"] /\ scheduler' /\ subscription'
      <4>1. call'[q] = "arm" /\ final'[q] = "none" /\ sendTo'[q] = NoCall
        BY <1>5, <1>3, <3>1, <3>2
      <4>2. CallStage(q)' /\ FinalStage(q)'
        BY <1>3, <3>1, <3>2, <4>1
      <4> QED
        BY <4>1, <4>2
    <3>3. CASE "assemble" \in Faults /\ call' = [call EXCEPT ![q] = "idle"]
      BY <1>5, <1>3, <3>1, <3>3 DEF Unwound
    <3> QED
      BY <2>4, <3>2, <3>3 DEF Assemble
  <2>5. CASE ArmSync(q)
    BY <1>5, <1>3, <2>5 DEF ArmSync
  <2>6. CASE LockNode(q)
    BY <1>5, <1>3, <2>6 DEF LockNode
  <2>7. CASE LockWallet(q)
    <3>1. /\ call[q] = "lock"
          /\ UNCHANGED <<isInitialized, walletReady, synced, key, delegate, scheduler,
                         subscription, syncCh, chan, sendTo, op, final>>
      BY <2>7 DEF LockWallet
    <3>2. CASE call' = [call EXCEPT ![q] = "delegate"] /\ locked'
      BY <1>5, <1>3, <3>1, <3>2
    <3>3. CASE call' = [call EXCEPT ![q] = "idle"] /\ UNCHANGED locked
      BY <1>5, <1>3, <3>1, <3>3
    <3> QED
      BY <2>7, <3>2, <3>3 DEF LockWallet
  <2>8. CASE ResetWallet(q)
    <3>1. /\ call[q] = "idle" /\ final[q] = "none"
          /\ call' = [call EXCEPT ![q] = "delegate"]
          /\ op' = [op EXCEPT ![q] = "reset"]
          /\ UNCHANGED <<syncCh, chan, sendTo, final>>
      BY <2>8 DEF ResetWallet
    <3>2. syncCh = NoCall \/ Usable
      BY <1>3, <2>8
    <3> QED
      BY <1>5, <1>3, <3>1, <3>2
  <2> QED
    BY <2>1, <2>2, <2>3, <2>4, <2>5, <2>6, <2>7, <2>8 DEF Calls
<1> QED
  BY <1>1, <1>4, <1>6, StepOfOne

LEMMA FinishesIInv == ASSUME Serial, IInv, NEW q \in Call, Finishes(q) PROVE IInv'
<1> USE LifecycleAssumption DEF fields, channels, FinalGoes
<1>1. TypeOK /\ TypeOK' /\ ~panicked
  BY FinishesType DEF IInv, NoPanic
<1>2. Alone(q) /\ Stage(q)
  BY InHand DEF Active, Finishes, AcquireSyncLock, SyncEvent, SendEvent, SendPanics, GiveUp,
                LoadKey, DumpFails, StartDelegate, OpenGate, Relock
<1>3. ~SendPanics(q) /\ ~GiveUp(q)
  BY <1>2 DEF Stage, FinalStage, SendPanics, GiveUp
<1>4. ~panicked'
  BY <1>1, <1>3 DEF Finishes, AcquireSyncLock, SyncEvent, SendEvent, LoadKey, DumpFails,
                    StartDelegate, OpenGate, Relock
<1>5. Alone(q)'
  <2>1. CASE SyncEvent(q) \/ SendEvent(q)
    BY <1>1, <1>2, <2>1 DEF Alone, TypeOK, SyncEvent, SendEvent
  <2>2. CASE UNCHANGED <<sendTo, call>> /\ final' = [final EXCEPT ![q] = final'[q]]
    BY <1>1, <1>2, <2>2 DEF Alone, TypeOK
  <2> QED
    BY <1>1, <1>3, <2>1, <2>2 DEF Finishes, TypeOK, AcquireSyncLock, LoadKey, DumpFails,
                                  StartDelegate, OpenGate, Relock
<1>6. /\ call \in [Call -> CallState]
      /\ final \in [Call -> FinalState]
      /\ op \in [Call -> Op \cup {"none"}]
      /\ chan \in [Call -> {"none", "open", "full", "closed"}]
      /\ sendTo \in [Call -> Call \cup {NoCall}]
      /\ syncCh # NoCall => syncCh \in Call
  BY <1>1 DEF TypeOK
<1>7. Stage(q)'
  <2> USE DEF Stage, CallStage, TearingDown, FinalStage, AtRest, Wedged, Closed, Keyless,
              Serving, Idling, Usable, GateOpen
  <2>1. CASE AcquireSyncLock(q)
    BY <1>6, <1>2, <2>1 DEF AcquireSyncLock
  <2>2. CASE SyncEvent(q)
    <3>1. /\ final[q] = "event"
          /\ final' = [final EXCEPT ![q] = "send"]
          /\ synced'
          /\ sendTo' = [sendTo EXCEPT ![q] = syncCh]
      BY <2>2 DEF SyncEvent
    <3>2. UNCHANGED <<isInitialized, locked, walletReady, key, delegate, scheduler, subscription,
                      syncCh, chan, call>>
      BY <2>2 DEF SyncEvent
    <3> QED
      BY <1>6, <1>2, <3>1, <3>2
  <2>3. CASE SendEvent(q)
    BY <1>6, <1>2, <2>3 DEF SendEvent
  <2>4. CASE LoadKey(q)
    BY <1>6, <1>2, <2>4 DEF LoadKey
  <2>5. CASE DumpFails(q)
    BY <1>6, <1>2, <2>5 DEF DumpFails
  <2>6. CASE StartDelegate(q)
    BY <1>6, <1>2, <2>6 DEF StartDelegate
  <2>7. CASE OpenGate(q)
    BY <1>6, <1>2, <2>7 DEF OpenGate
  <2>8. CASE Relock(q)
    <3>1. /\ final[q] = "relock"
          /\ final' = [final EXCEPT ![q] = "none"]
          /\ UNCHANGED <<isInitialized, walletReady, synced, syncCh, key, delegate, scheduler,
                         subscription, chan, sendTo, call>>
          /\ locked' \/ ("lock" \in Faults /\ UNCHANGED locked)
      BY <2>8 DEF Relock
    <3> QED
      BY <1>6, <1>2, <3>1 DEF Unwound
  <2> QED
    BY <1>3, <2>1, <2>2, <2>3, <2>4, <2>5, <2>6, <2>7, <2>8 DEF Finishes
<1> QED
  BY <1>1, <1>4, <1>5, <1>7, StepOfOne

LEMMA TearsDownIInv == ASSUME Serial, IInv, NEW q \in Call, TearsDown(q) PROVE IInv'
<1> USE LifecycleAssumption DEF fields, channels, CallGoes, FinalGoes
<1>1. TypeOK /\ TypeOK' /\ ~panicked
  BY TearsDownType DEF IInv, NoPanic
<1>2. Alone(q) /\ Stage(q)
  BY InHand DEF Active, TearsDown, StopDelegate, StopServices, CloseGate, ForgetChannel
<1>3. ~panicked'
  BY <1>1, <1>2 DEF Stage, CallStage, FinalStage, Usable, TearsDown, StopDelegate, StopServices,
                    CloseGate, ForgetChannel
<1>4. Alone(q)'
  <2>1. UNCHANGED sendTo
    BY DEF TearsDown, StopDelegate, StopServices, CloseGate, ForgetChannel
  <2>2. \/ UNCHANGED final /\ \E to \in CallState : call' = [call EXCEPT ![q] = to]
        \/ UNCHANGED call /\ \E to \in FinalState : final' = [final EXCEPT ![q] = to]
    BY DEF TearsDown, StopDelegate, StopServices, CloseGate, ForgetChannel, CallState, FinalState
  <2> QED
    BY <1>1, <1>2, <2>1, <2>2 DEF Alone, TypeOK
<1>5. /\ call \in [Call -> CallState]
      /\ final \in [Call -> FinalState]
      /\ op \in [Call -> Op \cup {"none"}]
      /\ chan \in [Call -> {"none", "open", "full", "closed"}]
      /\ sendTo \in [Call -> Call \cup {NoCall}]
      /\ syncCh # NoCall => syncCh \in Call
  BY <1>1 DEF TypeOK
<1>6. Stage(q)'
  <2> USE DEF Stage, CallStage, TearingDown, FinalStage, AtRest, Wedged, Closed, Keyless,
              Serving, Idling, Usable, GateOpen
  <2>1. CASE StopDelegate(q)
    BY <1>5, <1>2, <2>1 DEF StopDelegate
  <2>2. CASE StopServices(q)
    BY <1>5, <1>2, <2>2 DEF StopServices
  <2>3. CASE CloseGate(q)
    <3>2. ~walletReady' /\ ~synced'
      BY <2>3 DEF CloseGate
    <3>3. UNCHANGED <<locked, key, delegate, scheduler, subscription, sendTo, op>>
      BY <2>3 DEF CloseGate
    <3>4. CASE CallGoes(q, "gate", "channel") /\ isInitialized' = (isInitialized /\ op[q] # "reset")
      BY <1>5, <1>2, <3>2, <3>3, <3>4
    <3>5. CASE FinalGoes(q, "unwind gate", "unwind channel") /\ UNCHANGED isInitialized
      BY <1>5, <1>2, <3>2, <3>3, <3>5
    <3> QED
      BY <2>3, <3>4, <3>5 DEF CloseGate
  <2>4. CASE ForgetChannel(q)
    BY <1>5, <1>2, <2>4 DEF ForgetChannel
  <2> QED
    BY <2>1, <2>2, <2>3, <2>4 DEF TearsDown
<1> QED
  BY <1>1, <1>3, <1>4, <1>6, StepOfOne

\* A web client that takes the event touches the channel only.
LEMMA ReadEventIInv == ASSUME IInv, NEW q \in Call, ReadEvent(q) PROVE IInv'
<1>1. TypeOK /\ TypeOK'
  BY LifecycleAssumption DEF IInv, ReadEvent, TypeOK, fields
<1>2. /\ UNCHANGED <<fields, syncLock, sendTo, panicked, call, op, final>>
      /\ chan[q] = "full"
      /\ chan' = [chan EXCEPT ![q] = "open"]
  BY DEF ReadEvent
<1>3. Usable => Usable'
  BY <1>1, <1>2 DEF Usable, fields, TypeOK
<1>4. ASSUME NEW p \in Call PROVE CallStage(p)' /\ FinalStage(p)'
  BY <1>1, <1>2, <1>3, ZenonT(60)
     DEF IInv, CallStage, TearingDown, FinalStage, Closed, Keyless, Serving, Idling, GateOpen,
         fields, TypeOK
<1>5. RestStage'
  BY <1>2, <1>3 DEF IInv, RestStage, AtRest, Wedged, Active, Closed, Keyless, Serving, Idling,
                    GateOpen, fields
<1>6. OneActor' /\ NoPanic'
  BY <1>2 DEF IInv, OneActor, Active, NoPanic
<1> QED
  BY <1>1, <1>4, <1>5, <1>6 DEF IInv

LEMMA NextIInv == ASSUME Serial PROVE IInv /\ [Next]_vars => IInv'
<1> SUFFICES ASSUME IInv, [Next]_vars PROVE IInv'
  OBVIOUS
<1>1. CASE UNCHANGED vars
  <2> USE <1>1 DEF vars, fields, channels
  <2>1. TypeOK' /\ NoPanic' /\ OneActor'
    BY DEF IInv, TypeOK, NoPanic, OneActor, Active
  <2>2. ASSUME NEW q \in Call PROVE CallStage(q)' /\ FinalStage(q)'
    BY DEF IInv, CallStage, TearingDown, FinalStage, Closed, Keyless, Serving, Idling, Usable,
           GateOpen
  <2>3. RestStage'
    BY DEF IInv, RestStage, AtRest, Wedged, Active, Closed, Keyless, Serving, Idling, Usable,
           GateOpen
  <2> QED
    BY <2>1, <2>2, <2>3 DEF IInv
<1> QED
  BY <1>1, CallsIInv, FinishesIInv, TearsDownIInv, ReadEventIInv DEF Next

LEMMA InductiveInvariant == ASSUME Serial PROVE Spec => []IInv
<1>1. Init => IInv
  BY InitIInv
<1>2. IInv /\ [Next]_vars => IInv'
  BY NextIInv
<1> QED
  BY <1>1, <1>2, PTL DEF Spec

-----------------------------------------------------------------------------
(* What it is good for.                                                     *)

\* With clients that wait for each other, who passes isInitializedAndUnlocked
\* finds the key loaded and the delegate service, the scheduler and the
\* subscription running, or a reset under way: neither a failed unlock nor a lock
\* leaves the gate open, whatever fails.
THEOREM GateBacked == ASSUME Serial PROVE Spec => []GateIsBacked
<1>1. IInv => GateIsBacked
  <2> SUFFICES ASSUME IInv, GateOpen,
                      ~ \E q \in Call : call[q] # "idle" /\ op[q] = "reset"
               PROVE  key /\ delegate /\ Serving
    BY DEF GateIsBacked, Serving
  <2>1. CASE \A q \in Call : ~Active(q)
    BY <2>1 DEF IInv, RestStage, AtRest, Wedged, Closed, GateOpen
  <2>2. ASSUME NEW q \in Call, call[q] # "idle" PROVE key /\ delegate /\ Serving
    BY <2>2 DEF IInv, TypeOK, CallState, CallStage, TearingDown, GateOpen, Closed
  <2>3. ASSUME NEW q \in Call PROVE final[q] = "none"
    BY DEF IInv, FinalStage, GateOpen
  <2> QED
    BY <2>1, <2>2, <2>3 DEF Active
<1> QED
  BY <1>1, InductiveInvariant, PTL

\* ... and DelegateService.Start is called only when the service is stopped.
THEOREM DelegateStartsStopped == ASSUME Serial PROVE Spec => []StartsStopped
<1>1. IInv => StartsStopped
  BY DEF IInv, StartsStopped, FinalStage
<1> QED
  BY <1>1, InductiveInvariant, PTL

\* ... and when nothing of a call is left, the wallet is locked with nothing
\* running and no key behind the lock, or usable, so that the next unlock or lock
\* works, unless one fails whose failure is not unwound.
THEOREM SettledUpOrDown == ASSUME Serial, Unwound PROVE Spec => []SettlesUpOrDown
<1>1. IInv => SettlesUpOrDown
  BY DEF IInv, SettlesUpOrDown, Resting, Down, RestStage, AtRest, Active, Keyless, Idling
<1> QED
  BY <1>1, InductiveInvariant, PTL

\* ... and when that happens (UnlockNode has unlocked the wallet and cannot assemble
\* the services, or unwindFailedUnlock cannot lock it again) the wallet is left
\* unlocked behind a closed gate with no key loaded: nobody is let in, and neither an
\* unlock nor a lock does anything before the wallet is reset.
THEOREM SettledOrWedged ==
    ASSUME Serial PROVE Spec => [](Resting => Down \/ GateOpen \/ Wedged)
<1>1. IInv => (Resting => Down \/ GateOpen \/ Wedged)
  BY DEF IInv, Resting, Down, RestStage, AtRest, Active, Keyless, Idling
<1> QED
  BY <1>1, InductiveInvariant, PTL

\* ... and no sync goroutine sends on a closed syncCh and nobody closes it twice.
THEOREM NeverPanics == ASSUME Serial PROVE Spec => []NoPanic
<1>1. IInv => NoPanic
  BY DEF IInv
<1> QED
  BY <1>1, InductiveInvariant, PTL
-----------------------------------------------------------------------------
(* No goroutine of an unlock is stuck: what UnlockConcludes needs of the    *)
(* state.                                                                   *)

\* syncLock is held by a goroutine that waits for the event or sends it.
LockIsHeld == syncLock # NoCall => final[syncLock] \in {"event", "send"}

LInv == FInv /\ LockIsHeld

LEMMA NextLInv == LInv /\ [Next]_vars => LockIsHeld'
<1> SUFFICES ASSUME LInv, [Next]_vars PROVE LockIsHeld'
  OBVIOUS
<1> USE LifecycleAssumption DEF LockIsHeld, fields, channels
<1>1. TypeOK /\ OneThread /\ LockIsHeld
  BY DEF LInv, FInv
<1>2. ASSUME NEW q \in Call, UNCHANGED syncLock,
             final[q] \notin {"event", "send"} \/ final'[q] = "send",
             \A p \in Call \ {q} : final'[p] = final[p]
      PROVE  LockIsHeld'
  BY <1>1, <1>2 DEF TypeOK
<1>3. CASE UNCHANGED <<syncLock, final>>
  BY <1>1, <1>3
<1>4. ASSUME NEW q \in Call, Calls(q) PROVE LockIsHeld'
  <2>1. CASE ArmSync(q)
    <3>1. call[q] = "arm" /\ final' = [final EXCEPT ![q] = "acquire"] /\ UNCHANGED syncLock
      BY <2>1 DEF ArmSync
    <3>2. final[q] = "none"
      BY <1>1, <3>1 DEF OneThread
    <3> QED
      BY <1>1, <1>2, <3>1, <3>2 DEF TypeOK
  <2> QED
    BY <1>3, <1>4, <2>1 DEF Calls, Setup, UnlockNode, UnlockWallet, Assemble, LockNode, LockWallet,
                            ResetWallet, Begin, CallGoes
<1>5. ASSUME NEW q \in Call, Finishes(q) PROVE LockIsHeld'
  <2>1. CASE AcquireSyncLock(q) \/ SendEvent(q)
    BY <1>1, <2>1 DEF AcquireSyncLock, SendEvent, FinalGoes, TypeOK
  <2>2. CASE SendPanics(q)
    BY <1>3, <2>2 DEF SendPanics
  <2>3. CASE ~AcquireSyncLock(q) /\ ~SendEvent(q) /\ ~SendPanics(q)
    <3>1. /\ UNCHANGED syncLock
          /\ final[q] \notin {"event", "send"} \/ (final[q] = "event" /\ SyncEvent(q))
          /\ \E to \in FinalState : final' = [final EXCEPT ![q] = to]
      BY <1>5, <2>3 DEF Finishes, SyncEvent, GiveUp, LoadKey, DumpFails, StartDelegate, OpenGate,
                        Relock, FinalGoes, FinalState
    <3>2. \A p \in Call \ {q} : final'[p] = final[p]
      BY <1>1, <3>1 DEF TypeOK
    <3>3. SyncEvent(q) => final'[q] = "send"
      BY <1>1 DEF SyncEvent, FinalGoes, TypeOK
    <3> QED
      BY <1>2, <3>1, <3>2, <3>3
  <2> QED
    BY <2>1, <2>2, <2>3
<1>6. ASSUME NEW q \in Call, TearsDown(q) PROVE LockIsHeld'
  <2>1. /\ UNCHANGED syncLock
        /\ \/ UNCHANGED final
           \/ /\ final[q] \notin {"event", "send"}
              /\ \E to \in FinalState : final' = [final EXCEPT ![q] = to]
    BY <1>6 DEF TearsDown, StopDelegate, StopServices, CloseGate, ForgetChannel, CallGoes, FinalGoes,
                FinalState
  <2> QED
    BY <1>1, <1>2, <1>3, <2>1 DEF TypeOK
<1>7. ASSUME NEW q \in Call, ReadEvent(q) PROVE LockIsHeld'
  BY <1>3, <1>7 DEF ReadEvent
<1> QED
  BY <1>3, <1>4, <1>5, <1>6, <1>7 DEF Next, vars

\* The goroutine that waits for syncLock finds it free, the one that waits for the
\* wallet to sync finds it unlocked, and the one that sends finds room in its channel.
NoneStuck == \A q \in Call :
    /\ final[q] = "acquire" => syncLock = NoCall
    /\ final[q] = "event" => ~locked
    /\ final[q] = "send" => sendTo[q] # NoCall /\ chan[sendTo[q]] = "open"

\* With clients that wait for each other, no goroutine of an unlock waits for what
\* nobody will give it: none holds syncLock for ever, none waits for a wallet that was
\* locked meanwhile or blocks on a nil or a full channel.
THEOREM NoUnlockStuck == ASSUME Serial PROVE Spec => []NoneStuck
<1>1. Init => LInv
  BY InitType DEF Init, LInv, FInv, OneThread, ClosedIsForgotten, LockIsHeld
<1>2. LInv /\ [Next]_vars => LInv'
  BY NextType, NextFInv, NextLInv DEF LInv, FInv
<1>3. LInv /\ IInv => NoneStuck
  <2> SUFFICES ASSUME LInv, IInv, NEW q \in Call
               PROVE  /\ final[q] = "acquire" => syncLock = NoCall
                      /\ final[q] = "event" => ~locked
                      /\ final[q] = "send" => sendTo[q] # NoCall /\ chan[sendTo[q]] = "open"
    BY DEF NoneStuck
  <2>1. FinalStage(q)
    BY DEF IInv
  <2>2. ASSUME final[q] = "acquire" PROVE syncLock = NoCall
    <3>1. ASSUME syncLock # NoCall PROVE FALSE
      <4>1. syncLock \in Call /\ final[syncLock] \in {"event", "send"}
        BY <3>1 DEF LInv, LockIsHeld, IInv, TypeOK
      <4> QED
        BY <2>2, <4>1 DEF IInv, OneActor, Active
    <3> QED
      BY <3>1
  <2>3. final[q] = "send" => sendTo[q] # NoCall /\ chan[sendTo[q]] = "open"
    BY <2>1, LifecycleAssumption DEF FinalStage
  <2> QED
    BY <2>1, <2>2, <2>3 DEF FinalStage
<1> QED
  BY <1>1, <1>2, <1>3, InductiveInvariant, PTL DEF Spec
-----------------------------------------------------------------------------
(* The life cycle implements WalletPhases.                                  *)

\* The steps of each operation are taken by calls of that operation.
OpStage == \A q \in Call :
    /\ call[q] \in {"unlock", "assemble", "arm"} \/ final[q] # "none" => op[q] = "unlock"
    /\ call[q] = "lock" => op[q] = "lock"
    /\ TearingDown(q) => op[q] \in {"lock", "reset"}

PInv == IInv /\ OpStage

LEMMA NextOpStage == ASSUME TypeOK, OpStage, [Next]_vars PROVE OpStage'
<1> USE DEF TypeOK, OpStage, TearingDown, channels, fields
<1>1. CASE UNCHANGED vars
  BY <1>1 DEF vars
<1>2. ASSUME NEW q \in Call, Calls(q) PROVE OpStage'
  <2>1. CASE Setup(q) \/ UnlockNode(q)
    BY <2>1 DEF Setup, UnlockNode, Begin
  <2>2. CASE LockNode(q)
    BY <2>2 DEF LockNode, Begin
  <2>3. CASE ResetWallet(q)
    BY <2>3 DEF ResetWallet, Begin
  <2>4. CASE UnlockWallet(q) \/ Assemble(q) \/ ArmSync(q)
    BY <2>4 DEF UnlockWallet, Assemble, ArmSync, CallGoes
  <2>5. CASE LockWallet(q)
    BY <2>5 DEF LockWallet, CallGoes
  <2> QED
    BY <1>2, <2>1, <2>2, <2>3, <2>4, <2>5 DEF Calls
<1>3. ASSUME NEW q \in Call, Finishes(q) PROVE OpStage'
  BY <1>3 DEF Finishes, AcquireSyncLock, SyncEvent, SendEvent, SendPanics, GiveUp, LoadKey,
              DumpFails, StartDelegate, OpenGate, Relock, FinalGoes
<1>4. ASSUME NEW q \in Call, TearsDown(q) PROVE OpStage'
  BY <1>4 DEF TearsDown, StopDelegate, StopServices, CloseGate, ForgetChannel, CallGoes, FinalGoes
<1>5. ASSUME NEW q \in Call, ReadEvent(q) PROVE OpStage'
  BY <1>5 DEF ReadEvent
<1> QED
  BY <1>1, <1>2, <1>3, <1>4, <1>5 DEF Next

\* The other calls are over, as they are with Alone, and stay so.
OthersOver(q) == \A p \in Call \ {q} : call[p] = "idle" /\ final[p] = "none"

LEMMA OthersStay ==
    ASSUME TypeOK, NEW q \in Call, OthersOver(q), Calls(q) \/ Finishes(q) \/ TearsDown(q)
    PROVE  OthersOver(q)'
<1> USE DEF TypeOK, OthersOver, channels, fields
<1>1. CASE Calls(q)
  BY <1>1 DEF Calls, Setup, UnlockNode, UnlockWallet, Assemble, ArmSync, LockNode, LockWallet,
              ResetWallet, Begin, CallGoes
<1>2. CASE Finishes(q)
  BY <1>2 DEF Finishes, AcquireSyncLock, SyncEvent, SendEvent, SendPanics, GiveUp, LoadKey,
              DumpFails, StartDelegate, OpenGate, Relock, FinalGoes
<1>3. CASE TearsDown(q)
  BY <1>3 DEF TearsDown, StopDelegate, StopServices, CloseGate, ForgetChannel, CallGoes, FinalGoes
<1> QED
  BY <1>1, <1>2, <1>3

\* The phase when q alone may be under way, ...
LEMMA PhaseOfOne ==
    ASSUME NEW q \in Call, OthersOver(q)
    PROVE  /\ ~Active(q) => Phase = RestPhase
           /\ Active(q) /\ op[q] = "unlock" => Phase = "unlocking"
           /\ Active(q) /\ op[q] = "lock" => Phase = "locking"
           /\ Active(q) /\ op[q] = "reset" => Phase = "resetting"
  BY DEF Phase, OthersOver, Active, Resting, Only

\* ... and after its step.
LEMMA PhaseOfOneNext ==
    ASSUME NEW q \in Call, OthersOver(q)'
    PROVE  /\ ~Active(q)' => Phase' = RestPhase'
           /\ Active(q)' /\ op'[q] = "unlock" => Phase' = "unlocking"
           /\ Active(q)' /\ op'[q] = "lock" => Phase' = "locking"
           /\ Active(q)' /\ op'[q] = "reset" => Phase' = "resetting"
  BY DEF Phase, OthersOver, Active, Resting, Only

PhaseStep == [Phases!PhasesNext]_(Phases!phaseVars)

\* A step is one of a call whose others are over, which tells where the wallet is ...
LEMMA OneNow ==
    ASSUME Serial, PInv, NEW q \in Call, Calls(q) \/ Finishes(q) \/ TearsDown(q)
    PROVE  /\ OthersOver(q)
           /\ CallStage(q) /\ FinalStage(q)
           /\ ~Active(q) => AtRest
<1>1. OthersOver(q)
  BY BeginsAlone, InHand
     DEF PInv, OthersOver, Alone, Active, CallGoes, FinalGoes, Calls, Setup, UnlockNode, LockNode,
         ResetWallet, UnlockWallet, Assemble, ArmSync, LockWallet, Finishes, AcquireSyncLock,
         SyncEvent, SendEvent, SendPanics, GiveUp, LoadKey, DumpFails, StartDelegate, OpenGate,
         Relock, TearsDown, StopDelegate, StopServices, CloseGate, ForgetChannel
<1> QED
  BY <1>1 DEF PInv, IInv, RestStage, OthersOver, Active

\* ... before and after it.
LEMMA OneNext ==
    ASSUME PInv', NEW q \in Call, OthersOver(q)'
    PROVE  /\ CallStage(q)' /\ FinalStage(q)'
           /\ ~Active(q)' => AtRest'
  BY DEF PInv, IInv, RestStage, OthersOver, Active

\* A wallet at rest is in one of the four phases of rest.
LEMMA PhaseAtRest ==
    /\ AtRest /\ ~isInitialized => RestPhase = "none" /\ ~GateOpen
    /\ AtRest /\ isInitialized /\ locked => RestPhase = "down" /\ ~GateOpen
    /\ GateOpen => RestPhase = "up"
    /\ AtRest /\ isInitialized /\ ~locked /\ ~GateOpen => ~Unwound /\ RestPhase = "wedged"
    /\ RestPhase \in {"none", "down", "up", "wedged"}
  BY DEF AtRest, RestPhase, Down, GateOpen, Closed, Keyless, Idling, Wedged

LEMMA PhaseAtRestNext ==
    /\ AtRest' /\ ~isInitialized' => RestPhase' = "none" /\ ~GateOpen'
    /\ AtRest' /\ isInitialized' /\ locked' => RestPhase' = "down" /\ ~GateOpen'
    /\ GateOpen' => RestPhase' = "up"
    /\ AtRest' /\ isInitialized' /\ ~locked' /\ ~GateOpen' => ~Unwound /\ RestPhase' = "wedged"
  BY DEF AtRest, RestPhase, Down, GateOpen, Closed, Keyless, Idling, Wedged, Unwound

\* As truth values the gate before and after a step compare.
LEMMA GateBoolean ==
    /\ GateOpen \in BOOLEAN /\ GateOpen' \in BOOLEAN
    /\ ~GateOpen => GateOpen = FALSE
    /\ ~GateOpen' => GateOpen' = FALSE
    /\ GateOpen' => GateOpen' = TRUE
  BY DEF GateOpen

LEMMA CallsPhase == ASSUME Serial, PInv, PInv', NEW q \in Call, Calls(q) PROVE PhaseStep
<1> USE DEF fields, channels, Active, PhaseStep, Phases!PhasesNext, Phases!phaseVars
<1>1. TypeOK
  BY DEF PInv, IInv
<1>2. OthersOver(q) /\ OthersOver(q)'
  BY <1>1, OneNow, OthersStay
<1>3. CallStage(q) /\ FinalStage(q) /\ (~Active(q) => AtRest) /\ (~Active(q)' => AtRest')
  BY <1>2, OneNow, OneNext
<1>4. /\ call \in [Call -> CallState]
      /\ final \in [Call -> FinalState]
      /\ op \in [Call -> Op \cup {"none"}]
  BY <1>1 DEF TypeOK
<1>5. OpStage
  BY DEF PInv
<1>6. CASE Setup(q)
  <2>1. ~Active(q) /\ ~Active(q)'
    BY <1>6 DEF Setup, Begin
  <2>2. Phase = "none" /\ ~GateOpen
    BY <1>2, <1>3, <1>6, <2>1, PhaseOfOne, PhaseAtRest DEF Setup
  <2>3. Phase' = "down" /\ ~GateOpen'
    BY <1>2, <1>3, <1>6, <2>1, PhaseOfOneNext, PhaseAtRestNext DEF Setup
  <2> QED
    BY <2>2, <2>3, GateBoolean DEF Phases!Create
<1>7. CASE UnlockNode(q)
  <2>1. ~Active(q) /\ Active(q)' /\ op'[q] = "unlock"
    BY <1>4, <1>7 DEF UnlockNode, Begin
  <2>2. Phase = "down" /\ ~GateOpen
    BY <1>2, <1>3, <1>7, <2>1, PhaseOfOne, PhaseAtRest DEF UnlockNode
  <2>3. Phase' = "unlocking" /\ GateOpen' = GateOpen
    BY <1>2, <1>7, <2>1, PhaseOfOneNext DEF UnlockNode, GateOpen
  <2> QED
    BY <2>2, <2>3 DEF Phases!Unlock
<1>8. CASE UnlockWallet(q) \/ Assemble(q) \/ ArmSync(q)
  <2>1. op[q] = "unlock" /\ Active(q) /\ op'[q] = "unlock"
    BY <1>5, <1>8 DEF OpStage, UnlockWallet, Assemble, ArmSync, CallGoes
  <2>2. Phase = "unlocking" /\ ~GateOpen
    BY <1>2, <1>3, <1>8, <2>1, PhaseOfOne
       DEF UnlockWallet, Assemble, ArmSync, CallGoes, CallStage, Closed, GateOpen
  <2>3. isInitialized' /\ ~walletReady'
    BY <1>3, <1>8 DEF UnlockWallet, Assemble, ArmSync, CallGoes, CallStage, Closed
  <2>4. CASE Active(q)'
    BY <1>2, <2>1, <2>2, <2>3, <2>4, PhaseOfOneNext DEF GateOpen
  <2>5. CASE ~Active(q)'
    <3>1. Phase' = RestPhase' /\ AtRest' /\ ~GateOpen'
      BY <1>2, <1>3, <2>3, <2>5, PhaseOfOneNext DEF GateOpen
    <3>2. Phase' = "down" \/ (Phase' = "wedged" /\ ~Unwound)
      BY <2>3, <3>1, PhaseAtRestNext
    <3> QED
      BY <2>2, <3>1, <3>2, GateBoolean, LifecycleAssumption DEF Phases!Conclude, Unwound
  <2> QED
    BY <2>4, <2>5
<1>9. CASE LockNode(q)
  <2>1. ~Active(q) /\ Active(q)' /\ op'[q] = "lock"
    BY <1>4, <1>9 DEF LockNode, Begin
  <2>2. Phase = "up"
    BY <1>2, <1>9, <2>1, PhaseOfOne, PhaseAtRest DEF LockNode
  <2>3. Phase' = "locking" /\ GateOpen' = GateOpen
    BY <1>2, <1>9, <2>1, PhaseOfOneNext DEF LockNode, GateOpen
  <2> QED
    BY <2>2, <2>3 DEF Phases!Lock
<1>10. CASE LockWallet(q)
  <2>1. op[q] = "lock" /\ Active(q) /\ op'[q] = "lock"
    BY <1>5, <1>10 DEF OpStage, LockWallet, CallGoes
  <2>2. Phase = "locking" /\ GateOpen
    BY <1>2, <1>3, <1>10, <2>1, PhaseOfOne DEF LockWallet, CallGoes, CallStage
  <2>3. CASE CallGoes(q, "lock", "delegate") /\ locked' = TRUE
    <3>1. Active(q)' /\ ~GateOpen'
      BY <1>4, <2>3 DEF CallGoes, GateOpen
    <3> QED
      BY <1>2, <2>1, <2>2, <3>1, PhaseOfOneNext, GateBoolean DEF Phases!StopServing
  <2>4. CASE CallGoes(q, "lock", "idle") /\ UNCHANGED locked
    <3>1. ~Active(q)'
      BY <1>3, <1>4, <2>4 DEF CallGoes, FinalStage, CallStage, GateOpen
    <3>2. GateOpen'
      BY <1>10, <2>2, <2>4 DEF LockWallet, GateOpen
    <3> QED
      BY <1>2, <2>2, <3>1, <3>2, PhaseOfOneNext, PhaseAtRestNext DEF Phases!Locked
  <2> QED
    BY <1>10, <2>3, <2>4 DEF LockWallet
<1>11. CASE ResetWallet(q)
  <2>1. ~Active(q) /\ Active(q)' /\ op'[q] = "reset"
    BY <1>4, <1>11 DEF ResetWallet, Begin
  <2>2. Phase \in {"none", "down", "up", "wedged"}
    BY <1>2, <2>1, PhaseOfOne, PhaseAtRest
  <2>3. Phase' = "resetting"
    BY <1>2, <2>1, PhaseOfOneNext
  <2>4. GateOpen' \in {GateOpen, FALSE}
    <3>1. isInitialized' = isInitialized /\ synced' = synced /\ walletReady' = walletReady
          /\ (locked' = locked \/ locked')
      BY <1>11 DEF ResetWallet
    <3> QED
      BY <3>1, GateBoolean DEF GateOpen
  <2> QED
    BY <2>2, <2>3, <2>4 DEF Phases!Reset
<1> QED
  BY <1>6, <1>7, <1>8, <1>9, <1>10, <1>11 DEF Calls

LEMMA FinishesPhase == ASSUME Serial, PInv, PInv', NEW q \in Call, Finishes(q) PROVE PhaseStep
<1> USE DEF fields, channels, Active, PhaseStep, Phases!PhasesNext, Phases!phaseVars
<1>1. TypeOK /\ OpStage /\ OpStage'
  BY DEF PInv, IInv
<1>2. OthersOver(q) /\ OthersOver(q)'
  BY <1>1, OneNow, OthersStay
<1>3. CallStage(q) /\ FinalStage(q) /\ FinalStage(q)' /\ (~Active(q)' => AtRest')
  BY <1>2, OneNow, OneNext
<1>4. final[q] # "none"
  BY DEF Finishes, AcquireSyncLock, SyncEvent, SendEvent, SendPanics, GiveUp, LoadKey, DumpFails,
         StartDelegate, OpenGate, Relock, FinalGoes
<1>5. Phase = "unlocking" /\ ~GateOpen
  BY <1>1, <1>2, <1>3, <1>4, PhaseOfOne DEF OpStage, FinalStage, GateOpen
<1>6. CASE final'[q] # "none"
  BY <1>1, <1>2, <1>3, <1>5, <1>6, PhaseOfOneNext DEF OpStage, FinalStage, GateOpen
<1>7. CASE final'[q] = "none"
  <2>1. final \in [Call -> FinalState] /\ call[q] = "idle"
    BY <1>1, <1>4 DEF TypeOK, PInv, IInv, OneActor
  <2>2. OpenGate(q) \/ Relock(q)
    BY <1>3, <1>4, <1>7, <2>1
       DEF FinalStage, Finishes, AcquireSyncLock, SyncEvent, SendEvent, SendPanics, GiveUp, LoadKey,
           DumpFails, StartDelegate, FinalGoes
  <2>3. isInitialized' /\ ~Active(q)'
    BY <1>3, <1>4, <1>7, <2>1, <2>2 DEF FinalStage, OpenGate, Relock, FinalGoes
  <2>4. Phase' = RestPhase' /\ AtRest'
    BY <1>2, <1>3, <2>3, PhaseOfOneNext
  <2>5. CASE OpenGate(q)
    <3>1. GateOpen'
      BY <1>3, <2>5 DEF OpenGate, FinalGoes, FinalStage, GateOpen
    <3> QED
      BY <1>5, <2>4, <3>1, PhaseAtRestNext DEF Phases!Conclude
  <2>6. CASE Relock(q)
    <3>1. ~GateOpen'
      BY <1>3, <2>6 DEF Relock, FinalGoes, FinalStage, GateOpen
    <3>2. Phase' = "down" \/ (Phase' = "wedged" /\ ~Unwound)
      BY <2>3, <2>4, <3>1, PhaseAtRestNext
    <3> QED
      BY <1>5, <3>1, <3>2, GateBoolean, LifecycleAssumption DEF Phases!Conclude, Unwound
  <2> QED
    BY <2>2, <2>5, <2>6
<1> QED
  BY <1>6, <1>7

LEMMA TearsDownPhase == ASSUME Serial, PInv, PInv', NEW q \in Call, TearsDown(q) PROVE PhaseStep
<1> USE DEF fields, channels, Active, PhaseStep, Phases!PhasesNext, Phases!phaseVars
<1>1. TypeOK /\ OpStage /\ OpStage'
  BY DEF PInv, IInv
<1>2. OthersOver(q) /\ OthersOver(q)'
  BY <1>1, OneNow, OthersStay
<1>3. /\ CallStage(q) /\ FinalStage(q) /\ CallStage(q)' /\ FinalStage(q)'
      /\ ~Active(q)' => AtRest'
  BY <1>2, OneNow, OneNext
<1>4. call \in [Call -> CallState] /\ final \in [Call -> FinalState] /\ UNCHANGED op
  BY <1>1 DEF TypeOK, TearsDown, StopDelegate, StopServices, CloseGate, ForgetChannel, CallGoes,
              FinalGoes
<1>5. CASE final[q] # "none"
  <2>1. final'[q] # "none"
    BY <1>1, <1>4, <1>5 DEF PInv, IInv, OneActor, TearsDown, StopDelegate, StopServices, CloseGate,
                            ForgetChannel, CallGoes, FinalGoes
  <2>2. Phase = "unlocking" /\ Phase' = "unlocking"
    BY <1>1, <1>2, <1>5, <2>1, PhaseOfOne, PhaseOfOneNext DEF OpStage
  <2> QED
    BY <1>3, <1>5, <2>1, <2>2 DEF FinalStage, GateOpen
<1>6. CASE final[q] = "none"
  <2>1. TearingDown(q) /\ op[q] \in {"lock", "reset"}
    BY <1>1, <1>6 DEF OpStage, TearsDown, StopDelegate, StopServices, CloseGate, ForgetChannel,
                      CallGoes, FinalGoes, TearingDown
  <2>2. Phase = IF op[q] = "lock" THEN "locking" ELSE "resetting"
    BY <1>2, <2>1, PhaseOfOne DEF TearingDown
  <2>3. Active(q)' => Phase' = Phase
    BY <1>2, <1>4, <2>1, <2>2, PhaseOfOneNext
  <2>4. CASE StopDelegate(q) \/ StopServices(q)
    <3>1. Active(q)' /\ GateOpen' = GateOpen
      BY <1>4, <1>6, <2>4 DEF StopDelegate, StopServices, CallGoes, FinalGoes, GateOpen
    <3> QED
      BY <2>3, <3>1
  <2>5. CASE CloseGate(q)
    <3>1. Active(q)' /\ ~GateOpen'
      BY <1>4, <1>6, <2>5 DEF CloseGate, CallGoes, FinalGoes, GateOpen
    <3> QED
      BY <2>2, <2>3, <3>1, GateBoolean DEF Phases!StopServing
  <2>6. CASE ForgetChannel(q)
    <3>1. call[q] = "channel" /\ ~Active(q)' /\ UNCHANGED <<isInitialized, locked, walletReady>>
      BY <1>4, <1>6, <2>6 DEF ForgetChannel, CallGoes, FinalGoes
    <3>2. Phase' = RestPhase' /\ AtRest'
      BY <1>2, <1>3, <3>1, PhaseOfOneNext
    <3>3. CASE op[q] = "lock"
      <4>1. isInitialized' /\ locked' /\ ~GateOpen
        BY <1>3, <2>1, <3>1, <3>3 DEF CallStage, GateOpen
      <4> QED
        BY <2>2, <3>2, <3>3, <4>1, PhaseAtRestNext, GateBoolean DEF Phases!Locked
    <3>4. CASE op[q] = "reset"
      <4>1. ~isInitialized' /\ ~GateOpen
        BY <1>3, <3>1, <3>4 DEF CallStage, GateOpen
      <4> QED
        BY <2>2, <3>2, <3>4, <4>1, PhaseAtRestNext, GateBoolean DEF Phases!Wiped
    <3> QED
      BY <2>1, <3>3, <3>4
  <2> QED
    BY <2>4, <2>5, <2>6 DEF TearsDown
<1> QED
  BY <1>5, <1>6

LEMMA ReadEventPhase == ASSUME NEW q \in Call, ReadEvent(q) PROVE PhaseStep
  BY DEF ReadEvent, fields, PhaseStep, Phases!phaseVars, Phase, RestPhase, Resting, Only, Down,
         GateOpen

\* With clients that wait for each other, what they see of the life cycle is what
\* WalletPhases promises, whatever fails: no call is served under an unlock or
\* again after a lock or a reset took hold, each operation ends where it says, and
\* only a failure that UnlockNode does not undo ends an unlock neither up nor down.
THEOREM LifecycleKeepsPhases == ASSUME Serial PROVE Spec => KeepsPhases
<1>1. Init => PInv
  BY InitIInv DEF Init, PInv, OpStage, TearingDown
<1>2. PInv /\ [Next]_vars => PInv'
  BY NextIInv, NextOpStage DEF PInv, IInv
<1>3. Init => Phases!PhasesInit
  BY DEF Init, Phases!PhasesInit, Phase, RestPhase, Resting, Down, GateOpen
<1>4. ASSUME PInv, PInv', [Next]_vars PROVE [Phases!PhasesNext]_(Phases!phaseVars)
  <2>1. CASE UNCHANGED vars
    BY <2>1 DEF vars, fields, channels, Phases!phaseVars, Phase, RestPhase, Resting, Only, Down,
                GateOpen
  <2>2. CASE Next
    BY <1>4, <2>2, CallsPhase, FinishesPhase, TearsDownPhase, ReadEventPhase DEF Next, PhaseStep
  <2> QED
    BY <1>4, <2>1, <2>2
<1> QED
  BY <1>1, <1>2, <1>3, <1>4, PTL DEF Spec, KeepsPhases, Phases!PhasesSpec
=============================================================================
