------------------------- MODULE SubscriptionProofs -------------------------
(***************************************************************************)
(* Theorems about Subscription: type correctness, that a listed script is  *)
(* watched, and that only a call that outlived its handler leaves another  *)
(* one running, for any number of calls, scripts and handlers.             *)
(***************************************************************************)
EXTENDS Subscription, TLAPS

-----------------------------------------------------------------------------
(* Type correctness.                                                        *)

LEMMA InitType == Init => TypeOK
  BY DEF Init, TypeOK, WalletState

LEMMA LifecycleType == ASSUME TypeOK, Lifecycle PROVE TypeOK'
<1> USE SubscriptionAssumption DEF TypeOK, WalletState, table, handlers, calls, history, Busy, Held
<1>1. CASE ReadScripts
  BY <1>1 DEF ReadScripts
<1>2. ASSUME NEW h \in Handler, StartHandler(h) PROVE TypeOK'
  BY <1>2 DEF StartHandler
<1>3. CASE StartFails \/ OpenGate \/ LockWallet \/ ResetWallet \/ CloseGate
  BY <1>3 DEF StartFails, OpenGate, LockWallet, ResetWallet, CloseGate
<1>4. CASE Unwind
  BY <1>4 DEF Unwind, Stop
<1>5. CASE StopHandler
  BY <1>5 DEF StopHandler, Stop
<1>6. CASE Die
  BY <1>6 DEF Die
<1> QED
  BY <1>1, <1>2, <1>3, <1>4, <1>5, <1>6 DEF Lifecycle

LEMMA RequestType == ASSUME TypeOK, NEW q \in Call, Request(q) PROVE TypeOK'
<1> USE SubscriptionAssumption DEF TypeOK, WalletState, table, handlers, history, Busy, Returns, Proceeds
<1>1. ASSUME NEW k \in {"subscribe", "unsubscribe"}, NEW S \in SUBSET Script, Begin(q, k, S)
      PROVE  TypeOK'
  BY <1>1 DEF Begin, GateIsOpen
<1>9. CASE TakeHandler(q)
  BY <1>9 DEF TakeHandler
<1>2. CASE AddScripts(q)
  BY <1>2 DEF AddScripts
<1>3. CASE DeleteScripts(q)
  BY <1>3 DEF DeleteScripts
<1>4. CASE TableFails(q)
  BY <1>4 DEF TableFails
<1>5. CASE StartSubscription(q)
  BY <1>5 DEF StartSubscription
<1>6. CASE WatchScripts(q)
  BY <1>6 DEF WatchScripts
<1>7. CASE UnwatchScripts(q)
  BY <1>7 DEF UnwatchScripts
<1>8. CASE IndexerFails(q)
  BY <1>8 DEF IndexerFails
<1> QED
  BY <1>1, <1>2, <1>3, <1>4, <1>5, <1>6, <1>7, <1>8, <1>9 DEF Request

LEMMA NextType == TypeOK /\ [Next]_vars => TypeOK'
<1> SUFFICES ASSUME TypeOK, [Next]_vars PROVE TypeOK'
  OBVIOUS
<1>1. CASE UNCHANGED vars
  BY <1>1 DEF TypeOK, vars, table, handlers, calls, history
<1> QED
  BY <1>1, LifecycleType, RequestType DEF Next

\* Every variable keeps its type, a handler whose id is not set is told nothing,
\* and a call that passed the gate finds a handler to take, whatever calls,
\* locks, resets, crashes and refusals do to each other.
THEOREM SubscriptionTypeCorrect == Spec => []TypeOK
<1>1. Init => TypeOK
  BY InitType
<1>2. TypeOK /\ [Next]_vars => TypeOK'
  BY NextType
<1> QED
  BY <1>1, <1>2, PTL DEF Spec

-----------------------------------------------------------------------------
(* A handler that is live is the wallet's, or a call outlived it.           *)

Serving == wallet \in {"assembled", "up", "stopping", "wiping"}

\* A call has the handler of the wallet or is to take it, or it outlived that one.
CallsOutlive ==
    /\ \A q \in Call : via[q] # NoHandler => via[q] \in outlived \/ (via[q] = current /\ Serving)
    /\ \A q \in Call : at[q] = "gate" => current \in outlived \/ Serving

OInv == TypeOK /\ CallsOutlive /\ OthersAreOutlived

LEMMA LifecycleOInv == ASSUME OInv, Lifecycle PROVE CallsOutlive' /\ OthersAreOutlived'
<1> USE SubscriptionAssumption
    DEF OInv, TypeOK, CallsOutlive, OthersAreOutlived, Serving, Held, table, handlers, calls,
        history
<1>1. CASE ReadScripts
  BY <1>1 DEF ReadScripts
<1>2. ASSUME NEW h \in Handler, StartHandler(h) PROVE CallsOutlive' /\ OthersAreOutlived'
  BY <1>2 DEF StartHandler
<1>3. CASE StartFails \/ OpenGate \/ LockWallet \/ ResetWallet \/ CloseGate
  BY <1>3 DEF StartFails, OpenGate, LockWallet, ResetWallet, CloseGate
<1>4. CASE Unwind
  BY <1>4 DEF Unwind, Stop
<1>5. CASE StopHandler
  BY <1>5 DEF StopHandler, Stop
<1>6. CASE Die
  BY <1>6 DEF Die
<1> QED
  BY <1>1, <1>2, <1>3, <1>4, <1>5, <1>6 DEF Lifecycle

LEMMA RequestOInv ==
    ASSUME OInv, NEW q \in Call, Request(q) PROVE CallsOutlive' /\ OthersAreOutlived'
<1> USE SubscriptionAssumption
    DEF OInv, TypeOK, CallsOutlive, OthersAreOutlived, Serving, table, handlers, history, Returns,
        Proceeds
<1>1. ASSUME NEW k \in {"subscribe", "unsubscribe"}, NEW S \in SUBSET Script, Begin(q, k, S)
      PROVE  CallsOutlive' /\ OthersAreOutlived'
  BY <1>1 DEF Begin, GateIsOpen
<1>5. CASE TakeHandler(q)
  BY <1>5 DEF TakeHandler
<1>2. CASE AddScripts(q) \/ DeleteScripts(q) \/ TableFails(q)
  BY <1>2 DEF AddScripts, DeleteScripts, TableFails
<1>3. CASE StartSubscription(q)
  BY <1>3 DEF StartSubscription
<1>4. CASE WatchScripts(q) \/ UnwatchScripts(q) \/ IndexerFails(q)
  BY <1>4 DEF WatchScripts, UnwatchScripts, IndexerFails
<1> QED
  BY <1>1, <1>2, <1>3, <1>4, <1>5 DEF Request

\* A locked wallet gets no events, and an unlocked one only those of its own
\* handler, unless a call had the other handler, or was to take it, as it was
\* stopped, or came through the gate that a reset had not closed yet.
THEOREM OthersOutlived == Spec => []OthersAreOutlived
<1>1. Init => OInv
  BY InitType DEF Init, OInv, CallsOutlive, OthersAreOutlived
<1>2. OInv /\ [Next]_vars => OInv'
  <2> SUFFICES ASSUME OInv, [Next]_vars PROVE OInv'
    OBVIOUS
  <2>1. TypeOK'
    BY NextType DEF OInv
  <2>2. CASE UNCHANGED vars
    BY <2>1, <2>2 DEF OInv, CallsOutlive, OthersAreOutlived, Serving, vars, handlers, calls, history
  <2> QED
    BY <2>1, <2>2, LifecycleOInv, RequestOInv DEF OInv, Next
<1>3. OInv => OthersAreOutlived
  BY DEF OInv
<1> QED
  BY <1>1, <1>2, <1>3, PTL DEF Spec

-----------------------------------------------------------------------------
(* A listed script is watched.                                              *)

\* Until the gate opens, the calls under way came through it before the handler
\* was made, and what they are about is tangled.
Older ==
    wallet \in {"starting", "assembled"} => \A q \in Call : scripts[q] \subseteq tangled

\* The table is what was read, then what is watched.
ReadIsListed == wallet = "starting" => \A s \in Script \ tangled : s \in listed <=> s \in read

StartedIsListed ==
    wallet = "assembled" => \A s \in Script \ tangled : s \in listed <=> s \in watched[current]

\* A script that is not tangled has one call about it at most, with the handler
\* of the wallet; between its two steps the table is ahead of the indexer.
OneCall ==
    wallet = "up" =>
        /\ \A p, q \in Call : p # q => scripts[p] \cap scripts[q] \subseteq tangled
        /\ \A q \in Call : at[q] # "gate" /\ via[q] # current => scripts[q] \subseteq tangled

TableIsAhead ==
    wallet = "up" =>
        \A q \in Call, s \in Script \ tangled :
            s \in scripts[q] =>
                \/ at[q] \in {"gate", "table"} /\ (s \in listed <=> s \in watched[current])
                \/ at[q] = "indexer" /\ (s \in listed <=> kind[q] = "subscribe")

WInv ==
    /\ TypeOK
    /\ Older
    /\ ReadIsListed
    /\ StartedIsListed
    /\ OneCall
    /\ TableIsAhead
    /\ ListedIsWatched

Consequence == Older /\ ReadIsListed /\ StartedIsListed /\ OneCall /\ TableIsAhead /\ ListedIsWatched

LEMMA LifecycleWInv == ASSUME WInv, Lifecycle PROVE Consequence'
<1> USE SubscriptionAssumption
    DEF Consequence, WInv, TypeOK, Older, ReadIsListed, StartedIsListed, OneCall, TableIsAhead,
        ListedIsWatched, Busy, table, handlers, calls, history
<1>1. CASE ReadScripts
  BY <1>1 DEF ReadScripts
<1>2. ASSUME NEW h \in Handler, StartHandler(h) PROVE Consequence'
  BY <1>2 DEF StartHandler
<1>3. CASE StartFails
  BY <1>3 DEF StartFails
<1>4. CASE OpenGate
  BY <1>4 DEF OpenGate
<1>5. CASE Unwind
  BY <1>5 DEF Unwind
<1>6. CASE LockWallet
  BY <1>6 DEF LockWallet
<1>7. CASE StopHandler
  BY <1>7 DEF StopHandler
<1>8. CASE Die
  BY <1>8 DEF Die
<1>9. CASE ResetWallet \/ CloseGate
  BY <1>9 DEF ResetWallet, CloseGate
<1> QED
  BY <1>1, <1>2, <1>3, <1>4, <1>5, <1>6, <1>7, <1>8, <1>9 DEF Lifecycle

LEMMA RequestWInv == ASSUME WInv, NEW q \in Call, Request(q) PROVE Consequence'
<1> USE SubscriptionAssumption
    DEF Consequence, WInv, TypeOK, Older, ReadIsListed, StartedIsListed, OneCall, TableIsAhead,
        ListedIsWatched, Busy, table, handlers, history, Returns, Proceeds
<1>1. ASSUME NEW k \in {"subscribe", "unsubscribe"}, NEW S \in SUBSET Script, Begin(q, k, S)
      PROVE  Consequence'
  BY <1>1 DEF Begin, GateIsOpen
<1>9. CASE TakeHandler(q)
  BY <1>9 DEF TakeHandler
<1>2. CASE AddScripts(q)
  BY <1>2 DEF AddScripts
<1>3. CASE DeleteScripts(q)
  BY <1>3 DEF DeleteScripts
<1>4. CASE TableFails(q)
  BY <1>4 DEF TableFails
<1>5. CASE StartSubscription(q)
  BY <1>5 DEF StartSubscription
<1>6. CASE WatchScripts(q)
  BY <1>6 DEF WatchScripts
<1>7. CASE UnwatchScripts(q)
  BY <1>7 DEF UnwatchScripts
<1>8. CASE IndexerFails(q)
  BY <1>8 DEF IndexerFails
<1> QED
  BY <1>1, <1>2, <1>3, <1>4, <1>5, <1>6, <1>7, <1>8, <1>9 DEF Request

\* While the wallet is up the indexer watches exactly the listed scripts, but for
\* those a call is about or that are tangled.
THEOREM ListedWatched == Spec => []ListedIsWatched
<1>1. Init => WInv
  BY InitType DEF Init, WInv, Older, ReadIsListed, StartedIsListed, OneCall, TableIsAhead,
                  ListedIsWatched
<1>2. WInv /\ [Next]_vars => WInv'
  <2> SUFFICES ASSUME WInv, [Next]_vars PROVE WInv'
    OBVIOUS
  <2>1. TypeOK'
    BY NextType DEF WInv
  <2>2. CASE UNCHANGED vars
    BY <2>1, <2>2 DEF WInv, Older, ReadIsListed, StartedIsListed, OneCall, TableIsAhead,
                      ListedIsWatched, Busy, vars, table, handlers, calls, history
  <2>3. CASE Next
    BY <2>1, <2>3, LifecycleWInv, RequestWInv DEF WInv, Consequence, Next
  <2> QED
    BY <2>2, <2>3
<1>3. WInv => ListedIsWatched
  BY DEF WInv
<1> QED
  BY <1>1, <1>2, <1>3, PTL DEF Spec
=============================================================================
