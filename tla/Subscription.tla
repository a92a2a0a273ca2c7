---------------------------- MODULE Subscription ----------------------------
(***************************************************************************)
(* The subscription to the scripts of the user's addresses: the table      *)
(* subscribed_script, the handler each unlock makes from it, and the calls *)
(* of subscribe and unsubscribe, which change the table first and then,    *)
(* under the mutex of the handler they were given, what the indexer        *)
(* reports to that handler.  A lock or a reset stops the handler; a call   *)
(* that is under way keeps its pointer to it, or has still to take it.  A  *)
(* client locks, resets and unlocks one after the other (WalletLifecycle   *)
(* has the other interleavings).                                           *)
(***************************************************************************)
EXTENDS FiniteSets

CONSTANTS
    Call,       \* bound: calls under way at once
    Script,
    Handler,    \* bound: handlers somebody still points to
    NoHandler

ASSUME SubscriptionAssumption == NoHandler \notin Handler

VARIABLES
    listed,     \* the table
    wallet,     \* how far the unlock, the lock or the reset is
    read,       \* what newSubscriptionHandler read from the table
    current,    \* the field externalSubscription
    live,       \* handlers whose id is set: their goroutine delivers events
    watched,    \* the scripts the indexer reports to each handler
    at,         \* where each call is
    kind,       \* subscribe or unsubscribe
    scripts,    \* its argument
    via,        \* the handler it was given
    tangled,    \* history: scripts a refused call, or two calls at once, were about
    outlived    \* history: stopped handlers that a call had or was still to take

table == <<listed, read>>
handlers == <<current, live, watched>>
calls == <<at, kind, scripts, via>>
history == <<tangled, outlived>>
vars == <<table, wallet, handlers, calls, history>>

\* The scripts of the calls under way.
Busy == UNION {scripts[q] : q \in Call}

Init ==
    /\ listed \in SUBSET Script
    /\ read = {}
    /\ wallet = "locked"
    /\ current = NoHandler
    /\ live = {}
    /\ watched = [h \in Handler |-> {}]
    /\ at = [q \in Call |-> "idle"]
    /\ kind = [q \in Call |-> "subscribe"]
    /\ scripts = [q \in Call |-> {}]
    /\ via = [q \in Call |-> NoHandler]
    /\ tangled = {}
    /\ outlived = {}

-----------------------------------------------------------------------------
(* The unlock.                                                              *)

\* The gate of the calls.  A reset leaves it open until its last step; the wallet
\* is also closed to calls when the SDK's reset has locked it.
GateIsOpen == wallet \in {"up", "wiping", "wiped"}

\* newSubscriptionHandler reads the table.  What was tangled is straight again,
\* but for the calls that are still under way with an older handler.
ReadScripts ==
    /\ wallet = "locked"
    /\ wallet' = "starting"
    /\ read' = listed
    /\ tangled' = Busy
    /\ UNCHANGED <<listed, handlers, calls, outlived>>

\* A new handler h, subscribed to what was read if there is any.
StartHandler(h) ==
    /\ wallet = "starting"
    /\ h \in Handler \ live
    /\ \A q \in Call : via[q] # h
    /\ current' = h
    /\ live' = IF read = {} THEN live ELSE live \cup {h}
    /\ watched' = [watched EXCEPT ![h] = read]
    /\ outlived' = outlived \ {h}
    /\ wallet' = "assembled"
    /\ read' = {}
    /\ UNCHANGED <<listed, calls, tangled>>

\* The table cannot be read or the indexer refuses, and UnlockNode returns the
\* error: the wallet stays unlocked with its gate closed.
StartFails ==
    /\ wallet = "starting"
    /\ wallet' = "wedged"
    /\ read' = {}
    /\ UNCHANGED <<listed, handlers, calls, history>>

OpenGate ==
    /\ wallet = "assembled"
    /\ wallet' = "up"
    /\ UNCHANGED <<table, handlers, calls, history>>

\* A call has the handler of the wallet, or is still to take it.
Held == \E q \in Call : at[q] # "idle" /\ via[q] \in {current, NoHandler}

\* Faulty variant: the id is forgotten, the stream stays open.
StopSilently ==
    /\ live' = live \ {current}
    /\ outlived' = IF Held THEN outlived \cup {current} ELSE outlived
    /\ UNCHANGED watched

\* stop: the handler, if there is one, is given up, whoever still points to it.
Stop ==
    /\ live' = live \ {current}
    /\ watched' = [h \in Handler |-> IF h = current THEN {} ELSE watched[h]]
    /\ outlived' = IF Held THEN outlived \cup {current} ELSE outlived

\* Faulty variant: the handler is left running.
UnwindKeeps ==
    /\ wallet = "assembled"
    /\ wallet' = "locked"
    /\ UNCHANGED <<table, handlers, calls, history>>

\* unwindFailedUnlock
Unwind ==
    /\ wallet = "assembled"
    /\ wallet' = "locked"
    /\ Stop
    /\ UNCHANGED <<table, current, calls, tangled>>

-----------------------------------------------------------------------------
(* The lock, the reset and the end of the process.                          *)

\* LockNode locks the wallet, which closes the gate, ...
LockWallet ==
    /\ wallet = "up"
    /\ wallet' = "stopping"
    /\ UNCHANGED <<table, handlers, calls, history>>

\* ResetWallet asks for no gate and wipes the wallet; the table stays.
ResetWallet ==
    /\ \/ wallet = "up" /\ wallet' = "wiping"
       \/ wallet \in {"locked", "wedged"} /\ wallet' = "stopping"
    /\ UNCHANGED <<table, handlers, calls, history>>

\* ... and both stop the handler.
StopHandler ==
    /\ \/ wallet = "stopping" /\ wallet' = "locked"
       \/ wallet = "wiping" /\ wallet' = "wiped"
    /\ Stop
    /\ UNCHANGED <<table, current, calls, tangled>>

\* The reset closes the gate last.
CloseGate ==
    /\ wallet = "wiped"
    /\ wallet' = "locked"
    /\ UNCHANGED <<table, handlers, calls, history>>

\* The process dies; the table is what is left.
Die ==
    /\ wallet' = "locked"
    /\ current' = NoHandler
    /\ live' = {}
    /\ watched' = [h \in Handler |-> {}]
    /\ at' = [q \in Call |-> "idle"]
    /\ scripts' = [q \in Call |-> {}]
    /\ via' = [q \in Call |-> NoHandler]
    /\ outlived' = {}
    /\ read' = {}
    /\ UNCHANGED <<listed, kind, tangled>>

-----------------------------------------------------------------------------
(* subscribe and unsubscribe.                                               *)

\* SubscribeForAddresses or UnsubscribeForAddresses passes the gate ...
Begin(q, k, S) ==
    /\ GateIsOpen
    /\ at[q] = "idle"
    /\ at' = [at EXCEPT ![q] = "gate"]
    /\ kind' = [kind EXCEPT ![q] = k]
    /\ scripts' = [scripts EXCEPT ![q] = S]
    /\ tangled' = tangled \cup (S \cap Busy)
    /\ outlived' = IF wallet = "wiped" THEN outlived \cup {current} ELSE outlived
    /\ UNCHANGED <<table, wallet, handlers, via>>

\* ... and takes the handler, which a lock may have stopped in between.
TakeHandler(q) ==
    /\ at[q] = "gate"
    /\ at' = [at EXCEPT ![q] = "table"]
    /\ via' = [via EXCEPT ![q] = current]
    /\ UNCHANGED <<table, wallet, handlers, kind, scripts, history>>

Returns(q) ==
    /\ at' = [at EXCEPT ![q] = "idle"]
    /\ scripts' = [scripts EXCEPT ![q] = {}]
    /\ via' = [via EXCEPT ![q] = NoHandler]
    /\ UNCHANGED kind

Proceeds(q) ==
    /\ at' = [at EXCEPT ![q] = "indexer"]
    /\ UNCHANGED <<kind, scripts, via>>

\* Faulty variant: a call about any script that is listed has nothing to add.
AddScriptsShort(q) ==
    /\ at[q] = "table"
    /\ kind[q] = "subscribe"
    /\ listed' = listed \cup scripts[q]
    /\ IF listed \cap scripts[q] # {} THEN Returns(q) ELSE Proceeds(q)
    /\ UNCHANGED <<read, wallet, handlers, history>>

\* One transaction adds the scripts; when all were there the call returns.
AddScripts(q) ==
    /\ at[q] = "table"
    /\ kind[q] = "subscribe"
    /\ listed' = listed \cup scripts[q]
    /\ IF scripts[q] \subseteq listed THEN Returns(q) ELSE Proceeds(q)
    /\ UNCHANGED <<read, wallet, handlers, history>>

\* One transaction deletes them; when none was there the call returns.
DeleteScripts(q) ==
    /\ at[q] = "table"
    /\ kind[q] = "unsubscribe"
    /\ listed' = listed \ scripts[q]
    /\ IF scripts[q] \cap listed = {} THEN Returns(q) ELSE Proceeds(q)
    /\ UNCHANGED <<read, wallet, handlers, history>>

\* The transaction fails and changes nothing.
TableFails(q) ==
    /\ at[q] = "table"
    /\ Returns(q)
    /\ UNCHANGED <<table, wallet, handlers, history>>

\* A handler without a subscription starts one for these scripts only.
StartSubscription(q) ==
    /\ at[q] = "indexer"
    /\ kind[q] = "subscribe"
    /\ via[q] \notin live
    /\ live' = live \cup {via[q]}
    /\ watched' = [watched EXCEPT ![via[q]] = scripts[q]]
    /\ Returns(q)
    /\ UNCHANGED <<table, wallet, current, history>>

\* UpdateSubscription with scripts to add.
WatchScripts(q) ==
    /\ at[q] = "indexer"
    /\ kind[q] = "subscribe"
    /\ via[q] \in live
    /\ watched' = [watched EXCEPT ![via[q]] = @ \cup scripts[q]]
    /\ Returns(q)
    /\ UNCHANGED <<table, wallet, current, live, history>>

\* UpdateSubscription with scripts to remove; there is nothing to tell the
\* indexer when the handler has no subscription.
UnwatchScripts(q) ==
    /\ at[q] = "indexer"
    /\ kind[q] = "unsubscribe"
    /\ watched' = IF via[q] \in live THEN [watched EXCEPT ![via[q]] = @ \ scripts[q]]
                                     ELSE watched
    /\ Returns(q)
    /\ UNCHANGED <<table, wallet, current, live, history>>

\* The indexer refuses or cannot be reached.  The table keeps the change.
IndexerFails(q) ==
    /\ at[q] = "indexer"
    /\ kind[q] = "subscribe" \/ via[q] \in live
    /\ tangled' = tangled \cup scripts[q]
    /\ Returns(q)
    /\ UNCHANGED <<table, wallet, handlers, outlived>>

-----------------------------------------------------------------------------
Lifecycle ==
    \/ ReadScripts
    \/ \E h \in Handler : StartHandler(h)
    \/ StartFails
    \/ OpenGate
    \/ Unwind
    \/ LockWallet
    \/ ResetWallet
    \/ StopHandler
    \/ CloseGate
    \/ Die

Request(q) ==
    \/ \E k \in {"subscribe", "unsubscribe"}, S \in SUBSET Script \ {{}} : Begin(q, k, S)
    \/ TakeHandler(q)
    \/ AddScripts(q)
    \/ DeleteScripts(q)
    \/ TableFails(q)
    \/ StartSubscription(q)
    \/ WatchScripts(q)
    \/ UnwatchScripts(q)
    \/ IndexerFails(q)

Next == Lifecycle \/ \E q \in Call : Request(q)

Spec == Init /\ [][Next]_vars

-----------------------------------------------------------------------------
(* Properties.                                                              *)

WalletState ==
    {"locked", "starting", "assembled", "up", "stopping", "wiping", "wiped", "wedged"}

\* Every variable has its type; a handler without a subscription is told
\* nothing, and there is a handler once the wallet is assembled, and as long as a
\* call is to use it.
TypeOK ==
    /\ listed \subseteq Script
    /\ read \subseteq Script
    /\ wallet \in WalletState
    /\ current \in Handler \cup {NoHandler}
    /\ live \subseteq Handler
    /\ watched \in [Handler -> SUBSET Script]
    /\ at \in [Call -> {"idle", "gate", "table", "indexer"}]
    /\ kind \in [Call -> {"subscribe", "unsubscribe"}]
    /\ scripts \in [Call -> SUBSET Script]
    /\ via \in [Call -> Handler \cup {NoHandler}]
    /\ tangled \subseteq Script
    /\ outlived \subseteq Handler
    /\ \A h \in Handler \ live : watched[h] = {}
    /\ wallet \in {"assembled", "up", "wiping", "wiped"} => current # NoHandler
    /\ \A q \in Call : at[q] = "idle" => scripts[q] = {}
    /\ \A q \in Call : at[q] # "idle" => current # NoHandler
    /\ \A q \in Call : at[q] \in {"idle", "gate"} <=> via[q] = NoHandler

\* While the wallet is up the indexer reports exactly the listed scripts to its
\* handler, but for those a call is about, and those last touched by a call the
\* indexer refused, by two calls at once or by one that outlived its handler: a
\* crash between the table and the indexer, an earlier refusal, a lock, and calls
\* about other scripts leave no trace after the next unlock.
ListedIsWatched ==
    wallet = "up" => \A s \in Script \ (Busy \cup tangled) : s \in listed <=> s \in watched[current]

\* A locked wallet gets no events, and an unlocked one those of its own handler:
\* another one is live only when a call had it, or was still to take it, as it
\* stopped, or came through the gate that a reset had not closed yet.
OthersAreOutlived ==
    \A h \in live :
        h \in outlived \/ (h = current /\ wallet \in {"assembled", "up", "stopping", "wiping"})
=============================================================================
