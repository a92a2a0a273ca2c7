--------------------------- MODULE DelegateAddress ---------------------------
(***************************************************************************)
(* The address delegate fees are paid to.  getDelegateAddress answers from *)
(* a cache that lasts until the service stops; without it, it lists the    *)
(* wallet's default contracts for the one of key 0, or derives a new       *)
(* address, and stores what it found unless another call has stored before.*)
(* The calls run at once, and beside the other users of the wallet's keys. *)
(***************************************************************************)
EXTENDS Naturals

CONSTANTS
    Call,           \* bound: calls under way at once
    NoAddress,
    HD,             \* TRUE: every derivation takes the next key, FALSE: all take key 0
    MaxWallets,     \* bound: wallets set up one after the other
    MaxKeys         \* bound: keys derived from one wallet

ASSUME AddressAssumption ==
    /\ HD \in BOOLEAN
    /\ MaxWallets \in Nat \ {0}
    /\ MaxKeys \in Nat
    /\ NoAddress \notin (Nat \X Nat)

VARIABLES
    wallet,     \* the wallet, numbered by its set-up
    keys,       \* keys derived from it
    contracts,  \* the keys of its default contracts
    up,         \* isInitializedAndUnlocked lets calls pass
    cache,      \* cachedDelegateAddress
    at,         \* where each call is
    found,      \* the address it has resolved
    thisRun,    \* history: the addresses answered since the service was stopped
    thisWallet, \* history: those answered since the wallet was set up
    disturbed   \* history: a derivation came between the two steps of another,
                \* key 0 could not be ranked, or calls outlived their wallet

state == <<wallet, keys, contracts, up>>
calls == <<at, found>>
history == <<thisRun, thisWallet, disturbed>>
vars == <<state, cache, calls, history>>

\* An address is that of a key of a wallet.
Address == Nat \X Nat
Anchor == <<wallet, 0>>

Init ==
    /\ wallet = 1
    /\ keys = 0
    /\ contracts = {}
    /\ up = FALSE
    /\ cache = NoAddress
    /\ at = [q \in Call |-> "idle"]
    /\ found = [q \in Call |-> NoAddress]
    /\ thisRun = {}
    /\ thisWallet = {}
    /\ disturbed = FALSE

-----------------------------------------------------------------------------
(* getDelegateAddress and resolveDelegateAddress.                           *)

Answer(a) ==
    /\ thisRun' = thisRun \cup {a}
    /\ thisWallet' = thisWallet \cup {a}

Goes(q, from, to) ==
    /\ at[q] = from
    /\ at' = [at EXCEPT ![q] = to]

\* The first look at the cache.
AskCache(q) ==
    /\ up
    /\ at[q] = "idle"
    /\ cache # NoAddress
    /\ Answer(cache)
    /\ UNCHANGED <<state, cache, calls, disturbed>>

\* It is empty, and the gate is open.
Ask(q) ==
    /\ up
    /\ Goes(q, "idle", "list")
    /\ cache = NoAddress
    /\ UNCHANGED <<state, cache, found, history>>

\* Faulty variant: any default contract will do.
ListAny(q) ==
    /\ \E k \in contracts :
        /\ Goes(q, "list", "store")
        /\ found' = [found EXCEPT ![q] = <<wallet, k>>]
    /\ UNCHANGED <<state, cache, history>>

\* The default contract of key 0 is among those listed.
List(q) ==
    /\ Goes(q, "list", "store")
    /\ 0 \in contracts
    /\ found' = [found EXCEPT ![q] = Anchor]
    /\ UNCHANGED <<state, cache, history>>

\* It is not, ...
ListNone(q) ==
    /\ Goes(q, "list", "derive")
    /\ 0 \notin contracts
    /\ UNCHANGED <<state, cache, found, history>>

\* ... or its key cannot be ranked, and it is skipped.
SkipUnranked(q) ==
    /\ Goes(q, "list", "derive")
    /\ 0 \in contracts
    /\ disturbed' = TRUE
    /\ UNCHANGED <<state, cache, found, thisRun, thisWallet>>

\* The SDK takes the next key for a new default contract.
TakeKey ==
    /\ up
    /\ keys < MaxKeys
    /\ keys' = keys + 1
    /\ contracts' = contracts \cup {IF HD THEN keys ELSE 0}
    /\ UNCHANGED <<wallet, up>>

\* Faulty variant: the address is not kept.
DeriveForgets(q) ==
    /\ Goes(q, "derive", "store")
    /\ TakeKey
    /\ disturbed' = (disturbed \/ \E p \in Call \ {q} : at[p] = "derive")
    /\ UNCHANGED <<cache, found, thisRun, thisWallet>>

\* NewAddress, for the call.
Derive(q) ==
    /\ Goes(q, "derive", "store")
    /\ TakeKey
    /\ found' = [found EXCEPT ![q] = <<wallet, IF HD THEN keys ELSE 0>>]
    /\ disturbed' = (disturbed \/ \E p \in Call \ {q} : at[p] = "derive")
    /\ UNCHANGED <<cache, thisRun, thisWallet>>

\* The SDK fails, or the wallet was locked in between, and the call returns the
\* error.
Fail(q) ==
    /\ at[q] \in {"list", "derive"}
    /\ at' = [at EXCEPT ![q] = "idle"]
    /\ UNCHANGED <<state, cache, found, history>>

\* Faulty variant: the cache is not looked at again.
StoreAnyway(q) ==
    /\ Goes(q, "store", "idle")
    /\ cache' = found[q]
    /\ Answer(found[q])
    /\ found' = [found EXCEPT ![q] = NoAddress]
    /\ UNCHANGED <<state, disturbed>>

\* The second look at the cache: the first to come stores, all answer what is there.
Store(q) ==
    /\ Goes(q, "store", "idle")
    /\ cache' = IF cache = NoAddress THEN found[q] ELSE cache
    /\ Answer(cache')
    /\ found' = [found EXCEPT ![q] = NoAddress]
    /\ UNCHANGED <<state, disturbed>>

-----------------------------------------------------------------------------
(* The others.                                                              *)

\* NewAddress, for a user of the wallet.
NewAddress ==
    /\ TakeKey
    /\ disturbed' = (disturbed \/ \E p \in Call : at[p] = "derive")
    /\ UNCHANGED <<cache, calls, thisRun, thisWallet>>

Unlock ==
    /\ ~up
    /\ up' = TRUE
    /\ UNCHANGED <<wallet, keys, contracts, cache, calls, history>>

\* LockNode: the gate is closed, and Stop empties the cache.
Lock ==
    /\ up
    /\ up' = FALSE
    /\ cache' = NoAddress
    /\ thisRun' = {}
    /\ UNCHANGED <<wallet, keys, contracts, calls, thisWallet, disturbed>>

\* ResetWallet, which also stops the service, and the set-up of another wallet.
Reset ==
    /\ wallet < MaxWallets
    /\ wallet' = wallet + 1
    /\ keys' = 0
    /\ contracts' = {}
    /\ up' = FALSE
    /\ cache' = NoAddress
    /\ thisRun' = {}
    /\ thisWallet' = {}
    /\ disturbed' = (\E q \in Call : at[q] # "idle")
    /\ UNCHANGED calls

\* The process dies; the wallet is what is left.
Die ==
    /\ up' = FALSE
    /\ cache' = NoAddress
    /\ at' = [q \in Call |-> "idle"]
    /\ found' = [q \in Call |-> NoAddress]
    /\ thisRun' = {}
    /\ UNCHANGED <<wallet, keys, contracts, thisWallet, disturbed>>

-----------------------------------------------------------------------------
Resolve(q) ==
    \/ AskCache(q)
    \/ Ask(q)
    \/ List(q)
    \/ ListNone(q)
    \/ SkipUnranked(q)
    \/ Derive(q)
    \/ Fail(q)
    \/ Store(q)

Environment == NewAddress \/ Unlock \/ Lock \/ Reset \/ Die

Next == Environment \/ \E q \in Call : Resolve(q)

Spec == Init /\ [][Next]_vars

-----------------------------------------------------------------------------
(* Properties.                                                              *)

\* Every variable has its type, and a call that is about to store has an address.
TypeOK ==
    /\ wallet \in 1..MaxWallets
    /\ keys \in 0..MaxKeys
    /\ contracts \subseteq 0..MaxKeys
    /\ up \in BOOLEAN
    /\ cache \in Address \cup {NoAddress}
    /\ at \in [Call -> {"idle", "list", "derive", "store"}]
    /\ found \in [Call -> Address \cup {NoAddress}]
    /\ thisRun \subseteq Address
    /\ thisWallet \subseteq Address
    /\ disturbed \in BOOLEAN
    /\ \A q \in Call : at[q] = "store" => found[q] # NoAddress

\* Between two stops of the service all calls are answered the same address,
\* however many resolved one at the same time.
OneAddressPerRun == \A a, b \in thisRun : a = b

\* Over all starts of the process and all locks, the address advertised for a
\* wallet is that of its key 0, and so the same, unless the keys were disturbed:
\* another derivation came between the listing and the derivation of a call, key
\* 0 could not be ranked, or the wallet was reset under a call.
AnchoredOverStarts == ~disturbed => thisWallet \subseteq {Anchor}
=============================================================================
