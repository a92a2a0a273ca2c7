------------------------------ MODULE Macaroons ------------------------------
(***************************************************************************)
(* The macaroon service follows the wallet: Setup, UnlockNode and          *)
(* ResetWallet tell it what they did by an update each, sent on an         *)
(* unbuffered channel by a goroutine of its own, and one listener takes    *)
(* them, in whatever order the goroutines are let through.  The store of   *)
(* root keys and the macaroon files are on disk; the updates are not.      *)
(* Setup, UnlockNode, LockNode and ResetWallet are here what WalletLifecycle*)
(* shows of them to a caller: one step each.                               *)
(***************************************************************************)
EXTENDS Naturals, Sequences, SequencesExt

CONSTANTS
    Password,   \* passwords of the wallet
    Wipe,       \* the update of ResetWallet
    NoKey,      \* the key of a store never unlocked
    MaxCalls,   \* bound: calls of Setup, UnlockNode and ResetWallet
    MaxCrashes  \* bound: restarts of the process

ASSUME MacaroonAssumption ==
    /\ Wipe \notin Password
    /\ NoKey \notin Password
    /\ MaxCalls \in Nat
    /\ MaxCrashes \in Nat

VARIABLES
    alive,      \* the process runs
    wallet,     \* "none", "locked" or "open"
    password,   \* the wallet's, NoKey when there is no wallet
    updates,    \* updates whose goroutine waits to send, in the order of the calls
    listener,   \* listenToWalletUpdates: "receive" "generate" "remove"
    unlocked,   \* the macaroon service is unlocked
    key,        \* on disk: the password the store of root keys is sealed with
    store,      \* on disk: which store it is, 0 for one never unlocked
    file,       \* on disk: the store the macaroon files were baked with, 0 for none
    stores,     \* stores unlocked for the first time so far
    calls,      \* calls so far
    crashes,    \* crashes so far
    overtaken,  \* history: a reset and another update were taken out of order
    lost,       \* history: a crash left a reset undone or half done
    sealed      \* history: the store was not unlocked by the password it was given

disk == <<key, store, file, stores>>
history == <<overtaken, lost, sealed>>
vars == <<alive, wallet, password, updates, listener, unlocked, disk, calls, crashes, history>>

Init ==
    /\ alive = TRUE
    /\ wallet = "none"
    /\ password = NoKey
    /\ updates = <<>>
    /\ listener = "receive"
    /\ unlocked = FALSE
    /\ key = NoKey
    /\ store = 0
    /\ file = 0
    /\ stores = 0
    /\ calls = 0
    /\ crashes = 0
    /\ overtaken = FALSE
    /\ lost = FALSE
    /\ sealed = FALSE

-----------------------------------------------------------------------------
(* The wallet.                                                              *)

Tells(u) ==
    /\ alive
    /\ calls < MaxCalls
    /\ calls' = calls + 1
    /\ updates' = Append(updates, u)
    /\ UNCHANGED <<alive, listener, unlocked, disk, crashes, history>>

Setup(p) ==
    /\ wallet = "none"
    /\ wallet' = "locked"
    /\ password' = p
    /\ Tells(p)

\* Faulty variant: no update.
UnlockNodeSilently ==
    /\ alive
    /\ wallet = "locked"
    /\ calls < MaxCalls
    /\ calls' = calls + 1
    /\ wallet' = "open"
    /\ UNCHANGED <<alive, password, updates, listener, unlocked, disk, crashes, history>>

UnlockNode ==
    /\ wallet = "locked"
    /\ wallet' = "open"
    /\ UNCHANGED password
    /\ Tells(password)

\* The listener does nothing about the update of LockNode.
LockNode ==
    /\ alive
    /\ wallet = "open"
    /\ wallet' = "locked"
    /\ UNCHANGED <<alive, password, updates, listener, unlocked, disk, calls, crashes, history>>

\* Faulty variant: no update.
ResetWalletSilently ==
    /\ alive
    /\ calls < MaxCalls
    /\ calls' = calls + 1
    /\ wallet' = "none"
    /\ password' = NoKey
    /\ UNCHANGED <<alive, updates, listener, unlocked, disk, crashes, history>>

\* Faulty variant: the password outlives the wallet.
ResetWalletKeeping ==
    /\ wallet' = "none"
    /\ UNCHANGED password
    /\ Tells(Wipe)

ResetWallet ==
    /\ wallet' = "none"
    /\ password' = NoKey
    /\ Tells(Wipe)

-----------------------------------------------------------------------------
(* The listener.                                                            *)

\* What a death of the process loses.
Dies ==
    /\ alive' = FALSE
    /\ lost' = \/ lost
               \/ \E i \in DOMAIN updates : updates[i] = Wipe
               \/ listener = "remove" /\ (key # NoKey \/ file # 0)

\* It takes the update of one of the goroutines.
Takes(i) ==
    /\ alive
    /\ listener = "receive"
    /\ i \in DOMAIN updates
    /\ updates' = RemoveAt(updates, i)
    /\ overtaken' = (overtaken \/ \E j \in 1..(i - 1) : (updates[j] = Wipe) # (updates[i] = Wipe))

\* A store never unlocked is sealed with the password it is given.
Unlock(i) ==
    /\ Takes(i)
    /\ updates[i] # Wipe
    /\ unlocked \/ key \in {NoKey, updates[i]}
    /\ listener' = "generate"
    /\ unlocked' = TRUE
    /\ IF ~unlocked /\ key = NoKey
       THEN /\ key' = updates[i]
            /\ store' = stores + 1
            /\ stores' = stores + 1
       ELSE UNCHANGED <<key, store, stores>>
    /\ UNCHANGED <<alive, wallet, password, file, calls, crashes, lost, sealed>>

\* The store is sealed with another password: log.Fatal.
UnlockFails(i) ==
    /\ Takes(i)
    /\ updates[i] # Wipe
    /\ ~unlocked
    /\ key \notin {NoKey, updates[i]}
    /\ sealed' = TRUE
    /\ Dies
    /\ UNCHANGED <<wallet, password, listener, unlocked, disk, calls, crashes>>

\* Files there are are kept.
Generate ==
    /\ alive
    /\ listener = "generate"
    /\ file' = IF file = 0 THEN store ELSE file
    /\ listener' = "receive"
    /\ UNCHANGED <<alive, wallet, password, updates, unlocked, key, store, stores, calls, crashes,
                   history>>

StartReset(i) ==
    /\ Takes(i)
    /\ updates[i] = Wipe
    /\ listener' = "remove"
    /\ UNCHANGED <<alive, wallet, password, unlocked, disk, calls, crashes, lost, sealed>>

\* RemoveAll goes through the directory in no order.
RemoveFiles ==
    /\ alive
    /\ listener = "remove"
    /\ file # 0
    /\ file' = 0
    /\ UNCHANGED <<alive, wallet, password, updates, listener, unlocked, key, store, stores, calls,
                   crashes, history>>

RemoveStore ==
    /\ alive
    /\ listener = "remove"
    /\ key # NoKey
    /\ key' = NoKey
    /\ store' = 0
    /\ UNCHANGED <<alive, wallet, password, updates, listener, unlocked, file, stores, calls, crashes,
                   history>>

\* Faulty variant: the service is still taken for unlocked.
RenewUnlocked ==
    /\ alive
    /\ listener = "remove"
    /\ key = NoKey /\ file = 0
    /\ listener' = "receive"
    /\ UNCHANGED <<alive, wallet, password, updates, unlocked, disk, calls, crashes, history>>

\* Faulty variant: only the store has been removed.
RenewBesideFiles ==
    /\ alive
    /\ listener = "remove"
    /\ key = NoKey
    /\ listener' = "receive"
    /\ unlocked' = FALSE
    /\ UNCHANGED <<alive, wallet, password, updates, disk, calls, crashes, history>>

\* A new store, locked.
Renew ==
    /\ alive
    /\ listener = "remove"
    /\ key = NoKey /\ file = 0
    /\ listener' = "receive"
    /\ unlocked' = FALSE
    /\ UNCHANGED <<alive, wallet, password, updates, disk, calls, crashes, history>>

-----------------------------------------------------------------------------
(* The process.                                                             *)

\* It dies, of a crash or of log.Fatal when the disk fails.
Die ==
    /\ alive
    /\ crashes < MaxCrashes
    /\ crashes' = crashes + 1
    /\ Dies
    /\ UNCHANGED <<wallet, password, updates, listener, unlocked, disk, calls, overtaken, sealed>>

Restart ==
    /\ ~alive
    /\ alive' = TRUE
    /\ wallet' = IF wallet = "none" THEN "none" ELSE "locked"
    /\ updates' = <<>>
    /\ listener' = "receive"
    /\ unlocked' = FALSE
    /\ UNCHANGED <<password, disk, calls, crashes, history>>

-----------------------------------------------------------------------------
Listen ==
    \/ \E i \in 1..MaxCalls : Unlock(i) \/ UnlockFails(i) \/ StartReset(i)
    \/ Generate
    \/ RemoveFiles
    \/ RemoveStore
    \/ Renew

Next ==
    \/ \E p \in Password : Setup(p)
    \/ UnlockNode
    \/ LockNode
    \/ ResetWallet
    \/ Listen
    \/ Die
    \/ Restart

Spec == Init /\ [][Next]_vars

\* The listener goes on with what it has, and takes what there is.
FairSpec == Spec /\ WF_vars(Listen)

-----------------------------------------------------------------------------
(* Properties.                                                              *)

\* Every variable has its type; there is a password as long as there is a wallet,
\* and a store that was unlocked once as long as there is a key.
TypeOK ==
    /\ alive \in BOOLEAN
    /\ wallet \in {"none", "locked", "open"}
    /\ password \in Password \cup {NoKey}
    /\ wallet = "none" <=> password = NoKey
    /\ updates \in Seq(Password \cup {Wipe})
    /\ listener \in {"receive", "generate", "remove"}
    /\ unlocked \in BOOLEAN
    /\ key \in Password \cup {NoKey}
    /\ store \in 0..stores
    /\ key = NoKey <=> store = 0
    /\ file \in 0..stores
    /\ stores \in Nat
    /\ calls \in 0..MaxCalls
    /\ crashes \in 0..MaxCrashes
    /\ overtaken \in BOOLEAN
    /\ lost \in BOOLEAN
    /\ sealed \in BOOLEAN

\* The wallet's password opens the store, and the process does not die of it, unless
\* an update overtook a reset or a crash left a reset undone.
SealedForCause == sealed => overtaken \/ lost

\* The files hold macaroons the store verifies, unless a crash cut a reset short.
FilesVerify ==
    file # 0 /\ listener # "remove" => file = store \/ lost

\* When all updates have been taken, an open wallet has an unlocked macaroon service,
\* sealed with its own password, with its files, unless a reset was overtaken or left
\* undone.
ServesTheWallet ==
    alive /\ updates = <<>> /\ listener = "receive" /\ wallet = "open" /\ ~overtaken /\ ~lost =>
        unlocked /\ key = password /\ file # 0

\* A wallet that is open gets its macaroon service unlocked, unless it is locked or
\* reset again, the process dies, or the updates were taken out of order.
UnlockedAtLast ==
    alive /\ wallet = "open" ~> unlocked \/ wallet # "open" \/ ~alive \/ overtaken
=============================================================================
