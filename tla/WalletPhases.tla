---------------------------- MODULE WalletPhases ----------------------------
(***************************************************************************)
(* What the life cycle of the wallet promises those who use the node, with *)
(* nothing of how it does it: there is no wallet, or it is down, up, or on *)
(* its way; calls are served only while it is up, and until a lock or a    *)
(* reset takes hold; each way ends where it says, and a refused lock       *)
(* leaves the wallet up.                                                   *)
(***************************************************************************)
CONSTANT
    MayWedge    \* TRUE: an unlock can end unlocked and not served

VARIABLES
    phase,
    serving     \* calls pass the gate

phaseVars == <<phase, serving>>

PhasesInit ==
    /\ phase \in {"none", "down"}
    /\ serving = FALSE

Create ==
    /\ phase = "none"
    /\ phase' = "down"
    /\ UNCHANGED serving

Unlock ==
    /\ phase = "down"
    /\ phase' = "unlocking"
    /\ UNCHANGED serving

Conclude ==
    /\ phase = "unlocking"
    /\ \/ phase' \in {"up", "down"}
       \/ MayWedge /\ phase' = "wedged"
    /\ serving' = (phase' = "up")

Lock ==
    /\ phase = "up"
    /\ phase' = "locking"
    /\ UNCHANGED serving

\* The lock was refused, or took hold.
Locked ==
    /\ phase = "locking"
    /\ phase' = IF serving THEN "up" ELSE "down"
    /\ UNCHANGED serving

\* The only way out of "wedged".
Reset ==
    /\ phase \in {"none", "down", "up", "wedged"}
    /\ phase' = "resetting"
    /\ serving' \in {serving, FALSE}

Wiped ==
    /\ phase = "resetting"
    /\ ~serving
    /\ phase' = "none"
    /\ UNCHANGED serving

StopServing ==
    /\ phase \in {"locking", "resetting"}
    /\ serving
    /\ serving' = FALSE
    /\ UNCHANGED phase

PhasesNext ==
    \/ Create
    \/ Unlock
    \/ Conclude
    \/ Lock
    \/ Locked
    \/ Reset
    \/ Wiped
    \/ StopServing

PhasesSpec == PhasesInit /\ [][PhasesNext]_phaseVars
=============================================================================
