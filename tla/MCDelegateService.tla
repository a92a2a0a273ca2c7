-------------------------- MODULE MCDelegateService --------------------------
(***************************************************************************)
(* Finite instances of DelegateService.                                    *)
(***************************************************************************)
EXTENDS DelegateService, TLC

CONSTANTS MaxBatch

\* Two intents that share an input: each may replace the other, or itself.
MCSharedInput == "a" :> {"x"} @@ "ab" :> {"x", "y"}

\* One intent, for instances about its registrations and batches.
MCOneIntent == "a" :> {"x"}

MCBatch == 1..MaxBatch

\* Task, registration and worker ids are interchangeable.
Symmetry == Permutations(Task) \cup Permutations(Reg) \cup Permutations(Worker)
=============================================================================
