------------------------ MODULE VhtlcMigrationProofs ------------------------
(***************************************************************************)
(* Theorems about VhtlcMigration, for any number of VHTLCs, whatever the   *)
(* wallet owns, whatever fails and wherever the process dies.              *)
(***************************************************************************)
EXTENDS VhtlcMigration, FiniteSetTheorems, TLAPS

\* CreateVHTLC is never called for the id of a VHTLC an older release stored.
FreshIds == Created \cap Stored = {}

-----------------------------------------------------------------------------
(* The inductive invariant.                                                  *)

\* The tables while the database is migrated.
Tables ==
    /\ rows.vhtlc \subseteq Stored /\ rows.vhtlc_legacy \subseteq Stored
    /\ version = "old" => rows.vhtlc_new = {}
    /\ at = "begin" => version = "old"
    /\ at \in {"begun", "ensure", "backfill", "swap"} => version = "begin"
    /\ at \in {"begun", "ensure", "backfill"} => rows.vhtlc_new = {}
    /\ at = "swap" => rows.vhtlc_new = rows.vhtlc
    /\ at \in {"ensure", "backfill", "swap", "up"} => ~dirty
    /\ at = "up" => version = "begin"
    /\ at \in {"cleanup", "clean"} => version = "head"
    /\ version # "head" \/ at = "cleanup" => rows.vhtlc_legacy = {}

\* What the rebuild has done with the rows it has looked at.
Pass ==
    /\ at \in {"rows", "add"} => todo \subseteq rows.vhtlc_legacy
    /\ FreshIds /\ at \in {"rows", "add"} /\ ~skipped =>
         \A v \in rows.vhtlc_legacy \ todo : <<v, "legacy">> \in refs
    /\ at = "add" => <<row, "legacy">> \in contracts

\* What CreateVHTLC and the rebuild have recorded.
Records ==
    /\ refs \cup creating \subseteq contracts
    /\ FreshIds => \A v \in Stored, s \in Script : <<v, s>> \in refs => s = "legacy"
    /\ \A v \in Vhtlc, s \in Script : <<v, s>> \in creating => v \in Created

IInv == TypeOK /\ RebuildsOnHead /\ Tables /\ Pass /\ Records

-----------------------------------------------------------------------------
(* Type correctness.                                                         *)

LEMMA ContractType ==
    /\ \A v \in Vhtlc, s \in Script : <<v, s>> \in Contract
    /\ \A v \in Vhtlc : <<v, "legacy">> \in Contract
  BY DEF Contract, Script

\* An id that is recorded is recorded with a script.
LEMMA RecordedRow ==
    ASSUME TypeOK, NEW v \in Vhtlc PROVE v \in Recorded <=> \E s \in Script : <<v, s>> \in refs
<1>1. ASSUME NEW r \in refs PROVE r[2] \in Script /\ r = <<r[1], r[2]>>
  <2>1. r \in Vhtlc \X Script
    BY DEF TypeOK, Contract
  <2> QED
    BY <2>1
<1>2. ASSUME NEW s \in Script, <<v, s>> \in refs PROVE v \in Recorded
  <2>1. <<v, s>>[1] = v
    OBVIOUS
  <2> QED
    BY <1>2, <2>1, Zenon DEF Recorded
<1>3. ASSUME v \in Recorded PROVE \E s \in Script : <<v, s>> \in refs
  <2>1. PICK r \in refs : v = r[1]
    BY <1>3 DEF Recorded
  <2> QED
    BY <1>1, <2>1
<1> QED
  BY <1>2, <1>3

LEMMA InitType == Init => TypeOK
<1> SUFFICES ASSUME Init PROVE TypeOK
  OBVIOUS
<1>1. PICK old \in SUBSET Stored : rows = [vhtlc |-> old, vhtlc_new |-> {}, vhtlc_legacy |-> {}]
  BY DEF Init
<1>2. rows \in [vhtlc : SUBSET Vhtlc, vhtlc_new : SUBSET Vhtlc, vhtlc_legacy : SUBSET Vhtlc]
  BY <1>1, MigrationAssumption
<1> QED
  BY <1>2 DEF Init, TypeOK, StartState

LEMMA MigratesType ==
    ASSUME TypeOK, Migrates PROVE TypeOK'
<1> USE MigrationAssumption DEF Goes, database, rebuild, TypeOK, StartState, WalletState
<1>1. CASE Start
  BY <1>1 DEF Start
<1>2. CASE MigrateToBegin
  BY <1>2 DEF MigrateToBegin
<1>3. CASE BeginMigrated
  BY <1>3 DEF BeginMigrated
<1>4. CASE EnsureVhtlcNew
  BY <1>4 DEF EnsureVhtlcNew
<1>5. CASE BackfillVhtlc
  BY <1>5 DEF BackfillVhtlc
<1>6. CASE SwapVhtlcTables
  BY <1>6 DEF SwapVhtlcTables
<1>7. CASE MigrateUp
  BY <1>7 DEF MigrateUp
<1>8. CASE Cleanup
  BY <1>8 DEF Cleanup
<1>9. CASE Migrated
  BY <1>9 DEF Migrated
<1> QED
  BY <1>1, <1>2, <1>3, <1>4, <1>5, <1>6, <1>7, <1>8, <1>9 DEF Migrates

LEMMA RebuildsType ==
    ASSUME TypeOK, Rebuilds PROVE TypeOK'
<1> USE MigrationAssumption DEF Goes, database, rebuild, TypeOK, StartState, WalletState
<1>1. CASE NothingToRebuild
  BY <1>1 DEF NothingToRebuild
<1>2. CASE DropEmptyLegacyVhtlcs
  BY <1>2 DEF DropEmptyLegacyVhtlcs
<1>3. CASE GetLegacy
  BY <1>3 DEF GetLegacy
<1>4. CASE AddRow
  BY <1>4, ContractType DEF AddRow
<1>5. CASE DropLegacy
  BY <1>5 DEF DropLegacy
<1>6. CASE KeepLegacy
  BY <1>6 DEF KeepLegacy
<1>7. ASSUME NEW v \in Vhtlc, SkipRow(v) PROVE TypeOK'
  BY <1>7 DEF SkipRow
<1>8. ASSUME NEW v \in Vhtlc, AlreadyMigrated(v) PROVE TypeOK'
  BY <1>8 DEF AlreadyMigrated
<1>9. ASSUME NEW v \in Vhtlc, ImportContract(v) PROVE TypeOK'
  BY <1>9, ContractType DEF ImportContract
<1> QED
  BY <1>1, <1>2, <1>3, <1>4, <1>5, <1>6, <1>7, <1>8, <1>9 DEF Rebuilds

LEMMA OthersType ==
    ASSUME TypeOK, Die \/ UnlockNode \/ LockNode \/ Creates PROVE TypeOK'
<1> USE MigrationAssumption DEF Goes, database, rebuild, TypeOK, StartState, WalletState
<1>1. CASE Die
  BY <1>1 DEF Die
<1>2. CASE UnlockNode
  BY <1>2 DEF UnlockNode
<1>3. CASE LockNode
  BY <1>3 DEF LockNode
<1>4. ASSUME NEW v \in Vhtlc, NEW s \in Script, CreateVHTLC(v, s) PROVE TypeOK'
  BY <1>4, ContractType DEF CreateVHTLC
<1>5. ASSUME NEW v \in Vhtlc, NEW s \in Script, AddVHTLC(v, s) PROVE TypeOK'
  <2>1. refs' \subseteq Contract
    <3>1. refs' = refs \/ refs' = refs \cup {<<v, s>>}
      BY <1>5 DEF AddVHTLC
    <3>2. <<v, s>> \in Contract
      BY ContractType
    <3> QED
      BY <3>1, <3>2
  <2>2. creating' \subseteq Contract
    BY <1>5 DEF AddVHTLC
  <2>3. UNCHANGED <<identity, database, contracts, at, rebuild>>
    BY <1>5 DEF AddVHTLC
  <2> QED
    BY <2>1, <2>2, <2>3, ZenonT(60)
<1> QED
  BY <1>1, <1>2, <1>3, <1>4, <1>5 DEF Creates

LEMMA NextType == TypeOK /\ [Next]_vars => TypeOK'
<1> SUFFICES ASSUME TypeOK, [Next]_vars PROVE TypeOK'
  OBVIOUS
<1>1. CASE UNCHANGED vars
  BY <1>1 DEF vars, database, rebuild, TypeOK
<1> QED
  BY <1>1, MigratesType, RebuildsType, OthersType DEF Next

\* Every variable of the migration and of the rebuild keeps its type.
THEOREM MigrationTypeCorrect == Spec => []TypeOK
<1>1. Init => TypeOK
  BY InitType
<1>2. TypeOK /\ [Next]_vars => TypeOK'
  BY NextType
<1> QED
  BY <1>1, <1>2, PTL DEF Spec

-----------------------------------------------------------------------------
(* The invariant is inductive.                                               *)

LEMMA InitIInv == Init => IInv
<1> SUFFICES ASSUME Init PROVE IInv
  OBVIOUS
<1>1. TypeOK
  BY InitType
<1>2. Tables
  <2>1. PICK old \in SUBSET Stored : rows = [vhtlc |-> old, vhtlc_new |-> {}, vhtlc_legacy |-> {}]
    BY DEF Init
  <2> QED
    BY <2>1 DEF Init, Tables
<1> QED
  BY <1>1, <1>2 DEF Init, IInv, RebuildsOnHead, WalletState, Pass, Records

LEMMA MigratesIInv ==
    ASSUME IInv, Migrates PROVE (RebuildsOnHead /\ Tables /\ Pass /\ Records)'
<1> USE MigrationAssumption DEF Goes, database, rebuild, IInv, TypeOK, Contract, Script, StartState, WalletState, RebuildsOnHead,
            Tables, Pass, Records, Recorded
<1>1. CASE Start
  BY <1>1 DEF Start
<1>2. CASE MigrateToBegin
  BY <1>2 DEF MigrateToBegin
<1>3. CASE BeginMigrated
  BY <1>3 DEF BeginMigrated
<1>4. CASE EnsureVhtlcNew
  BY <1>4 DEF EnsureVhtlcNew
<1>5. CASE BackfillVhtlc
  BY <1>5 DEF BackfillVhtlc
<1>6. CASE SwapVhtlcTables
  BY <1>6 DEF SwapVhtlcTables
<1>7. CASE MigrateUp
  BY <1>7 DEF MigrateUp
<1>8. CASE Cleanup
  BY <1>8 DEF Cleanup
<1>9. CASE Migrated
  BY <1>9 DEF Migrated
<1> QED
  BY <1>1, <1>2, <1>3, <1>4, <1>5, <1>6, <1>7, <1>8, <1>9 DEF Migrates

LEMMA RebuildsIInv ==
    ASSUME IInv, Rebuilds PROVE (RebuildsOnHead /\ Tables /\ Pass /\ Records)'
<1> USE MigrationAssumption DEF Goes, database, rebuild, IInv, TypeOK, Contract, Script, StartState, WalletState, RebuildsOnHead,
            Tables, Pass, Records, Recorded
<1>1. CASE NothingToRebuild
  BY <1>1 DEF NothingToRebuild
<1>2. CASE DropEmptyLegacyVhtlcs
  BY <1>2 DEF DropEmptyLegacyVhtlcs
<1>3. CASE GetLegacy
  BY <1>3 DEF GetLegacy
<1>4. CASE AddRow
  BY <1>4 DEF AddRow
<1>5. CASE DropLegacy
  BY <1>5 DEF DropLegacy
<1>6. CASE KeepLegacy
  BY <1>6 DEF KeepLegacy
<1>7. ASSUME NEW v \in Vhtlc, SkipRow(v) PROVE (RebuildsOnHead /\ Tables /\ Pass /\ Records)'
  BY <1>7 DEF SkipRow
<1>8. ASSUME NEW v \in Vhtlc, AlreadyMigrated(v) PROVE (RebuildsOnHead /\ Tables /\ Pass /\ Records)'
  BY <1>8, RecordedRow DEF AlreadyMigrated, FreshIds
<1>9. ASSUME NEW v \in Vhtlc, ImportContract(v) PROVE (RebuildsOnHead /\ Tables /\ Pass /\ Records)'
  BY <1>9 DEF ImportContract
<1> QED
  BY <1>1, <1>2, <1>3, <1>4, <1>5, <1>6, <1>7, <1>8, <1>9 DEF Rebuilds

LEMMA OthersIInv ==
    ASSUME IInv, Die \/ UnlockNode \/ LockNode \/ Creates PROVE (RebuildsOnHead /\ Tables /\ Pass /\ Records)'
<1> USE MigrationAssumption DEF Goes, database, rebuild, IInv, TypeOK, Contract, Script, StartState, WalletState, RebuildsOnHead,
            Tables, Pass, Records, Recorded, FreshIds
<1>1. CASE Die
  BY <1>1 DEF Die
<1>2. CASE UnlockNode
  BY <1>2 DEF UnlockNode
<1>3. CASE LockNode
  BY <1>3 DEF LockNode
<1>4. ASSUME NEW v \in Vhtlc, NEW s \in Script, CreateVHTLC(v, s) PROVE (RebuildsOnHead /\ Tables /\ Pass /\ Records)'
  BY <1>4 DEF CreateVHTLC
<1>5. ASSUME NEW v \in Vhtlc, NEW s \in Script, AddVHTLC(v, s) PROVE (RebuildsOnHead /\ Tables /\ Pass /\ Records)'
  BY <1>5 DEF AddVHTLC
<1> QED
  BY <1>1, <1>2, <1>3, <1>4, <1>5 DEF Creates

LEMMA NextIInv == IInv /\ [Next]_vars => IInv'
<1> SUFFICES ASSUME IInv, [Next]_vars PROVE IInv'
  OBVIOUS
<1>1. TypeOK'
  BY NextType DEF IInv
<1>2. CASE UNCHANGED vars
  BY <1>1, <1>2 DEF vars, database, rebuild, IInv, RebuildsOnHead, Tables, Pass, Records
<1> QED
  BY <1>1, <1>2, MigratesIInv, RebuildsIInv, OthersIInv DEF Next, IInv

LEMMA InductiveInvariant == Spec => []IInv
<1>1. Init => IInv
  BY InitIInv
<1>2. IInv /\ [Next]_vars => IInv'
  BY NextIInv
<1> QED
  BY <1>1, <1>2, PTL DEF Spec

-----------------------------------------------------------------------------
(* What it is good for.                                                      *)

\* However the process dies in the migrations and whatever the rebuild skips, no
\* VHTLC is forgotten as long as CreateVHTLC does not take the id of an old one.
THEOREM VhtlcsKept == ASSUME FreshIds PROVE Spec => NeverForgets
<1>1. IInv /\ FreshIds /\ [Next]_vars => Kept \subseteq Kept'
  <2> SUFFICES ASSUME IInv, FreshIds, [Next]_vars PROVE Kept \subseteq Kept'
    OBVIOUS
  <2>1. CASE UNCHANGED rows /\ refs \subseteq refs' /\ contracts \subseteq contracts'
    BY <2>1 DEF Kept
  <2>2. CASE BackfillVhtlc
    BY <2>2 DEF BackfillVhtlc, Kept, IInv, TypeOK
  <2>3. CASE SwapVhtlcTables
    BY <2>3 DEF SwapVhtlcTables, Goes, Kept, IInv, TypeOK, Tables
  <2>4. CASE Cleanup
    BY <2>4 DEF Cleanup, Goes, Kept, IInv, TypeOK, Tables
  <2>5. CASE DropLegacy
    <3>1. \A v \in rows.vhtlc_legacy : <<v, "legacy">> \in refs \cap contracts
      BY <2>5 DEF DropLegacy, Goes, IInv, Pass, Records
    <3>2. refs' = refs /\ contracts' = contracts /\ rows'.vhtlc = rows.vhtlc
      BY <2>5 DEF DropLegacy, IInv, TypeOK
    <3> QED
      BY <3>1, <3>2 DEF Kept
  <2>6. CASE Migrates
    BY <2>1, <2>2, <2>3, <2>4, <2>6
    DEF Migrates, Start, MigrateToBegin, BeginMigrated, EnsureVhtlcNew, MigrateUp, Migrated, database
  <2>7. CASE Rebuilds
    BY <2>1, <2>5, <2>7
    DEF Rebuilds, NothingToRebuild, DropEmptyLegacyVhtlcs, GetLegacy, SkipRow, AlreadyMigrated,
        ImportContract, AddRow, KeepLegacy, database
  <2>8. CASE Die \/ UnlockNode \/ LockNode \/ Creates \/ UNCHANGED vars
    BY <2>1, <2>8
    DEF Die, UnlockNode, LockNode, Creates, CreateVHTLC, AddVHTLC, vars, database
  <2> QED
    BY <2>6, <2>7, <2>8 DEF Next
<1>2. IInv /\ FreshIds /\ [Next]_vars => [Kept \subseteq Kept']_vars
  BY <1>1
<1> QED
  BY <1>2, InductiveInvariant, PTL DEF Spec, NeverForgets

\* A recorded VHTLC has its contract in the SDK, whatever ids are created.
THEOREM RecordsTracked == Spec => []RecordedIsTracked
<1>1. IInv => RecordedIsTracked
  BY DEF IInv, Records, RecordedIsTracked
<1> QED
  BY <1>1, InductiveInvariant, PTL

\* The wallet is not unlocked on a database whose migration did not end.
THEOREM RebuiltOnHead == Spec => []RebuildsOnHead
<1>1. IInv => RebuildsOnHead
  BY DEF IInv
<1> QED
  BY <1>1, InductiveInvariant, PTL
=============================================================================
