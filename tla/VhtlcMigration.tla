--------------------------- MODULE VhtlcMigration ---------------------------
(***************************************************************************)
(* What becomes of the VHTLCs an older release stored: the stepwise        *)
(* migration of the SQLite database when the process starts, the rebuild   *)
(* of their contracts when the wallet is unlocked, and CreateVHTLC, which  *)
(* adds new ones to the table the rebuild fills.  The process may die      *)
(* between any two steps, and the store and the SDK may fail.              *)
(***************************************************************************)
EXTENDS Naturals, FiniteSets

CONSTANTS
    Vhtlc,      \* ids: a hash of the preimage hash, the sender and the receiver
    Stored,     \* those an older release may have stored
    Owned,      \* those of which the single key of the wallet is one side
    Malformed,  \* rows the backfill cannot decode
    Created,    \* ids of the VHTLCs CreateVHTLC is called for
    NoVhtlc,
    Faults      \* what fails now and then: "store" "sdk"

ASSUME MigrationAssumption ==
    /\ Stored \subseteq Vhtlc /\ Owned \subseteq Vhtlc /\ Created \subseteq Vhtlc
    /\ Malformed \subseteq Vhtlc \ Owned
    /\ NoVhtlc \notin Vhtlc
    /\ Faults \subseteq {"store", "sdk"}
    /\ IsFiniteSet(Vhtlc)

\* A contract is known by the id of the VHTLC and its script: other timelocks make
\* another script of the same id.
Script == {"legacy", "new"}
Contract == Vhtlc \X Script

VARIABLES
    identity,   \* of the wallet: "single key" or "hd"
    version,    \* of the database: before the VHTLC migration, at it, or the latest
    dirty,      \* a migration began and did not end
    hasId,      \* the parameter table has the column id
    rows,       \* of the tables with parameters: vhtlc, vhtlc_new, vhtlc_legacy
    hasLegacy,  \* the table vhtlc_legacy exists
    refs,       \* the table vhtlc of the latest version: id and script
    contracts,  \* of the SDK's contract manager, in its own store
    at,         \* where the process is
    todo,       \* rows of vhtlc_legacy the rebuild has yet to look at
    row,        \* the row whose contract it imported
    skipped,    \* it skipped a row
    creating    \* calls of CreateVHTLC that made the contract and not yet the row

database == <<version, dirty, hasId, rows, hasLegacy>>
rebuild == <<todo, row, skipped>>
vars == <<identity, database, refs, contracts, at, rebuild, creating>>

\* An older release left its rows, before or after the ids were filled in.
Init ==
    /\ identity \in {"single key", "hd"}
    /\ version \in {"old", "begin"}
    /\ dirty = FALSE
    /\ hasId = (version = "begin")
    /\ \E old \in SUBSET Stored :
          /\ hasId => old \cap Malformed = {}
          /\ rows = [vhtlc |-> old, vhtlc_new |-> {}, vhtlc_legacy |-> {}]
    /\ hasLegacy = FALSE
    /\ refs = {}
    /\ contracts = {}
    /\ at = "down"
    /\ todo = {}
    /\ row = NoVhtlc
    /\ skipped = FALSE
    /\ creating = {}

Goes(from, to) == at = from /\ at' = to

\* Ids in the table vhtlc.
Recorded == {r[1] : r \in refs}

-----------------------------------------------------------------------------
(* NewService: the migrations.  One that fails ends the process: Die.       *)

\* Faulty variant: the dirty mark is not looked at.
StartDirty ==
    /\ Goes("down", CASE version = "old" -> "begin" [] version = "begin" -> "up"
                      [] version = "head" -> "locked")
    /\ UNCHANGED <<identity, database, refs, contracts, rebuild, creating>>

\* Nothing starts on a database in a dirty state.
Start ==
    /\ ~dirty
    /\ Goes("down", CASE version = "old" -> "begin" [] version = "begin" -> "up"
                      [] version = "head" -> "locked")
    /\ UNCHANGED <<identity, database, refs, contracts, rebuild, creating>>

\* Each migration sets its version and the dirty mark, runs, and clears the mark.
\* Those up to the VHTLC migration leave the table alone.
MigrateToBegin ==
    /\ Goes("begin", "begun")
    /\ version' = "begin"
    /\ dirty' = TRUE
    /\ UNCHANGED <<identity, hasId, rows, hasLegacy, refs, contracts, rebuild, creating>>

BeginMigrated ==
    /\ Goes("begun", "ensure")
    /\ dirty' = FALSE
    /\ UNCHANGED <<identity, version, hasId, rows, hasLegacy, refs, contracts, rebuild, creating>>

\* BackfillVhtlc has nothing to do when the ids are there.
EnsureVhtlcNew ==
    /\ Goes("ensure", IF hasId THEN "up" ELSE "backfill")
    /\ UNCHANGED <<identity, database, refs, contracts, rebuild, creating>>

\* All rows with their ids go to vhtlc_new in a transaction, or none.
BackfillVhtlc ==
    /\ Goes("backfill", "swap")
    /\ rows.vhtlc \cap Malformed = {}
    /\ rows.vhtlc \cap rows.vhtlc_new = {}
    /\ rows' = [rows EXCEPT !.vhtlc_new = @ \cup rows.vhtlc]
    /\ UNCHANGED <<identity, version, dirty, hasId, hasLegacy, refs, contracts, rebuild, creating>>

\* vhtlc_new takes the place of vhtlc in a transaction if it has as many rows.
SwapVhtlcTables ==
    /\ Goes("swap", "up")
    /\ Cardinality(rows.vhtlc) = Cardinality(rows.vhtlc_new)
    /\ rows' = [rows EXCEPT !.vhtlc = rows.vhtlc_new, !.vhtlc_new = {}]
    /\ hasId' = TRUE
    /\ UNCHANGED <<identity, version, dirty, hasLegacy, refs, contracts, rebuild, creating>>

\* The remaining migrations, of which the last matters here.
MigrateUp ==
    /\ Goes("up", "cleanup")
    /\ version' = "head"
    /\ dirty' = TRUE
    /\ UNCHANGED <<identity, hasId, rows, hasLegacy, refs, contracts, rebuild, creating>>

\* vhtlc becomes vhtlc_legacy and a new table vhtlc is created, empty.
Cleanup ==
    /\ Goes("cleanup", "clean")
    /\ rows' = [rows EXCEPT !.vhtlc_legacy = rows.vhtlc, !.vhtlc = {}]
    /\ hasLegacy' = TRUE
    /\ UNCHANGED <<identity, version, dirty, hasId, refs, contracts, rebuild, creating>>

Migrated ==
    /\ Goes("clean", "locked")
    /\ dirty' = FALSE
    /\ UNCHANGED <<identity, version, hasId, rows, hasLegacy, refs, contracts, rebuild, creating>>

\* The process dies: of a migration's error, or of anything.
Die ==
    /\ at # "down"
    /\ at' = "down"
    /\ todo' = {}
    /\ row' = NoVhtlc
    /\ skipped' = FALSE
    /\ creating' = {}
    /\ UNCHANGED <<identity, database, refs, contracts>>

-----------------------------------------------------------------------------
(* migrateVhtlcs, which the goroutine UnlockNode leaves behind calls before  *)
(* it opens the gate.                                                        *)

UnlockNode ==
    /\ Goes("locked", "migrate")
    /\ UNCHANGED <<identity, database, refs, contracts, rebuild, creating>>

LockNode ==
    /\ Goes("ready", "locked")
    /\ UNCHANGED <<identity, database, refs, contracts, rebuild, creating>>

\* There is nothing to rebuild, or an HD wallet cannot, or looking failed.
NothingToRebuild ==
    /\ Goes("migrate", "ready")
    /\ \/ ~hasLegacy
       \/ identity = "hd" /\ rows.vhtlc_legacy # {}
       \/ Faults # {}
    /\ UNCHANGED <<identity, database, refs, contracts, rebuild, creating>>

\* An HD wallet drops the table only when it is empty.
DropEmptyLegacyVhtlcs ==
    /\ Goes("migrate", "ready")
    /\ identity = "hd"
    /\ hasLegacy
    /\ rows.vhtlc_legacy = {}
    /\ hasLegacy' = FALSE
    /\ UNCHANGED <<identity, version, dirty, hasId, rows, refs, contracts, rebuild, creating>>

GetLegacy ==
    /\ Goes("migrate", "rows")
    /\ identity = "single key"
    /\ hasLegacy
    /\ todo' = rows.vhtlc_legacy
    /\ skipped' = FALSE
    /\ UNCHANGED <<identity, database, refs, contracts, row, creating>>

\* The row's arguments cannot be built, or the SDK refuses the contract.
SkipRow(v) ==
    /\ Goes("rows", "rows")
    /\ v \in todo
    /\ v \notin Owned \/ "sdk" \in Faults
    /\ todo' = todo \ {v}
    /\ skipped' = TRUE
    /\ UNCHANGED <<identity, database, refs, contracts, row, creating>>

\* Migrated in an earlier pass, as the id in the table tells.
AlreadyMigrated(v) ==
    /\ Goes("rows", "rows")
    /\ v \in todo \cap Owned
    /\ v \in Recorded
    /\ todo' = todo \ {v}
    /\ UNCHANGED <<identity, database, refs, contracts, row, skipped, creating>>

\* Faulty variant: the contract is taken for one the SDK tracks.
ImportContractSkipped(v) ==
    /\ Goes("rows", "add")
    /\ v \in todo \cap Owned
    /\ v \notin Recorded \/ "store" \in Faults
    /\ row' = v
    /\ UNCHANGED <<identity, database, refs, contracts, todo, skipped, creating>>

\* Faulty variant: the row is off the list before it is recorded.
ImportContractTaking(v) ==
    /\ Goes("rows", "add")
    /\ v \in todo \cap Owned
    /\ v \notin Recorded \/ "store" \in Faults
    /\ row' = v
    /\ todo' = todo \ {v}
    /\ contracts' = contracts \cup {<<v, "legacy">>}
    /\ UNCHANGED <<identity, database, refs, skipped, creating>>

\* Its contract is built and imported, unless the SDK tracks it.
ImportContract(v) ==
    /\ Goes("rows", "add")
    /\ v \in todo \cap Owned
    /\ v \notin Recorded \/ "store" \in Faults
    /\ row' = v
    /\ contracts' = contracts \cup {<<v, "legacy">>}
    /\ UNCHANGED <<identity, database, refs, todo, skipped, creating>>

\* Then it is recorded; the table refuses an id it has.
AddRow ==
    /\ Goes("add", "rows")
    /\ \/ row \notin Recorded /\ refs' = refs \cup {<<row, "legacy">>} /\ UNCHANGED skipped
       \/ (row \in Recorded \/ "store" \in Faults) /\ skipped' = TRUE /\ UNCHANGED refs
    /\ todo' = todo \ {row}
    /\ row' = NoVhtlc
    /\ UNCHANGED <<identity, database, contracts, creating>>

\* Faulty variant: the table is dropped whatever was skipped.
DropLegacyAnyhow ==
    /\ Goes("rows", "ready")
    /\ todo = {}
    /\ hasLegacy' = FALSE
    /\ rows' = [rows EXCEPT !.vhtlc_legacy = {}]
    /\ UNCHANGED <<identity, version, dirty, hasId, refs, contracts, rebuild, creating>>

\* The table is dropped when no row was skipped.
DropLegacy ==
    /\ Goes("rows", "ready")
    /\ todo = {}
    /\ ~skipped
    /\ hasLegacy' = FALSE
    /\ rows' = [rows EXCEPT !.vhtlc_legacy = {}]
    /\ UNCHANGED <<identity, version, dirty, hasId, refs, contracts, rebuild, creating>>

KeepLegacy ==
    /\ Goes("rows", "ready")
    /\ todo = {}
    /\ skipped \/ "store" \in Faults
    /\ UNCHANGED <<identity, database, refs, contracts, rebuild, creating>>

-----------------------------------------------------------------------------
(* CreateVHTLC: the SDK makes the contract and imports it, then the row is   *)
(* written.  A call that passed the gate goes on when the wallet is locked.  *)

CreateVHTLC(v, s) ==
    /\ at = "ready"
    /\ v \in Created
    /\ <<v, s>> \notin creating
    /\ contracts' = contracts \cup {<<v, s>>}
    /\ creating' = creating \cup {<<v, s>>}
    /\ UNCHANGED <<identity, database, refs, at, rebuild>>

\* Nobody looks whether the id is taken; the table does.
AddVHTLC(v, s) ==
    /\ <<v, s>> \in creating
    /\ creating' = creating \ {<<v, s>>}
    /\ \/ v \notin Recorded /\ refs' = refs \cup {<<v, s>>}
       \/ (v \in Recorded \/ Faults # {}) /\ UNCHANGED refs
    /\ UNCHANGED <<identity, database, contracts, at, rebuild>>

-----------------------------------------------------------------------------
Migrates ==
    \/ Start
    \/ MigrateToBegin
    \/ BeginMigrated
    \/ EnsureVhtlcNew
    \/ BackfillVhtlc
    \/ SwapVhtlcTables
    \/ MigrateUp
    \/ Cleanup
    \/ Migrated

Rebuilds ==
    \/ NothingToRebuild
    \/ DropEmptyLegacyVhtlcs
    \/ GetLegacy
    \/ \E v \in Vhtlc : SkipRow(v) \/ AlreadyMigrated(v) \/ ImportContract(v)
    \/ AddRow
    \/ DropLegacy
    \/ KeepLegacy

Creates == \E v \in Vhtlc, s \in Script : CreateVHTLC(v, s) \/ AddVHTLC(v, s)

Next == Migrates \/ Die \/ UnlockNode \/ LockNode \/ Rebuilds \/ Creates

Spec == Init /\ [][Next]_vars

-----------------------------------------------------------------------------
(* Properties.                                                               *)

StartState == {"down", "begin", "begun", "ensure", "backfill", "swap", "up", "cleanup", "clean"}
WalletState == {"locked", "migrate", "rows", "add", "ready"}

\* Every variable has its type.
TypeOK ==
    /\ identity \in {"single key", "hd"}
    /\ version \in {"old", "begin", "head"}
    /\ dirty \in BOOLEAN
    /\ hasId \in BOOLEAN
    /\ rows \in [vhtlc : SUBSET Vhtlc, vhtlc_new : SUBSET Vhtlc, vhtlc_legacy : SUBSET Vhtlc]
    /\ hasLegacy \in BOOLEAN
    /\ refs \subseteq Contract
    /\ contracts \subseteq Contract
    /\ at \in StartState \cup WalletState
    /\ todo \subseteq Vhtlc
    /\ row \in Vhtlc \cup {NoVhtlc}
    /\ at = "add" => row \in todo
    /\ skipped \in BOOLEAN
    /\ creating \subseteq Contract

\* Contracts whose parameters a table still has, or that the wallet can look up by
\* id and spend.
Kept == {<<v, "legacy">> : v \in rows.vhtlc \cup rows.vhtlc_legacy} \cup (refs \cap contracts)

\* No step forgets a VHTLC: neither a crash in the middle of the migrations or of
\* the rebuild, nor a row that was skipped, nor a wallet with another identity.
NeverForgets == [][Kept \subseteq Kept']_vars

\* A recorded VHTLC has its contract in the SDK, without which its funds are not
\* watched; a crash between the import and the record leaves the contract only.
RecordedIsTracked == refs \subseteq contracts

\* The rebuild does not run before the database has the latest version, clean.
RebuildsOnHead == at \in WalletState => version = "head" /\ ~dirty
=============================================================================
