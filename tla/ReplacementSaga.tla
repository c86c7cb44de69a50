------------------------- MODULE ReplacementSaga -------------------------
(***************************************************************************)
(* finance-dashboard/lib/transaction-replacement-saga.js, the rewriting of *)
(* references in transaction-replacement-references.js and the functions   *)
(* of dataModule.js the saga is built with: an edit of a split deletes the *)
(* transaction in Actual, adds its replacement under a temporary imported  *)
(* id, finds it by that id, restores the bank's id, and moves the          *)
(* references of the sidecar stores to the new ids.  A failure on the way  *)
(* rolls back: the replacement is deleted and the original added again.    *)
(*                                                                         *)
(* One saga of one transaction is followed.  Its record and the sidecar    *)
(* stores survive a crash; the pass that drives the saga does not.  Actual *)
(* is a local copy and the server behind it, as in TransactionDeletionSaga.*)
(***************************************************************************)
EXTENDS Naturals, FiniteSets, Functions

CONSTANTS
    Stores,        \* the sidecar stores that mention transactions
    Keyed,         \* those with one entry for each transaction
    NoId,          \* no transaction
    MaxId,         \* bound: transaction and leg ids
    MaxTrouble,    \* bound: failing calls, crashes, losses of the local copy,
                   \* new leg ids and edits made by other devices together
    Legacy         \* phases migrateLegacySaga gives a record of the first
                   \* version, "none" for a store without one

ASSUME ReplacementAssumption ==
    /\ Keyed \subseteq Stores
    /\ MaxId \in Nat /\ MaxId >= 3 /\ MaxTrouble \in Nat /\ NoId \notin 1 .. MaxId
    /\ Legacy \subseteq {"none", "legacy_reconcile_forward",
                         "legacy_reconcile_rollback", "legacy_unresolved"}

VARIABLES
    server,      \* what the Actual server holds of each id
    local,       \* what the local copy holds of it
    unsynced,    \* ids whose local row is not on the server
    fresh,       \* the next id Actual gives out
    saga,        \* the record in transaction-sagas.json
    refs,        \* the ids each sidecar store mentions
    run,         \* the pass in progress
    up,          \* the process is running
    left,        \* what remains of MaxTrouble
    disturbed    \* history: somebody else changed what the saga works on

ledger == <<server, local, unsynced, fresh>>
vars   == <<ledger, saga, refs, run, up, left, disturbed>>

----------------------------------------------------------------------------
(***************************************************************************)
(* Rows.  A row has at most one leg.  Its shape is the content the saga    *)
(* compares: the original's, the replacement's, either with a category     *)
(* Actual's rules have changed, or what another device made of it.         *)
(***************************************************************************)
Ids == 1 .. MaxId
Identities == {"none", "bank", "replace", "restore"}
Shapes == {"old", "new", "oldcat", "newcat", "other"}
Rows == [leg : Ids \cup {NoId}, imp : Identities,
         shape : Shapes \cup {"gone", "none"}, here : BOOLEAN]
Row(leg, imp, shape) ==
    [leg |-> leg, imp |-> imp, shape |-> shape, here |-> TRUE]

\* An id deleted, and one that was never there.
Gone  == Row(NoId, "none", "gone")
NoRow == Row(NoId, "none", "none")

Exists(side, i) == i \in Ids /\ side[i] \notin {Gone, NoRow}

\* The rows of the saga's account, and those of every account.
Live == {i \in Ids : Exists(local, i)}
Here == {i \in Live : local[i].here}

\* The original is row 1; its leg, if it is split, is id 2.
O == 1

NoIds == [id |-> NoId, leg |-> NoId]
NoPlan == [dir |-> "none", map |-> <<>>, done |-> {}]
NoSaga == [phase |-> "none", imp |-> "none", oldLeg |-> NoId,
           split |-> FALSE, retained |-> FALSE,
           repl |-> NoIds, idMap |-> <<>>, retired |-> {},
           back |-> NoIds, backMap |-> <<>>, backRetired |-> {},
           plan |-> NoPlan]

Phase == saga.phase
Terminal == {"completed", "rolled_back"}
Active == Phase \notin Terminal \cup {"none"}

\* sagaOwnedIds: every id the record has ever held.
Owned == ({O, saga.oldLeg, saga.repl.id, saga.repl.leg,
           saga.back.id, saga.back.leg}
          \cup saga.retired \cup saga.backRetired
          \cup Range(saga.idMap) \cup Range(saga.plan.map)) \ {NoId}

\* transactionsFor enumerates every account: it throws when a row of the
\* saga, or one with a temporary identity of its own, is in another one.
Enumerable ==
    \A i \in Live \ Here :
        /\ {i, local[i].leg} \cap Owned = {}
        /\ local[i].imp \notin {"replace", "restore"}

ByIdentity(imp) == {i \in Here : local[i].imp = imp}

\* importedIdentityConflict
Conflict(imp, i) == imp # "none" /\ ByIdentity(imp) \ {i} # {}

\* shapeMatches, with the identity the row is expected to have.
Matches(i, shape, imp) ==
    i \in Here /\ local[i].shape = shape /\ local[i].imp = imp

\* isRepairableTemporaryCategoryMismatch: splits have no category.
Repairable(i, shape, imp) ==
    /\ i \in Here /\ local[i].imp = imp /\ local[i].leg = NoId
    /\ local[i].shape = (IF shape = "new" THEN "newcat" ELSE "oldcat")

IdsOf(i) == [id |-> i, leg |-> local[i].leg]

----------------------------------------------------------------------------
(***************************************************************************)
(* Maps from old ids to new ones.                                          *)
(***************************************************************************)
\* transactionReplacementMap: a leg that was not retained maps to the parent.
ReplacementMap(to) ==
    [i \in {O, saga.oldLeg} \ {NoId} |->
        IF i = saga.oldLeg /\ saga.retained THEN to.leg ELSE to.id]

\* Variant: only the ids of the original are mapped.
RollbackMapOfOriginal(to) ==
    [i \in {O, saga.oldLeg} \ {NoId} |-> IF i = saga.oldLeg THEN to.leg ELSE to.id]

\* rollbackReplacementMap: what the record knows of the replacement maps to
\* the restored row, a leg to a leg only if it stood for one.
RollbackMap(to) ==
    LET legs == {saga.oldLeg} \cup (IF saga.repl.id # NoId /\ saga.retained
                                   THEN {saga.repl.leg} ELSE {})
        ids  == {O, saga.oldLeg, saga.repl.id, saga.repl.leg} \cup saga.retired
    IN  [i \in ids \ {NoId} |-> IF i \in legs THEN to.leg ELSE to.id]

\* rollbackMapAfterRestoredLegRefresh: legs the restored row no longer has
\* map to the one it has.
AliasMap(to) ==
    LET aliases == (saga.backRetired \cup {saga.back.leg}) \ {to.leg, NoId}
        own     == RollbackMap(to)
    IN  [i \in aliases \cup DOMAIN own |->
            IF i \in aliases THEN to.leg ELSE own[i]]

Mapped(map, i) == IF i \in DOMAIN map THEN map[i] ELSE i
Image(map, S) == {Mapped(map, i) : i \in S}

\* rewriteTransactionReplacementReferences throws rather than let two
\* entries of a store become one.
Collides(map, k) ==
    k \in Keyed /\ Cardinality(Image(map, refs[k])) < Cardinality(refs[k])
Rewritable(map) == \A k \in Stores : ~Collides(map, k)

Converged == /\ Rewritable(saga.plan.map)
             /\ \A k \in Stores : Image(saga.plan.map, refs[k]) = refs[k]

----------------------------------------------------------------------------
Idle == [op |-> "idle", defer |-> FALSE, at |-> "phase"]

Forward == {"prepared", "delete_pending", "original_deleted",
            "replacement_add_pending", "replacement_category_repair_pending",
            "replacement_identified", "replacement_metadata_pending",
            "replacement_ready", "references_pending",
            "references_migrated", "sync_pending"}
Rollback == {"rollback_requested", "rollback_delete_pending",
             "rollback_deleted", "restore_add_pending",
             "restore_category_repair_pending", "restored_identified",
             "restore_metadata_pending", "restored_ready",
             "rollback_references_pending", "rollback_references_migrated",
             "rollback_sync_pending"}
Undoable == {"replacement_identified", "replacement_metadata_pending",
             "replacement_ready", "references_pending",
             "references_migrated"}

TypeOK ==
    /\ server \in [Ids -> Rows]
    /\ local \in [Ids -> Rows]
    /\ unsynced \subseteq Ids
    /\ fresh \in 2 .. MaxId + 1
    /\ Phase \in Forward \cup Rollback \cup Terminal \cup Legacy \cup {"none"}
    /\ Owned \subseteq Ids
    /\ saga.plan.done \subseteq Stores
    /\ refs \in [Stores -> SUBSET Ids]
    /\ run \in [op : {"idle", "replace", "unwind", "recover"},
                defer : BOOLEAN,
                at : {"phase", "delete", "verify", "add", "find", "repair",
                      "restore", "converge", "check", "written", "sync", "mark"}]
    /\ up \in BOOLEAN /\ left \in 0 .. MaxTrouble /\ disturbed \in BOOLEAN

\* A record of the first version, and what its process may have left: the
\* original, the replacement (or the restored row) at id 3, both or neither.
LegacyInit(phase, imp) ==
    LET rows == {S \in SUBSET {O, 3} : phase = "legacy_unresolved" => 3 \notin S}
        shape == IF phase = "legacy_reconcile_forward" THEN "new" ELSE "old"
    IN  /\ \E S \in rows :
             /\ local = [i \in Ids |->
                           IF i \notin S THEN NoRow
                           ELSE IF i = O THEN Row(NoId, imp, "old")
                                ELSE Row(NoId, imp, shape)]
             /\ disturbed = (Cardinality(S) # 1)
        /\ fresh = 4
        /\ saga = [NoSaga EXCEPT
             !.phase = phase, !.imp = imp,
             !.repl = IF phase = "legacy_reconcile_forward"
                      THEN [id |-> 3, leg |-> NoId] ELSE NoIds,
             !.back = IF phase = "legacy_reconcile_rollback"
                      THEN [id |-> 3, leg |-> NoId] ELSE NoIds]
        /\ refs \in [Stores -> {{}, {O}}]

Init ==
    /\ \E imp \in {"none", "bank"} :
         \/ /\ "none" \in Legacy
            /\ \E leg \in {NoId, 2} :
                 /\ local = [i \in Ids |->
                               IF i = O THEN Row(leg, imp, "old") ELSE NoRow]
                 /\ refs \in [Stores -> SUBSET ({O, leg} \ {NoId})]
                 /\ \A k \in Stores \ Keyed : refs[k] = {O, leg} \ {NoId}
            /\ fresh = 3
            /\ saga = NoSaga
            /\ disturbed = FALSE
         \/ \E phase \in Legacy \ {"none"} : LegacyInit(phase, imp)
    /\ server = local
    /\ unsynced = {}
    /\ run = Idle
    /\ up = TRUE
    /\ left = MaxTrouble

Driving(phase) == up /\ run.op # "idle" /\ run.at = "phase" /\ Phase = phase
At(at) == up /\ run.at = at
Goto(at) == run' = [run EXCEPT !.at = at]

\* checkpoint: one durable write of the record, then the next phase.
Write(record) == saga' = record /\ Goto("phase")
Checkpoint(phase) == Write([saga EXCEPT !.phase = phase])
Only(what) == UNCHANGED <<what, up, left, disturbed>>

----------------------------------------------------------------------------
(***************************************************************************)
(* driveForward.                                                           *)
(***************************************************************************)
\* splitTransaction, removeSplit and replace: the admitted row, its
\* replacement split or not, its leg retained or not.
Replace(split, retained) ==
    /\ up /\ run.op = "idle" /\ Phase = "none"
    /\ O \in Here /\ local[O].shape = "old"
    /\ ~Conflict(local[O].imp, O)
    /\ retained => split /\ local[O].leg # NoId
    /\ saga' = [NoSaga EXCEPT !.phase = "prepared", !.imp = local[O].imp,
                              !.oldLeg = local[O].leg,
                              !.split = split, !.retained = retained]
    /\ run' = [Idle EXCEPT !.op = "replace"]
    /\ Only(<<ledger, refs>>)

Intent ==
    /\ Driving("prepared")
    /\ Checkpoint("delete_pending")
    /\ Only(<<ledger, refs>>)

\* The original has one owner of its imported id and is deleted if it is
\* there; if it is nowhere the deletion has been done.
DeleteOriginal ==
    /\ Driving("delete_pending") /\ Enumerable
    /\ ~Conflict(saga.imp, O) /\ Cardinality(ByIdentity("replace")) < 2
    /\ \/ O \in Here /\ Goto("delete") /\ UNCHANGED saga
       \/ O \notin Here /\ Checkpoint("original_deleted")
    /\ Only(<<ledger, refs>>)

Doomed == IF Phase = "rollback_delete_pending" THEN saga.repl.id ELSE O

\* api.deleteTransaction edits the local copy only.
DeleteRow ==
    /\ At("delete")
    /\ local' = [local EXCEPT ![Doomed] = Gone]
    /\ unsynced' = unsynced \cup {Doomed}
    /\ Goto("verify")
    /\ Only(<<server, fresh, saga, refs>>)

VerifyDeleted ==
    /\ At("verify") /\ Enumerable /\ Doomed \notin Here
    /\ Checkpoint(IF Doomed = O THEN "original_deleted" ELSE "rollback_deleted")
    /\ Only(<<ledger, refs>>)

\* The original is looked for again: back, it is deleted again.
IntendAdd ==
    /\ Driving("original_deleted") /\ Enumerable
    /\ Checkpoint(IF O \in Here THEN "delete_pending"
                  ELSE "replacement_add_pending")
    /\ Only(<<ledger, refs>>)

\* Variant: the replacement is added without a look for one added before.
AddAnyway ==
    /\ Driving("replacement_add_pending") /\ Enumerable
    /\ \/ O \in Here /\ Checkpoint("delete_pending")
       \/ O \notin Here /\ Goto("add") /\ UNCHANGED saga
    /\ Only(<<ledger, refs>>)

LookForReplacement ==
    /\ Driving("replacement_add_pending") /\ Enumerable
    /\ \/ O \in Here /\ Checkpoint("delete_pending")
       \/ /\ O \notin Here /\ UNCHANGED saga
          /\ \/ ByIdentity("replace") = {} /\ Goto("add")
             \/ Cardinality(ByIdentity("replace")) = 1 /\ Goto("find")
    /\ Only(<<ledger, refs>>)

Restoring == Phase \in Rollback
Wanted == IF Restoring THEN "old" ELSE "new"
Temporary == IF Restoring THEN "restore" ELSE "replace"
HasLeg == IF Restoring THEN saga.oldLeg # NoId ELSE saga.split

\* api.addTransactions: Actual gives the ids, and its rules may give a row
\* that is not split another category.
AddRow ==
    /\ At("add") /\ fresh + 1 <= MaxId
    /\ \E shape \in {Wanted} \cup
             (IF HasLeg THEN {} ELSE {IF Restoring THEN "oldcat" ELSE "newcat"}) :
         local' = [local EXCEPT ![fresh] =
                     Row(IF HasLeg THEN fresh + 1 ELSE NoId, Temporary, shape)]
    /\ unsynced' = unsynced \cup {fresh}
    /\ fresh' = fresh + (IF HasLeg THEN 2 ELSE 1)
    /\ Goto("find")
    /\ Only(<<server, saga, refs>>)

\* checkpointReplacementIdentified, and the same of the restored row.
Identified(i) ==
    IF Restoring
    THEN [saga EXCEPT !.phase = "restored_identified", !.back = IdsOf(i),
                      !.backMap = RollbackMap(IdsOf(i))]
    ELSE [saga EXCEPT !.phase = "replacement_identified", !.repl = IdsOf(i),
                      !.idMap = ReplacementMap(IdsOf(i))]

\* reconcileReplacementIdentity: the one row with the temporary identity.
FindAdded ==
    /\ At("find") /\ Enumerable
    /\ \E i \in ByIdentity(Temporary) :
         /\ ByIdentity(Temporary) = {i}
         /\ \/ /\ Matches(i, Wanted, Temporary)
               /\ Write(Identified(i))
            \/ /\ Repairable(i, Wanted, Temporary)
               /\ Checkpoint(IF Restoring THEN "restore_category_repair_pending"
                             ELSE "replacement_category_repair_pending")
    /\ Only(<<ledger, refs>>)

Repairing == up /\ run.op # "idle" /\ run.at = "phase" /\
             Phase \in {"replacement_category_repair_pending",
                        "restore_category_repair_pending"}

RepairCategory ==
    /\ Repairing /\ Enumerable
    /\ \E i \in ByIdentity(Temporary) :
         /\ ByIdentity(Temporary) = {i}
         /\ \/ Matches(i, Wanted, Temporary) /\ Write(Identified(i))
            \/ Repairable(i, Wanted, Temporary) /\ Goto("repair") /\ UNCHANGED saga
    /\ Only(<<ledger, refs>>)

\* api.updateTransaction of the category.
UpdateCategory ==
    /\ At("repair")
    /\ \E i \in ByIdentity(Temporary) :
         /\ local' = [local EXCEPT ![i].shape = Wanted]
         /\ unsynced' = unsynced \cup {i}
    /\ Goto("converge")
    /\ Only(<<server, fresh, saga, refs>>)

\* Either direction: the row the record has identified.
Added == IF Restoring THEN saga.back ELSE saga.repl

IntendMetadata ==
    /\ \/ /\ Driving("replacement_identified") /\ Enumerable
          /\ saga.repl.id \in Here
          /\ local[saga.repl.id].imp \in {"replace", saga.imp}
          /\ Checkpoint("replacement_metadata_pending")
       \/ /\ Driving("restored_identified")
          /\ Checkpoint("restore_metadata_pending")
    /\ Only(<<ledger, refs>>)

InMetadata == \/ Driving("replacement_metadata_pending")
              \/ Driving("restore_metadata_pending")

\* Variant: the references move while the row has its temporary identity.
SkipMetadata ==
    /\ InMetadata /\ Enumerable /\ Added.id \in Here
    /\ Checkpoint(IF Restoring THEN "restored_ready" ELSE "replacement_ready")
    /\ Only(<<ledger, refs>>)

\* restoreImportedMetadataAndConverge, up to the update.
Metadata ==
    /\ InMetadata /\ Enumerable
    /\ Added.id \in Here /\ ~Conflict(saga.imp, Added.id)
    /\ \/ local[Added.id].imp = Temporary /\ Goto("restore")
       \/ local[Added.id].imp = saga.imp /\ Goto("converge")
    /\ Only(<<ledger, saga, refs>>)

RestoreMetadata ==
    /\ At("restore")
    /\ local' = [local EXCEPT ![Added.id].imp = saga.imp]
    /\ unsynced' = unsynced \cup {Added.id}
    /\ Goto("converge")
    /\ Only(<<server, fresh, saga, refs>>)

----------------------------------------------------------------------------
(***************************************************************************)
(* api.sync(): local edits reach the server field by field and the rest is *)
(* read from it.  A deletion wins over any edit.                           *)
(***************************************************************************)
Merge(mine, theirs) ==
    IF Gone \in {mine, theirs} THEN Gone
    ELSE IF theirs = NoRow THEN mine
    ELSE [mine EXCEPT !.shape = IF theirs.shape = "other" THEN "other" ELSE @,
                      !.here = theirs.here]

Merged == [i \in Ids |-> IF i \in unsynced
                         THEN Merge(local[i], server[i]) ELSE server[i]]
Synchronised == server' = Merged /\ local' = server' /\ unsynced' = {}

\* Each of the converge attempts: sync, and the rows are read again.
Converge ==
    /\ At("converge")
    /\ Synchronised
    /\ Goto("check")
    /\ Only(<<fresh, saga, refs>>)

\* After an update of a split Actual may have given its leg another id.
ConvergeWithNewLeg ==
    /\ At("converge") /\ left > 0 /\ fresh <= MaxId
    /\ Exists(Merged, Added.id) /\ Merged[Added.id].leg # NoId
    /\ server' = [Merged EXCEPT ![Added.id].leg = fresh]
    /\ local' = server' /\ unsynced' = {} /\ fresh' = fresh + 1
    /\ left' = left - 1
    /\ Goto("check")
    /\ UNCHANGED <<saga, refs, up, disturbed>>

Replaced(prior, now) == {prior.leg} \ {now.leg, NoId}

\* The ids of the row and its leg as they are now, and the map that goes
\* with them.
Refreshed(phase) ==
    LET ids == IdsOf(Added.id)
    IN  IF Restoring
        THEN [saga EXCEPT !.phase = phase, !.back = ids,
                          !.backMap = AliasMap(ids),
                          !.backRetired = @ \cup Replaced(saga.back, ids)]
        ELSE [saga EXCEPT !.phase = phase, !.repl = ids,
                          !.idMap = ReplacementMap(ids),
                          !.retired = @ \cup Replaced(saga.repl, ids)]

\* The category, or the metadata, has converged.
Check ==
    /\ At("check") /\ Enumerable
    /\ \/ /\ Phase \in {"replacement_category_repair_pending",
                        "restore_category_repair_pending"}
          /\ \E i \in ByIdentity(Temporary) :
               Matches(i, Wanted, Temporary) /\ Write(Identified(i))
       \/ /\ Phase \in {"replacement_metadata_pending", "restore_metadata_pending"}
          /\ Matches(Added.id, Wanted, saga.imp) /\ ~Conflict(saga.imp, Added.id)
          /\ Write(Refreshed(IF Restoring THEN "restored_ready"
                             ELSE "replacement_ready"))
    /\ Only(<<ledger, refs>>)

----------------------------------------------------------------------------
(***************************************************************************)
(* The references, in either direction.                                    *)
(***************************************************************************)
Map     == IF Restoring THEN saga.backMap ELSE saga.idMap
Drifted == /\ saga.plan.dir = (IF Restoring THEN "rollback" ELSE "forward")
           /\ Added # IdsOf(Added.id) \/ Map # saga.plan.map

\* The row is there as it should be, with the ids the plan was made for
\* (postMigrationReplacementDriftReason, postMigrationRestoredDriftReason).
Verified == Enumerable /\ Matches(Added.id, Wanted, saga.imp) /\ ~Drifted

Ready == Driving("replacement_ready") \/ Driving("restored_ready")

\* A leg id that changed before the plan is made is taken over.
RefreshIds ==
    /\ Ready /\ Verified
    /\ Added # IdsOf(Added.id)
    /\ Write(Refreshed(Phase))
    /\ Only(<<ledger, refs>>)

\* prepareReferenceMigration: the whole rewriting is tried before it starts.
PlanReferences ==
    /\ Ready /\ Verified
    /\ Added = IdsOf(Added.id)
    /\ Rewritable(Map)
    /\ Write([saga EXCEPT
         !.phase = IF Restoring THEN "rollback_references_pending"
                   ELSE "references_pending",
         !.plan = [dir |-> IF Restoring THEN "rollback" ELSE "forward",
                   map |-> Map, done |-> {}]])
    /\ Only(<<ledger, refs>>)

Migrating == Driving("references_pending") \/ Driving("rollback_references_pending")
Pending == Stores \ saga.plan.done
NextStore == CHOOSE k \in Pending : TRUE

\* migrateReferences: one store is rewritten, then its step checkpointed.
WriteReferences ==
    /\ Migrating /\ Pending # {}
    /\ Verified /\ Rewritable(saga.plan.map)
    /\ refs' = [refs EXCEPT ![NextStore] = Image(saga.plan.map, @)]
    /\ Goto("written")
    /\ Only(<<ledger, saga>>)

StepDone ==
    /\ At("written")
    /\ Write([saga EXCEPT !.plan.done = @ \cup {NextStore}])
    /\ Only(<<ledger, refs>>)

ReferencesMigrated ==
    /\ Migrating /\ Pending = {} /\ Converged
    /\ Checkpoint(IF Restoring THEN "rollback_references_migrated"
                  ELSE "references_migrated")
    /\ Only(<<ledger, refs>>)

\* The final state, before the sync and again after it.
Final ==
    /\ Verified /\ ~Conflict(saga.imp, Added.id) /\ Converged
    /\ IF Restoring
       THEN saga.repl.id \notin Here
            /\ ByIdentity("replace") \cup ByIdentity("restore") = {}
       ELSE O \notin Here

\* A request returns to its caller, whose next sync completes the saga; a
\* rollback and a recovery go on to a sync of their own.
Leave == run' = IF run.op = "replace" THEN Idle ELSE [run EXCEPT !.at = "sync"]

SyncPending ==
    /\ \/ Driving("references_migrated")
       \/ Driving("rollback_references_migrated")
    /\ Final
    /\ saga' = [saga EXCEPT !.phase = IF Restoring THEN "rollback_sync_pending"
                                      ELSE "sync_pending"]
    /\ Leave
    /\ Only(<<ledger, refs>>)

NeedsSync ==
    /\ Driving("sync_pending") \/ Driving("rollback_sync_pending")
    /\ Enumerable
    /\ Leave
    /\ Only(<<ledger, saga, refs>>)

SyncSucceeds ==
    /\ At("sync")
    /\ Synchronised
    /\ run' = IF Phase \in {"sync_pending", "rollback_sync_pending"}
              THEN [run EXCEPT !.at = "mark"] ELSE Idle
    /\ Only(<<fresh, saga, refs>>)

\* Variant: the final state is not verified again after the sync.
TerminalizeUnverified ==
    /\ At("mark")
    /\ saga' = [saga EXCEPT !.phase = IF Restoring THEN "rolled_back"
                                      ELSE "completed"]
    /\ run' = Idle
    /\ Only(<<ledger, refs>>)

\* terminalizeSynced
Terminalize ==
    /\ At("mark") /\ Final
    /\ saga' = [saga EXCEPT !.phase = IF Restoring THEN "rolled_back"
                                      ELSE "completed"]
    /\ run' = Idle
    /\ Only(<<ledger, refs>>)

----------------------------------------------------------------------------
(***************************************************************************)
(* driveRollback, where it differs.                                        *)
(***************************************************************************)

IntendRollback ==
    /\ Driving("rollback_requested")
    /\ Checkpoint("rollback_delete_pending")
    /\ Only(<<ledger, refs>>)

DeleteReplacement ==
    /\ Driving("rollback_delete_pending") /\ Enumerable
    /\ \/ saga.repl.id \in Here /\ Goto("delete") /\ UNCHANGED saga
       \/ saga.repl.id \notin Here /\ Checkpoint("rollback_deleted")
    /\ Only(<<ledger, refs>>)

\* An original that is there again is the restored row.
IntendRestore ==
    /\ Driving("rollback_deleted") /\ Enumerable
    /\ \/ Matches(O, "old", saga.imp) /\ Write(Identified(O))
       \/ O \notin Here /\ Checkpoint("restore_add_pending")
    /\ Only(<<ledger, refs>>)

LookForRestored ==
    /\ Driving("restore_add_pending") /\ Enumerable
    /\ \/ ByIdentity("restore") = {} /\ Goto("add")
       \/ Cardinality(ByIdentity("restore")) = 1 /\ Goto("find")
    /\ Only(<<ledger, saga, refs>>)

----------------------------------------------------------------------------
(***************************************************************************)
(* Records of the first version.                                           *)
(***************************************************************************)
\* reconcileLegacyForward: the replacement saved by id is there; an original
\* that is there as well is deleted.
LegacyForward ==
    /\ Driving("legacy_reconcile_forward") /\ Enumerable
    /\ Matches(saga.repl.id, "new", saga.imp)
    /\ \/ /\ O \in Here /\ ~Conflict(saga.imp, O)
          /\ local' = [local EXCEPT ![O] = Gone]
          /\ unsynced' = unsynced \cup {O}
          /\ UNCHANGED <<saga, run>>
       \/ /\ O \notin Here /\ ~Conflict(saga.imp, saga.repl.id)
          /\ Write([saga EXCEPT !.phase = "replacement_ready",
                                !.repl = IdsOf(@.id),
                                !.idMap = ReplacementMap(IdsOf(saga.repl.id))])
          /\ UNCHANGED <<local, unsynced>>
    /\ Only(<<server, fresh, refs>>)

\* reconcileLegacyRollback
LegacyRollback ==
    /\ Driving("legacy_reconcile_rollback") /\ Enumerable
    /\ Matches(saga.back.id, "old", saga.imp)
    /\ ~Conflict(saga.imp, saga.back.id) /\ O \notin Here
    /\ Write([saga EXCEPT !.phase = "restored_ready",
                          !.back = IdsOf(@.id),
                          !.backMap = AliasMap(IdsOf(saga.back.id))])
    /\ Only(<<ledger, refs>>)

\* reconcileLegacyUnresolved: nothing happened, or nothing is known.
LegacyIntact ==
    /\ Driving("legacy_unresolved") /\ Enumerable
    /\ Matches(O, "old", saga.imp) /\ ~Conflict(saga.imp, O)
    /\ saga' = [saga EXCEPT !.phase = "rolled_back"]
    /\ run' = IF run.defer THEN [run EXCEPT !.at = "sync"] ELSE Idle
    /\ Only(<<ledger, refs>>)

SagaStep ==
    \/ Intent \/ DeleteOriginal \/ DeleteRow \/ VerifyDeleted
    \/ IntendAdd \/ LookForReplacement \/ AddRow \/ FindAdded
    \/ RepairCategory \/ UpdateCategory
    \/ IntendMetadata \/ Metadata \/ RestoreMetadata
    \/ Converge \/ Check \/ RefreshIds \/ PlanReferences
    \/ WriteReferences \/ StepDone \/ ReferencesMigrated
    \/ SyncPending \/ NeedsSync \/ SyncSucceeds \/ Terminalize
    \/ IntendRollback \/ DeleteReplacement \/ IntendRestore \/ LookForRestored
    \/ LegacyForward \/ LegacyRollback \/ LegacyIntact

----------------------------------------------------------------------------
(***************************************************************************)
(* What goes wrong.                                                        *)
(***************************************************************************)
\* An error ends the pass; one of a request that has identified its
\* replacement rolls back, one of a deferred recovery leaves the sync to do.
GiveUp ==
    \/ /\ run.op = "replace" /\ Phase \in Undoable
       /\ saga' = [saga EXCEPT !.phase = "rollback_requested"]
       /\ run' = [run EXCEPT !.op = "unwind", !.at = "phase"]
    \/ /\ ~(run.op = "replace" /\ Phase \in Undoable)
       /\ UNCHANGED saga
       /\ run' = IF run.defer /\ run.at \notin {"sync", "mark"}
                 THEN [run EXCEPT !.at = "sync"] ELSE Idle

\* What the drive finds is not what it expects: unresolved, or a throw.
OutcomeUnknown ==
    /\ up /\ run.op # "idle"
    /\ ~ENABLED SagaStep
    /\ GiveUp
    /\ Only(<<ledger, refs>>)

\* A call throws before it takes effect, a sync perhaps after it.  One that
\* throws after its effect is the step followed by this one.
CallFails ==
    /\ up /\ run.op # "idle" /\ left > 0
    /\ GiveUp
    /\ \/ UNCHANGED ledger
       \/ run.at \in {"sync", "converge"} /\ Synchronised /\ UNCHANGED fresh
    /\ left' = left - 1
    /\ UNCHANGED <<refs, up, disturbed>>

Crash ==
    /\ up /\ left > 0
    /\ up' = FALSE
    /\ run' = Idle
    /\ left' = left - 1
    /\ UNCHANGED <<ledger, saga, refs, disturbed>>

\* loadBudgetResilient discards a local copy it cannot open.
CacheReset ==
    /\ ~up /\ left > 0
    /\ local' = server
    /\ unsynced' = {}
    /\ left' = left - 1
    /\ disturbed' = (disturbed \/ unsynced # {})
    /\ UNCHANGED <<server, fresh, saga, refs, run, up>>

\* The budget is loaded, with a sync of its own or without, and recover is
\* called without deferring the sync.
Restart ==
    /\ ~up
    /\ up' = TRUE
    /\ (Synchronised /\ UNCHANGED fresh) \/ UNCHANGED ledger
    /\ run' = IF Active THEN [Idle EXCEPT !.op = "recover"] ELSE Idle
    /\ UNCHANGED <<saga, refs, left, disturbed>>

\* syncTransactionSagas: recover with the sync deferred, sync, markSynced.
StartSync ==
    /\ up /\ run.op = "idle"
    /\ run' = [op |-> "recover", defer |-> TRUE,
               at |-> IF Active THEN "phase" ELSE "sync"]
    /\ Only(<<ledger, saga, refs>>)

\* Another device edits, moves or removes a row, or splits it anew; a bank
\* import elsewhere brings the imported id back.
RemoteEdit ==
    /\ Active /\ left > 0
    /\ \/ /\ \E i \in Ids :
              /\ Exists(server, i)
              /\ \E row \in {Gone, [server[i] EXCEPT !.shape = "other"],
                             [server[i] EXCEPT !.here = FALSE]} :
                    server' = [server EXCEPT ![i] = row]
          /\ UNCHANGED fresh
       \/ /\ fresh <= MaxId /\ fresh' = fresh + 1
          /\ \E i \in Ids : /\ Exists(server, i) /\ server[i].leg # NoId
                           /\ server' = [server EXCEPT ![i].leg = fresh]
       \/ /\ fresh <= MaxId /\ fresh' = fresh + 1
          /\ \A i \in Ids : Exists(server, i) => server[i].imp # "bank"
          /\ server' = [server EXCEPT ![fresh] = Row(NoId, "bank", "other")]
    /\ left' = left - 1
    /\ disturbed' = TRUE
    /\ UNCHANGED <<local, unsynced, saga, refs, run, up>>

\* A receipt, a link or a mark of a row that the saga does not own.  Ids are
\* learned from reads, which wait for the lane.  (What is added while there
\* is no saga is among the initial states.)
AddReference(k, i) ==
    /\ up /\ run.op = "idle" /\ Active
    /\ i \in Here \/ \E r \in Here : local[r].leg = i
    /\ i \notin Owned
    /\ refs' = [refs EXCEPT ![k] = @ \cup {i}]
    /\ Only(<<ledger, saga, run>>)

----------------------------------------------------------------------------
Environment == CallFails \/ Crash \/ CacheReset \/ RemoteEdit \/ ConvergeWithNewLeg
Requests == \/ \E split, retained \in BOOLEAN : Replace(split, retained)
            \/ \E k \in Stores, i \in Ids : AddReference(k, i)
PassStep == SagaStep \/ OutcomeUnknown

Next == PassStep \/ StartSync \/ Restart \/ Environment \/ Requests

Spec == Init /\ [][Next]_vars

\* The lane runs the pass it has begun, the periodic timer starts another
\* one, the supervisor restarts the process.  Requests and faults are free.
FairSpec == Spec /\ WF_vars(PassStep) /\ WF_vars(StartSync) /\ WF_vars(Restart)

----------------------------------------------------------------------------
(***************************************************************************)
(* Properties.                                                             *)
(***************************************************************************)
\* The money is counted once: whatever fails, and wherever the process is
\* killed, the original, its replacement and the restored row are never two
\* of them in the ledger, and one of them is there once the saga is over.
CountedOnce ==
    ~disturbed => /\ Cardinality(Live) <= 1
                  /\ Active \/ Cardinality(Live) = 1

\* "Reference migration preserves evidence": what a store mentions is in the
\* ledger, or is an id of the saga that has yet to move it.  It is not so of
\* a leg that was marked before the record held it, or while the record held
\* another, and that Actual gave another id or a rollback deleted since.
NoReferenceDangles ==
    ~disturbed => \A k \in Stores : \A i \in refs[k] :
        \/ i \in Live \/ \E r \in Live : local[r].leg = i
        \/ Active /\ i \in Owned
        \/ i \in saga.retired \cup saga.backRetired
        \/ i \notin Owned /\ local[i] = NoRow

\* "The temporary identity is removed before references move."  (A local copy
\* lost with the deletion of the replacement in it brings the row back, under
\* that identity, to a rollback that has recorded the deletion.)
IdentityBeforeReferences ==
    [][~disturbed /\ (\E k \in Stores : ~ refs[k] \subseteq refs'[k]) =>
          ByIdentity("replace") \cup ByIdentity("restore") = {}]_vars

\* "Imported transactions also require one unique live owner ... before the
\* saved imported_id is restored", imports of other devices included.
OneOwnerOfTheIdentity ==
    [][\A i \in Ids : (At("restore") /\ local'[i] # local[i]) =>
          ~Conflict(saga.imp, i)]_vars

\* Completion is verified after the sync: the account holds the one row the
\* request asked for, or the original again, and no store needs a rewrite.
CompletionIsClean ==
    [][\A phase \in {"completed", "rolled_back"} :
          Phase # phase /\ saga'.phase = phase /\ Phase \notin Legacy =>
             /\ Matches(Added.id, Wanted, saga.imp)
             /\ unsynced = {} /\ Converged
             /\ (IF Restoring THEN saga.repl.id ELSE O) \notin Here]_vars

\* A replacement nobody disturbs ends, completed or rolled back.  One whose
\* references cannot be rewritten, met by a recovery, does not, and neither
\* does a record of the first version that names too little.
HealthyEnded ==
    Active => \/ disturbed \/ Phase \in Legacy
              \/ Phase \in {"replacement_ready", "restored_ready"} /\ ~Rewritable(Map)
HealthyEnds == <>[]HealthyEnded

=============================================================================
