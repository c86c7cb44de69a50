------------------------- MODULE ReplacementProofs -------------------------
(***************************************************************************)
(* Proofs about the replacement saga: whatever the stores, the bounds and  *)
(* the records of the first version, and wherever a call fails or the      *)
(* process is killed, the money is counted once.                           *)
(***************************************************************************)
EXTENDS MCReplacementSaga, TLAPS, FiniteSetTheorems

----------------------------------------------------------------------------
(***************************************************************************)
(* The inductive invariant.  All of it is about a saga that nobody has     *)
(* disturbed: behind its back rows come and go.                            *)
(***************************************************************************)
Passes == [op : {"idle", "replace", "unwind", "recover"}, defer : BOOLEAN,
           at : {"phase", "delete", "verify", "add", "find", "repair",
                 "restore", "converge", "check", "written", "sync", "mark"}]

Typed == /\ server \in [Ids -> Rows] /\ local \in [Ids -> Rows]
         /\ fresh \in Nat \ {0} /\ run \in Passes
         /\ DOMAIN saga = DOMAIN NoSaga /\ saga.imp \in Identities

\* A row as the saga and Actual leave it, in the saga's account.
Plain(r) == /\ r.here /\ r.shape # "other"
            /\ r.shape \in {"gone", "none"} => r \in {Gone, NoRow}

\* What a sync would merge is what the local copy holds already.
SyncChangesNothing ==
    \A i \in Ids :
        /\ Plain(local[i])
        /\ i \notin unsynced => server[i] = local[i]
        /\ i \in unsynced => \/ local[i] = Gone
                             \/ Plain(server[i]) /\ server[i] # Gone

\* Ids to come are nowhere.
FreshIsFree ==
    \A i \in Ids : i >= fresh => /\ local[i] = NoRow /\ server[i] = NoRow
                                 /\ i \notin unsynced

AtMostOne == \A i, j \in Live : i = j

\* Which row it may be, by phase: until the replacement is added the original
\* or, found by a later pass, the one added before a kill; from then on the
\* row the record names, whose deletion a rollback asks for.
WhichFor(phase, id) ==
    /\ phase \in {"none", "prepared", "delete_pending", "original_deleted"} =>
          Live \subseteq {O}
    /\ phase = "replacement_add_pending" =>
          \A i \in Live : i = O \/ local[i].imp = "replace"
    /\ phase \in Undoable \cup {"rollback_requested", "rollback_delete_pending"} =>
          Live \subseteq {id}
    /\ phase = "rollback_deleted" => Live = {}
    /\ phase = "restore_add_pending" => \A i \in Live : local[i].imp = "restore"
    /\ phase \in Terminal \cup {"none"} => Live # {}
WhichOne == WhichFor(Phase, saga.repl.id)

\* Where the drive is, between the check of a row and the call that needs it.
DriveFits ==
    /\ run.at = "add" => Live = {}
    /\ run.at \in {"add", "find"} =>
          Phase \in {"replacement_add_pending", "restore_add_pending"}
    /\ run.at \in {"delete", "verify"} =>
          Phase \in {"delete_pending", "rollback_delete_pending"}
    /\ run.at = "delete" => Doomed \in Live
    /\ run.at = "restore" =>
          /\ Phase \in {"replacement_metadata_pending", "restore_metadata_pending"}
          /\ Added.id \in Live
    /\ run.op = "idle" => run.at = "phase"

InOrder == /\ SyncChangesNothing /\ FreshIsFree
           /\ AtMostOne /\ WhichOne /\ DriveFits
CountInv == Typed /\ (~disturbed => InOrder)

----------------------------------------------------------------------------
(***************************************************************************)
(* Lemmas about records, passes and rows.                                  *)
(***************************************************************************)
Fields == {"phase", "imp", "oldLeg", "split", "retained", "repl", "idMap",
           "retired", "back", "backMap", "backRetired", "plan"}

LEMMA FieldsOfASaga == DOMAIN NoSaga = Fields
  BY DEF NoSaga, Fields

\* What every write of the drive keeps of a record, and what it sets.
Recorded(phase, to, back) ==
    /\ DOMAIN saga' = DOMAIN NoSaga /\ saga'.imp = saga.imp
    /\ saga'.phase = phase /\ saga'.repl.id = to /\ saga'.back.id = back
    /\ run' \in Passes /\ run'.at = "phase" /\ run'.op = run.op

Places == {"phase", "delete", "verify", "add", "find", "repair",
           "restore", "converge", "check", "written", "sync", "mark"}

\* Going somewhere else keeps the pass a pass, and the same pass.
LEMMA GotoFacts ==
    ASSUME Typed, NEW at \in Places, Goto(at)
    PROVE  run' \in Passes /\ run'.at = at /\ run'.op = run.op
  BY DEF Typed, Passes, Places, Goto

LEMMA CheckpointFacts ==
    ASSUME Typed, NEW phase, Checkpoint(phase)
    PROVE  Recorded(phase, saga.repl.id, saga.back.id)
<1>1. Goto("phase") /\ saga' = [saga EXCEPT !.phase = phase]
    BY DEF Checkpoint, Write
<1>2. run' \in Passes /\ run'.at = "phase" /\ run'.op = run.op
    BY <1>1, GotoFacts DEF Places
<1>3. DOMAIN saga = Fields
    BY FieldsOfASaga DEF Typed
<1> QED
    BY <1>1, <1>2, <1>3, FieldsOfASaga DEF Recorded, Fields

LEMMA IdentifiedFacts ==
    ASSUME Typed, NEW i, Write(Identified(i))
    PROVE  /\ Restoring => Recorded("restored_identified", saga.repl.id, i)
           /\ ~Restoring => Recorded("replacement_identified", i, saga.back.id)
<1>1. Goto("phase") /\ saga' = Identified(i)
    BY DEF Write
<1>2. run' \in Passes /\ run'.at = "phase" /\ run'.op = run.op
    BY <1>1, GotoFacts DEF Places
<1>3. DOMAIN saga = Fields
    BY FieldsOfASaga DEF Typed
<1> QED
    BY <1>1, <1>2, <1>3, FieldsOfASaga DEF Recorded, Fields, Identified, IdsOf

LEMMA RefreshedFacts ==
    ASSUME Typed, NEW phase, Write(Refreshed(phase))
    PROVE  Recorded(phase, saga.repl.id, saga.back.id)
<1>1. Goto("phase") /\ saga' = Refreshed(phase)
    BY DEF Write
<1>2. run' \in Passes /\ run'.at = "phase" /\ run'.op = run.op
    BY <1>1, GotoFacts DEF Places
<1>3. DOMAIN saga = Fields
    BY FieldsOfASaga DEF Typed
<1> QED
    BY <1>1, <1>2, <1>3, FieldsOfASaga
    DEF Recorded, Fields, Refreshed, IdsOf, Added

\* The rows there are go with the local copy.
LEMMA SameRows ==
    ASSUME local' = local
    PROVE  Live' = Live /\ Here' = Here
  BY DEF Live, Here, Exists

\* In an account nobody has disturbed every row is the saga's.
LEMMA HereIsLive ==
    ASSUME SyncChangesNothing
    PROVE  Here = Live
  BY DEF Here, Live, SyncChangesNothing, Plain

LEMMA MergedRows ==
    ASSUME Typed
    PROVE  Merged \in [Ids -> Rows]
<1> SUFFICES ASSUME NEW i \in Ids, i \in unsynced
             PROVE  Merge(local[i], server[i]) \in Rows
    BY DEF Typed, Merged
<1>1. local[i] \in Rows /\ server[i] \in Rows
    BY DEF Typed
<1>2. Gone \in Rows
    BY DEF Gone, Row, Rows, Identities
<1> QED
    BY <1>1, <1>2 DEF Merge, Rows, Shapes

LEMMA MergeIsLocal ==
    ASSUME Typed, SyncChangesNothing
    PROVE  Merged = local
<1>1. ASSUME NEW i \in Ids PROVE  Merged[i] = local[i]
  <2>1. local[i] \in Rows /\ server[i] \in Rows
      BY DEF Typed
  <2>2. CASE i \notin unsynced
      BY <2>2 DEF Merged, SyncChangesNothing
  <2>3. CASE i \in unsynced /\ local[i] = Gone
      BY <2>3 DEF Merged, Merge
  <2>4. CASE i \in unsynced /\ local[i] # Gone
    <3>1. /\ Plain(server[i]) /\ server[i] # Gone
          /\ server[i].here = TRUE /\ local[i].here = TRUE
          /\ server[i].shape # "other"
        BY <2>1, <2>4 DEF SyncChangesNothing, Plain, Rows
    <3> QED
        BY <2>1, <2>4, <3>1 DEF Merged, Merge, Rows
  <2> QED
      BY <2>2, <2>3, <2>4
<1> QED
    BY <1>1 DEF Merged, Typed

\* A sync of what nobody has disturbed changes the server only.
LEMMA SyncFacts ==
    ASSUME Typed, SyncChangesNothing, Synchronised
    PROVE  server' = local /\ local' = local /\ unsynced' = {}
  BY MergeIsLocal DEF Synchronised

LEMMA SameLedger ==
    ASSUME SyncChangesNothing, FreshIsFree, UNCHANGED ledger
    PROVE  SyncChangesNothing' /\ FreshIsFree' /\ local' = local /\ Live' = Live
  BY SameRows DEF ledger, SyncChangesNothing, FreshIsFree

LEMMA SyncKeepsRows ==
    ASSUME Typed, SyncChangesNothing, FreshIsFree, Synchronised, fresh' = fresh
    PROVE  SyncChangesNothing' /\ FreshIsFree' /\ local' = local /\ Live' = Live
<1>1. server' = local /\ local' = local /\ unsynced' = {}
    BY SyncFacts
<1> QED
    BY <1>1, SameRows DEF SyncChangesNothing, FreshIsFree

\* The saga writes a row it has found.
LEMMA RowWritten ==
    ASSUME Typed, SyncChangesNothing, FreshIsFree,
           NEW i \in Live, NEW row \in Rows,
           row = Gone \/ (Plain(row) /\ row \notin {Gone, NoRow}),
           local' = [local EXCEPT ![i] = row], server' = server,
           unsynced' = unsynced \cup {i}, fresh' = fresh
    PROVE  /\ SyncChangesNothing' /\ FreshIsFree' /\ local' \in [Ids -> Rows]
           /\ Live' = IF row = Gone THEN Live \ {i} ELSE Live
           /\ \A j \in Live \ {i} : local'[j] = local[j]
           /\ local'[i] = row
<1>1. i \in Ids /\ local[i] \notin {Gone, NoRow} /\ local \in [Ids -> Rows]
    BY DEF Live, Exists, Typed
<1>2. /\ local'[i] = row /\ local' \in [Ids -> Rows]
      /\ \A j \in Ids \ {i} : local'[j] = local[j]
    BY <1>1
<1>3. SyncChangesNothing'
  <2>1. Plain(Gone)
      BY DEF Plain, Gone, Row
  <2>2. Plain(server[i]) /\ server[i] # Gone
      BY <1>1 DEF SyncChangesNothing
  <2> QED
      BY <1>1, <1>2, <2>1, <2>2 DEF SyncChangesNothing, Plain
<1>4. FreshIsFree'
    BY <1>1, <1>2 DEF FreshIsFree
<1>5. Live' = IF row = Gone THEN Live \ {i} ELSE Live
    BY <1>1, <1>2 DEF Live, Exists
<1> QED
    BY <1>2, <1>3, <1>4, <1>5 DEF Live

----------------------------------------------------------------------------
(***************************************************************************)
(* Types.                                                                  *)
(***************************************************************************)
LedgerTyped == /\ server \in [Ids -> Rows] /\ local \in [Ids -> Rows]
               /\ fresh \in Nat \ {0}
SagaTyped == DOMAIN saga = DOMAIN NoSaga /\ saga.imp \in Identities

LEMMA RecordedIsTyped ==
    ASSUME Typed, NEW phase, NEW to, NEW back, Recorded(phase, to, back)
    PROVE  SagaTyped' /\ run' \in Passes
  BY DEF Typed, Recorded, SagaTyped

\* The steps that only write the record or move the drive.
Bookkeeping ==
    \/ Intent \/ DeleteOriginal \/ VerifyDeleted \/ IntendAdd
    \/ LookForReplacement \/ FindAdded \/ RepairCategory
    \/ IntendMetadata \/ Metadata \/ Check \/ RefreshIds \/ PlanReferences
    \/ WriteReferences \/ StepDone \/ ReferencesMigrated
    \/ SyncPending \/ NeedsSync \/ Terminalize
    \/ IntendRollback \/ DeleteReplacement \/ IntendRestore \/ LookForRestored
    \/ LegacyRollback \/ LegacyIntact \/ OutcomeUnknown \/ Crash \/ StartSync
    \/ (\E split, retained \in BOOLEAN : Replace(split, retained))
    \/ (\E k \in Stores, i \in Ids : AddReference(k, i))

LEMMA BookkeepingKeepsTheLedger ==
    ASSUME Bookkeeping
    PROVE  UNCHANGED ledger /\ disturbed' = disturbed
<1>1. CASE Intent
    BY <1>1 DEF Intent, Only, ledger
<1>2. CASE DeleteOriginal
    BY <1>2 DEF DeleteOriginal, Only, ledger
<1>3. CASE VerifyDeleted
    BY <1>3 DEF VerifyDeleted, Only, ledger
<1>4. CASE IntendAdd
    BY <1>4 DEF IntendAdd, Only, ledger
<1>5. CASE LookForReplacement
    BY <1>5 DEF LookForReplacement, Only, ledger
<1>6. CASE FindAdded
    BY <1>6 DEF FindAdded, Only, ledger
<1>7. CASE RepairCategory
    BY <1>7 DEF RepairCategory, Only, ledger
<1>8. CASE IntendMetadata
    BY <1>8 DEF IntendMetadata, Only, ledger
<1>9. CASE Metadata
    BY <1>9 DEF Metadata, Only, ledger
<1>10. CASE Check
    BY <1>10 DEF Check, Only, ledger
<1>11. CASE RefreshIds
    BY <1>11 DEF RefreshIds, Only, ledger
<1>12. CASE PlanReferences
    BY <1>12 DEF PlanReferences, Only, ledger
<1>13. CASE WriteReferences
    BY <1>13 DEF WriteReferences, Only, ledger
<1>14. CASE StepDone
    BY <1>14 DEF StepDone, Only, ledger
<1>15. CASE ReferencesMigrated
    BY <1>15 DEF ReferencesMigrated, Only, ledger
<1>16. CASE SyncPending
    BY <1>16 DEF SyncPending, Only, ledger
<1>17. CASE NeedsSync
    BY <1>17 DEF NeedsSync, Only, ledger
<1>18. CASE Terminalize
    BY <1>18 DEF Terminalize, Only, ledger
<1>19. CASE IntendRollback
    BY <1>19 DEF IntendRollback, Only, ledger
<1>20. CASE DeleteReplacement
    BY <1>20 DEF DeleteReplacement, Only, ledger
<1>21. CASE IntendRestore
    BY <1>21 DEF IntendRestore, Only, ledger
<1>22. CASE LookForRestored
    BY <1>22 DEF LookForRestored, Only, ledger
<1>23. CASE LegacyRollback
    BY <1>23 DEF LegacyRollback, Only, ledger
<1>24. CASE LegacyIntact
    BY <1>24 DEF LegacyIntact, Only, ledger
<1>25. CASE OutcomeUnknown
    BY <1>25 DEF OutcomeUnknown, Only, ledger
<1>26. CASE Crash
    BY <1>26 DEF Crash, Only, ledger
<1>27. CASE StartSync
    BY <1>27 DEF StartSync, Only, ledger
<1>28. ASSUME NEW split \in BOOLEAN, NEW retained \in BOOLEAN,
             Replace(split, retained)
      PROVE  UNCHANGED ledger /\ disturbed' = disturbed
    BY <1>28 DEF Replace, Only, ledger
<1>29. ASSUME NEW k \in Stores, NEW i \in Ids, AddReference(k, i)
      PROVE  UNCHANGED ledger /\ disturbed' = disturbed
    BY <1>29 DEF AddReference, Only, ledger
<1> QED
    BY <1>1, <1>2, <1>3, <1>4, <1>5, <1>6, <1>7, <1>8, <1>9, <1>10, <1>11,
       <1>12, <1>13, <1>14, <1>15, <1>16, <1>17, <1>18, <1>19, <1>20, <1>21, <1>22,
       <1>23, <1>24, <1>25, <1>26, <1>27, <1>28, <1>29
    DEF Bookkeeping

\* What the record and the drive are stays what they are.
LEMMA BookkeepingIsTyped ==
    ASSUME Typed, Bookkeeping
    PROVE  SagaTyped' /\ run' \in Passes
<1> DEFINE GOAL == SagaTyped' /\ run' \in Passes
<1>1. SagaTyped /\ run \in Passes /\ DOMAIN saga = Fields
    BY FieldsOfASaga DEF Typed, SagaTyped
<1>2. UNCHANGED saga => SagaTyped'
    BY <1>1 DEF SagaTyped
<1>3. ASSUME NEW at \in Places, Goto(at) PROVE  run' \in Passes
    BY <1>3, GotoFacts
<1>4. ASSUME NEW phase, Checkpoint(phase) PROVE  GOAL
    BY <1>4, CheckpointFacts, RecordedIsTyped
<1>5. ASSUME NEW i, Write(Identified(i)) PROVE  GOAL
    BY <1>5, IdentifiedFacts, RecordedIsTyped
<1>6. ASSUME NEW phase, Write(Refreshed(phase)) PROVE  GOAL
    BY <1>6, RefreshedFacts, RecordedIsTyped
<1>7. ASSUME NEW phase, saga' = [saga EXCEPT !.phase = phase] PROVE  SagaTyped'
    BY <1>1, <1>7, FieldsOfASaga DEF SagaTyped, Fields
<1>8. Idle \in Passes
    BY DEF Idle, Passes
<1>9. ASSUME NEW at \in Places, run' = [run EXCEPT !.at = at] PROVE  run' \in Passes
    BY <1>1, <1>9 DEF Passes, Places
<1>10. Leave => run' \in Passes
    BY <1>8, <1>9 DEF Leave, Places
<1>11. GiveUp => GOAL
  <2>1. CASE GiveUp /\ run.op = "replace" /\ Phase \in Undoable
    <3>1. run' \in Passes
        BY <1>1, <2>1 DEF GiveUp, Passes
    <3> QED
        BY <1>7, <2>1, <3>1 DEF GiveUp
  <2>2. CASE GiveUp /\ ~(run.op = "replace" /\ Phase \in Undoable)
      BY <1>2, <1>8, <1>9, <2>2 DEF GiveUp, Places
  <2> QED
      BY <2>1, <2>2
<1>12. CASE Intent
    BY <1>4, <1>12 DEF Intent
<1>13. CASE DeleteOriginal
    BY <1>2, <1>3, <1>4, <1>13 DEF DeleteOriginal, Only, Places
<1>14. CASE VerifyDeleted
    BY <1>4, <1>14 DEF VerifyDeleted
<1>15. CASE IntendAdd
    BY <1>4, <1>15 DEF IntendAdd
<1>16. CASE LookForReplacement
    BY <1>2, <1>3, <1>4, <1>16 DEF LookForReplacement, Only, Places
<1>17. CASE FindAdded
    BY <1>4, <1>5, <1>17 DEF FindAdded
<1>18. CASE RepairCategory
    BY <1>2, <1>3, <1>5, <1>18 DEF RepairCategory, Places
<1>19. CASE IntendMetadata
    BY <1>4, <1>19 DEF IntendMetadata
<1>20. CASE Metadata
    BY <1>2, <1>3, <1>4, <1>20 DEF Metadata, Only, Places
<1>21. CASE Check
    BY <1>5, <1>6, <1>21 DEF Check
<1>22. CASE RefreshIds
    BY <1>6, <1>22 DEF RefreshIds
<1>23. CASE PlanReferences
    BY <1>1, <1>3, <1>23, FieldsOfASaga
    DEF PlanReferences, Write, SagaTyped, Fields, Places
<1>24. CASE WriteReferences
    BY <1>2, <1>3, <1>4, <1>24 DEF WriteReferences, Only, Places
<1>25. CASE StepDone
    BY <1>1, <1>3, <1>25, FieldsOfASaga
    DEF StepDone, Write, SagaTyped, Fields, Places
<1>26. CASE ReferencesMigrated
    BY <1>4, <1>26 DEF ReferencesMigrated
<1>27. CASE SyncPending
    BY <1>7, <1>10, <1>27 DEF SyncPending
<1>28. CASE NeedsSync
    BY <1>2, <1>10, <1>28 DEF NeedsSync, Only
<1>29. CASE Terminalize
    BY <1>7, <1>8, <1>29 DEF Terminalize
<1>30. CASE IntendRollback
    BY <1>4, <1>30 DEF IntendRollback
<1>31. CASE DeleteReplacement
    BY <1>2, <1>3, <1>4, <1>31 DEF DeleteReplacement, Only, Places
<1>32. CASE IntendRestore
    BY <1>4, <1>5, <1>32 DEF IntendRestore
<1>33. CASE LookForRestored
    BY <1>2, <1>3, <1>4, <1>33 DEF LookForRestored, Only, Places
<1>34. CASE LegacyRollback
    BY <1>1, <1>3, <1>34, FieldsOfASaga
    DEF LegacyRollback, Write, SagaTyped, Fields, Places
<1>35. CASE LegacyIntact
    BY <1>7, <1>8, <1>9, <1>35 DEF LegacyIntact, Places
<1>36. CASE OutcomeUnknown
    BY <1>11, <1>36 DEF OutcomeUnknown
<1>37. CASE Crash
    BY <1>2, <1>8, <1>37 DEF Crash
<1>38. CASE StartSync
    BY <1>2, <1>38 DEF StartSync, Only, Passes
<1>39. ASSUME NEW split \in BOOLEAN, NEW retained \in BOOLEAN,
             Replace(split, retained)
      PROVE  GOAL
  <2>1. run' \in Passes
      BY <1>39 DEF Replace, Idle, Passes
  <2>2. local[O].imp \in Identities
      BY <1>39 DEF Replace, Here, Live, Exists, Typed, Rows
  <2> QED
      BY <1>39, <2>1, <2>2, FieldsOfASaga
      DEF Replace, NoSaga, SagaTyped, Fields
<1>40. ASSUME NEW k \in Stores, NEW i \in Ids, AddReference(k, i)
      PROVE  GOAL
    BY <1>1, <1>2, <1>40 DEF AddReference, Only
<1> QED
    BY <1>12, <1>13, <1>14, <1>15, <1>16, <1>17, <1>18, <1>19, <1>20, <1>21, <1>22,
       <1>23, <1>24, <1>25, <1>26, <1>27, <1>28, <1>29, <1>30, <1>31, <1>32, <1>33,
       <1>34, <1>35, <1>36, <1>37, <1>38, <1>39, <1>40
    DEF Bookkeeping

LEMMA SyncIsTyped ==
    ASSUME Typed, Synchronised
    PROVE  server' \in [Ids -> Rows] /\ local' \in [Ids -> Rows]
  BY MergedRows DEF Synchronised

LEMMA TypedStep ==
    ASSUME ReplacementAssumption, Typed, [Next]_vars
    PROVE  Typed'
<1> DEFINE GOAL == LedgerTyped' /\ SagaTyped' /\ run' \in Passes
<1> SUFFICES GOAL
    BY DEF LedgerTyped, SagaTyped, Typed
<1>1. LedgerTyped /\ SagaTyped /\ run \in Passes
    BY DEF Typed, LedgerTyped, SagaTyped
<1>2. UNCHANGED ledger => LedgerTyped'
    BY <1>1 DEF ledger, LedgerTyped
<1>3. UNCHANGED saga => SagaTyped'
    BY <1>1 DEF SagaTyped
<1>4. ASSUME NEW at \in Places, Goto(at) PROVE  run' \in Passes
    BY <1>4, GotoFacts
<1>5. Idle \in Passes /\ Gone \in Rows
    BY DEF Idle, Passes, Gone, Row, Rows, Identities
<1>6. ASSUME Synchronised, fresh' = fresh PROVE  LedgerTyped'
    BY <1>1, <1>6, SyncIsTyped DEF LedgerTyped
<1>7. ASSUME NEW i, NEW row \in Rows, local' = [local EXCEPT ![i] = row],
             server' = server, fresh' = fresh
      PROVE  LedgerTyped'
    BY <1>1, <1>7 DEF LedgerTyped
<1>8. CASE Bookkeeping
    BY <1>2, <1>8, BookkeepingIsTyped, BookkeepingKeepsTheLedger
<1>9. CASE DeleteRow
    BY <1>3, <1>4, <1>5, <1>7, <1>9 DEF DeleteRow, Only, Places
<1>10. CASE AddRow
  <2>1. PICK shape \in {"old", "new", "oldcat", "newcat"} :
            local' = [local EXCEPT ![fresh] =
                        Row(IF HasLeg THEN fresh + 1 ELSE NoId, Temporary, shape)]
      BY <1>10 DEF AddRow, Wanted
  <2>2. fresh \in Nat \ {0} /\ MaxId \in Nat /\ fresh + 1 <= MaxId
      BY <1>1, <1>10 DEF AddRow, LedgerTyped, ReplacementAssumption
  <2>3. Row(IF HasLeg THEN fresh + 1 ELSE NoId, Temporary, shape) \in Rows
      BY <2>2 DEF Row, Rows, Ids, Identities, Shapes, Temporary
  <2>4. server' = server /\ fresh' \in Nat \ {0} /\ UNCHANGED saga /\ Goto("find")
      BY <1>10, <2>2 DEF AddRow, Only
  <2> QED
      BY <1>1, <1>3, <1>4, <2>1, <2>3, <2>4 DEF LedgerTyped, Places
<1>11. CASE UpdateCategory
  <2>1. PICK i \in Live : local' = [local EXCEPT ![i].shape = Wanted]
      BY <1>11 DEF UpdateCategory, ByIdentity, Here
  <2>2. local[i] \in Rows /\ local \in [Ids -> Rows]
      BY <1>1 DEF LedgerTyped, Live, Exists
  <2>3. local' \in [Ids -> Rows]
      BY <2>1, <2>2 DEF Rows, Shapes, Wanted
  <2> QED
      BY <1>1, <1>3, <1>4, <1>11, <2>3 DEF UpdateCategory, Only, Places, LedgerTyped
<1>12. CASE RestoreMetadata
  <2>1. local' \in [Ids -> Rows]
    <3>1. local \in [Ids -> Rows] /\ saga.imp \in Identities
        BY <1>1 DEF LedgerTyped, SagaTyped
    <3> DEFINE i == Added.id
               imp == saga.imp
    <3>2. local' = [local EXCEPT ![i].imp = imp]
        BY <1>12 DEF RestoreMetadata
    <3> HIDE DEF i, imp
    <3>3. i \in Ids => [local[i] EXCEPT !.imp = imp] \in Rows
        BY <3>1 DEF Rows, imp
    <3> QED
        BY <3>1, <3>2, <3>3
  <2> QED
      BY <1>1, <1>3, <1>4, <1>12, <2>1
      DEF RestoreMetadata, Only, Places, LedgerTyped
<1>13. CASE Converge
    BY <1>3, <1>4, <1>6, <1>13 DEF Converge, Only, Places
<1>14. CASE SyncSucceeds
  <2>1. run' \in Passes
      BY <1>1, <1>5, <1>14 DEF SyncSucceeds, Passes
  <2> QED
      BY <1>3, <1>6, <1>14, <2>1 DEF SyncSucceeds, Only
<1>15. CASE ConvergeWithNewLeg
  <2>1. Merged \in [Ids -> Rows] /\ fresh \in Ids /\ MaxId \in Nat
      BY <1>1, <1>15, MergedRows
      DEF ConvergeWithNewLeg, LedgerTyped, Ids, ReplacementAssumption
  <2>2. [Merged EXCEPT ![Added.id].leg = fresh] \in [Ids -> Rows]
      BY <2>1 DEF Rows
  <2>3. fresh' \in Nat \ {0}
      BY <2>1, <1>15 DEF ConvergeWithNewLeg, Ids
  <2> QED
      BY <1>3, <1>4, <1>15, <2>2, <2>3 DEF ConvergeWithNewLeg, Places, LedgerTyped
<1>16. CASE LegacyForward
  <2>1. CASE UNCHANGED <<saga, run>> /\ local' = [local EXCEPT ![O] = Gone]
      BY <1>1, <1>3, <1>5, <1>7, <1>16, <2>1 DEF LegacyForward, Only
  <2>2. CASE /\ UNCHANGED <<local, unsynced>>
             /\ Write([saga EXCEPT !.phase = "replacement_ready",
                                   !.repl = IdsOf(@.id),
                                   !.idMap = ReplacementMap(IdsOf(saga.repl.id))])
    <3>1. SagaTyped' /\ run' \in Passes
        BY <1>1, <1>4, <2>2, FieldsOfASaga DEF Write, SagaTyped, Fields, Places
    <3>2. UNCHANGED ledger
        BY <1>16, <2>2 DEF LegacyForward, Only, ledger
    <3> QED
        BY <1>2, <3>1, <3>2
  <2> QED
      BY <1>16, <2>1, <2>2 DEF LegacyForward
<1>17. CASE CallFails
  <2>1. LedgerTyped'
      BY <1>2, <1>6, <1>17 DEF CallFails
  <2>2. SagaTyped' /\ run' \in Passes
    <3>1. CASE run.op = "replace" /\ Phase \in Undoable
        BY <1>1, <1>17, <3>1, FieldsOfASaga
        DEF CallFails, GiveUp, SagaTyped, Fields, Passes
    <3>2. CASE ~(run.op = "replace" /\ Phase \in Undoable)
        BY <1>1, <1>3, <1>5, <1>17, <3>2 DEF CallFails, GiveUp, Passes
    <3> QED
        BY <3>1, <3>2
  <2> QED
      BY <2>1, <2>2
<1>18. CASE CacheReset
    BY <1>1, <1>3, <1>18 DEF CacheReset, LedgerTyped
<1>19. CASE Restart
  <2>1. run' \in Passes
      BY <1>19 DEF Restart, Idle, Passes
  <2> QED
      BY <1>2, <1>3, <1>6, <1>19, <2>1 DEF Restart
<1>20. CASE RemoteEdit
  <2>1. server' \in [Ids -> Rows] /\ fresh' \in Nat \ {0}
    <3>1. fresh \in Nat \ {0} /\ (fresh <= MaxId => fresh \in Ids)
        BY <1>1 DEF LedgerTyped, Ids, ReplacementAssumption
    <3>2. ASSUME NEW i \in Ids,
                 NEW row \in {Gone, [server[i] EXCEPT !.shape = "other"],
                              [server[i] EXCEPT !.here = FALSE]},
                 server' = [server EXCEPT ![i] = row]
          PROVE  server' \in [Ids -> Rows]
      <4>1. row \in Rows
        <5>1. server[i] \in Rows
            BY <1>1 DEF LedgerTyped
        <5>2. /\ [server[i] EXCEPT !.shape = "other"] \in Rows
              /\ [server[i] EXCEPT !.here = FALSE] \in Rows
            BY <5>1 DEF Rows, Shapes
        <5> QED
            BY <1>5, <5>2
      <4> QED
          BY <1>1, <3>2, <4>1 DEF LedgerTyped
    <3>3. ASSUME NEW i \in Ids, fresh \in Ids,
                 server' = [server EXCEPT ![i].leg = fresh]
          PROVE  server' \in [Ids -> Rows]
        BY <1>1, <3>3 DEF LedgerTyped, Rows
    <3>4. ASSUME server' = [server EXCEPT ![fresh] = Row(NoId, "bank", "other")]
          PROVE  server' \in [Ids -> Rows]
      <4>1. Row(NoId, "bank", "other") \in Rows
          BY DEF Row, Rows, Identities, Shapes
      <4> QED
          BY <1>1, <3>4, <4>1 DEF LedgerTyped
    <3> QED
        BY <1>20, <3>1, <3>2, <3>3, <3>4 DEF RemoteEdit
  <2> QED
      BY <1>1, <1>3, <1>20, <2>1 DEF RemoteEdit, LedgerTyped
<1>21. CASE UNCHANGED vars
    BY <1>1, <1>2, <1>3, <1>21 DEF vars
<1> QED
    BY <1>8, <1>9, <1>10, <1>11, <1>12, <1>13, <1>14, <1>15, <1>16,
       <1>17, <1>18, <1>19, <1>20, <1>21
    DEF Next, PassStep, SagaStep, Environment, Requests, Bookkeeping

----------------------------------------------------------------------------
(***************************************************************************)
(* Bookkeeping leaves the rows and goes where they fit.                    *)
(***************************************************************************)
\* A record is written: its new phase must fit the rows.
LEMMA RecordFits ==
    ASSUME local' = local, NEW phase, NEW to, NEW back,
           Recorded(phase, to, back), WhichFor(phase, to)
    PROVE  WhichOne' /\ DriveFits'
<1>1. Live' = Live
    BY SameRows
<1>2. WhichOne'
    BY <1>1 DEF WhichOne, WhichFor, Recorded, Phase
<1>3. DriveFits'
    BY DEF DriveFits, Recorded
<1> QED
    BY <1>2, <1>3

LEMMA SameRecord ==
    ASSUME local' = local, saga' = saga, WhichOne
    PROVE  WhichOne'
  BY SameRows DEF WhichOne, WhichFor, Phase

\* Elsewhere the drive needs nothing of the rows.
LEMMA Elsewhere ==
    ASSUME run'.at \in {"phase", "repair", "converge", "check", "written",
                        "sync", "mark"},
           run'.op = "idle" => run'.at = "phase"
    PROVE  DriveFits'
  BY DEF DriveFits

LEMMA BookkeepingFits ==
    ASSUME Typed, InOrder, Bookkeeping
    PROVE  WhichOne' /\ DriveFits'
<1> DEFINE GOAL == WhichOne' /\ DriveFits'
<1>1. UNCHANGED ledger
    BY BookkeepingKeepsTheLedger
<1>2. local' = local /\ Live' = Live /\ Here = Live /\ AtMostOne
    BY <1>1, SameLedger, HereIsLive DEF InOrder
<1>3. WhichOne /\ DriveFits
    BY DEF InOrder
<1>4. DOMAIN saga = Fields /\ run \in Passes
    BY FieldsOfASaga DEF Typed
<1>5. ASSUME NEW phase, WhichFor(phase, saga.repl.id), Checkpoint(phase)
      PROVE  GOAL
    BY <1>2, <1>5, CheckpointFacts, RecordFits
<1>6. UNCHANGED saga => WhichOne'
    BY <1>2, <1>3, SameRecord
<1>7. ASSUME NEW at \in Places, Goto(at) PROVE  run'.at = at /\ run'.op = run.op
    BY <1>7, GotoFacts
<1>8. Idle.op = "idle" /\ Idle.at = "phase"
    BY DEF Idle
<1>9. ASSUME NEW phase, WhichFor(phase, saga.repl.id),
             saga' = [saga EXCEPT !.phase = phase]
      PROVE  WhichOne'
  <2>1. saga'.phase = phase /\ saga'.repl = saga.repl
      BY <1>4, <1>9 DEF Fields
  <2> QED
      BY <1>2, <1>9, <2>1 DEF WhichOne, WhichFor, Phase
<1>10. ASSUME NEW i \in Live, Write(Identified(i)) PROVE  GOAL
  <2>1. CASE Restoring
    <3>1. WhichFor("restored_identified", saga.repl.id)
        BY DEF WhichFor, Undoable, Terminal
    <3> QED
        BY <1>2, <1>10, <2>1, <3>1, IdentifiedFacts, RecordFits
  <2>2. CASE ~Restoring
    <3>1. WhichFor("replacement_identified", i)
        BY <1>2 DEF WhichFor, Undoable, Terminal, AtMostOne
    <3> QED
        BY <1>2, <1>10, <2>2, <3>1, IdentifiedFacts, RecordFits
  <2> QED
      BY <2>1, <2>2
<1>11. ASSUME NEW phase, WhichFor(phase, saga.repl.id), Write(Refreshed(phase))
       PROVE  GOAL
    BY <1>2, <1>11, RefreshedFacts, RecordFits
<1>12. ASSUME NEW i, i \in ByIdentity(Temporary) PROVE  i \in Live
    BY <1>12 DEF ByIdentity, Here
<1>13. Leave => /\ run'.at \in {"phase", "sync"}
                /\ run.op # "idle" => (run'.op = "idle" => run'.at = "phase")
    BY <1>4, <1>8 DEF Leave, Passes
<1>14. ASSUME GiveUp, run.op # "idle" PROVE  GOAL
  <2>1. CASE run.op = "replace" /\ Phase \in Undoable
    <3>1. WhichFor("rollback_requested", saga.repl.id)
        BY <1>3, <2>1 DEF WhichOne, WhichFor, Undoable, Terminal
    <3>2. run'.at = "phase"
        BY <1>4, <1>14, <2>1 DEF GiveUp, Passes
    <3> QED
        BY <1>9, <1>14, <2>1, <3>1, <3>2, Elsewhere DEF GiveUp
  <2>2. CASE ~(run.op = "replace" /\ Phase \in Undoable)
    <3>1. \/ run' = Idle
          \/ run'.at = "sync" /\ run'.op = run.op
        BY <1>4, <1>14, <2>2 DEF GiveUp, Passes
    <3> QED
        BY <1>6, <1>8, <1>14, <2>2, <3>1, Elsewhere DEF GiveUp
  <2> QED
      BY <2>1, <2>2
<1>15. CASE Intent
  <2>1. WhichFor("delete_pending", saga.repl.id)
      BY <1>3, <1>15
      DEF Intent, WhichOne, WhichFor, Phase, Driving, Undoable, Terminal
  <2> QED
      BY <1>5, <1>15, <2>1 DEF Intent
<1>16. CASE DeleteOriginal
  <2>1. Phase = "delete_pending" /\ Doomed = O /\ run.op # "idle"
      BY <1>16 DEF DeleteOriginal, Driving, Doomed
  <2>2. CASE O \in Here /\ Goto("delete") /\ UNCHANGED saga
    <3>1. Doomed' = Doomed /\ Phase' = Phase
        BY <2>2 DEF Doomed, Phase
    <3> QED
        BY <1>2, <1>6, <1>7, <2>1, <2>2, <3>1 DEF DriveFits, Places
  <2>3. CASE O \notin Here /\ Checkpoint("original_deleted")
    <3>1. WhichFor("original_deleted", saga.repl.id)
        BY <1>3, <2>1 DEF WhichOne, WhichFor, Undoable, Terminal
    <3> QED
        BY <1>5, <2>3, <3>1
  <2> QED
      BY <1>16, <2>2, <2>3 DEF DeleteOriginal
<1>17. CASE VerifyDeleted
  <2>1. run.at = "verify" /\ Doomed \notin Live
      BY <1>2, <1>17 DEF VerifyDeleted, At
  <2>2. CASE Phase = "delete_pending"
    <3>1. WhichFor("original_deleted", saga.repl.id) /\ Doomed = O
        BY <1>3, <2>2 DEF WhichOne, WhichFor, Undoable, Terminal, Doomed
    <3> QED
        BY <1>5, <1>17, <3>1 DEF VerifyDeleted
  <2>3. CASE Phase = "rollback_delete_pending"
    <3>1. Live = {}
        BY <1>3, <2>1, <2>3 DEF WhichOne, WhichFor, Doomed
    <3>2. /\ WhichFor("original_deleted", saga.repl.id)
          /\ WhichFor("rollback_deleted", saga.repl.id)
        BY <3>1 DEF WhichFor, Undoable, Terminal
    <3> QED
        BY <1>5, <1>17, <3>2 DEF VerifyDeleted
  <2> QED
      BY <1>3, <2>1, <2>2, <2>3 DEF DriveFits
<1>18. CASE IntendAdd
  <2>1. WhichFor(IF O \in Here THEN "delete_pending"
                ELSE "replacement_add_pending", saga.repl.id)
      BY <1>2, <1>3, <1>18
      DEF IntendAdd, WhichOne, WhichFor, Phase, Driving, Undoable, Terminal
  <2> QED
      BY <1>5, <1>18, <2>1 DEF IntendAdd
<1>19. CASE LookForReplacement
  <2>1. /\ Phase = "replacement_add_pending" /\ run.op # "idle"
        /\ \A i \in Live : i = O \/ local[i].imp = "replace"
      BY <1>3, <1>19 DEF LookForReplacement, Driving, WhichOne, WhichFor
  <2>2. CASE O \in Here /\ Checkpoint("delete_pending")
    <3>1. WhichFor("delete_pending", saga.repl.id)
        BY <1>2, <2>2 DEF WhichFor, Undoable, Terminal, AtMostOne
    <3> QED
        BY <1>5, <2>2, <3>1
  <2>3. CASE O \notin Here /\ UNCHANGED saga /\ ByIdentity("replace") = {} /\ Goto("add")
    <3>1. Live = {} /\ Phase' = Phase
        BY <1>2, <2>1, <2>3 DEF ByIdentity, Phase
    <3> QED
        BY <1>2, <1>6, <1>7, <2>1, <2>3, <3>1 DEF DriveFits, Places
  <2>4. CASE UNCHANGED saga /\ Goto("find")
    <3>1. Phase' = Phase
        BY <2>4 DEF Phase
    <3> QED
        BY <1>6, <1>7, <2>1, <2>4, <3>1 DEF DriveFits, Places
  <2> QED
      BY <1>19, <2>2, <2>3, <2>4 DEF LookForReplacement
<1>20. CASE FindAdded
  <2>1. /\ WhichFor("restore_category_repair_pending", saga.repl.id)
        /\ WhichFor("replacement_category_repair_pending", saga.repl.id)
      BY DEF WhichFor, Undoable, Terminal
  <2> QED
      BY <1>5, <1>10, <1>12, <1>20, <2>1 DEF FindAdded
<1>21. CASE RepairCategory
  <2>1. run.op # "idle"
      BY <1>21 DEF RepairCategory, Repairing
  <2> QED
      BY <1>6, <1>7, <1>10, <1>12, <1>21, <2>1, Elsewhere DEF RepairCategory, Places
<1>22. CASE IntendMetadata
  <2>1. CASE Driving("replacement_identified") /\ Checkpoint("replacement_metadata_pending")
    <3>1. WhichFor("replacement_metadata_pending", saga.repl.id)
        BY <1>3, <2>1 DEF WhichOne, WhichFor, Phase, Driving, Undoable, Terminal
    <3> QED
        BY <1>5, <2>1, <3>1
  <2>2. CASE Checkpoint("restore_metadata_pending")
    <3>1. WhichFor("restore_metadata_pending", saga.repl.id)
        BY DEF WhichFor, Undoable, Terminal
    <3> QED
        BY <1>5, <2>2, <3>1
  <2> QED
      BY <1>22, <2>1, <2>2 DEF IntendMetadata
<1>23. CASE Metadata
  <2>1. /\ Phase \in {"replacement_metadata_pending", "restore_metadata_pending"}
        /\ run.op # "idle" /\ Added.id \in Live /\ UNCHANGED saga
      BY <1>2, <1>23 DEF Metadata, InMetadata, Driving, Only
  <2>2. Phase' = Phase /\ Added' = Added
      BY <2>1 DEF Phase, Added, Restoring
  <2>3. CASE Goto("restore")
      BY <1>2, <1>6, <1>7, <2>1, <2>2, <2>3 DEF DriveFits, Places
  <2>4. CASE Goto("converge")
      BY <1>6, <1>7, <2>1, <2>4, Elsewhere DEF Places
  <2> QED
      BY <1>23, <2>3, <2>4 DEF Metadata
<1>24. CASE Check
  <2>1. CASE \E i \in ByIdentity(Temporary) : Write(Identified(i))
      BY <1>10, <1>12, <2>1
  <2>2. CASE /\ Phase \in {"replacement_metadata_pending", "restore_metadata_pending"}
             /\ Write(Refreshed(IF Restoring THEN "restored_ready"
                                ELSE "replacement_ready"))
    <3>1. WhichFor(IF Restoring THEN "restored_ready" ELSE "replacement_ready",
                   saga.repl.id)
        BY <1>3, <2>2
        DEF WhichOne, WhichFor, Undoable, Terminal, Restoring, Rollback
    <3> QED
        BY <1>11, <2>2, <3>1
  <2> QED
      BY <1>24, <2>1, <2>2 DEF Check
<1>25. CASE RefreshIds
    BY <1>3, <1>11, <1>25 DEF RefreshIds, WhichOne
<1>26. CASE PlanReferences
  <2>1. /\ saga'.phase = IF Restoring THEN "rollback_references_pending"
                         ELSE "references_pending"
        /\ saga'.repl = saga.repl /\ run'.at = "phase"
      BY <1>4, <1>7, <1>26 DEF PlanReferences, Write, Fields, Places
  <2>2. Restoring \/ Phase = "replacement_ready"
      BY <1>26 DEF PlanReferences, Ready, Driving, Restoring, Rollback
  <2>3. WhichOne'
      BY <1>2, <1>3, <2>1, <2>2 DEF WhichOne, WhichFor, Phase, Undoable, Terminal
  <2> QED
      BY <2>1, <2>3, Elsewhere
<1>27. CASE WriteReferences
  <2>1. run.op # "idle" /\ UNCHANGED saga /\ Goto("written")
      BY <1>27 DEF WriteReferences, Migrating, Driving, Only
  <2> QED
      BY <1>6, <1>7, <2>1, Elsewhere DEF Places
<1>28. CASE StepDone
  <2>1. saga'.phase = saga.phase /\ saga'.repl = saga.repl /\ run'.at = "phase"
      BY <1>4, <1>7, <1>28 DEF StepDone, Write, Fields, Places
  <2>2. WhichOne'
      BY <1>2, <1>3, <2>1 DEF WhichOne, WhichFor, Phase
  <2> QED
      BY <2>1, <2>2, Elsewhere
<1>29. CASE ReferencesMigrated
  <2>1. Restoring \/ Phase = "references_pending"
      BY <1>29 DEF ReferencesMigrated, Migrating, Driving, Restoring, Rollback
  <2>2. WhichFor(IF Restoring THEN "rollback_references_migrated"
                 ELSE "references_migrated", saga.repl.id)
      BY <1>3, <2>1 DEF WhichOne, WhichFor, Undoable, Terminal
  <2> QED
      BY <1>5, <1>29, <2>2 DEF ReferencesMigrated
<1>30. CASE SyncPending
  <2>1. run.op # "idle" /\ Leave
      BY <1>30 DEF SyncPending, Driving
  <2>2. WhichFor(IF Restoring THEN "rollback_sync_pending" ELSE "sync_pending",
                 saga.repl.id)
      BY DEF WhichFor, Undoable, Terminal
  <2> QED
      BY <1>9, <1>13, <1>30, <2>1, <2>2, Elsewhere DEF SyncPending
<1>31. CASE NeedsSync
  <2>1. run.op # "idle" /\ Leave /\ UNCHANGED saga
      BY <1>31 DEF NeedsSync, Driving, Only
  <2> QED
      BY <1>6, <1>13, <2>1, Elsewhere
<1>32. CASE Terminalize
  <2>1. Live # {}
      BY <1>2, <1>32 DEF Terminalize, Final, Verified, Matches
  <2>2. WhichFor(IF Restoring THEN "rolled_back" ELSE "completed", saga.repl.id)
      BY <2>1 DEF WhichFor, Undoable, Terminal
  <2> QED
      BY <1>8, <1>9, <1>32, <2>2, Elsewhere DEF Terminalize
<1>33. CASE IntendRollback
  <2>1. WhichFor("rollback_delete_pending", saga.repl.id)
      BY <1>3, <1>33
      DEF IntendRollback, WhichOne, WhichFor, Phase, Driving, Undoable, Terminal
  <2> QED
      BY <1>5, <1>33, <2>1 DEF IntendRollback
<1>34. CASE DeleteReplacement
  <2>1. Phase = "rollback_delete_pending" /\ Doomed = saga.repl.id /\ run.op # "idle"
      BY <1>34 DEF DeleteReplacement, Driving, Doomed
  <2>2. CASE saga.repl.id \in Here /\ Goto("delete") /\ UNCHANGED saga
    <3>1. Doomed' = Doomed /\ Phase' = Phase
        BY <2>2 DEF Doomed, Phase
    <3> QED
        BY <1>2, <1>6, <1>7, <2>1, <2>2, <3>1 DEF DriveFits, Places
  <2>3. CASE saga.repl.id \notin Here /\ Checkpoint("rollback_deleted")
    <3>1. WhichFor("rollback_deleted", saga.repl.id)
        BY <1>2, <1>3, <2>1, <2>3 DEF WhichOne, WhichFor, Undoable, Terminal
    <3> QED
        BY <1>5, <2>3, <3>1
  <2> QED
      BY <1>34, <2>2, <2>3 DEF DeleteReplacement
<1>35. CASE IntendRestore
  <2>1. CASE Matches(O, "old", saga.imp) /\ Write(Identified(O))
    <3>1. O \in Live
        BY <1>2, <2>1 DEF Matches
    <3> QED
        BY <1>10, <2>1, <3>1
  <2>2. CASE Checkpoint("restore_add_pending")
    <3>1. WhichFor("restore_add_pending", saga.repl.id)
        BY <1>3, <1>35 DEF IntendRestore, WhichOne, WhichFor, Phase, Driving, Undoable, Terminal
    <3> QED
        BY <1>5, <2>2, <3>1
  <2> QED
      BY <1>35, <2>1, <2>2 DEF IntendRestore
<1>36. CASE LookForRestored
  <2>1. /\ Phase = "restore_add_pending" /\ run.op # "idle" /\ UNCHANGED saga
        /\ \A i \in Live : local[i].imp = "restore"
      BY <1>3, <1>36 DEF LookForRestored, Driving, WhichOne, WhichFor, Only
  <2>2. Phase' = Phase
      BY <2>1 DEF Phase
  <2>3. CASE ByIdentity("restore") = {} /\ Goto("add")
    <3>1. Live = {}
        BY <1>2, <2>1, <2>3 DEF ByIdentity
    <3> QED
        BY <1>2, <1>6, <1>7, <2>1, <2>2, <2>3, <3>1 DEF DriveFits, Places
  <2>4. CASE Goto("find")
      BY <1>6, <1>7, <2>1, <2>2, <2>4 DEF DriveFits, Places
  <2> QED
      BY <1>36, <2>3, <2>4 DEF LookForRestored
<1>37. CASE LegacyRollback
  <2>1. saga'.phase = "restored_ready" /\ run'.at = "phase"
      BY <1>4, <1>7, <1>37 DEF LegacyRollback, Write, Fields, Places
  <2>2. WhichOne'
      BY <2>1 DEF WhichOne, WhichFor, Phase, Undoable, Terminal
  <2> QED
      BY <2>1, <2>2, Elsewhere
<1>38. CASE LegacyIntact
  <2>1. Live # {} /\ run.op # "idle"
      BY <1>2, <1>38 DEF LegacyIntact, Matches, Driving
  <2>2. WhichFor("rolled_back", saga.repl.id)
      BY <2>1 DEF WhichFor, Undoable, Terminal
  <2>3. run' = Idle \/ (run'.at = "sync" /\ run'.op = run.op)
      BY <1>4, <1>38 DEF LegacyIntact, Passes
  <2> QED
      BY <1>8, <1>9, <1>38, <2>1, <2>2, <2>3, Elsewhere DEF LegacyIntact
<1>39. CASE OutcomeUnknown
    BY <1>14, <1>39 DEF OutcomeUnknown
<1>40. CASE Crash
    BY <1>6, <1>8, <1>40, Elsewhere DEF Crash
<1>41. CASE StartSync
  <2>1. run'.at \in {"phase", "sync"} /\ run'.op = "recover" /\ UNCHANGED saga
      BY <1>41 DEF StartSync, Only
  <2> QED
      BY <1>6, <2>1, Elsewhere
<1>42. ASSUME NEW split \in BOOLEAN, NEW retained \in BOOLEAN,
             Replace(split, retained)
      PROVE  GOAL
  <2>1. saga'.phase = "prepared" /\ run'.at = "phase"
      BY <1>42, FieldsOfASaga DEF Replace, Fields, Idle
  <2>2. Live \subseteq {O}
      BY <1>3, <1>42 DEF Replace, WhichOne, WhichFor
  <2>3. WhichOne'
      BY <1>2, <2>1, <2>2 DEF WhichOne, WhichFor, Phase, Undoable, Terminal
  <2> QED
      BY <2>1, <2>3, Elsewhere
<1>43. ASSUME NEW k \in Stores, NEW i \in Ids, AddReference(k, i)
      PROVE  GOAL
  <2>1. run.op = "idle" /\ UNCHANGED saga /\ run' = run
      BY <1>43 DEF AddReference, Only
  <2> QED
      BY <1>3, <1>6, <2>1, Elsewhere DEF DriveFits
<1> QED
    BY <1>15, <1>16, <1>17, <1>18, <1>19, <1>20, <1>21, <1>22, <1>23, <1>24, <1>25,
       <1>26, <1>27, <1>28, <1>29, <1>30, <1>31, <1>32, <1>33, <1>34, <1>35, <1>36,
       <1>37, <1>38, <1>39, <1>40, <1>41, <1>42, <1>43
    DEF Bookkeeping

----------------------------------------------------------------------------
(***************************************************************************)
(* The steps that touch the rows.                                          *)
(***************************************************************************)
LEMMA DeleteRowInOrder ==
    ASSUME Typed, InOrder, DeleteRow
    PROVE  InOrder'
<1>1. /\ run.at = "delete" /\ Doomed \in Live /\ run.op # "idle"
      /\ Phase \in {"delete_pending", "rollback_delete_pending"}
      /\ saga' = saga /\ run'.at = "verify" /\ run'.op = run.op
    BY GotoFacts DEF DeleteRow, At, InOrder, DriveFits, Only, Places
<1>2. /\ SyncChangesNothing' /\ FreshIsFree' /\ Live' = Live \ {Doomed}
      /\ \A j \in Live \ {Doomed} : local'[j] = local[j]
  <2>1. Gone \in Rows
      BY DEF Gone, Row, Rows, Identities
  <2>2. /\ local' = [local EXCEPT ![Doomed] = Gone] /\ server' = server
        /\ unsynced' = unsynced \cup {Doomed} /\ fresh' = fresh
      BY DEF DeleteRow, Only
  <2> QED
      BY <1>1, <2>1, <2>2, RowWritten DEF InOrder
<1>3. AtMostOne'
    BY <1>2 DEF InOrder, AtMostOne
<1>4. WhichOne'
    BY <1>1, <1>2 DEF InOrder, WhichOne, WhichFor, Phase, Terminal
<1>5. DriveFits'
    BY <1>1 DEF DriveFits, Phase
<1> QED
    BY <1>2, <1>3, <1>4, <1>5 DEF InOrder

LEMMA AddRowInOrder ==
    ASSUME ReplacementAssumption, Typed, InOrder, AddRow
    PROVE  InOrder'
<1>1. /\ run.at = "add" /\ Live = {} /\ run.op # "idle"
      /\ Phase \in {"replacement_add_pending", "restore_add_pending"}
      /\ saga' = saga /\ run'.at = "find" /\ run'.op = run.op
    BY GotoFacts DEF AddRow, At, InOrder, DriveFits, Only, Places
<1>2. PICK shape \in {"old", "new", "oldcat", "newcat"} :
          local' = [local EXCEPT ![fresh] =
                      Row(IF HasLeg THEN fresh + 1 ELSE NoId, Temporary, shape)]
    BY DEF AddRow, Wanted
<1>3. /\ fresh \in Ids /\ fresh \in Nat /\ fresh' \in Nat /\ fresh' > fresh
      /\ server' = server /\ unsynced' = unsynced \cup {fresh}
    BY DEF AddRow, Only, Ids, Typed, ReplacementAssumption
<1>4. /\ local'[fresh].imp = Temporary /\ local'[fresh] \notin {Gone, NoRow}
      /\ Plain(local'[fresh])
      /\ \A j \in Ids \ {fresh} : local'[j] = local[j]
    BY <1>2, <1>3 DEF Typed, Row, Gone, NoRow, Plain
<1>5. Live' = {fresh}
    BY <1>1, <1>3, <1>4 DEF Live, Exists
<1>6. SyncChangesNothing'
  <2>1. Plain(server[fresh]) /\ server[fresh] # Gone
      BY <1>3 DEF InOrder, FreshIsFree, Plain, NoRow, Gone, Row
  <2> QED
      BY <1>3, <1>4, <2>1 DEF InOrder, SyncChangesNothing, Plain
<1>7. FreshIsFree'
    BY <1>3, <1>4 DEF InOrder, FreshIsFree, Ids
<1>8. AtMostOne'
    BY <1>5 DEF AtMostOne
<1>9. WhichOne'
    BY <1>1, <1>4, <1>5
    DEF WhichOne, WhichFor, Phase, Terminal, Undoable, Temporary, Restoring, Rollback
<1>10. DriveFits'
    BY <1>1 DEF DriveFits, Phase
<1> QED
    BY <1>6, <1>7, <1>8, <1>9, <1>10 DEF InOrder

\* A row that is there is edited, and keeps its identity or the drive is
\* past looking for it.
LEMMA EditInOrder ==
    ASSUME Typed, InOrder, NEW i \in Live, NEW row \in Rows,
           Plain(row), row.shape \notin {"gone", "none"},
           \/ row.imp = local[i].imp
           \/ Phase \notin {"replacement_add_pending", "restore_add_pending"},
           local' = [local EXCEPT ![i] = row], server' = server,
           unsynced' = unsynced \cup {i}, fresh' = fresh,
           saga' = saga, Goto("converge"), run.op # "idle"
    PROVE  InOrder'
<1>1. row \notin {Gone, NoRow}
    BY DEF Gone, NoRow, Row
<1>2. /\ SyncChangesNothing' /\ FreshIsFree' /\ Live' = Live
      /\ local'[i] = row /\ \A j \in Live \ {i} : local'[j] = local[j]
    BY <1>1, RowWritten DEF InOrder
<1>3. AtMostOne'
    BY <1>2 DEF InOrder, AtMostOne
<1>4. WhichOne'
    BY <1>2 DEF InOrder, WhichOne, WhichFor, Phase
<1>5. DriveFits'
    BY GotoFacts, Elsewhere DEF Places
<1> QED
    BY <1>2, <1>3, <1>4, <1>5 DEF InOrder

LEMMA UpdateCategoryInOrder ==
    ASSUME Typed, InOrder, UpdateCategory
    PROVE  InOrder'
<1>1. PICK i \in Live : /\ local' = [local EXCEPT ![i].shape = Wanted]
                        /\ unsynced' = unsynced \cup {i}
    BY DEF UpdateCategory, ByIdentity, Here
<1> DEFINE row == [local[i] EXCEPT !.shape = Wanted]
<1>2. local[i] \in Rows /\ Plain(local[i])
    BY DEF Typed, InOrder, SyncChangesNothing, Live, Exists
<1>3. /\ row \in Rows /\ Plain(row) /\ row.shape \notin {"gone", "none"}
      /\ row.imp = local[i].imp
    BY <1>2 DEF Rows, Shapes, Wanted, Plain
<1>4. local' = [local EXCEPT ![i] = row]
    BY <1>1
<1>5. /\ saga' = saga /\ Goto("converge") /\ run.op # "idle"
      /\ server' = server /\ fresh' = fresh
    BY DEF UpdateCategory, At, InOrder, DriveFits, Only
<1> HIDE DEF row
<1> QED
    BY <1>1, <1>3, <1>4, <1>5, EditInOrder

LEMMA RestoreMetadataInOrder ==
    ASSUME Typed, InOrder, RestoreMetadata
    PROVE  InOrder'
<1> DEFINE i == Added.id
           row == [local[i] EXCEPT !.imp = saga.imp]
<1>1. /\ i \in Live /\ run.op # "idle"
      /\ Phase \in {"replacement_metadata_pending", "restore_metadata_pending"}
    BY DEF RestoreMetadata, At, InOrder, DriveFits
<1>2. local[i] \in Rows /\ Plain(local[i]) /\ local[i] \notin {Gone, NoRow}
    BY <1>1 DEF Typed, InOrder, SyncChangesNothing, Live, Exists
<1>3. row \in Rows /\ Plain(row) /\ row.shape \notin {"gone", "none"}
    BY <1>2 DEF Typed, Rows, Plain
<1>4. /\ local' = [local EXCEPT ![i] = row] /\ unsynced' = unsynced \cup {i}
      /\ saga' = saga /\ Goto("converge") /\ server' = server /\ fresh' = fresh
    BY DEF RestoreMetadata, Only
<1> HIDE DEF i, row
<1> QED
    BY <1>1, <1>3, <1>4, EditInOrder

\* What leaves the rows, the next id and the record alone, and goes where
\* nothing is needed of them.
LEMMA StillInOrder ==
    ASSUME InOrder, SyncChangesNothing', FreshIsFree', local' = local,
           saga' = saga, DriveFits'
    PROVE  InOrder'
  BY SameRows, SameRecord DEF InOrder, AtMostOne

LEMMA GiveUpFits ==
    ASSUME Typed, InOrder, GiveUp, run.op # "idle", local' = local
    PROVE  WhichOne' /\ DriveFits'
<1>1. DOMAIN saga = Fields /\ run \in Passes /\ Live' = Live
    BY FieldsOfASaga, SameRows DEF Typed
<1>2. CASE run.op = "replace" /\ Phase \in Undoable
  <2>1. /\ saga'.phase = "rollback_requested" /\ saga'.repl = saga.repl
        /\ run'.at = "phase"
      BY <1>1, <1>2 DEF GiveUp, Fields, Passes
  <2>2. WhichOne'
      BY <1>1, <1>2, <2>1 DEF InOrder, WhichOne, WhichFor, Phase, Undoable, Terminal
  <2> QED
      BY <2>1, <2>2, Elsewhere
<1>3. CASE ~(run.op = "replace" /\ Phase \in Undoable)
  <2>1. \/ run' = Idle
        \/ run'.at = "sync" /\ run'.op = run.op
      BY <1>1, <1>3 DEF GiveUp, Passes
  <2> QED
      BY <1>3, <2>1, Elsewhere, SameRecord DEF GiveUp, Idle, InOrder
<1> QED
    BY <1>2, <1>3

LEMMA NewLegInOrder ==
    ASSUME ReplacementAssumption, Typed, InOrder, ConvergeWithNewLeg
    PROVE  InOrder'
<1> DEFINE i == Added.id
<1>1. Merged = local
    BY MergeIsLocal DEF InOrder
<1>2. /\ i \in Live /\ local' = [local EXCEPT ![i].leg = fresh]
      /\ server' = local' /\ unsynced' = {} /\ fresh' = fresh + 1
      /\ saga' = saga /\ Goto("check") /\ run.op # "idle"
      /\ fresh \in Nat /\ fresh \in Ids /\ local[i].leg # NoId
    BY <1>1 DEF ConvergeWithNewLeg, Exists, Live, At, InOrder, DriveFits,
                Typed, Ids, ReplacementAssumption
<1>3. /\ local[i] \in Rows /\ Plain(local[i]) /\ local[i] \notin {Gone, NoRow}
      /\ i \in Ids
    BY <1>2 DEF Typed, InOrder, SyncChangesNothing, Live, Exists
<1>4. /\ Plain(local'[i]) /\ local'[i] \notin {Gone, NoRow}
      /\ local'[i].imp = local[i].imp
      /\ \A j \in Ids \ {i} : local'[j] = local[j]
    BY <1>2, <1>3 DEF Typed, Rows, Plain, Gone, NoRow, Row
<1> HIDE DEF i
<1>5. Live' = Live
    BY <1>2, <1>3, <1>4 DEF Live, Exists
<1>6. SyncChangesNothing'
    BY <1>2, <1>4 DEF InOrder, SyncChangesNothing, Plain
<1>7. FreshIsFree'
    BY <1>2, <1>3, <1>4 DEF InOrder, FreshIsFree, Ids
<1>8. AtMostOne' /\ WhichOne'
    BY <1>2, <1>4, <1>5 DEF InOrder, AtMostOne, WhichOne, WhichFor, Phase, Live
<1>9. DriveFits'
    BY <1>2, GotoFacts, Elsewhere DEF Places
<1> QED
    BY <1>6, <1>7, <1>8, <1>9 DEF InOrder

LEMMA LegacyForwardInOrder ==
    ASSUME Typed, InOrder, LegacyForward
    PROVE  InOrder'
<1>1. /\ Phase = "legacy_reconcile_forward" /\ run.at = "phase"
      /\ saga.repl.id \in Here /\ Here = Live
    BY HereIsLive DEF LegacyForward, Driving, Matches, InOrder
<1>2. CASE /\ O \in Here /\ local' = [local EXCEPT ![O] = Gone]
           /\ unsynced' = unsynced \cup {O} /\ UNCHANGED <<saga, run>>
  <2>1. Gone \in Rows
      BY DEF Gone, Row, Rows, Identities
  <2>2. server' = server /\ fresh' = fresh
      BY DEF LegacyForward, Only
  <2>3. SyncChangesNothing' /\ FreshIsFree' /\ Live' = Live \ {O}
      BY <1>1, <1>2, <2>1, <2>2, RowWritten DEF InOrder
  <2>4. AtMostOne' /\ WhichOne'
      BY <1>1, <1>2, <2>3
      DEF InOrder, AtMostOne, WhichOne, WhichFor, Phase, Undoable, Terminal
  <2>5. DriveFits'
      BY <1>1, <1>2, Elsewhere
  <2> QED
      BY <2>3, <2>4, <2>5 DEF InOrder
<1>3. CASE /\ UNCHANGED <<local, unsynced>>
           /\ Write([saga EXCEPT !.phase = "replacement_ready",
                                 !.repl = IdsOf(@.id),
                                 !.idMap = ReplacementMap(IdsOf(saga.repl.id))])
  <2>1. UNCHANGED ledger
      BY <1>3 DEF LegacyForward, Only, ledger
  <2>2. SyncChangesNothing' /\ FreshIsFree' /\ Live' = Live /\ AtMostOne'
      BY <2>1, SameLedger DEF InOrder, AtMostOne
  <2>3. DOMAIN saga = Fields
      BY FieldsOfASaga DEF Typed
  <2>4. /\ saga'.phase = "replacement_ready" /\ saga'.repl.id = saga.repl.id
        /\ run'.at = "phase"
      BY <1>3, <2>3, GotoFacts DEF Write, Fields, IdsOf, Places
  <2>5. WhichOne'
      BY <1>1, <2>2, <2>4 DEF WhichOne, WhichFor, Phase, Undoable, Terminal,
                              AtMostOne, InOrder
  <2>6. DriveFits'
      BY <2>4, Elsewhere
  <2> QED
      BY <2>2, <2>5, <2>6 DEF InOrder
<1> QED
    BY <1>2, <1>3 DEF LegacyForward

----------------------------------------------------------------------------
(***************************************************************************)
(* The invariant.                                                          *)
(***************************************************************************)
LEMMA CountInit ==
    ASSUME ReplacementAssumption, Init
    PROVE  CountInv
<1>1. /\ MaxId \in Nat /\ 1 \in Ids /\ 2 \in Ids /\ 3 \in Ids
      /\ server = local /\ unsynced = {} /\ run = Idle
    BY DEF Init, Ids, ReplacementAssumption
<1>2. Idle \in Passes /\ DriveFits
    BY <1>1 DEF Idle, Passes, DriveFits
<1>3. ASSUME NEW imp \in {"none", "bank"}, NEW leg \in {NoId, 2},
             local = [i \in Ids |-> IF i = O THEN Row(leg, imp, "old") ELSE NoRow],
             fresh = 3, saga = NoSaga, disturbed = FALSE
      PROVE  CountInv
  <2>1. Row(leg, imp, "old") \in Rows /\ NoRow \in Rows
      BY <1>1 DEF Row, NoRow, Rows, Identities, Shapes
  <2>2. Typed
      BY <1>1, <1>2, <1>3, <2>1, FieldsOfASaga DEF Typed, NoSaga, Identities
  <2>3. Live = {O}
      BY <1>1, <1>3 DEF Live, Exists, O, Row, Gone, NoRow
  <2>4. SyncChangesNothing /\ FreshIsFree
      BY <1>1, <1>3 DEF SyncChangesNothing, FreshIsFree, Plain, Row, NoRow, O, Ids
  <2>5. AtMostOne /\ WhichOne
      BY <1>3, <2>3
      DEF AtMostOne, WhichOne, WhichFor, Phase, NoSaga, Undoable, Terminal
  <2> QED
      BY <1>2, <2>2, <2>4, <2>5 DEF CountInv, InOrder
<1>4. ASSUME NEW imp \in {"none", "bank"}, NEW phase \in Legacy \ {"none"},
             LegacyInit(phase, imp)
      PROVE  CountInv
  <2> DEFINE shape == IF phase = "legacy_reconcile_forward" THEN "new" ELSE "old"
  <2>1. PICK S \in SUBSET {O, 3} :
            /\ local = [i \in Ids |->
                          IF i \notin S THEN NoRow
                          ELSE IF i = O THEN Row(NoId, imp, "old")
                               ELSE Row(NoId, imp, shape)]
            /\ disturbed = (Cardinality(S) # 1)
      BY <1>4 DEF LegacyInit
  <2>2. /\ Row(NoId, imp, "old") \in Rows /\ Row(NoId, imp, shape) \in Rows
        /\ NoRow \in Rows /\ shape \in {"new", "old"}
      BY DEF Row, NoRow, Rows, Identities, Shapes
  <2>3. /\ DOMAIN saga = DOMAIN NoSaga /\ saga.imp = imp /\ Phase = phase
        /\ fresh = 4
      BY <1>4, FieldsOfASaga DEF LegacyInit, Fields, Phase
  <2>4. Typed
      BY <1>1, <1>2, <2>1, <2>2, <2>3 DEF Typed, Identities
  <2>5. Live \subseteq S
      BY <1>1, <2>1 DEF Live, Exists
  <2>6. ASSUME ~disturbed PROVE  AtMostOne
    <3>1. Cardinality(S) = 1
        BY <2>1, <2>6
    <3>2. IsFiniteSet(S)
      <4>1. IsFiniteSet({O})
          BY FS_Singleton
      <4>2. IsFiniteSet({O} \cup {3})
          BY <4>1, FS_AddElement
      <4>3. S \in SUBSET ({O} \cup {3})
          OBVIOUS
      <4> QED
          BY <4>2, <4>3, FS_Subset
    <3>3. PICK x : S = {x}
        BY <3>1, <3>2, FS_Singleton
    <3> QED
        BY <2>5, <3>3 DEF AtMostOne
  <2>7. SyncChangesNothing /\ FreshIsFree
      BY <1>1, <2>1, <2>2, <2>3
      DEF SyncChangesNothing, FreshIsFree, Plain, Row, NoRow, O, Ids
  <2>8. WhichOne
      BY <2>3 DEF WhichOne, WhichFor, Undoable, Terminal, ReplacementAssumption
  <2> QED
      BY <1>2, <2>4, <2>6, <2>7, <2>8 DEF CountInv, InOrder
<1> QED
    BY <1>3, <1>4 DEF Init

LEMMA CountStep ==
    ASSUME ReplacementAssumption, CountInv, [Next]_vars
    PROVE  CountInv'
<1>1. Typed /\ Typed'
    BY TypedStep DEF CountInv
<1> SUFFICES ASSUME ~disturbed' PROVE  InOrder'
    BY <1>1 DEF CountInv
<1>2. CASE Bookkeeping
  <2>1. UNCHANGED ledger /\ disturbed' = disturbed
      BY <1>2, BookkeepingKeepsTheLedger
  <2>2. InOrder
      BY <2>1 DEF CountInv
  <2>3. SyncChangesNothing' /\ FreshIsFree' /\ AtMostOne'
      BY <2>1, <2>2, SameLedger DEF InOrder, AtMostOne
  <2>4. WhichOne' /\ DriveFits'
      BY <1>1, <1>2, <2>2, BookkeepingFits
  <2> QED
      BY <2>3, <2>4 DEF InOrder
<1>3. CASE DeleteRow
    BY <1>1, <1>3, DeleteRowInOrder DEF DeleteRow, Only, CountInv
<1>4. CASE AddRow
    BY <1>1, <1>4, AddRowInOrder DEF AddRow, Only, CountInv
<1>5. CASE UpdateCategory
    BY <1>1, <1>5, UpdateCategoryInOrder DEF UpdateCategory, Only, CountInv
<1>6. CASE RestoreMetadata
    BY <1>1, <1>6, RestoreMetadataInOrder DEF RestoreMetadata, Only, CountInv
<1>7. CASE ConvergeWithNewLeg
    BY <1>1, <1>7, NewLegInOrder DEF ConvergeWithNewLeg, CountInv
<1>8. CASE LegacyForward
    BY <1>1, <1>8, LegacyForwardInOrder DEF LegacyForward, Only, CountInv
<1>9. CASE Converge
  <2>1. /\ At("converge") /\ Synchronised /\ Goto("check")
        /\ fresh' = fresh /\ saga' = saga /\ disturbed' = disturbed
      BY <1>9 DEF Converge, Only
  <2>2. InOrder
      BY <2>1 DEF CountInv
  <2>3. DriveFits'
      BY <1>1, <2>1, <2>2, GotoFacts, Elsewhere DEF InOrder, DriveFits, At, Places
  <2> QED
      BY <1>1, <2>1, <2>2, <2>3, SyncKeepsRows, StillInOrder DEF InOrder
<1>10. CASE SyncSucceeds
  <2>1. /\ At("sync") /\ Synchronised
        /\ fresh' = fresh /\ saga' = saga /\ disturbed' = disturbed
        /\ run' = Idle \/ run' = [run EXCEPT !.at = "mark"]
      BY <1>10 DEF SyncSucceeds, Only
  <2>2. InOrder
      BY <2>1 DEF CountInv
  <2>3. DriveFits'
    <3>1. run \in Passes /\ run.op # "idle"
        BY <1>1, <2>1, <2>2 DEF Typed, InOrder, DriveFits, At
    <3> QED
        BY <2>1, <3>1, Elsewhere DEF Passes, Idle
  <2> QED
      BY <1>1, <2>1, <2>2, <2>3, SyncKeepsRows, StillInOrder DEF InOrder
<1>11. CASE CallFails
  <2>1. /\ GiveUp /\ run.op # "idle" /\ disturbed' = disturbed
        /\ UNCHANGED ledger \/ (Synchronised /\ fresh' = fresh)
      BY <1>11 DEF CallFails
  <2>2. InOrder
      BY <2>1 DEF CountInv
  <2>3. /\ SyncChangesNothing' /\ FreshIsFree'
        /\ local' = local /\ Live' = Live
      BY <1>1, <2>1, <2>2, SameLedger, SyncKeepsRows DEF InOrder
  <2>4. AtMostOne' /\ WhichOne' /\ DriveFits'
      BY <1>1, <2>1, <2>2, <2>3, GiveUpFits DEF InOrder, AtMostOne
  <2> QED
      BY <2>3, <2>4 DEF InOrder
<1>12. CASE CacheReset
  <2>1. /\ local' = server /\ unsynced' = {} /\ server' = server
        /\ fresh' = fresh /\ saga' = saga /\ run' = run
        /\ disturbed' = (disturbed \/ unsynced # {})
      BY <1>12 DEF CacheReset
  <2>2. ~disturbed /\ unsynced = {}
      BY <2>1
  <2>3. InOrder
      BY <2>2 DEF CountInv
  <2>4. local' = local
      BY <1>1, <2>1, <2>2, <2>3 DEF InOrder, SyncChangesNothing, Typed
  <2>5. SyncChangesNothing' /\ FreshIsFree'
      BY <2>1, <2>2, <2>3, <2>4 DEF InOrder, SyncChangesNothing, FreshIsFree
  <2>6. DriveFits'
      BY <2>1, <2>3, <2>4, SameRows
      DEF InOrder, DriveFits, Phase, Doomed, Added, Restoring
  <2> QED
      BY <2>1, <2>3, <2>4, <2>5, <2>6, StillInOrder
<1>13. CASE Restart
  <2>1. /\ saga' = saga /\ disturbed' = disturbed
        /\ UNCHANGED ledger \/ (Synchronised /\ fresh' = fresh)
        /\ run'.at = "phase"
      BY <1>13 DEF Restart, Idle
  <2>2. InOrder
      BY <2>1 DEF CountInv
  <2>3. SyncChangesNothing' /\ FreshIsFree' /\ local' = local
      BY <1>1, <2>1, <2>2, SameLedger, SyncKeepsRows DEF InOrder
  <2> QED
      BY <2>1, <2>2, <2>3, Elsewhere, StillInOrder
<1>14. CASE RemoteEdit
    BY <1>14 DEF RemoteEdit
<1>15. CASE UNCHANGED vars
  <2>1. /\ UNCHANGED ledger /\ saga' = saga /\ run' = run /\ disturbed' = disturbed
      BY <1>15 DEF vars
  <2>2. InOrder
      BY <2>1 DEF CountInv
  <2>3. SyncChangesNothing' /\ FreshIsFree' /\ local' = local
      BY <2>1, <2>2, SameLedger DEF InOrder
  <2>4. DriveFits'
      BY <2>1, <2>2, <2>3, SameRows
      DEF InOrder, DriveFits, Phase, Doomed, Added, Restoring
  <2> QED
      BY <2>1, <2>2, <2>3, <2>4, StillInOrder
<1> QED
    BY <1>2, <1>3, <1>4, <1>5, <1>6, <1>7, <1>8, <1>9, <1>10, <1>11,
       <1>12, <1>13, <1>14, <1>15
    DEF Next, PassStep, SagaStep, Environment, Requests, Bookkeeping

\* Every reachable state satisfies the invariant.
THEOREM ReplacementInvariant == Spec => []CountInv
<1>1. Init => CountInv
    BY CountInit, ReplacementAssumption
<1>2. CountInv /\ [Next]_vars => CountInv'
    BY CountStep, ReplacementAssumption
<1> QED
    BY <1>1, <1>2, PTL DEF Spec

LEMMA InvCounts ==
    ASSUME CountInv
    PROVE  CountedOnce
<1> SUFFICES ASSUME ~disturbed
             PROVE  /\ Cardinality(Live) <= 1
                    /\ Active \/ Cardinality(Live) = 1
    BY DEF CountedOnce
<1>1. AtMostOne /\ (~Active => Live # {})
    BY DEF CountInv, InOrder, WhichOne, WhichFor, Active
<1>2. CASE Live = {}
  <2>1. Cardinality(Live) = 0
      BY <1>2, FS_EmptySet
  <2> QED
      BY <1>1, <1>2, <2>1
<1>3. ASSUME NEW i \in Live PROVE  Cardinality(Live) = 1
  <2>1. Live = {i}
      BY <1>1 DEF AtMostOne
  <2> QED
      BY <2>1, FS_Singleton
<1> QED
    BY <1>2, <1>3

\* The money is counted once: in an account nobody else disturbs the
\* original, its replacement and the restored row are never two of them in
\* the ledger, whichever call fails and wherever the process is killed, and
\* one of them is there before the saga begins and once it is over.
THEOREM TheMoneyIsCountedOnce == Spec => []CountedOnce
<1>1. CountInv => CountedOnce
    BY InvCounts
<1> QED
    BY <1>1, ReplacementInvariant, PTL

----------------------------------------------------------------------------
(***************************************************************************)
(* The order of the migration.  What the drive has checked still holds     *)
(* when it acts on it, whoever disturbs the account.                       *)
(***************************************************************************)
ImpFits == /\ saga.imp \in {"none", "bank"}
           /\ Phase = "none" => \A i \in Live : local[i].imp \in {"none", "bank"}
PassFits == /\ run.op = "idle" => run.at = "phase"
            /\ At("restore") => ~Conflict(saga.imp, Added.id)
            /\ At("mark") => unsynced = {}
            /\ Phase = "legacy_unresolved" => Phase \in Legacy
OrderInv == CountInv /\ PassFits /\ (~disturbed => ImpFits)

\* Steps that neither begin nor end a saga, and where the others go.
Steady ==
    /\ DOMAIN saga' = DOMAIN NoSaga /\ saga'.imp = saga.imp
    /\ saga'.phase \in {"none", "legacy_unresolved"} \cup Terminal =>
          saga'.phase = saga.phase
Unattended == /\ run'.at \notin {"restore", "mark"}
              /\ run'.op = "idle" => run'.at = "phase"

LEMMA GiveUpLeaves ==
    ASSUME Typed, GiveUp, run.op # "idle"
    PROVE  Steady /\ Unattended
<1>1. DOMAIN saga = Fields /\ run \in Passes
    BY FieldsOfASaga DEF Typed
<1>2. CASE run.op = "replace" /\ Phase \in Undoable
    BY <1>1, <1>2, FieldsOfASaga
    DEF GiveUp, Steady, Unattended, Fields, Passes, Terminal
<1>3. CASE ~(run.op = "replace" /\ Phase \in Undoable)
  <2>1. saga' = saga /\ (run' = Idle \/ run' = [run EXCEPT !.at = "sync"])
      BY <1>3 DEF GiveUp
  <2> QED
      BY <1>1, <2>1 DEF Typed, Steady, Unattended, Passes, Idle
<1> QED
    BY <1>2, <1>3

LEMMA SteadySteps ==
    ASSUME Typed, Bookkeeping, ~ (Terminalize \/ LegacyIntact),
           ~ \E split, retained \in BOOLEAN : Replace(split, retained)
    PROVE  Steady
<1>1. DOMAIN saga = Fields
    BY FieldsOfASaga DEF Typed
<1>2. saga' = saga => Steady
    BY DEF Steady, Typed
<1>3. ASSUME NEW phase, phase \notin {"none", "legacy_unresolved"} \cup Terminal,
             saga' = [saga EXCEPT !.phase = phase]
      PROVE  Steady
    BY <1>1, <1>3, FieldsOfASaga DEF Steady, Fields
<1>4. ASSUME NEW phase, phase \notin {"none", "legacy_unresolved"} \cup Terminal,
             Checkpoint(phase)
      PROVE  Steady
    BY <1>3, <1>4 DEF Checkpoint, Write
<1>5. ASSUME NEW i, Write(Identified(i)) PROVE  Steady
    BY <1>5, IdentifiedFacts DEF Recorded, Steady, Terminal
<1>6. ASSUME NEW phase,
             \/ phase = Phase
             \/ phase \notin {"none", "legacy_unresolved"} \cup Terminal,
             Write(Refreshed(phase))
      PROVE  Steady
    BY <1>6, RefreshedFacts DEF Recorded, Steady, Phase
<1>7. CASE Intent
    BY <1>4, <1>7 DEF Intent, Terminal
<1>8. CASE DeleteOriginal
    BY <1>2, <1>4, <1>8 DEF DeleteOriginal, Only, Terminal
<1>9. CASE VerifyDeleted
    BY <1>4, <1>9 DEF VerifyDeleted, Terminal
<1>10. CASE IntendAdd
    BY <1>4, <1>10 DEF IntendAdd, Terminal
<1>11. CASE LookForReplacement
    BY <1>2, <1>4, <1>11 DEF LookForReplacement, Only, Terminal
<1>12. CASE FindAdded
    BY <1>4, <1>5, <1>12 DEF FindAdded, Terminal
<1>13. CASE RepairCategory
    BY <1>2, <1>5, <1>13 DEF RepairCategory
<1>14. CASE IntendMetadata
    BY <1>4, <1>14 DEF IntendMetadata, Terminal
<1>15. CASE Metadata
    BY <1>2, <1>4, <1>15 DEF Metadata, Only, Terminal
<1>16. CASE Check
    BY <1>5, <1>6, <1>16 DEF Check, Terminal
<1>17. CASE RefreshIds
    BY <1>6, <1>17 DEF RefreshIds
<1>18. CASE PlanReferences
    BY <1>1, <1>18, FieldsOfASaga DEF PlanReferences, Write, Steady, Fields, Terminal
<1>19. CASE WriteReferences
    BY <1>2, <1>4, <1>19 DEF WriteReferences, Only, Terminal
<1>20. CASE StepDone
    BY <1>1, <1>20, FieldsOfASaga DEF StepDone, Write, Steady, Fields, Terminal
<1>21. CASE ReferencesMigrated
    BY <1>4, <1>21 DEF ReferencesMigrated, Terminal
<1>22. CASE SyncPending
    BY <1>3, <1>22 DEF SyncPending, Terminal
<1>23. CASE NeedsSync
    BY <1>2, <1>23 DEF NeedsSync, Only
<1>24. CASE IntendRollback
    BY <1>4, <1>24 DEF IntendRollback, Terminal
<1>25. CASE DeleteReplacement
    BY <1>2, <1>4, <1>25 DEF DeleteReplacement, Only, Terminal
<1>26. CASE IntendRestore
    BY <1>4, <1>5, <1>26 DEF IntendRestore, Terminal
<1>27. CASE LookForRestored
    BY <1>2, <1>4, <1>27 DEF LookForRestored, Only, Terminal
<1>28. CASE LegacyRollback
    BY <1>1, <1>28, FieldsOfASaga DEF LegacyRollback, Write, Steady, Fields, Terminal
<1>29. CASE OutcomeUnknown
    BY <1>29, GiveUpLeaves DEF OutcomeUnknown
<1>30. CASE Crash
    BY <1>2, <1>30 DEF Crash, Only
<1>31. CASE StartSync
    BY <1>2, <1>31 DEF StartSync, Only
<1>32. ASSUME NEW k \in Stores, NEW i \in Ids, AddReference(k, i)
      PROVE  Steady
    BY <1>2, <1>32 DEF AddReference, Only
<1> QED
    BY <1>7, <1>8, <1>9, <1>10, <1>11, <1>12, <1>13, <1>14, <1>15, <1>16, <1>17,
       <1>18, <1>19, <1>20, <1>21, <1>22, <1>23, <1>24, <1>25, <1>26, <1>27, <1>28,
       <1>29, <1>30, <1>31, <1>32
    DEF Bookkeeping

LEMMA UnattendedSteps ==
    ASSUME Typed, Bookkeeping, ~Metadata, run.op = "idle" => run.at = "phase"
    PROVE  Unattended
<1>1. run \in Passes
    BY DEF Typed
<1>2. ASSUME NEW at \in Places \ {"restore", "mark"}, Goto(at), run.op # "idle"
      PROVE  Unattended
    BY <1>2, GotoFacts DEF Unattended
<1>3. Goto("phase") => Unattended
    BY GotoFacts DEF Unattended, Places
<1>4. ASSUME NEW phase, Checkpoint(phase) PROVE  Unattended
    BY <1>3, <1>4 DEF Checkpoint, Write
<1>5. ASSUME NEW record, Write(record) PROVE  Unattended
    BY <1>3, <1>5 DEF Write
<1>6. run' = Idle => Unattended
    BY DEF Unattended, Idle
<1>7. ASSUME run.op # "idle", run' = [run EXCEPT !.at = "sync"] PROVE  Unattended
    BY <1>1, <1>7 DEF Unattended, Passes
<1>8. Leave /\ run.op # "idle" => Unattended
    BY <1>6, <1>7 DEF Leave
<1>9. CASE Intent
    BY <1>4, <1>9 DEF Intent
<1>10. CASE DeleteOriginal
    BY <1>2, <1>4, <1>10 DEF DeleteOriginal, Driving, Places
<1>11. CASE VerifyDeleted
    BY <1>4, <1>11 DEF VerifyDeleted
<1>12. CASE IntendAdd
    BY <1>4, <1>12 DEF IntendAdd
<1>13. CASE LookForReplacement
    BY <1>2, <1>4, <1>13 DEF LookForReplacement, Driving, Places
<1>14. CASE FindAdded
    BY <1>4, <1>5, <1>14 DEF FindAdded
<1>15. CASE RepairCategory
    BY <1>2, <1>5, <1>15 DEF RepairCategory, Repairing, Places
<1>16. CASE IntendMetadata
    BY <1>4, <1>16 DEF IntendMetadata
<1>17. CASE Check
    BY <1>5, <1>17 DEF Check
<1>18. CASE RefreshIds
    BY <1>5, <1>18 DEF RefreshIds
<1>19. CASE PlanReferences
    BY <1>5, <1>19 DEF PlanReferences
<1>20. CASE WriteReferences
    BY <1>2, <1>20 DEF WriteReferences, Migrating, Driving, Places
<1>21. CASE StepDone
    BY <1>5, <1>21 DEF StepDone
<1>22. CASE ReferencesMigrated
    BY <1>4, <1>22 DEF ReferencesMigrated
<1>23. CASE SyncPending
    BY <1>8, <1>23 DEF SyncPending, Driving
<1>24. CASE NeedsSync
    BY <1>8, <1>24 DEF NeedsSync, Driving
<1>25. CASE Terminalize
    BY <1>6, <1>25 DEF Terminalize
<1>26. CASE IntendRollback
    BY <1>4, <1>26 DEF IntendRollback
<1>27. CASE DeleteReplacement
    BY <1>2, <1>4, <1>27 DEF DeleteReplacement, Driving, Places
<1>28. CASE IntendRestore
    BY <1>4, <1>5, <1>28 DEF IntendRestore
<1>29. CASE LookForRestored
    BY <1>2, <1>4, <1>29 DEF LookForRestored, Driving, Places
<1>30. CASE LegacyRollback
    BY <1>5, <1>30 DEF LegacyRollback
<1>31. CASE LegacyIntact
    BY <1>6, <1>7, <1>31 DEF LegacyIntact, Driving
<1>32. CASE OutcomeUnknown
    BY <1>32, GiveUpLeaves DEF OutcomeUnknown
<1>33. CASE Crash
    BY <1>6, <1>33 DEF Crash
<1>34. CASE StartSync
    BY <1>34 DEF StartSync, Unattended
<1>35. ASSUME NEW split \in BOOLEAN, NEW retained \in BOOLEAN,
             Replace(split, retained)
      PROVE  Unattended
    BY <1>35 DEF Replace, Unattended, Idle
<1>36. ASSUME NEW k \in Stores, NEW i \in Ids, AddReference(k, i)
      PROVE  Unattended
    BY <1>36 DEF AddReference, Only, Unattended
<1> QED
    BY <1>9, <1>10, <1>11, <1>12, <1>13, <1>14, <1>15, <1>16, <1>17, <1>18, <1>19,
       <1>20, <1>21, <1>22, <1>23, <1>24, <1>25, <1>26, <1>27, <1>28, <1>29, <1>30,
       <1>31, <1>32, <1>33, <1>34, <1>35, <1>36
    DEF Bookkeeping

LEMMA PassStep1 ==
    ASSUME Typed, PassFits, Bookkeeping
    PROVE  PassFits'
<1>1. local' = local /\ unsynced' = unsynced
    BY BookkeepingKeepsTheLedger DEF ledger
<1>2. DOMAIN saga = Fields
    BY FieldsOfASaga DEF Typed
<1>3. Phase' = "legacy_unresolved" => Phase' \in Legacy
  <2>1. CASE Terminalize \/ LegacyIntact
    <3>1. Phase' \in Terminal
        BY <1>2, <2>1 DEF Terminalize, LegacyIntact, Fields, Phase, Terminal
    <3> QED
        BY <3>1 DEF Terminal
  <2>2. CASE \E split, retained \in BOOLEAN : Replace(split, retained)
      BY <2>2, FieldsOfASaga DEF Replace, Fields, Phase
  <2>3. CASE Steady
      BY <2>3 DEF Steady, Phase, PassFits
  <2> QED
      BY <2>1, <2>2, <2>3, SteadySteps
<1>4. CASE Metadata
  <2>1. /\ saga' = saga /\ run.op # "idle" /\ up' = up
        /\ ~Conflict(saga.imp, Added.id)
        /\ Goto("restore") \/ Goto("converge")
      BY <1>4 DEF Metadata, InMetadata, Driving, Only
  <2>2. run'.op # "idle" /\ run'.at # "mark"
      BY <2>1, GotoFacts DEF Places
  <2>3. ~Conflict(saga.imp, Added.id)'
      BY <1>1, <2>1, SameRows DEF Conflict, ByIdentity, Added, Restoring, Phase
  <2> QED
      BY <1>3, <2>2, <2>3 DEF PassFits, At
<1>5. CASE Unattended
    BY <1>3, <1>5 DEF PassFits, Unattended, At
<1> QED
    BY <1>4, <1>5, UnattendedSteps DEF PassFits

LEMMA PassFitsStep ==
    ASSUME Typed, PassFits, [Next]_vars
    PROVE  PassFits'
<1>1. run \in Passes /\ DOMAIN saga = Fields
    BY FieldsOfASaga DEF Typed
<1>2. ASSUME Unattended, saga' = saga PROVE  PassFits'
    BY <1>2 DEF PassFits, Unattended, At, Phase
<1>3. ASSUME NEW at \in Places \ {"phase", "restore", "mark"}, At(at),
             NEW to \in Places \ {"restore", "mark"}, Goto(to)
      PROVE  Unattended
    BY <1>3, GotoFacts DEF Unattended, PassFits, At
<1>4. CASE Bookkeeping
    BY <1>4, PassStep1
<1>5. CASE DeleteRow
    BY <1>2, <1>3, <1>5 DEF DeleteRow, Only, Places
<1>6. CASE AddRow
    BY <1>2, <1>3, <1>6 DEF AddRow, Only, Places
<1>7. CASE UpdateCategory
    BY <1>2, <1>3, <1>7 DEF UpdateCategory, Only, Places
<1>8. CASE RestoreMetadata
  <2>1. run.op # "idle" /\ Goto("converge") /\ saga' = saga
      BY <1>8 DEF RestoreMetadata, At, PassFits, Only
  <2>2. Unattended
      BY <2>1, GotoFacts DEF Unattended, Places
  <2> QED
      BY <1>2, <2>1, <2>2
<1>9. CASE Converge
    BY <1>2, <1>3, <1>9 DEF Converge, Only, Places
<1>10. CASE ConvergeWithNewLeg
    BY <1>2, <1>3, <1>10 DEF ConvergeWithNewLeg, Places
<1>11. CASE SyncSucceeds
  <2>1. /\ unsynced' = {} /\ saga' = saga /\ run.op # "idle"
        /\ run' = Idle \/ run' = [run EXCEPT !.at = "mark"]
      BY <1>11 DEF SyncSucceeds, Synchronised, Only, At, PassFits
  <2>2. run'.at # "restore" /\ (run'.op = "idle" => run'.at = "phase")
      BY <1>1, <2>1 DEF Passes, Idle
  <2> QED
      BY <2>1, <2>2 DEF PassFits, At, Phase
<1>12. CASE LegacyForward
  <2>1. CASE UNCHANGED <<saga, run>>
    <3>1. Unattended
        BY <1>12, <2>1 DEF LegacyForward, Driving, Unattended
    <3> QED
        BY <1>2, <2>1, <3>1
  <2>2. CASE Write([saga EXCEPT !.phase = "replacement_ready",
                                !.repl = IdsOf(@.id),
                                !.idMap = ReplacementMap(IdsOf(saga.repl.id))])
    <3>1. Phase' = "replacement_ready" /\ run'.at = "phase"
        BY <1>1, <2>2, GotoFacts DEF Write, Fields, Phase, Places
    <3> QED
        BY <3>1 DEF PassFits, At
  <2> QED
      BY <1>12, <2>1, <2>2 DEF LegacyForward
<1>13. CASE CallFails
  <2>1. Steady /\ Unattended
      BY <1>13, GiveUpLeaves DEF CallFails
  <2> QED
      BY <2>1 DEF PassFits, Steady, Unattended, At, Phase
<1>14. CASE CacheReset
    BY <1>14 DEF CacheReset, PassFits, At, Phase
<1>15. CASE Restart
  <2>1. run'.at = "phase" /\ saga' = saga
      BY <1>15 DEF Restart, Idle
  <2> QED
      BY <1>2, <2>1 DEF Unattended
<1>16. CASE UNCHANGED <<local, unsynced, saga, run, up>>
  <2>1. ~Conflict(saga.imp, Added.id) => ~Conflict(saga.imp, Added.id)'
      BY <1>16, SameRows DEF Conflict, ByIdentity, Added, Restoring, Phase
  <2> QED
      BY <1>16, <2>1 DEF PassFits, At, Phase
<1>17. CASE RemoteEdit
    BY <1>16, <1>17 DEF RemoteEdit
<1>18. CASE UNCHANGED vars
    BY <1>16, <1>18 DEF vars, ledger
<1> QED
    BY <1>4, <1>5, <1>6, <1>7, <1>8, <1>9, <1>10, <1>11, <1>12, <1>13,
       <1>14, <1>15, <1>17, <1>18
    DEF Next, PassStep, SagaStep, Environment, Requests, Bookkeeping

LEMMA ImpFitsStep ==
    ASSUME Typed, InOrder, ImpFits, [Next]_vars, ~disturbed'
    PROVE  ImpFits'
<1>1. local \in [Ids -> Rows] /\ DOMAIN saga = Fields
    BY FieldsOfASaga DEF Typed
<1>2. ASSUME saga'.imp = saga.imp, Phase' = "none" => Phase = "none",
             Phase = "none" => \A i \in Live' : i \in Live /\ local'[i].imp = local[i].imp
      PROVE  ImpFits'
    BY <1>2 DEF ImpFits
<1>3. ASSUME saga' = saga, Phase # "none" PROVE  ImpFits'
    BY <1>2, <1>3 DEF Phase
<1>4. ASSUME saga' = saga, local' = local PROVE  ImpFits'
    BY <1>2, <1>4, SameRows DEF Phase
<1>5. CASE Bookkeeping
  <2>1. local' = local /\ Live' = Live
      BY <1>5, BookkeepingKeepsTheLedger, SameRows DEF ledger
  <2>2. CASE Terminalize \/ LegacyIntact
    <3>1. saga'.imp = saga.imp /\ Phase' \in Terminal
        BY <1>1, <2>2 DEF Terminalize, LegacyIntact, Fields, Phase, Terminal
    <3> QED
        BY <3>1 DEF ImpFits, Terminal
  <2>3. ASSUME NEW split \in BOOLEAN, NEW retained \in BOOLEAN,
               Replace(split, retained)
        PROVE  ImpFits'
    <3>1. Phase = "none" /\ O \in Live /\ saga'.imp = local[O].imp
        BY <2>3, FieldsOfASaga DEF Replace, Fields, Here
    <3>2. Phase' = "prepared"
        BY <2>3, FieldsOfASaga DEF Replace, Fields, Phase
    <3> QED
        BY <3>1, <3>2 DEF ImpFits
  <2>4. CASE Steady
      BY <1>2, <2>1, <2>4 DEF Steady, Phase
  <2> QED
      BY <1>5, <2>2, <2>3, <2>4, SteadySteps
<1>6. CASE DeleteRow
    BY <1>3, <1>6 DEF DeleteRow, Only, InOrder, DriveFits, At
<1>7. CASE AddRow
    BY <1>3, <1>7 DEF AddRow, Only, InOrder, DriveFits, At
<1>8. CASE RestoreMetadata
    BY <1>3, <1>8 DEF RestoreMetadata, Only, InOrder, DriveFits, At
<1>9. CASE UpdateCategory
  <2>1. PICK i \in Live : local' = [local EXCEPT ![i].shape = Wanted]
      BY <1>9 DEF UpdateCategory, ByIdentity, Here
  <2>2. \A j \in Live' : j \in Live /\ local'[j].imp = local[j].imp
      BY <1>1, <2>1 DEF Live, Exists, Rows
  <2> QED
      BY <1>2, <1>9, <2>2 DEF UpdateCategory, Only, Phase
<1>10. CASE Converge
    BY <1>4, <1>10, SyncFacts DEF Converge, Only, InOrder
<1>11. CASE SyncSucceeds
    BY <1>4, <1>11, SyncFacts DEF SyncSucceeds, Only, InOrder
<1>12. CASE ConvergeWithNewLeg
  <2> DEFINE i == Added.id
  <2>1. /\ i \in Live /\ local' = [local EXCEPT ![i].leg = fresh]
        /\ saga' = saga
      BY <1>12, MergeIsLocal DEF ConvergeWithNewLeg, InOrder, Live, Exists
  <2> HIDE DEF i
  <2>2. \A j \in Live' : j \in Live /\ local'[j].imp = local[j].imp
      BY <1>1, <2>1 DEF Live, Exists, Rows
  <2> QED
      BY <1>2, <2>1, <2>2 DEF Phase
<1>13. CASE LegacyForward
  <2>1. Phase = "legacy_reconcile_forward" /\ saga'.imp = saga.imp
      BY <1>1, <1>13 DEF LegacyForward, Driving, Write, Fields
  <2>2. Phase' # "none"
      BY <1>1, <1>13, <2>1 DEF LegacyForward, Write, Fields, Phase
  <2> QED
      BY <2>1, <2>2 DEF ImpFits
<1>14. CASE CallFails
  <2>1. Steady
      BY <1>14, GiveUpLeaves DEF CallFails
  <2>2. local' = local
      BY <1>14, SyncFacts DEF CallFails, ledger, InOrder
  <2> QED
      BY <1>2, <2>1, <2>2, SameRows DEF Steady, Phase
<1>15. CASE CacheReset
  <2>1. unsynced = {} /\ local' = server /\ saga' = saga
      BY <1>15 DEF CacheReset
  <2>2. local' = local
      BY <2>1 DEF InOrder, SyncChangesNothing, Typed
  <2> QED
      BY <1>4, <2>1, <2>2
<1>16. CASE Restart
    BY <1>4, <1>16, SyncFacts DEF Restart, ledger, InOrder
<1>17. CASE RemoteEdit
    BY <1>17 DEF RemoteEdit
<1>18. CASE UNCHANGED vars
    BY <1>4, <1>18 DEF vars, ledger
<1> QED
    BY <1>5, <1>6, <1>7, <1>8, <1>9, <1>10, <1>11, <1>12, <1>13, <1>14,
       <1>15, <1>16, <1>17, <1>18
    DEF Next, PassStep, SagaStep, Environment, Requests, Bookkeeping

\* Nobody undoes what somebody else has done.
LEMMA DisturbedStays ==
    ASSUME [Next]_vars, ~disturbed'
    PROVE  ~disturbed
<1>1. CASE Bookkeeping
    BY <1>1, BookkeepingKeepsTheLedger
<1>2. CASE \/ DeleteRow \/ AddRow \/ UpdateCategory \/ RestoreMetadata \/ Converge
           \/ SyncSucceeds \/ LegacyForward
    BY <1>2 DEF DeleteRow, AddRow, UpdateCategory, RestoreMetadata, Converge,
                SyncSucceeds, LegacyForward, Only
<1>3. CASE ConvergeWithNewLeg \/ CallFails \/ CacheReset \/ Restart \/ RemoteEdit
    BY <1>3 DEF ConvergeWithNewLeg, CallFails, CacheReset, Restart, RemoteEdit
<1>4. CASE UNCHANGED vars
    BY <1>4 DEF vars
<1> QED
    BY <1>1, <1>2, <1>3, <1>4
    DEF Next, PassStep, SagaStep, Environment, Requests, Bookkeeping

LEMMA OrderInit ==
    ASSUME ReplacementAssumption, Init
    PROVE  OrderInv
<1>1. CountInv /\ run = Idle /\ unsynced = {}
    BY CountInit DEF Init
<1>2. run.op = "idle" /\ run.at = "phase"
    BY <1>1 DEF Idle
<1>3. ImpFits /\ (Phase = "legacy_unresolved" => Phase \in Legacy)
  <2>1. ASSUME NEW imp \in {"none", "bank"}, NEW leg \in {NoId, 2},
               local = [i \in Ids |-> IF i = O THEN Row(leg, imp, "old") ELSE NoRow],
               saga = NoSaga
        PROVE  ImpFits /\ Phase = "none"
    <3>1. Live \subseteq {O} /\ \A i \in Live : local[i].imp = imp
        BY <2>1 DEF Live, Exists, Row
    <3> QED
        BY <2>1, <3>1 DEF ImpFits, Phase, NoSaga
  <2>2. ASSUME NEW imp \in {"none", "bank"}, NEW phase \in Legacy \ {"none"},
               LegacyInit(phase, imp)
        PROVE  ImpFits /\ Phase \in Legacy
      BY <2>2, FieldsOfASaga DEF LegacyInit, Fields, ImpFits, Phase
  <2> QED
      BY <2>1, <2>2 DEF Init
<1> QED
    BY <1>1, <1>2, <1>3 DEF OrderInv, PassFits, At

THEOREM OrderInvariant == Spec => []OrderInv
<1>1. Init => OrderInv
    BY OrderInit, ReplacementAssumption
<1>2. OrderInv /\ [Next]_vars => OrderInv'
  <2> SUFFICES ASSUME OrderInv, [Next]_vars PROVE  OrderInv'
      OBVIOUS
  <2>1. CountInv'
      BY CountStep, ReplacementAssumption DEF OrderInv
  <2>2. PassFits'
      BY PassFitsStep DEF OrderInv, CountInv
  <2>3. ASSUME ~disturbed' PROVE  ImpFits'
    <3>1. ~disturbed
        BY <2>3, DisturbedStays
    <3> QED
        BY <2>3, <3>1, ImpFitsStep DEF OrderInv, CountInv
  <2> QED
      BY <2>1, <2>2, <2>3 DEF OrderInv
<1> QED
    BY <1>1, <1>2, PTL DEF Spec

----------------------------------------------------------------------------
(***************************************************************************)
(* What a step may do.                                                     *)
(***************************************************************************)
\* Only the rewriting of a store takes a mention away.
LEMMA WhoRewrites ==
    ASSUME [Next]_vars, NEW k \in Stores, ~ refs[k] \subseteq refs'[k]
    PROVE  WriteReferences
<1>1. ASSUME refs' = refs PROVE  FALSE
    BY <1>1
<1>2. ASSUME NEW l \in Stores, NEW i \in Ids, AddReference(l, i) PROVE  FALSE
    BY <1>2 DEF AddReference
<1>3. ASSUME \/ Intent \/ DeleteOriginal \/ DeleteRow \/ VerifyDeleted
                \/ IntendAdd \/ LookForReplacement \/ AddRow \/ FindAdded
                \/ RepairCategory \/ UpdateCategory \/ IntendMetadata \/ Metadata
                \/ RestoreMetadata \/ Converge \/ Check
      PROVE  FALSE
    BY <1>1, <1>3 DEF Intent, DeleteOriginal, DeleteRow, VerifyDeleted,
                      IntendAdd, LookForReplacement, AddRow, FindAdded,
                      RepairCategory, UpdateCategory, IntendMetadata, Metadata,
                      RestoreMetadata, Converge, Check, Only
<1>4. ASSUME \/ RefreshIds \/ PlanReferences \/ StepDone \/ ReferencesMigrated
                \/ SyncPending \/ NeedsSync \/ SyncSucceeds \/ Terminalize
                \/ IntendRollback \/ DeleteReplacement \/ IntendRestore \/ LookForRestored
                \/ LegacyForward \/ LegacyRollback \/ LegacyIntact
      PROVE  FALSE
    BY <1>1, <1>4 DEF RefreshIds, PlanReferences, StepDone, ReferencesMigrated,
                      SyncPending, NeedsSync, SyncSucceeds, Terminalize,
                      IntendRollback, DeleteReplacement, IntendRestore, LookForRestored,
                      LegacyForward, LegacyRollback, LegacyIntact, Only
<1>5. ASSUME \/ StartSync \/ Restart \/ OutcomeUnknown \/ CallFails
                \/ Crash \/ CacheReset \/ RemoteEdit \/ ConvergeWithNewLeg
      PROVE  FALSE
    BY <1>1, <1>5 DEF StartSync, Restart, OutcomeUnknown, CallFails,
                      Crash, CacheReset, RemoteEdit, ConvergeWithNewLeg, Only
<1>6. ASSUME NEW split \in BOOLEAN, NEW retained \in BOOLEAN, Replace(split, retained)
      PROVE  FALSE
    BY <1>1, <1>6 DEF Replace, Only
<1>7. ASSUME UNCHANGED vars PROVE  FALSE
    BY <1>1, <1>7 DEF vars
<1> QED
    BY <1>2, <1>3, <1>4, <1>5, <1>6, <1>7
    DEF Next, PassStep, SagaStep, Environment, Requests

\* In an account nobody disturbs no row has a temporary identity when the
\* references of a store move.
THEOREM TheIdentityMovesFirst == Spec => IdentityBeforeReferences
<1> DEFINE Moved == \E k \in Stores : ~ refs[k] \subseteq refs'[k]
           Clean == ByIdentity("replace") \cup ByIdentity("restore") = {}
<1>1. OrderInv /\ [Next]_vars => (~disturbed /\ Moved => Clean)
  <2> SUFFICES ASSUME OrderInv, [Next]_vars, ~disturbed, Moved
               PROVE  Clean
      OBVIOUS
  <2>1. WriteReferences
      BY WhoRewrites
  <2>2. Added.id \in Here /\ local[Added.id].imp = saga.imp
      BY <2>1 DEF WriteReferences, Verified, Matches
  <2>3. Here = Live /\ AtMostOne /\ saga.imp \in {"none", "bank"}
      BY HereIsLive DEF OrderInv, CountInv, InOrder, ImpFits
  <2> QED
      BY <2>2, <2>3 DEF ByIdentity, AtMostOne
<1>2. OrderInv /\ [Next]_vars => [~disturbed /\ Moved => Clean]_vars
    BY <1>1
<1> QED
    BY <1>2, OrderInvariant, PTL DEF Spec, IdentityBeforeReferences

\* Only the call that restores the imported identity writes while the drive
\* is there, and only to the row it has checked.
THEOREM TheIdentityHasOneOwner == Spec => OneOwnerOfTheIdentity
<1> DEFINE OneOwner == \A i \in Ids : (At("restore") /\ local'[i] # local[i]) =>
                          ~Conflict(saga.imp, i)
<1>1. OrderInv /\ [Next]_vars => OneOwner
  <2> SUFFICES ASSUME OrderInv, [Next]_vars,
                      NEW i \in Ids, At("restore"), local'[i] # local[i]
               PROVE  ~Conflict(saga.imp, i)
      OBVIOUS
  <2>1. ~Conflict(saga.imp, Added.id) /\ local \in [Ids -> Rows]
      BY DEF OrderInv, PassFits, CountInv, Typed
  <2>2. CASE RestoreMetadata
      BY <2>1, <2>2 DEF RestoreMetadata
  <2>3. ASSUME Bookkeeping PROVE  FALSE
      BY <2>3, BookkeepingKeepsTheLedger DEF ledger
  <2>4. ASSUME \/ DeleteRow \/ AddRow \/ UpdateCategory \/ Converge \/ SyncSucceeds
               \/ LegacyForward \/ ConvergeWithNewLeg
        PROVE  FALSE
      BY <2>4 DEF DeleteRow, AddRow, UpdateCategory, Converge, SyncSucceeds,
                  LegacyForward, ConvergeWithNewLeg, At, Driving
  <2>5. ASSUME CallFails \/ CacheReset \/ Restart \/ RemoteEdit PROVE  FALSE
      BY <2>5 DEF CallFails, CacheReset, Restart, RemoteEdit, At, ledger
  <2>6. ASSUME UNCHANGED vars PROVE  FALSE
      BY <2>6 DEF vars, ledger
  <2> QED
      BY <2>2, <2>3, <2>4, <2>5, <2>6
      DEF Next, PassStep, SagaStep, Environment, Requests, Bookkeeping
<1>2. OrderInv /\ [Next]_vars => [OneOwner]_vars
    BY <1>1
<1> QED
    BY <1>2, OrderInvariant, PTL DEF Spec, OneOwnerOfTheIdentity

\* A record becomes completed, or rolled back, by the verification after the
\* sync alone, whoever disturbs the account.
THEOREM CompletionIsVerified == Spec => CompletionIsClean
<1> DEFINE Verdict ==
             \A phase \in {"completed", "rolled_back"} :
                Phase # phase /\ saga'.phase = phase /\ Phase \notin Legacy =>
                   /\ Matches(Added.id, Wanted, saga.imp)
                   /\ unsynced = {} /\ Converged
                   /\ (IF Restoring THEN saga.repl.id ELSE O) \notin Here
<1>1. OrderInv /\ [Next]_vars => Verdict
  <2> SUFFICES ASSUME OrderInv, [Next]_vars,
                      NEW phase \in {"completed", "rolled_back"},
                      Phase # phase, saga'.phase = phase, Phase \notin Legacy
               PROVE  /\ Matches(Added.id, Wanted, saga.imp)
                      /\ unsynced = {} /\ Converged
                      /\ (IF Restoring THEN saga.repl.id ELSE O) \notin Here
      OBVIOUS
  <2>1. Typed /\ DOMAIN saga = Fields /\ PassFits
      BY FieldsOfASaga DEF OrderInv, CountInv, Typed
  <2>2. ASSUME Steady PROVE  FALSE
      BY <2>2 DEF Steady, Terminal, Phase
  <2>3. ASSUME saga' = saga PROVE  FALSE
      BY <2>3 DEF Phase
  <2>4. CASE Terminalize
      BY <2>1, <2>4 DEF Terminalize, Final, Verified, PassFits
  <2>5. ASSUME LegacyIntact PROVE  FALSE
      BY <2>1, <2>5 DEF LegacyIntact, Driving, PassFits
  <2>6. ASSUME \E split, retained \in BOOLEAN : Replace(split, retained) PROVE  FALSE
      BY <2>6, FieldsOfASaga DEF Replace, Fields
  <2>7. CASE Bookkeeping
      BY <2>1, <2>2, <2>4, <2>5, <2>6, <2>7, SteadySteps
  <2>8. ASSUME \/ DeleteRow \/ AddRow \/ UpdateCategory \/ RestoreMetadata
               \/ Converge \/ SyncSucceeds \/ ConvergeWithNewLeg
        PROVE  FALSE
      BY <2>3, <2>8 DEF DeleteRow, AddRow, UpdateCategory, RestoreMetadata,
                        Converge, SyncSucceeds, ConvergeWithNewLeg, Only
  <2>9. ASSUME CacheReset \/ Restart \/ RemoteEdit \/ UNCHANGED vars PROVE  FALSE
      BY <2>3, <2>9 DEF CacheReset, Restart, RemoteEdit, vars
  <2>10. ASSUME CallFails PROVE  FALSE
      BY <2>1, <2>2, <2>10, GiveUpLeaves DEF CallFails
  <2>11. ASSUME LegacyForward PROVE  FALSE
      BY <2>1, <2>3, <2>11 DEF LegacyForward, Write, Fields
  <2> QED
      BY <2>7, <2>8, <2>9, <2>10, <2>11
      DEF Next, PassStep, SagaStep, Environment, Requests, Bookkeeping
<1>2. OrderInv /\ [Next]_vars => [Verdict]_vars
    BY <1>1
<1> QED
    BY <1>2, OrderInvariant, PTL DEF Spec, CompletionIsClean

\* The imported identity is moved in the documented order, has one owner,
\* and a completed record stands for references that have all moved.
THEOREM TheMigrationIsOrderly == Spec => OrderlyMigration
  BY TheIdentityMovesFirst, TheIdentityHasOneOwner, CompletionIsVerified
  DEF OrderlyMigration

----------------------------------------------------------------------------
(***************************************************************************)
(* The references.  Again all of it is about an account that nobody has    *)
(* disturbed: which ids the record holds in which phase, where its maps    *)
(* lead, which rows have a leg, and what a store may mention.              *)
(***************************************************************************)
Unidentified == {"none", "prepared", "delete_pending", "original_deleted",
                 "replacement_add_pending", "replacement_category_repair_pending"}
Replacing == {"replacement_identified", "replacement_metadata_pending",
              "replacement_ready", "references_pending",
              "references_migrated", "sync_pending"}
Unrestored == {"rollback_requested", "rollback_delete_pending",
               "rollback_deleted", "restore_add_pending",
               "restore_category_repair_pending"}
Restored == {"restored_identified", "restore_metadata_pending", "restored_ready",
             "rollback_references_pending", "rollback_references_migrated",
             "rollback_sync_pending"}
FirstVersion == {"legacy_reconcile_forward", "legacy_reconcile_rollback",
                 "legacy_unresolved"}

\* The ids a record holds, its maps aside.
Core == {O, saga.oldLeg, saga.repl.id, saga.repl.leg,
         saga.back.id, saga.back.leg} \cup saga.retired \cup saga.backRetired

\* A map leads from all of these to one of the two ids, and nowhere else.
Leads(map, from, to) ==
    /\ from \subseteq DOMAIN map \cup {NoId}
    /\ Range(map) \subseteq {to.id, to.leg} \ {NoId}

NamesFit ==
    /\ DOMAIN saga.plan = DOMAIN NoPlan
    /\ saga.split \in BOOLEAN /\ saga.retained \in BOOLEAN
    /\ saga.retained => saga.split /\ saga.oldLeg # NoId
    /\ saga.repl.id # O
    /\ Phase = "none" => Core \subseteq {O, NoId}
    /\ Phase \in Unidentified => saga.repl = NoIds
    /\ Phase \in Unidentified \cup Replacing \cup Unrestored =>
          saga.back = NoIds /\ saga.backRetired = {}
    /\ saga.back.leg # NoId \/ saga.backRetired # {} => saga.oldLeg # NoId

MapsFit ==
    /\ Range(saga.idMap) \subseteq {saga.repl.id, saga.repl.leg}
    /\ Phase \in Replacing => Leads(saga.idMap, {O, saga.oldLeg}, saga.repl)
    /\ Phase \in Restored =>
          Leads(saga.backMap, {O, saga.oldLeg, saga.repl.id, saga.repl.leg}, saga.back)
    /\ Range(saga.plan.map) \subseteq Core \ {NoId}
    /\ Phase \in {"references_pending", "references_migrated", "sync_pending"} =>
          saga.plan.dir = "forward"
    /\ Phase \in {"rollback_references_pending", "rollback_references_migrated",
                  "rollback_sync_pending"} => saga.plan.dir = "rollback"

\* A record of the first version names one row at most, and no leg.
FirstVersionFits ==
    Phase \in FirstVersion =>
        /\ ~saga.split /\ ~saga.retained /\ saga.oldLeg = NoId
        /\ saga.repl.leg = NoId /\ saga.back.leg = NoId
        /\ saga.retired = {} /\ saga.backRetired = {}
        /\ Range(saga.idMap) = {} /\ Range(saga.plan.map) = {}
        /\ Phase # "legacy_reconcile_forward" => saga.repl.id = NoId
        /\ Phase # "legacy_reconcile_rollback" => saga.back = NoIds
        /\ \A i \in Live : local[i].leg = NoId

\* A row has the leg it was given, under an id of its own.
LegsFit ==
    /\ local[O].imp \notin {"replace", "restore"} /\ fresh > O
    /\ \A i \in Live :
          /\ local[i].leg # NoId => local[i].leg \in Ids /\ local[local[i].leg] = NoRow
          /\ \/ local[i].imp = "replace" \/ Phase \in Replacing
             => (local[i].leg # NoId <=> saga.split)
          /\ \/ local[i].imp = "restore" \/ Phase \in Restored
             => (local[i].leg # NoId <=> saga.oldLeg # NoId)

\* What is marked has been synchronised before, in one direction, and what
\* converges is being repaired or given its identity.
Converging == {"replacement_category_repair_pending", "restore_category_repair_pending",
               "replacement_metadata_pending", "restore_metadata_pending"}
PlacesFit ==
    /\ run.at = "mark" => Phase \in {"sync_pending", "rollback_sync_pending"}
    /\ run.at \in {"repair", "converge"} => Phase \in Converging

InLedger(i) == i \in Live \/ \E r \in Live : local[r].leg = i
Mentioned(i) ==
    IF Phase \in Terminal
    THEN \/ InLedger(i) \/ i \in saga.retired \cup saga.backRetired
         \/ i \notin Core /\ local[i] = NoRow
    ELSE i \in Live \/ i \in Core \/ local[i] = NoRow

MentionsFit == /\ refs \in [Stores -> SUBSET Ids]
               /\ \A k \in Stores : \A i \in refs[k] : Mentioned(i)

RecordInv == /\ NamesFit /\ MapsFit /\ FirstVersionFits /\ LegsFit
             /\ MentionsFit
RefInv == RecordInv /\ PlacesFit

\* Where the maps lead.
LEMMA ReplacementMapLeads ==
    ASSUME NEW to, to.id # NoId,
           saga.retained /\ saga.oldLeg # NoId => to.leg # NoId
    PROVE  Leads(ReplacementMap(to), {O, saga.oldLeg}, to)
  BY DEF Leads, ReplacementMap, Range

LEMMA RollbackMapLeads ==
    ASSUME NEW to, to.id # NoId, saga.retained => saga.oldLeg # NoId,
           saga.oldLeg # NoId => to.leg # NoId
    PROVE  Leads(RollbackMap(to),
                 {O, saga.oldLeg, saga.repl.id, saga.repl.leg}, to)
  BY DEF Leads, RollbackMap, Range

LEMMA AliasMapLeads ==
    ASSUME NEW to, to.id # NoId, saga.retained => saga.oldLeg # NoId,
           saga.oldLeg # NoId => to.leg # NoId,
           saga.back.leg # NoId \/ saga.backRetired # {} => saga.oldLeg # NoId
    PROVE  Leads(AliasMap(to),
                 {O, saga.oldLeg, saga.repl.id, saga.repl.leg}, to)
<1> DEFINE aliases == (saga.backRetired \cup {saga.back.leg}) \ {to.leg, NoId}
           own == RollbackMap(to)
           map == [i \in aliases \cup DOMAIN own |->
                      IF i \in aliases THEN to.leg ELSE own[i]]
<1>1. Leads(own, {O, saga.oldLeg, saga.repl.id, saga.repl.leg}, to)
    BY RollbackMapLeads
<1>2. \A i \in aliases : to.leg # NoId
    OBVIOUS
<1>3. AliasMap(to) = map
    BY DEF AliasMap
<1> HIDE DEF own
<1>4. DOMAIN map = aliases \cup DOMAIN own
    OBVIOUS
<1>5. Range(map) \subseteq {to.id, to.leg} \ {NoId}
    BY <1>1, <1>2 DEF Leads, Range
<1> HIDE DEF map
<1> QED
    BY <1>1, <1>3, <1>4, <1>5 DEF Leads

\* A store that the map leaves as it is mentions nothing the map moves.
LEMMA NothingToMove ==
    ASSUME NEW map, NEW S, Image(map, S) = S, NEW i \in S, i \in DOMAIN map
    PROVE  i \in Range(map)
<1>1. PICK j \in S : i = Mapped(map, j)
    BY DEF Image
<1>2. j \in DOMAIN map
    BY <1>1 DEF Mapped
<1> QED
    BY <1>1, <1>2 DEF Mapped, Range

\* The rows and the stores stay as they are.
Still == local' = local /\ fresh' = fresh /\ refs' = refs

LEMMA StillFacts ==
    ASSUME Still
    PROVE  Live' = Live /\ \A i : InLedger(i)' <=> InLedger(i)
  BY SameRows DEF Still, InLedger

\* A phase that asks nothing of the record that the one before did not.
Follows(phase) ==
    /\ Phase \notin Terminal /\ phase \notin {"none"} \cup FirstVersion \cup Terminal
    /\ phase \in Unidentified => Phase \in Unidentified
    /\ phase \in Replacing => Phase \in Replacing
    /\ phase \in Unrestored => Phase \in Unidentified \cup Replacing \cup Unrestored
    /\ phase \in Restored => Phase \in Restored
    /\ phase \in {"references_pending", "references_migrated", "sync_pending"} =>
          Phase \in {"references_pending", "references_migrated", "sync_pending"}
    /\ phase \in {"rollback_references_pending", "rollback_references_migrated",
                  "rollback_sync_pending"} =>
          Phase \in {"rollback_references_pending", "rollback_references_migrated",
                     "rollback_sync_pending"}

LEMMA SameRecordInv ==
    ASSUME RecordInv, saga' = saga, Still
    PROVE  RecordInv'
<1>1. Live' = Live /\ \A i : InLedger(i)' <=> InLedger(i)
    BY StillFacts
<1>2. Phase' = Phase /\ Core' = Core
    BY DEF Phase, Core
<1>3. NamesFit' /\ MapsFit'
    BY <1>2 DEF RecordInv, NamesFit, MapsFit
<1>4. FirstVersionFits' /\ LegsFit'
    BY <1>1, <1>2 DEF RecordInv, FirstVersionFits, LegsFit, Still
<1>5. MentionsFit'
    BY <1>1, <1>2 DEF RecordInv, MentionsFit, Mentioned, Still
<1> QED
    BY <1>3, <1>4, <1>5 DEF RecordInv

\* All but the phase of a record.
SameButPhase(phase) ==
    /\ saga'.phase = phase
    /\ \A field \in Fields \ {"phase"} : saga'[field] = saga[field]

LEMMA PhaseFits ==
    ASSUME RecordInv, NEW phase, SameButPhase(phase), Follows(phase), Still
    PROVE  RecordInv'
<1>1. Live' = Live /\ Phase' = phase
    BY StillFacts DEF Phase, SameButPhase
<1>2. /\ saga'.imp = saga.imp /\ saga'.oldLeg = saga.oldLeg
      /\ saga'.split = saga.split /\ saga'.retained = saga.retained
      /\ saga'.repl = saga.repl /\ saga'.idMap = saga.idMap
      /\ saga'.retired = saga.retired /\ saga'.back = saga.back
      /\ saga'.backMap = saga.backMap /\ saga'.backRetired = saga.backRetired
      /\ saga'.plan = saga.plan
    BY DEF SameButPhase, Fields
<1>3. Core' = Core
    BY <1>2 DEF Core
<1>4. NamesFit'
    BY <1>1, <1>2 DEF RecordInv, NamesFit, Follows
<1>5. MapsFit'
    BY <1>1, <1>2, <1>3 DEF RecordInv, MapsFit, Follows
<1>6. FirstVersionFits'
    BY <1>1 DEF FirstVersionFits, Follows
<1>7. LegsFit'
    BY <1>1, <1>2 DEF RecordInv, LegsFit, Follows, Still
<1>8. MentionsFit'
    BY <1>1, <1>3 DEF RecordInv, MentionsFit, Mentioned, Follows, Still
<1> QED
    BY <1>4, <1>5, <1>6, <1>7, <1>8 DEF RecordInv

LEMMA PhaseChanges ==
    ASSUME Typed, NEW phase, saga' = [saga EXCEPT !.phase = phase]
    PROVE  SameButPhase(phase)
<1>1. DOMAIN saga = Fields
    BY FieldsOfASaga DEF Typed
<1> QED
    BY <1>1 DEF SameButPhase, Fields

\* The row that was added is identified.
LEMMA IdentifiedFits ==
    ASSUME Typed, InOrder, RecordInv, NEW i \in Live,
           local[i].imp = Temporary, Still, Write(Identified(i)),
           Phase \in {"replacement_add_pending", "replacement_category_repair_pending",
                      "restore_add_pending", "restore_category_repair_pending"}
    PROVE  RecordInv'
<1>1. Live' = Live /\ Live = {i} /\ i \in Ids
    BY StillFacts DEF InOrder, AtMostOne, Live
<1>2. DOMAIN saga = Fields /\ saga' = Identified(i)
    BY FieldsOfASaga DEF Typed, Write
<1> DEFINE to == [id |-> i, leg |-> local[i].leg]
<1>3. IdsOf(i) = to /\ to.id = i /\ to.leg = local[i].leg
    BY DEF IdsOf
<1>4. NamesFit /\ MapsFit /\ LegsFit /\ MentionsFit
    BY DEF RecordInv
<1>5. i # NoId
    BY <1>1, ReplacementAssumption DEF Ids
<1> HIDE DEF to
<1>6. CASE Restoring
  <2>1. /\ Phase \in Unrestored /\ local[i].imp = "restore"
        /\ saga.back = NoIds /\ saga.backRetired = {}
      BY <1>4, <1>6 DEF Restoring, Rollback, Temporary, Unrestored, NamesFit
  <2>2. /\ saga'.phase = "restored_identified" /\ saga'.back = to
        /\ saga'.backMap = RollbackMap(to)
        /\ saga'.oldLeg = saga.oldLeg /\ saga'.split = saga.split
        /\ saga'.retained = saga.retained /\ saga'.repl = saga.repl
        /\ saga'.idMap = saga.idMap /\ saga'.retired = saga.retired
        /\ saga'.backRetired = saga.backRetired /\ saga'.plan = saga.plan
      BY <1>2, <1>3, <1>6 DEF Identified, Fields
  <2>3. to.leg # NoId <=> saga.oldLeg # NoId
      BY <1>1, <1>3, <1>4, <2>1 DEF LegsFit
  <2>4. Leads(saga'.backMap, {O, saga.oldLeg, saga.repl.id, saga.repl.leg}, to)
      BY <1>3, <1>4, <1>5, <2>2, <2>3, RollbackMapLeads DEF NamesFit
  <2>5. Core \subseteq Core' \cup {NoId}
      BY <2>1, <2>2 DEF Core, NoIds
  <2>6. NamesFit'
      BY <1>4, <2>1, <2>2, <2>3
      DEF NamesFit, Phase, Unidentified, Replacing, Unrestored
  <2>7. MapsFit'
      BY <1>4, <2>2, <2>4, <2>5 DEF MapsFit, Phase, Replacing
  <2>8. LegsFit'
      BY <1>1, <1>3, <1>4, <2>1, <2>2, <2>3 DEF LegsFit, Still, Phase, Replacing
  <2>9. FirstVersionFits'
      BY <2>2 DEF FirstVersionFits, FirstVersion, Phase
  <2>10. MentionsFit'
    <3>1. Phase' \notin Terminal /\ Phase \notin Terminal
        BY <2>1, <2>2 DEF Phase, Terminal, Unrestored
    <3>2. NoId \notin Ids
        BY ReplacementAssumption DEF Ids
    <3> QED
        BY <1>1, <1>4, <2>5, <3>1, <3>2 DEF MentionsFit, Mentioned, Still
  <2> QED
      BY <2>6, <2>7, <2>8, <2>9, <2>10 DEF RecordInv
<1>7. CASE ~Restoring
  <2>1. /\ Phase \in Unidentified /\ local[i].imp = "replace"
        /\ saga.back = NoIds /\ saga.backRetired = {} /\ saga.repl = NoIds
      BY <1>4, <1>7 DEF Restoring, Rollback, Temporary, Unidentified, NamesFit
  <2>2. /\ saga'.phase = "replacement_identified" /\ saga'.repl = to
        /\ saga'.idMap = ReplacementMap(to)
        /\ saga'.oldLeg = saga.oldLeg /\ saga'.split = saga.split
        /\ saga'.retained = saga.retained /\ saga'.back = saga.back
        /\ saga'.backMap = saga.backMap /\ saga'.retired = saga.retired
        /\ saga'.backRetired = saga.backRetired /\ saga'.plan = saga.plan
      BY <1>2, <1>3, <1>7 DEF Identified, Fields
  <2>3. to.leg # NoId <=> saga.split
      BY <1>1, <1>3, <1>4, <2>1 DEF LegsFit
  <2>4. Leads(saga'.idMap, {O, saga.oldLeg}, to)
      BY <1>3, <1>4, <1>5, <2>2, <2>3, ReplacementMapLeads DEF NamesFit
  <2>5. Core \subseteq Core' \cup {NoId}
      BY <2>1, <2>2 DEF Core, NoIds
  <2>6. i # O
      BY <1>4, <2>1 DEF LegsFit
  <2>7. NamesFit'
      BY <1>3, <1>4, <2>1, <2>2, <2>6 DEF NamesFit, Phase, Unidentified
  <2>8. MapsFit'
      BY <1>4, <2>2, <2>4, <2>5 DEF MapsFit, Phase, Restored, Leads
  <2>9. LegsFit'
      BY <1>1, <1>3, <1>4, <2>1, <2>2, <2>3 DEF LegsFit, Still, Phase, Restored
  <2>10. FirstVersionFits'
      BY <2>2 DEF FirstVersionFits, FirstVersion, Phase
  <2>11. MentionsFit'
    <3>1. Phase' \notin Terminal /\ Phase \notin Terminal
        BY <2>1, <2>2 DEF Phase, Terminal, Unidentified
    <3>2. NoId \notin Ids
        BY ReplacementAssumption DEF Ids
    <3> QED
        BY <1>1, <1>4, <2>5, <3>1, <3>2 DEF MentionsFit, Mentioned, Still
  <2> QED
      BY <2>7, <2>8, <2>9, <2>10, <2>11 DEF RecordInv
<1> QED
    BY <1>6, <1>7

\* A leg id that changed is taken over, and the old one retired.
LEMMA RefreshedFits ==
    ASSUME Typed, InOrder, RecordInv, NEW phase, Added.id \in Live, Still,
           Write(Refreshed(phase)),
           \/ phase = "replacement_ready" /\ ~Restoring /\ Phase \in Replacing
           \/ phase = "restored_ready" /\ Restoring /\ Phase \in Restored
    PROVE  RecordInv'
<1>1. /\ Live' = Live /\ Added.id \in Ids
      /\ DOMAIN saga = Fields /\ saga' = Refreshed(phase)
    BY StillFacts, FieldsOfASaga DEF Typed, Write, Live
<1> DEFINE i == Added.id
           to == [id |-> i, leg |-> local[i].leg]
<1>2. IdsOf(i) = to /\ to.id = i /\ to.leg = local[i].leg
    BY DEF IdsOf
<1>3. NamesFit /\ MapsFit /\ LegsFit /\ MentionsFit
    BY DEF RecordInv
<1>4. i # NoId /\ NoId \notin Ids /\ i \in Live
    BY <1>1, ReplacementAssumption DEF Ids
<1> HIDE DEF to
<1>5. CASE phase = "restored_ready" /\ Restoring /\ Phase \in Restored
  <2>1. i = saga.back.id
      BY <1>5 DEF Added
  <2> HIDE DEF i
  <2>2. /\ saga'.phase = phase /\ saga'.back = to
        /\ saga'.backMap = AliasMap(to)
        /\ saga'.oldLeg = saga.oldLeg /\ saga'.split = saga.split
        /\ saga'.retained = saga.retained /\ saga'.repl = saga.repl
        /\ saga'.idMap = saga.idMap /\ saga'.retired = saga.retired
        /\ saga'.backRetired = saga.backRetired \cup Replaced(saga.back, to)
        /\ saga'.plan = saga.plan
      BY <1>1, <1>2, <1>5 DEF Refreshed, Fields, i
  <2>3. to.leg # NoId <=> saga.oldLeg # NoId
      BY <1>2, <1>3, <1>4, <1>5 DEF LegsFit
  <2>4. Leads(saga'.backMap, {O, saga.oldLeg, saga.repl.id, saga.repl.leg}, to)
      BY <1>2, <1>3, <1>4, <2>2, <2>3, AliasMapLeads DEF NamesFit
  <2>5. Core \subseteq Core' \cup {NoId}
      BY <1>2, <2>1, <2>2 DEF Core, Replaced
  <2>6. saga'.back.leg # NoId \/ saga'.backRetired # {} => saga.oldLeg # NoId
      BY <1>3, <2>2, <2>3 DEF NamesFit, Replaced
  <2>7. NamesFit'
      BY <1>3, <1>5, <2>2, <2>6 DEF NamesFit, Phase, Unidentified, Replacing, Unrestored
  <2>8. MapsFit'
      BY <1>3, <1>5, <2>2, <2>4, <2>5 DEF MapsFit, Phase, Replacing
  <2>9. LegsFit'
      BY <1>1, <1>3, <1>5, <2>2 DEF LegsFit, Still, Phase, Replacing
  <2>10. FirstVersionFits'
      BY <1>5, <2>2 DEF FirstVersionFits, FirstVersion, Phase
  <2>11. MentionsFit'
    <3>1. Phase' \notin Terminal /\ Phase \notin Terminal
        BY <1>5, <2>2 DEF Phase, Terminal, Restored
    <3> QED
        BY <1>1, <1>3, <1>4, <2>5, <3>1 DEF MentionsFit, Mentioned, Still
  <2> QED
      BY <2>7, <2>8, <2>9, <2>10, <2>11 DEF RecordInv
<1>6. CASE phase = "replacement_ready" /\ ~Restoring /\ Phase \in Replacing
  <2>1. i = saga.repl.id
      BY <1>6 DEF Added
  <2> HIDE DEF i
  <2>2. /\ saga'.phase = phase /\ saga'.repl = to
        /\ saga'.idMap = ReplacementMap(to)
        /\ saga'.oldLeg = saga.oldLeg /\ saga'.split = saga.split
        /\ saga'.retained = saga.retained /\ saga'.back = saga.back
        /\ saga'.backMap = saga.backMap
        /\ saga'.retired = saga.retired \cup Replaced(saga.repl, to)
        /\ saga'.backRetired = saga.backRetired /\ saga'.plan = saga.plan
      BY <1>1, <1>2, <1>6 DEF Refreshed, Fields, i
  <2>3. to.leg # NoId <=> saga.split
      BY <1>2, <1>3, <1>4, <1>6 DEF LegsFit
  <2>4. Leads(saga'.idMap, {O, saga.oldLeg}, to)
      BY <1>2, <1>3, <1>4, <2>2, <2>3, ReplacementMapLeads DEF NamesFit
  <2>5. Core \subseteq Core' \cup {NoId}
      BY <1>2, <2>1, <2>2 DEF Core, Replaced
  <2>6. NamesFit'
      BY <1>2, <1>3, <1>6, <2>1, <2>2 DEF NamesFit, Phase, Unidentified
  <2>7. MapsFit'
      BY <1>3, <1>6, <2>2, <2>4, <2>5 DEF MapsFit, Phase, Restored, Leads
  <2>8. LegsFit'
      BY <1>1, <1>3, <1>6, <2>2 DEF LegsFit, Still, Phase, Restored
  <2>9. FirstVersionFits'
      BY <1>6, <2>2 DEF FirstVersionFits, FirstVersion, Phase
  <2>10. MentionsFit'
    <3>1. Phase' \notin Terminal /\ Phase \notin Terminal
        BY <1>6, <2>2 DEF Phase, Terminal, Replacing
    <3> QED
        BY <1>1, <1>3, <1>4, <2>5, <3>1 DEF MentionsFit, Mentioned, Still
  <2> QED
      BY <2>6, <2>7, <2>8, <2>9, <2>10 DEF RecordInv
<1> QED
    BY <1>5, <1>6

\* The references are planned for the map as it is.
LEMMA PlanFits ==
    ASSUME Typed, RecordInv, PlanReferences, Still
    PROVE  RecordInv'
<1>1. /\ Live' = Live /\ DOMAIN saga = Fields
      /\ NamesFit /\ MapsFit /\ LegsFit /\ MentionsFit
    BY StillFacts, FieldsOfASaga DEF Typed, RecordInv
<1>2. PICK phase, plan :
        /\ saga' = [saga EXCEPT !.phase = phase, !.plan = plan]
        /\ DOMAIN plan = DOMAIN NoPlan /\ plan.map = Map
        /\ \/ /\ phase = "references_pending" /\ plan.dir = "forward"
              /\ Phase = "replacement_ready"
           \/ /\ phase = "rollback_references_pending" /\ plan.dir = "rollback"
              /\ Phase = "restored_ready"
  <2> DEFINE phase == IF Restoring THEN "rollback_references_pending"
                      ELSE "references_pending"
             plan == [dir |-> IF Restoring THEN "rollback" ELSE "forward",
                      map |-> Map, done |-> {}]
  <2>1. saga' = [saga EXCEPT !.phase = phase, !.plan = plan]
      BY DEF PlanReferences, Write
  <2>2. Phase = (IF Restoring THEN "restored_ready" ELSE "replacement_ready")
      BY DEF PlanReferences, Ready, Driving, Restoring, Rollback
  <2>3. /\ DOMAIN plan = DOMAIN NoPlan /\ plan.map = Map
        /\ plan.dir = IF Restoring THEN "rollback" ELSE "forward"
      BY DEF NoPlan
  <2>4. phase = IF Restoring THEN "rollback_references_pending"
                ELSE "references_pending"
      OBVIOUS
  <2> HIDE DEF phase, plan
  <2> WITNESS phase, plan
  <2> QED
      BY <2>1, <2>2, <2>3, <2>4
<1>3. /\ saga'.phase = phase /\ saga'.plan = plan
      /\ saga'.imp = saga.imp /\ saga'.oldLeg = saga.oldLeg
      /\ saga'.split = saga.split /\ saga'.retained = saga.retained
      /\ saga'.repl = saga.repl /\ saga'.idMap = saga.idMap
      /\ saga'.retired = saga.retired /\ saga'.back = saga.back
      /\ saga'.backMap = saga.backMap /\ saga'.backRetired = saga.backRetired
    BY <1>1, <1>2 DEF Fields
<1>4. Core' = Core /\ Phase' = phase
    BY <1>3 DEF Core, Phase
<1>5. NamesFit'
    BY <1>1, <1>2, <1>3, <1>4
    DEF NamesFit, Unidentified, Replacing, Unrestored
<1>6. Range(plan.map) \subseteq Core \ {NoId}
    BY <1>1, <1>2 DEF MapsFit, Map, Restoring, Rollback, Leads, Core,
                      Replacing, Restored
<1>7. MapsFit'
    BY <1>1, <1>2, <1>3, <1>4, <1>6 DEF MapsFit, Replacing, Restored
<1>8. LegsFit'
    BY <1>1, <1>2, <1>3, <1>4 DEF LegsFit, Still, Replacing, Restored
<1>9. FirstVersionFits'
    BY <1>2, <1>4 DEF FirstVersionFits, FirstVersion
<1>10. MentionsFit'
    BY <1>1, <1>2, <1>4 DEF MentionsFit, Mentioned, Still, Terminal
<1> QED
    BY <1>5, <1>7, <1>8, <1>9, <1>10 DEF RecordInv

LEMMA StepDoneFits ==
    ASSUME Typed, RecordInv, StepDone, Still
    PROVE  RecordInv'
<1>1. /\ Live' = Live /\ DOMAIN saga = Fields
      /\ NamesFit /\ MapsFit /\ FirstVersionFits /\ LegsFit /\ MentionsFit
    BY StillFacts, FieldsOfASaga DEF Typed, RecordInv
<1>2. PICK plan :
        /\ saga' = [saga EXCEPT !.plan = plan]
        /\ DOMAIN plan = DOMAIN NoPlan
        /\ plan.map = saga.plan.map /\ plan.dir = saga.plan.dir
  <2> DEFINE plan == [saga.plan EXCEPT !.done = @ \cup {NextStore}]
  <2>1. saga' = [saga EXCEPT !.plan = plan]
      BY DEF StepDone, Write
  <2>2. /\ DOMAIN plan = DOMAIN NoPlan
        /\ plan.map = saga.plan.map /\ plan.dir = saga.plan.dir
      BY <1>1 DEF NamesFit, NoPlan
  <2> QED
      BY <2>1, <2>2
<1>3. /\ saga'.phase = saga.phase /\ saga'.plan = plan
      /\ saga'.imp = saga.imp /\ saga'.oldLeg = saga.oldLeg
      /\ saga'.split = saga.split /\ saga'.retained = saga.retained
      /\ saga'.repl = saga.repl /\ saga'.idMap = saga.idMap
      /\ saga'.retired = saga.retired /\ saga'.back = saga.back
      /\ saga'.backMap = saga.backMap /\ saga'.backRetired = saga.backRetired
    BY <1>1, <1>2 DEF Fields
<1>4. Core' = Core /\ Phase' = Phase
    BY <1>3 DEF Core, Phase
<1>5. NamesFit' /\ MapsFit'
    BY <1>1, <1>2, <1>3, <1>4 DEF NamesFit, MapsFit
<1>6. LegsFit' /\ FirstVersionFits'
    BY <1>1, <1>2, <1>3, <1>4 DEF LegsFit, FirstVersionFits, Still
<1>7. MentionsFit'
    BY <1>1, <1>3, <1>4, StillFacts DEF MentionsFit, Mentioned, Still
<1> QED
    BY <1>5, <1>6, <1>7 DEF RecordInv

\* A store is rewritten to ids the record holds.
LEMMA WriteFits ==
    ASSUME Typed, RecordInv, WriteReferences, local' = local, fresh' = fresh
    PROVE  RecordInv'
<1>1. /\ NamesFit /\ MapsFit /\ FirstVersionFits /\ LegsFit /\ MentionsFit
      /\ Live' = Live /\ saga' = saga
    BY SameRows DEF RecordInv, WriteReferences, Only
<1>2. Phase' = Phase /\ Core' = Core
    BY <1>1 DEF Phase, Core
<1>3. Phase \in {"references_pending", "rollback_references_pending"}
    BY DEF WriteReferences, Migrating, Driving
<1>4. Added.id \in Live /\ Added = IdsOf(Added.id) /\ Map = saga.plan.map
  <2>1. Added.id \in Here /\ ~Drifted
      BY DEF WriteReferences, Verified, Matches
  <2>2. saga.plan.dir = (IF Restoring THEN "rollback" ELSE "forward")
      BY <1>1, <1>3 DEF MapsFit, Restoring, Rollback
  <2> QED
      BY <2>1, <2>2 DEF Drifted, Here
<1>5. Range(saga.plan.map) \subseteq Core \cap Ids
  <2>1. Range(saga.plan.map) \subseteq {Added.id, Added.leg} \ {NoId}
      BY <1>1, <1>3, <1>4 DEF MapsFit, Map, Added, Restoring, Rollback,
                              Replacing, Restored, Leads
  <2>2. Added.leg = local[Added.id].leg /\ Added.id \in Ids
      BY <1>4 DEF IdsOf, Live
  <2>3. Added.leg \in Ids \cup {NoId}
      BY <2>2 DEF Typed, Rows
  <2>4. {Added.id, Added.leg} \subseteq Core
      BY DEF Added, Core
  <2> QED
      BY <2>1, <2>2, <2>3, <2>4
<1> DEFINE n == NextStore
<1>6. n \in Stores /\ refs' = [refs EXCEPT ![n] = Image(saga.plan.map, refs[n])]
    BY DEF WriteReferences, NextStore, Pending
<1> HIDE DEF n
<1>7. \A i \in Image(saga.plan.map, refs[n]) :
          i \in refs[n] \/ i \in Range(saga.plan.map)
    BY DEF Image, Mapped, Range
<1>8. refs[n] \subseteq Ids /\ \A i \in refs[n] : Mentioned(i)
    BY <1>1, <1>6 DEF MentionsFit
<1>9. \A i \in Image(saga.plan.map, refs[n]) : i \in Ids /\ Mentioned(i)
    BY <1>3, <1>5, <1>7, <1>8 DEF Mentioned, Terminal
<1>10. refs' \in [Stores -> SUBSET Ids] /\
       \A k \in Stores : \A i \in refs'[k] : Mentioned(i)
    BY <1>1, <1>6, <1>9 DEF MentionsFit
<1>11. MentionsFit'
    BY <1>1, <1>2, <1>3, <1>10 DEF MentionsFit, Mentioned, Terminal
<1>12. NamesFit' /\ MapsFit'
    BY <1>1, <1>2 DEF NamesFit, MapsFit
<1>13. FirstVersionFits' /\ LegsFit'
    BY <1>1, <1>2 DEF FirstVersionFits, LegsFit
<1> QED
    BY <1>11, <1>12, <1>13 DEF RecordInv

\* A row outside the saga is marked.
LEMMA AddReferenceFits ==
    ASSUME RecordInv, NEW k \in Stores, NEW i \in Ids, AddReference(k, i),
           local' = local, fresh' = fresh
    PROVE  RecordInv'
<1>1. /\ NamesFit /\ MapsFit /\ FirstVersionFits /\ LegsFit /\ MentionsFit
      /\ Live' = Live /\ saga' = saga
      /\ refs' = [refs EXCEPT ![k] = @ \cup {i}]
    BY SameRows DEF RecordInv, AddReference, Only
<1>2. Phase' = Phase /\ Core' = Core /\ Phase \notin Terminal
    BY <1>1 DEF Phase, Core, AddReference, Active
<1>3. Mentioned(i)
  <2>1. i \in Live \/ \E r \in Live : local[r].leg = i
      BY DEF AddReference, Here
  <2>2. i # NoId
      BY ReplacementAssumption DEF Ids
  <2>3. i \in Live \/ local[i] = NoRow
      BY <1>1, <2>1, <2>2 DEF LegsFit
  <2> QED
      BY <1>2, <2>3 DEF Mentioned
<1>4. MentionsFit'
    BY <1>1, <1>2, <1>3 DEF MentionsFit, Mentioned
<1>5. NamesFit' /\ MapsFit'
    BY <1>1, <1>2 DEF NamesFit, MapsFit
<1>6. FirstVersionFits' /\ LegsFit'
    BY <1>1, <1>2 DEF FirstVersionFits, LegsFit
<1> QED
    BY <1>4, <1>5, <1>6 DEF RecordInv

\* A replacement is admitted.
LEMMA ReplaceFits ==
    ASSUME Typed, ImpFits, RecordInv, Still,
           NEW split \in BOOLEAN, NEW retained \in BOOLEAN, Replace(split, retained)
    PROVE  RecordInv'
<1>1. /\ NamesFit /\ MapsFit /\ FirstVersionFits /\ LegsFit /\ MentionsFit
      /\ Live' = Live /\ Phase = "none"
    BY StillFacts DEF RecordInv, Replace
<1>2. /\ saga'.phase = "prepared" /\ saga'.oldLeg = local[O].leg
      /\ saga'.split = split /\ saga'.retained = retained
      /\ saga'.repl = NoIds /\ saga'.idMap = <<>>
      /\ saga'.retired = {} /\ saga'.back = NoIds
      /\ saga'.backMap = <<>> /\ saga'.backRetired = {}
      /\ saga'.plan = NoPlan
    BY FieldsOfASaga DEF Replace, Fields, NoSaga
<1>3. Range(<<>>) = {} /\ NoPlan.map = <<>> /\ NoIds.id = NoId /\ NoIds.leg = NoId
    BY DEF Range, NoPlan, NoIds
<1>4. NoId # O
    BY ReplacementAssumption DEF O
<1>5. Phase' = "prepared"
    BY <1>2 DEF Phase
<1>6. NamesFit'
    BY <1>2, <1>3, <1>4, <1>5
    DEF NamesFit, Replace, Unidentified, Replacing, Unrestored
<1>7. MapsFit'
    BY <1>2, <1>3, <1>5 DEF MapsFit, Replacing, Restored
<1>8. LegsFit'
    BY <1>1, <1>5 DEF LegsFit, ImpFits, Still, Replacing, Restored
<1>9. FirstVersionFits'
    BY <1>5 DEF FirstVersionFits, FirstVersion
<1>10. MentionsFit'
  <2>1. Core \cap Ids \subseteq Core'
      BY <1>1, ReplacementAssumption DEF NamesFit, Ids, Core
  <2> QED
      BY <1>1, <1>5, <2>1 DEF MentionsFit, Mentioned, Still, Terminal
<1> QED
    BY <1>6, <1>7, <1>8, <1>9, <1>10 DEF RecordInv

\* The first version's restored row, found by its id.
LEMMA LegacyRollbackFits ==
    ASSUME Typed, InOrder, RecordInv, LegacyRollback, Still
    PROVE  RecordInv'
<1>1. /\ NamesFit /\ MapsFit /\ FirstVersionFits /\ LegsFit /\ MentionsFit
      /\ Live' = Live /\ DOMAIN saga = Fields /\ saga.back.id \in Live
      /\ Phase = "legacy_reconcile_rollback"
    BY StillFacts, FieldsOfASaga
    DEF RecordInv, Typed, LegacyRollback, Driving, Matches, Here
<1> DEFINE i == saga.back.id
           to == [id |-> i, leg |-> local[i].leg]
<1>2. IdsOf(i) = to /\ to.id = i /\ to.leg = NoId /\ i # NoId
    BY <1>1, ReplacementAssumption DEF IdsOf, FirstVersionFits, FirstVersion, Live, Ids
<1> HIDE DEF to
<1>3. /\ saga'.phase = "restored_ready" /\ saga'.back = to
      /\ saga'.backMap = AliasMap(to)
      /\ saga'.oldLeg = saga.oldLeg /\ saga'.split = saga.split
      /\ saga'.retained = saga.retained /\ saga'.repl = saga.repl
      /\ saga'.idMap = saga.idMap /\ saga'.retired = saga.retired
      /\ saga'.backRetired = saga.backRetired /\ saga'.plan = saga.plan
    BY <1>1, <1>2 DEF LegacyRollback, Write, Fields
<1>4. /\ saga.oldLeg = NoId /\ ~saga.retained /\ saga.backRetired = {}
      /\ \A r \in Live : local[r].leg = NoId
    BY <1>1 DEF FirstVersionFits, FirstVersion
<1>5. Leads(saga'.backMap, {O, saga.oldLeg, saga.repl.id, saga.repl.leg}, to)
    BY <1>1, <1>2, <1>3, <1>4, AliasMapLeads DEF NamesFit
<1>6. Core' = Core /\ Phase' = "restored_ready"
    BY <1>1, <1>2, <1>3 DEF Core, Phase, FirstVersionFits, FirstVersion
<1>7. NamesFit'
    BY <1>1, <1>2, <1>3, <1>4, <1>6 DEF NamesFit, Unidentified, Replacing, Unrestored
<1>8. MapsFit'
    BY <1>1, <1>3, <1>5, <1>6 DEF MapsFit, Replacing
<1>9. LegsFit'
    BY <1>1, <1>3, <1>4, <1>6 DEF LegsFit, Still, Replacing
<1>10. FirstVersionFits'
    BY <1>6 DEF FirstVersionFits, FirstVersion
<1>11. MentionsFit'
    BY <1>1, <1>6 DEF MentionsFit, Mentioned, Still, Terminal
<1> QED
    BY <1>7, <1>8, <1>9, <1>10, <1>11 DEF RecordInv

\* A record that is over holds nothing a store should no longer mention.
LEMMA OverFits ==
    ASSUME RecordInv, NEW phase \in Terminal, SameButPhase(phase), Still,
           Phase \notin Terminal,
           \A k \in Stores : \A i \in refs[k] : i \in Core =>
               InLedger(i) \/ i \in saga.retired \cup saga.backRetired
    PROVE  RecordInv'
<1>1. /\ NamesFit /\ MapsFit /\ LegsFit /\ MentionsFit
      /\ Live' = Live /\ Phase' = phase /\ \A i : InLedger(i)' <=> InLedger(i)
    BY StillFacts DEF RecordInv, Phase, SameButPhase
<1>2. /\ saga'.imp = saga.imp /\ saga'.oldLeg = saga.oldLeg
      /\ saga'.split = saga.split /\ saga'.retained = saga.retained
      /\ saga'.repl = saga.repl /\ saga'.idMap = saga.idMap
      /\ saga'.retired = saga.retired /\ saga'.back = saga.back
      /\ saga'.backMap = saga.backMap /\ saga'.backRetired = saga.backRetired
      /\ saga'.plan = saga.plan
    BY DEF SameButPhase, Fields
<1>3. Core' = Core
    BY <1>2 DEF Core
<1>4. NamesFit'
    BY <1>1, <1>2, <1>3
    DEF NamesFit, Terminal, Unidentified, Replacing, Unrestored
<1>5. MapsFit'
    BY <1>1, <1>2, <1>3 DEF MapsFit, Terminal, Replacing, Restored
<1>6. FirstVersionFits'
    BY <1>1 DEF FirstVersionFits, FirstVersion, Terminal
<1>7. LegsFit'
    BY <1>1, <1>2 DEF LegsFit, Terminal, Replacing, Restored, Still
<1>8. MentionsFit'
  <2>1. refs' = refs /\ local' = local
      BY DEF Still
  <2>2. ASSUME NEW k \in Stores, NEW i \in refs[k] PROVE  Mentioned(i)'
    <3>1. i \in Live \/ i \in Core \/ local[i] = NoRow
        BY <1>1 DEF MentionsFit, Mentioned
    <3>2. InLedger(i) \/ i \in saga.retired \cup saga.backRetired
          \/ (i \notin Core /\ local[i] = NoRow)
        BY <3>1 DEF InLedger
    <3> QED
        BY <1>1, <1>2, <1>3, <2>1, <3>2 DEF Mentioned
  <2> QED
      BY <1>1, <2>1, <2>2 DEF MentionsFit
<1> QED
    BY <1>4, <1>5, <1>6, <1>7, <1>8 DEF RecordInv

LEMMA TerminalizeFits ==
    ASSUME Typed, RefInv, Terminalize, Still
    PROVE  RecordInv'
<1>1. /\ NamesFit /\ MapsFit /\ MentionsFit
      /\ Phase \in {"sync_pending", "rollback_sync_pending"}
    BY DEF RefInv, RecordInv, PlacesFit, Terminalize, At
<1>2. Added.id \in Live /\ Added = IdsOf(Added.id) /\ Map = saga.plan.map /\ Converged
  <2>1. Added.id \in Here /\ ~Drifted /\ Converged
      BY DEF Terminalize, Final, Verified, Matches
  <2>2. saga.plan.dir = (IF Restoring THEN "rollback" ELSE "forward")
      BY <1>1 DEF MapsFit, Restoring, Rollback
  <2> QED
      BY <2>1, <2>2 DEF Drifted, Here
<1>3. Added.leg = local[Added.id].leg
    BY <1>2 DEF IdsOf
<1>4. ASSUME NEW k \in Stores, NEW i \in refs[k], i \in Core
      PROVE  InLedger(i) \/ i \in saga.retired \cup saga.backRetired
  <2>1. i \in Ids /\ i # NoId
      BY <1>1, ReplacementAssumption DEF MentionsFit, Ids
  <2>2. i \in DOMAIN Map => i \in {Added.id, Added.leg}
    <3>1. Range(Map) \subseteq {Added.id, Added.leg}
        BY <1>1 DEF MapsFit, Leads, Map, Added, Restoring, Rollback,
                    Replacing, Restored
    <3> QED
        BY <1>2, <3>1, NothingToMove DEF Converged
  <2>3. i \in {Added.id, Added.leg} \cup saga.retired \cup saga.backRetired
    <3>1. CASE Restoring
      <4>1. {O, saga.oldLeg, saga.repl.id, saga.repl.leg} \subseteq DOMAIN Map \cup {NoId}
          BY <1>1, <3>1 DEF MapsFit, Leads, Map, Restoring, Rollback, Restored
      <4> QED
          BY <1>4, <2>1, <2>2, <3>1, <4>1 DEF Core, Added
    <3>2. CASE ~Restoring
      <4>1. {O, saga.oldLeg} \subseteq DOMAIN Map \cup {NoId} /\ saga.back = NoIds
          BY <1>1, <3>2 DEF MapsFit, NamesFit, Leads, Map, Restoring, Rollback, Replacing
      <4> QED
          BY <1>4, <2>1, <2>2, <3>2, <4>1 DEF Core, Added, NoIds
    <3> QED
        BY <3>1, <3>2
  <2> QED
      BY <1>2, <1>3, <2>3 DEF InLedger
<1>5. PICK phase \in Terminal : SameButPhase(phase)
  <2>1. PICK phase \in Terminal : saga' = [saga EXCEPT !.phase = phase]
      BY DEF Terminalize, Terminal
  <2> QED
      BY <2>1, PhaseChanges
<1> QED
    BY <1>1, <1>4, <1>5, OverFits DEF RefInv, Terminal

LEMMA LegacyIntactFits ==
    ASSUME Typed, RecordInv, LegacyIntact, Still
    PROVE  RecordInv'
<1>1. /\ MentionsFit /\ FirstVersionFits
      /\ Phase = "legacy_unresolved" /\ O \in Live
      /\ saga' = [saga EXCEPT !.phase = "rolled_back"]
    BY DEF RecordInv, LegacyIntact, Driving, Matches, Here
<1>2. Core \cap Ids \subseteq {O}
    BY <1>1, ReplacementAssumption DEF FirstVersionFits, FirstVersion, Core, Ids, NoIds
<1>3. \A k \in Stores : \A i \in refs[k] : i \in Core => InLedger(i)
    BY <1>1, <1>2 DEF MentionsFit, InLedger
<1>4. SameButPhase("rolled_back")
    BY <1>1, PhaseChanges
<1> QED
    BY <1>1, <1>3, <1>4, OverFits DEF Terminal

LEMMA BookkeepingKeepsTheRecord ==
    ASSUME Typed, InOrder, ImpFits, RefInv, Bookkeeping
    PROVE  RecordInv'
<1>1. RecordInv /\ local' = local /\ fresh' = fresh /\ Here = Live /\ DOMAIN saga = Fields
    BY BookkeepingKeepsTheLedger, HereIsLive, FieldsOfASaga
    DEF ledger, RefInv, InOrder, Typed
<1>2. ASSUME saga' = saga, refs' = refs PROVE  RecordInv'
    BY <1>1, <1>2, SameRecordInv DEF Still
<1>3. ASSUME NEW phase, Follows(phase), saga' = [saga EXCEPT !.phase = phase],
             refs' = refs
      PROVE  RecordInv'
    BY <1>1, <1>3, PhaseChanges, PhaseFits DEF Still
<1>4. ASSUME NEW phase, Follows(phase), Checkpoint(phase), refs' = refs
      PROVE  RecordInv'
    BY <1>3, <1>4 DEF Checkpoint, Write
<1>5. ASSUME NEW i \in ByIdentity(Temporary), Write(Identified(i)), refs' = refs,
             Phase \in {"replacement_add_pending", "replacement_category_repair_pending",
                        "restore_add_pending", "restore_category_repair_pending"}
      PROVE  RecordInv'
    BY <1>1, <1>5, IdentifiedFits DEF Still, ByIdentity
<1>6. ASSUME NEW phase, Added.id \in Here, Write(Refreshed(phase)), refs' = refs,
             \/ phase = "replacement_ready" /\ ~Restoring /\ Phase \in Replacing
             \/ phase = "restored_ready" /\ Restoring /\ Phase \in Restored
      PROVE  RecordInv'
    BY <1>1, <1>6, RefreshedFits DEF Still
<1> USE DEF Only
<1>7. CASE Intent
    BY <1>4, <1>7 DEF Intent, Driving, Follows, Terminal,
        FirstVersion, Unidentified, Replacing, Unrestored, Restored
<1>8. CASE DeleteOriginal
    BY <1>2, <1>4, <1>8 DEF DeleteOriginal, Driving, Follows, Terminal,
        FirstVersion, Unidentified, Replacing, Unrestored, Restored
<1>9. CASE VerifyDeleted
  <2>1. /\ refs' = refs /\ Phase \in {"delete_pending", "rollback_delete_pending"}
        /\ Checkpoint(IF Doomed = O THEN "original_deleted" ELSE "rollback_deleted")
        /\ saga.repl.id # O
      BY <1>1, <1>9 DEF VerifyDeleted, At, InOrder, DriveFits, RecordInv, NamesFit
  <2>2. CASE Phase = "delete_pending"
    <3>1. Checkpoint("original_deleted")
        BY <2>1, <2>2 DEF Doomed
    <3> QED
        BY <1>4, <2>1, <2>2, <3>1 DEF Follows, Terminal, FirstVersion,
           Unidentified, Replacing, Unrestored, Restored
  <2>3. CASE Phase = "rollback_delete_pending"
    <3>1. Checkpoint("rollback_deleted")
        BY <2>1, <2>3 DEF Doomed
    <3> QED
        BY <1>4, <2>1, <2>3, <3>1 DEF Follows, Terminal, FirstVersion,
           Unidentified, Replacing, Unrestored, Restored
  <2> QED
      BY <2>1, <2>2, <2>3
<1>10. CASE IntendAdd
    BY <1>4, <1>10 DEF IntendAdd, Driving, Follows, Terminal,
        FirstVersion, Unidentified, Replacing, Unrestored, Restored
<1>11. CASE LookForReplacement
    BY <1>2, <1>4, <1>11 DEF LookForReplacement, Driving, Follows, Terminal,
        FirstVersion, Unidentified, Replacing, Unrestored, Restored
<1>12. CASE FindAdded
  <2>1. /\ refs' = refs /\ Phase \in {"replacement_add_pending", "restore_add_pending"}
        /\ \/ \E i \in ByIdentity(Temporary) : Write(Identified(i))
           \/ Checkpoint(IF Restoring THEN "restore_category_repair_pending"
                         ELSE "replacement_category_repair_pending")
      BY <1>12 DEF FindAdded, At, InOrder, DriveFits
  <2>2. CASE \E i \in ByIdentity(Temporary) : Write(Identified(i))
      BY <1>5, <2>1, <2>2
  <2>3. CASE Checkpoint(IF Restoring THEN "restore_category_repair_pending"
                        ELSE "replacement_category_repair_pending")
      BY <1>4, <2>1, <2>3 DEF Follows, Restoring, Rollback, Terminal, FirstVersion,
         Unidentified, Replacing, Unrestored, Restored
  <2> QED
      BY <2>1, <2>2, <2>3
<1>13. CASE RepairCategory
    BY <1>2, <1>5, <1>13 DEF RepairCategory, Repairing
<1>14. CASE IntendMetadata
    BY <1>4, <1>14 DEF IntendMetadata, Driving, Follows, Terminal,
        FirstVersion, Unidentified, Replacing, Unrestored, Restored
<1>15. CASE Metadata
    BY <1>2, <1>15 DEF Metadata
<1>16. CASE Check
  <2>1. CASE \E i \in ByIdentity(Temporary) : Write(Identified(i))
             /\ Phase \in {"replacement_category_repair_pending",
                           "restore_category_repair_pending"}
      BY <1>5, <1>16, <2>1 DEF Check
  <2>2. CASE /\ Phase \in {"replacement_metadata_pending", "restore_metadata_pending"}
             /\ Added.id \in Here
             /\ Write(Refreshed(IF Restoring THEN "restored_ready"
                                ELSE "replacement_ready"))
      BY <1>6, <1>16, <2>2 DEF Check, Restoring, Rollback, Replacing, Restored
  <2> QED
      BY <1>16, <2>1, <2>2 DEF Check, Matches
<1>17. CASE RefreshIds
  <2>1. /\ refs' = refs /\ Added.id \in Here /\ Write(Refreshed(Phase))
        /\ Phase \in {"replacement_ready", "restored_ready"}
      BY <1>17 DEF RefreshIds, Verified, Matches, Ready, Driving
  <2> QED
      BY <1>6, <2>1 DEF Restoring, Rollback, Replacing, Restored
<1>18. CASE PlanReferences
    BY <1>1, <1>18, PlanFits DEF PlanReferences, Still
<1>19. CASE WriteReferences
    BY <1>1, <1>19, WriteFits
<1>20. CASE StepDone
    BY <1>1, <1>20, StepDoneFits DEF StepDone, Still
<1>21. CASE ReferencesMigrated
    BY <1>4, <1>21 DEF ReferencesMigrated, Driving, Migrating, Restoring, Rollback,
        Follows, Terminal,
        FirstVersion, Unidentified, Replacing, Unrestored, Restored
<1>22. CASE SyncPending
    BY <1>3, <1>22 DEF SyncPending, Driving, Restoring, Rollback, Follows, Terminal,
        FirstVersion, Unidentified, Replacing, Unrestored, Restored
<1>23. CASE NeedsSync
    BY <1>2, <1>23 DEF NeedsSync
<1>24. CASE Terminalize
    BY <1>1, <1>24, TerminalizeFits DEF Terminalize, Still
<1>25. CASE IntendRollback
    BY <1>4, <1>25 DEF IntendRollback, Driving, Follows, Terminal,
        FirstVersion, Unidentified, Replacing, Unrestored, Restored
<1>26. CASE DeleteReplacement
    BY <1>2, <1>4, <1>26 DEF DeleteReplacement, Driving, Follows, Terminal,
        FirstVersion, Unidentified, Replacing, Unrestored, Restored
<1>27. CASE IntendRestore
  <2>1. Phase = "rollback_deleted" /\ Here = {} /\ refs' = refs
      BY <1>1, <1>27 DEF IntendRestore, Driving, InOrder, WhichOne, WhichFor
  <2>2. Checkpoint("restore_add_pending")
      BY <1>27, <2>1 DEF IntendRestore, Matches
  <2> QED
      BY <1>4, <2>1, <2>2 DEF Follows, Terminal, FirstVersion,
         Unidentified, Replacing, Unrestored, Restored
<1>28. CASE LookForRestored
    BY <1>2, <1>28 DEF LookForRestored
<1>29. CASE LegacyRollback
    BY <1>1, <1>29, LegacyRollbackFits DEF LegacyRollback, Still
<1>30. CASE LegacyIntact
    BY <1>1, <1>30, LegacyIntactFits DEF LegacyIntact, Still
<1>31. CASE OutcomeUnknown
    BY <1>2, <1>3, <1>31 DEF OutcomeUnknown, GiveUp, Undoable, Follows, Terminal,
        FirstVersion, Unidentified, Replacing, Unrestored, Restored
<1>32. CASE Crash
    BY <1>2, <1>32 DEF Crash
<1>33. CASE StartSync
    BY <1>2, <1>33 DEF StartSync
<1>34. CASE \E split, retained \in BOOLEAN : Replace(split, retained)
    BY <1>1, <1>34, ReplaceFits DEF Replace, Still
<1>35. CASE \E k \in Stores, i \in Ids : AddReference(k, i)
    BY <1>1, <1>35, AddReferenceFits
<1> QED
    BY <1>7, <1>8, <1>9, <1>10, <1>11, <1>12, <1>13, <1>14, <1>15, <1>16, <1>17, <1>18,
       <1>19, <1>20, <1>21, <1>22, <1>23, <1>24, <1>25, <1>26, <1>27, <1>28, <1>29, <1>30,
       <1>31, <1>32, <1>33, <1>34, <1>35
    DEF Bookkeeping

----------------------------------------------------------------------------
(***************************************************************************)
(* The references, when rows are written.                                  *)
(***************************************************************************)
\* The row of the saga is deleted: the record holds its id.
LEMMA DeletedFits ==
    ASSUME Typed, InOrder, RecordInv, NEW i \in Live, i \in Core,
           Phase \notin Terminal, local' = [local EXCEPT ![i] = Gone],
           fresh' = fresh, saga' = saga, refs' = refs
    PROVE  RecordInv'
<1>1. /\ NamesFit /\ MapsFit /\ FirstVersionFits /\ LegsFit /\ MentionsFit
      /\ i \in Ids /\ local \in [Ids -> Rows]
    BY DEF RecordInv, Live, Typed
<1>2. local'[i] = Gone /\ \A j \in Ids \ {i} : local'[j] = local[j]
    BY <1>1
<1>3. Live' = {}
    BY <1>1, <1>2 DEF Live, Exists, InOrder, AtMostOne
<1>4. Phase' = Phase /\ Core' = Core
    BY DEF Phase, Core
<1>5. NamesFit' /\ MapsFit'
    BY <1>1, <1>4 DEF NamesFit, MapsFit
<1>6. FirstVersionFits'
    BY <1>1, <1>3, <1>4 DEF FirstVersionFits
<1>7. LegsFit'
  <2>1. O \in Ids
      BY ReplacementAssumption DEF O, Ids
  <2>2. local'[O].imp \notin {"replace", "restore"}
      BY <1>1, <1>2, <2>1 DEF LegsFit, Gone, Row
  <2> QED
      BY <1>1, <1>3, <2>2 DEF LegsFit
<1>8. MentionsFit'
  <2>1. \A j \in Ids : Mentioned(j) => Mentioned(j)'
    <3> SUFFICES ASSUME NEW j \in Ids, Mentioned(j) PROVE  Mentioned(j)'
        OBVIOUS
    <3>1. CASE j = i
        BY <1>4, <3>1 DEF Mentioned
    <3>2. CASE j # i
      <4>1. local'[j] = local[j] /\ (j \in Live => j = i)
          BY <1>2, <3>2 DEF InOrder, AtMostOne
      <4> QED
          BY <1>4, <3>2, <4>1 DEF Mentioned
    <3> QED
        BY <3>1, <3>2
  <2> QED
      BY <1>1, <2>1 DEF MentionsFit
<1> QED
    BY <1>5, <1>6, <1>7, <1>8 DEF RecordInv

\* The row there is is edited; its leg stays.
LEMMA EditedFits ==
    ASSUME Typed, ImpFits, RecordInv, NEW i \in Live, NEW row \in Rows,
           row.leg = local[i].leg, row.imp \in {local[i].imp, saga.imp},
           row.shape \notin {"gone", "none"},
           local' = [local EXCEPT ![i] = row],
           fresh' = fresh, saga' = saga, refs' = refs
    PROVE  RecordInv'
<1>1. /\ NamesFit /\ MapsFit /\ FirstVersionFits /\ LegsFit /\ MentionsFit
      /\ i \in Ids /\ local \in [Ids -> Rows] /\ local[i] \notin {Gone, NoRow}
    BY DEF RecordInv, Live, Exists, Typed
<1>2. local'[i] = row /\ \A j \in Ids \ {i} : local'[j] = local[j]
    BY <1>1
<1>3. row \notin {Gone, NoRow}
    BY DEF Gone, NoRow, Row
<1>4. Live' = Live
    BY <1>1, <1>2, <1>3 DEF Live, Exists
<1>5. Phase' = Phase /\ Core' = Core
    BY DEF Phase, Core
<1>6. \A j \in Live : local'[j].leg = local[j].leg /\ local'[j].imp \in {local[j].imp, saga.imp}
    BY <1>2 DEF Live
<1>7. NamesFit' /\ MapsFit'
    BY <1>1, <1>5 DEF NamesFit, MapsFit
<1>8. FirstVersionFits'
    BY <1>1, <1>4, <1>5, <1>6 DEF FirstVersionFits
<1>9. LegsFit'
  <2>1. O \in Ids
      BY ReplacementAssumption DEF O, Ids
  <2>2. saga.imp \notin {"replace", "restore"}
      BY DEF ImpFits
  <2>3. local'[O].imp \notin {"replace", "restore"}
      BY <1>1, <1>2, <2>1, <2>2 DEF LegsFit
  <2>4. ASSUME NEW j \in Live, local[j].leg # NoId
        PROVE  local[j].leg \in Ids /\ local'[local[j].leg] = NoRow
      BY <1>1, <1>2, <2>4 DEF LegsFit
  <2>5. ASSUME NEW j \in Live
        PROVE  /\ \/ local'[j].imp = "replace" \/ Phase \in Replacing
                  => (local'[j].leg # NoId <=> saga.split)
               /\ \/ local'[j].imp = "restore" \/ Phase \in Restored
                  => (local'[j].leg # NoId <=> saga.oldLeg # NoId)
      BY <1>1, <1>6, <2>2 DEF LegsFit
  <2> QED
      BY <1>1, <1>4, <1>5, <1>6, <2>3, <2>4, <2>5 DEF LegsFit
<1>10. MentionsFit'
  <2>1. \A j \in Ids : Mentioned(j) => Mentioned(j)'
    <3> SUFFICES ASSUME NEW j \in Ids, Mentioned(j) PROVE  Mentioned(j)'
        OBVIOUS
    <3>1. InLedger(j)' <=> InLedger(j)
        BY <1>4, <1>6 DEF InLedger
    <3>2. local[j] = NoRow => local'[j] = NoRow
        BY <1>1, <1>2
    <3> QED
        BY <1>4, <1>5, <3>1, <3>2 DEF Mentioned
  <2> QED
      BY <1>1, <2>1 DEF MentionsFit
<1> QED
    BY <1>7, <1>8, <1>9, <1>10 DEF RecordInv

\* Actual gives the row's leg a new id.
LEMMA NewLegFits ==
    ASSUME Typed, InOrder, RecordInv, NEW i \in Live, local[i].leg # NoId,
           Phase \in Converging, fresh <= MaxId,
           local' = [local EXCEPT ![i].leg = fresh],
           fresh' = fresh + 1, saga' = saga, refs' = refs
    PROVE  RecordInv'
<1>1. /\ NamesFit /\ MapsFit /\ FirstVersionFits /\ LegsFit /\ MentionsFit
      /\ i \in Ids /\ local \in [Ids -> Rows] /\ local[i] \notin {Gone, NoRow}
      /\ fresh \in Ids /\ fresh \in Nat /\ fresh # NoId
    BY ReplacementAssumption DEF RecordInv, Live, Exists, Typed, Ids
<1>2. /\ local'[i] = [local[i] EXCEPT !.leg = fresh]
      /\ \A j \in Ids \ {i} : local'[j] = local[j]
    BY <1>1
<1>3. local'[i].leg = fresh /\ local'[i].imp = local[i].imp
    BY <1>1, <1>2 DEF Rows
<1>4. local'[i] \notin {Gone, NoRow} /\ Live = {i}
    BY <1>1, <1>3 DEF Gone, NoRow, Row, InOrder, AtMostOne
<1>5. Live' = {i}
    BY <1>1, <1>2, <1>4 DEF Live, Exists
<1>6. Phase' = Phase /\ Core' = Core /\ Phase \notin Terminal \cup FirstVersion
    BY DEF Phase, Core, Converging, Terminal, FirstVersion
<1>7. NamesFit' /\ MapsFit'
    BY <1>1, <1>6 DEF NamesFit, MapsFit
<1>8. FirstVersionFits'
    BY <1>6 DEF FirstVersionFits
<1>9. LegsFit'
  <2>1. fresh # i /\ local'[fresh] = NoRow
      BY <1>1, <1>2 DEF InOrder, FreshIsFree
  <2>2. O \in Ids
      BY ReplacementAssumption DEF O, Ids
  <2>3. local'[O].imp \notin {"replace", "restore"} /\ fresh' > O
      BY <1>1, <1>2, <1>3, <2>2 DEF LegsFit, O
  <2>4. /\ \/ local'[i].imp = "replace" \/ Phase \in Replacing
           => (local'[i].leg # NoId <=> saga.split)
        /\ \/ local'[i].imp = "restore" \/ Phase \in Restored
           => (local'[i].leg # NoId <=> saga.oldLeg # NoId)
      BY <1>1, <1>3 DEF LegsFit
  <2> QED
      BY <1>1, <1>3, <1>5, <1>6, <2>1, <2>3, <2>4 DEF LegsFit
<1>10. MentionsFit'
  <2>1. \A j \in Ids : Mentioned(j) => Mentioned(j)'
      BY <1>1, <1>2, <1>4, <1>5, <1>6 DEF Mentioned
  <2> QED
      BY <1>1, <2>1 DEF MentionsFit
<1> QED
    BY <1>7, <1>8, <1>9, <1>10 DEF RecordInv

\* A row is added, with a leg if there is to be one.
LEMMA AddedFits ==
    ASSUME Typed, InOrder, RecordInv, AddRow
    PROVE  RecordInv'
<1>1. /\ NamesFit /\ MapsFit /\ FirstVersionFits /\ LegsFit /\ MentionsFit
      /\ Live = {} /\ saga' = saga /\ refs' = refs /\ local \in [Ids -> Rows]
      /\ Phase \in {"replacement_add_pending", "restore_add_pending"}
    BY DEF RecordInv, AddRow, At, InOrder, DriveFits, Only, Typed
<1>2. PICK shape \in {"old", "new", "oldcat", "newcat"} :
          local' = [local EXCEPT ![fresh] =
                      Row(IF HasLeg THEN fresh + 1 ELSE NoId, Temporary, shape)]
    BY DEF AddRow, Wanted
<1> DEFINE leg == IF HasLeg THEN fresh + 1 ELSE NoId
<1>3. /\ fresh \in Ids /\ fresh + 1 \in Ids /\ fresh \in Nat /\ fresh > O
      /\ fresh' \in Nat /\ fresh' > fresh /\ NoId \notin Ids
    BY <1>1, ReplacementAssumption DEF AddRow, Ids, Typed, LegsFit, O
<1> HIDE DEF leg
<1>4. /\ local'[fresh] = Row(leg, Temporary, shape)
      /\ \A j \in Ids \ {fresh} : local'[j] = local[j]
    BY <1>1, <1>2, <1>3 DEF leg
<1>5. /\ local'[fresh].leg = leg /\ local'[fresh].imp = Temporary
      /\ local'[fresh] \notin {Gone, NoRow}
    BY <1>4 DEF Row, Gone, NoRow
<1>6. Live' = {fresh}
    BY <1>1, <1>3, <1>4, <1>5 DEF Live, Exists
<1>7. Phase' = Phase /\ Core' = Core /\ Phase \notin Terminal \cup FirstVersion
      /\ Phase \notin Replacing \cup Restored
    BY <1>1 DEF Phase, Core, Terminal, FirstVersion, Replacing, Restored
<1>8. NamesFit' /\ MapsFit'
    BY <1>1, <1>7 DEF NamesFit, MapsFit
<1>9. FirstVersionFits'
    BY <1>7 DEF FirstVersionFits
<1>10. LegsFit'
  <2>1. O \in Ids /\ O # fresh
      BY <1>3, ReplacementAssumption DEF O, Ids
  <2>2. local'[O].imp \notin {"replace", "restore"} /\ fresh' > O
      BY <1>1, <1>3, <1>4, <2>1 DEF LegsFit, O
  <2>3. fresh + 1 # fresh /\ local[fresh + 1] = NoRow
      BY <1>3 DEF InOrder, FreshIsFree
  <2>4. leg # NoId => leg \in Ids /\ local'[leg] = NoRow
      BY <1>3, <1>4, <2>3 DEF leg
  <2>5. leg # NoId <=> HasLeg
      BY <1>3 DEF leg
  <2>6. /\ Temporary = "replace" => (leg # NoId <=> saga.split)
        /\ Temporary = "restore" => (leg # NoId <=> saga.oldLeg # NoId)
      BY <1>1, <2>5 DEF Temporary, HasLeg, NamesFit
  <2> QED
      BY <1>1, <1>5, <1>6, <1>7, <2>2, <2>4, <2>6 DEF LegsFit
<1>11. MentionsFit'
  <2>1. \A j \in Ids : Mentioned(j) => Mentioned(j)'
      BY <1>1, <1>4, <1>6, <1>7 DEF Mentioned
  <2> QED
      BY <1>1, <2>1 DEF MentionsFit
<1> QED
    BY <1>8, <1>9, <1>10, <1>11 DEF RecordInv

\* The first version's replacement, found by its id.
LEMMA LegacyForwardFits ==
    ASSUME Typed, InOrder, RecordInv, LegacyForward
    PROVE  RecordInv'
<1>1. /\ NamesFit /\ MapsFit /\ FirstVersionFits /\ LegsFit /\ MentionsFit
      /\ DOMAIN saga = Fields /\ saga.repl.id \in Live
      /\ Phase = "legacy_reconcile_forward" /\ refs' = refs /\ fresh' = fresh
    BY FieldsOfASaga
    DEF RecordInv, Typed, LegacyForward, Driving, Matches, Here, Only
<1>2. CASE /\ O \in Here /\ local' = [local EXCEPT ![O] = Gone] /\ saga' = saga
  <2>1. O \in Live /\ O \in Core /\ Phase \notin Terminal
      BY <1>1, <1>2 DEF Here, Core, Terminal
  <2> QED
      BY <1>1, <1>2, <2>1, DeletedFits
<1>3. CASE /\ local' = local
           /\ Write([saga EXCEPT !.phase = "replacement_ready",
                                 !.repl = IdsOf(@.id),
                                 !.idMap = ReplacementMap(IdsOf(saga.repl.id))])
  <2> DEFINE i == saga.repl.id
             to == [id |-> i, leg |-> local[i].leg]
  <2>1. IdsOf(i) = to /\ to.id = i /\ to.leg = NoId /\ i # NoId
      BY <1>1, ReplacementAssumption DEF IdsOf, FirstVersionFits, FirstVersion, Live, Ids
  <2> HIDE DEF to
  <2>2. /\ saga'.phase = "replacement_ready" /\ saga'.repl = to
        /\ saga'.idMap = ReplacementMap(to)
        /\ saga'.oldLeg = saga.oldLeg /\ saga'.split = saga.split
        /\ saga'.retained = saga.retained /\ saga'.back = saga.back
        /\ saga'.backMap = saga.backMap /\ saga'.retired = saga.retired
        /\ saga'.backRetired = saga.backRetired /\ saga'.plan = saga.plan
      BY <1>1, <1>3, <2>1 DEF Write, Fields
  <2>3. /\ saga.oldLeg = NoId /\ ~saga.retained /\ ~saga.split
        /\ saga.back = NoIds /\ saga.repl.leg = NoId
        /\ saga.backRetired = {} /\ \A r \in Live : local[r].leg = NoId
      BY <1>1 DEF FirstVersionFits, FirstVersion
  <2>4. Leads(saga'.idMap, {O, saga.oldLeg}, to)
      BY <2>1, <2>2, <2>3, ReplacementMapLeads
  <2>5. Core' = Core /\ Phase' = "replacement_ready" /\ Live' = Live
      BY <1>1, <1>3, <2>1, <2>2, <2>3, SameRows DEF Core, Phase, NoIds
  <2>6. NamesFit'
      BY <1>1, <2>1, <2>2, <2>3, <2>5 DEF NamesFit, Unidentified, Replacing, Unrestored
  <2>7. MapsFit'
      BY <1>1, <2>2, <2>4, <2>5 DEF MapsFit, Restored, Leads
  <2>8. LegsFit'
      BY <1>1, <1>3, <2>2, <2>3, <2>5 DEF LegsFit, Restored
  <2>9. FirstVersionFits'
      BY <2>5 DEF FirstVersionFits, FirstVersion
  <2>10. MentionsFit'
      BY <1>1, <1>3, <2>5 DEF MentionsFit, Mentioned, Terminal
  <2> QED
      BY <2>6, <2>7, <2>8, <2>9, <2>10 DEF RecordInv
<1> QED
    BY <1>1, <1>2, <1>3 DEF LegacyForward

\* Where the passes go.
LEMMA GiveUpPlaces ==
    ASSUME Typed, GiveUp
    PROVE  run'.at \in {"phase", "sync"}
<1>1. run \in Passes
    BY DEF Typed
<1>2. \/ run' = Idle \/ run' = [run EXCEPT !.at = "sync"]
      \/ run' = [run EXCEPT !.op = "unwind", !.at = "phase"]
    BY DEF GiveUp
<1>3. /\ [run EXCEPT !.at = "sync"].at = "sync"
      /\ [run EXCEPT !.op = "unwind", !.at = "phase"].at = "phase"
    BY <1>1 DEF Passes
<1>4. Idle.at = "phase"
    BY DEF Idle
<1> QED
    BY <1>2, <1>3, <1>4

LEMMA PlacesOfBookkeeping ==
    ASSUME Typed, PassFits, PlacesFit, Bookkeeping
    PROVE  PlacesFit'
<1>1. run \in Passes /\ run'.at # "mark"
  <2>1. CASE Metadata
      BY <2>1, GotoFacts DEF Metadata, Places, Typed
  <2>2. CASE ~Metadata
      BY <2>2, UnattendedSteps DEF PassFits, Unattended, Typed
  <2> QED
      BY <2>1, <2>2
<1>2. ASSUME run'.at \notin {"repair", "converge"} PROVE  PlacesFit'
    BY <1>1, <1>2 DEF PlacesFit
<1>3. ASSUME NEW at \in Places \ {"repair", "converge"}, Goto(at)
      PROVE  PlacesFit'
    BY <1>2, <1>3, GotoFacts
<1>4. CASE \/ Intent \/ VerifyDeleted \/ IntendAdd \/ FindAdded \/ IntendMetadata
           \/ Check \/ RefreshIds \/ PlanReferences \/ StepDone \/ ReferencesMigrated
           \/ IntendRollback \/ IntendRestore \/ LegacyRollback
  <2>1. Goto("phase")
      BY <1>4 DEF Intent, VerifyDeleted, IntendAdd, FindAdded, IntendMetadata,
         Check, RefreshIds, PlanReferences, StepDone, ReferencesMigrated,
         IntendRollback, IntendRestore, LegacyRollback, Checkpoint, Write
  <2> QED
      BY <1>3, <2>1 DEF Places
<1>5. CASE \/ DeleteOriginal \/ LookForReplacement \/ WriteReferences
           \/ DeleteReplacement \/ LookForRestored
  <2>1. \E at \in {"phase", "delete", "add", "find", "written"} : Goto(at)
      BY <1>5 DEF DeleteOriginal, LookForReplacement, WriteReferences,
         DeleteReplacement, LookForRestored, Checkpoint, Write
  <2> QED
      BY <1>3, <2>1 DEF Places
<1>6. CASE \/ SyncPending \/ NeedsSync \/ Terminalize \/ LegacyIntact
           \/ OutcomeUnknown \/ Crash \/ StartSync
           \/ \E split, retained \in BOOLEAN : Replace(split, retained)
  <2>1. CASE OutcomeUnknown
      BY <1>2, <2>1, GiveUpPlaces DEF OutcomeUnknown
  <2>2. CASE StartSync
    <3>1. run'.at = IF Active THEN "phase" ELSE "sync"
        BY <2>2 DEF StartSync
    <3>2. run'.at = "phase" \/ run'.at = "sync"
        BY <3>1
    <3> QED
        BY <1>2, <3>2
  <2>3. CASE \E split, retained \in BOOLEAN : Replace(split, retained)
    <3>1. run'.at = "phase"
        BY <2>3 DEF Replace, Idle
    <3> QED
        BY <1>2, <3>1
  <2>4. CASE SyncPending \/ NeedsSync \/ Terminalize \/ LegacyIntact \/ Crash
    <3>1. run' = Idle \/ run' = [run EXCEPT !.at = "sync"]
        BY <2>4 DEF SyncPending, NeedsSync, Terminalize, LegacyIntact, Crash, Leave
    <3>2. run'.at \in {"phase", "sync"}
        BY <1>1, <3>1 DEF Passes, Idle
    <3> QED
        BY <1>2, <3>2
  <2> QED
      BY <1>6, <2>1, <2>2, <2>3, <2>4
<1>7. CASE RepairCategory
  <2>1. \/ Goto("phase")
        \/ /\ Goto("repair") /\ saga' = saga /\ Phase \in Converging
      BY <1>7 DEF RepairCategory, Repairing, Converging, Write
  <2> QED
      BY <1>1, <1>3, <2>1 DEF PlacesFit, Places, Phase
<1>8. CASE Metadata
  <2>1. saga' = saga /\ Phase \in Converging
      BY <1>8 DEF Metadata, InMetadata, Driving, Converging, Only
  <2> QED
      BY <1>1, <2>1 DEF PlacesFit, Phase
<1>9. CASE \E k \in Stores, i \in Ids : AddReference(k, i)
    BY <1>9 DEF AddReference, Only, PlacesFit, Phase
<1> QED
    BY <1>4, <1>5, <1>6, <1>7, <1>8, <1>9 DEF Bookkeeping

LEMMA RefStep ==
    ASSUME OrderInv, ~disturbed, RefInv, [Next]_vars, ~disturbed'
    PROVE  RefInv'
<1>1. /\ Typed /\ InOrder /\ PassFits /\ ImpFits /\ RecordInv /\ PlacesFit
      /\ SyncChangesNothing /\ DOMAIN saga = Fields /\ run \in Passes
    BY FieldsOfASaga DEF OrderInv, CountInv, InOrder, RefInv, Typed
<1>2. ASSUME saga' = saga, local' = local, fresh' = fresh, refs' = refs
      PROVE  RecordInv'
    BY <1>1, <1>2, SameRecordInv DEF Still
<1>3. ASSUME saga' = saga, run'.at \in {"phase", "check", "find", "verify", "sync"}
      PROVE  PlacesFit'
    BY <1>3 DEF PlacesFit
<1>4. ASSUME NEW at \in {"check", "find", "verify"}, Goto(at), saga' = saga
      PROVE  PlacesFit'
    BY <1>1, <1>3, <1>4, GotoFacts DEF Places
<1>5. CASE Bookkeeping
    BY <1>1, <1>5, BookkeepingKeepsTheRecord, PlacesOfBookkeeping DEF RefInv
<1>6. CASE DeleteRow
  <2>1. /\ Doomed \in Live /\ Phase \in {"delete_pending", "rollback_delete_pending"}
        /\ local' = [local EXCEPT ![Doomed] = Gone]
        /\ fresh' = fresh /\ saga' = saga /\ refs' = refs /\ Goto("verify")
      BY <1>1, <1>6 DEF DeleteRow, At, InOrder, DriveFits, Only
  <2>2. Doomed \in Core /\ Phase \notin Terminal
      BY <2>1 DEF Doomed, Core, Terminal
  <2>3. RecordInv'
      BY <1>1, <2>1, <2>2, DeletedFits
  <2> QED
      BY <1>4, <2>1, <2>3 DEF RefInv
<1>7. CASE AddRow
    BY <1>1, <1>4, <1>7, AddedFits DEF AddRow, Only, RefInv
<1>8. CASE UpdateCategory
  <2>1. PICK i \in Live : local' = [local EXCEPT ![i].shape = Wanted]
      BY <1>8 DEF UpdateCategory, ByIdentity, Here
  <2> DEFINE row == [local[i] EXCEPT !.shape = Wanted]
  <2>2. local[i] \in Rows
      BY <1>1 DEF Typed, Live
  <2>3. /\ row \in Rows /\ row.leg = local[i].leg /\ row.imp = local[i].imp
        /\ row.shape \notin {"gone", "none"} /\ local' = [local EXCEPT ![i] = row]
      BY <2>1, <2>2 DEF Rows, Shapes, Wanted
  <2>4. /\ fresh' = fresh /\ saga' = saga /\ refs' = refs /\ Goto("converge")
        /\ Phase \in Converging
      BY <1>1, <1>8 DEF UpdateCategory, At, Only, PlacesFit
  <2> HIDE DEF row
  <2>5. RecordInv'
      BY <1>1, <2>3, <2>4, EditedFits
  <2>6. PlacesFit'
      BY <1>1, <2>4, GotoFacts DEF PlacesFit, Places, Phase
  <2> QED
      BY <2>5, <2>6 DEF RefInv
<1>9. CASE RestoreMetadata
  <2> DEFINE i == Added.id
             imp == saga.imp
             row == [local[i] EXCEPT !.imp = imp]
  <2>1. /\ i \in Live /\ local' = [local EXCEPT ![i].imp = imp]
        /\ fresh' = fresh /\ saga' = saga /\ refs' = refs /\ Goto("converge")
        /\ Phase \in Converging
      BY <1>1, <1>9 DEF RestoreMetadata, At, Only, InOrder, DriveFits, Converging
  <2> HIDE DEF i
  <2>2. /\ local[i] \in Rows /\ local[i] \notin {Gone, NoRow}
        /\ imp \in Identities /\ Plain(local[i])
      BY <1>1, <2>1 DEF Typed, Live, Exists, SyncChangesNothing
  <2>3. imp = saga.imp
      OBVIOUS
  <2> HIDE DEF imp
  <2>4. /\ row \in Rows /\ row.leg = local[i].leg /\ row.imp = imp
        /\ row.shape = local[i].shape /\ local' = [local EXCEPT ![i] = row]
      BY <2>1, <2>2 DEF Rows
  <2> HIDE DEF row
  <2>5. row.shape \notin {"gone", "none"}
      BY <2>2, <2>4 DEF Plain
  <2>6. RecordInv'
      BY <1>1, <2>1, <2>3, <2>4, <2>5, EditedFits
  <2>7. PlacesFit'
      BY <1>1, <2>1, GotoFacts DEF PlacesFit, Places, Phase
  <2> QED
      BY <2>6, <2>7 DEF RefInv
<1>10. CASE Converge
    BY <1>1, <1>2, <1>4, <1>10, SyncFacts DEF Converge, Only, RefInv
<1>11. CASE SyncSucceeds
  <2>1. RecordInv' /\ saga' = saga
      BY <1>1, <1>2, <1>11, SyncFacts DEF SyncSucceeds, Only
  <2>2. PlacesFit'
      BY <1>1, <1>11, <2>1 DEF SyncSucceeds, PlacesFit, Phase, Idle, Passes
  <2> QED
      BY <2>1, <2>2 DEF RefInv
<1>12. CASE ConvergeWithNewLeg
  <2> DEFINE i == Added.id
  <2>1. /\ i \in Live /\ local[i].leg # NoId /\ Phase \in Converging
        /\ local' = [local EXCEPT ![i].leg = fresh] /\ fresh <= MaxId
        /\ fresh' = fresh + 1 /\ saga' = saga /\ refs' = refs /\ Goto("check")
      BY <1>1, <1>12, MergeIsLocal
      DEF ConvergeWithNewLeg, Live, Exists, At, PlacesFit
  <2> HIDE DEF i
  <2>2. RecordInv'
      BY <1>1, <2>1, NewLegFits
  <2> QED
      BY <1>4, <2>1, <2>2 DEF RefInv
<1>13. CASE LegacyForward
  <2>1. RecordInv'
      BY <1>1, <1>13, LegacyForwardFits
  <2>2. run'.at = "phase"
      BY <1>1, <1>13, GotoFacts DEF LegacyForward, Driving, Write, Places
  <2> QED
      BY <2>1, <2>2 DEF RefInv, PlacesFit
<1>14. CASE CallFails
  <2>1. local' = local /\ fresh' = fresh /\ refs' = refs
      BY <1>1, <1>14, SyncFacts DEF CallFails, ledger
  <2>2. run'.at \in {"phase", "sync"}
      BY <1>1, <1>14, GiveUpPlaces DEF CallFails
  <2>3. CASE saga' = saga
      BY <1>2, <1>3, <2>1, <2>2, <2>3 DEF RefInv
  <2>4. CASE /\ Phase \in Undoable
             /\ saga' = [saga EXCEPT !.phase = "rollback_requested"]
    <3>1. Follows("rollback_requested")
        BY <2>4 DEF Follows, Undoable, Terminal, FirstVersion, Unidentified,
                    Replacing, Unrestored, Restored
    <3>2. RecordInv'
        BY <1>1, <2>1, <2>4, <3>1, PhaseChanges, PhaseFits DEF Still
    <3> QED
        BY <2>2, <3>2 DEF RefInv, PlacesFit
  <2> QED
      BY <1>14, <2>3, <2>4 DEF CallFails, GiveUp
<1>15. CASE CacheReset
  <2>1. unsynced = {} /\ local' = server /\ saga' = saga /\ run' = run
        /\ fresh' = fresh /\ refs' = refs
      BY <1>15 DEF CacheReset
  <2>2. local' = local
      BY <1>1, <2>1 DEF SyncChangesNothing, Typed
  <2> QED
      BY <1>1, <1>2, <2>1, <2>2 DEF RefInv, PlacesFit, Phase
<1>16. CASE Restart
  <2>1. run'.at = "phase" /\ saga' = saga /\ refs' = refs
      BY <1>16 DEF Restart, Idle
  <2>2. local' = local /\ fresh' = fresh
      BY <1>1, <1>16, SyncFacts DEF Restart, ledger
  <2> QED
      BY <1>2, <1>3, <2>1, <2>2 DEF RefInv
<1>17. CASE RemoteEdit
    BY <1>17 DEF RemoteEdit
<1>18. CASE UNCHANGED vars
    BY <1>1, <1>2, <1>18 DEF vars, ledger, RefInv, PlacesFit, Phase
<1> QED
    BY <1>5, <1>6, <1>7, <1>8, <1>9, <1>10, <1>11, <1>12, <1>13, <1>14,
       <1>15, <1>16, <1>17, <1>18
    DEF Next, PassStep, SagaStep, Environment, Requests, Bookkeeping

LEMMA RefInit ==
    ASSUME Init
    PROVE  RefInv
<1>1. Range(<<>>) = {} /\ NoPlan.map = <<>> /\ NoIds.id = NoId /\ NoIds.leg = NoId
    BY DEF Range, NoPlan, NoIds
<1>2. NoId \notin Ids /\ {1, 2, 3} \subseteq Ids
    BY ReplacementAssumption DEF Ids
<1>3. PlacesFit
    BY DEF Init, Idle, PlacesFit
<1>4. ASSUME NEW imp \in {"none", "bank"}, NEW leg \in {NoId, 2},
             local = [i \in Ids |-> IF i = O THEN Row(leg, imp, "old") ELSE NoRow],
             refs \in [Stores -> SUBSET ({O, leg} \ {NoId})],
             fresh = 3, saga = NoSaga
      PROVE  RecordInv
  <2>1. /\ saga.phase = "none" /\ saga.oldLeg = NoId /\ saga.split = FALSE
        /\ saga.retained = FALSE /\ saga.repl = NoIds /\ saga.idMap = <<>>
        /\ saga.retired = {} /\ saga.back = NoIds /\ saga.backRetired = {}
        /\ saga.plan = NoPlan
      BY <1>4 DEF NoSaga
  <2>2. Phase = "none" /\ Live \subseteq {O} /\ Core \subseteq {O, NoId}
      BY <1>1, <1>4, <2>1 DEF Phase, Live, Exists, Core
  <2>3. NamesFit
      BY <1>1, <1>2, <2>1, <2>2 DEF NamesFit, O
  <2>4. MapsFit
      BY <1>1, <2>1, <2>2 DEF MapsFit, Replacing, Restored
  <2>5. FirstVersionFits
      BY <2>2 DEF FirstVersionFits, FirstVersion
  <2>6. local[O] = Row(leg, imp, "old") /\ \A i \in Ids \ {O} : local[i] = NoRow
      BY <1>2, <1>4 DEF O
  <2>7. LegsFit
    <3>1. local[O].imp = imp /\ local[O].leg = leg /\ fresh > O
        BY <1>4, <2>6 DEF Row, O
    <3>2. leg # NoId => leg \in Ids /\ local[leg] = NoRow
        BY <1>2, <2>6 DEF O
    <3> QED
        BY <2>2, <3>1, <3>2 DEF LegsFit, Replacing, Restored
  <2>8. MentionsFit
    <3>1. \A k \in Stores : refs[k] \subseteq Ids
        BY <1>2, <1>4 DEF O
    <3>2. refs \in [Stores -> SUBSET Ids]
        BY <1>4, <3>1
    <3>3. \A i \in Ids : Mentioned(i)
        BY <2>2, <2>6 DEF Mentioned, Terminal, Core
    <3> QED
        BY <3>2, <3>3 DEF MentionsFit
  <2> QED
      BY <2>3, <2>4, <2>5, <2>7, <2>8 DEF RecordInv
<1>5. ASSUME NEW imp \in {"none", "bank"}, NEW phase \in Legacy \ {"none"},
             LegacyInit(phase, imp)
      PROVE  RecordInv
  <2>1. phase \in FirstVersion
      BY ReplacementAssumption DEF FirstVersion
  <2>2. /\ saga.phase = phase /\ saga.oldLeg = NoId /\ saga.split = FALSE
        /\ saga.retained = FALSE /\ saga.idMap = <<>>
        /\ saga.retired = {} /\ saga.backRetired = {} /\ saga.plan = NoPlan
        /\ saga.repl = (IF phase = "legacy_reconcile_forward"
                        THEN [id |-> 3, leg |-> NoId] ELSE NoIds)
        /\ saga.back = (IF phase = "legacy_reconcile_rollback"
                        THEN [id |-> 3, leg |-> NoId] ELSE NoIds)
      BY <1>5, FieldsOfASaga DEF LegacyInit, Fields, NoSaga
  <2>3. /\ saga.repl.leg = NoId /\ saga.repl.id \in {3, NoId}
        /\ phase # "legacy_reconcile_forward" => saga.repl.id = NoId
        /\ saga.back.leg = NoId
        /\ phase # "legacy_reconcile_rollback" => saga.back = NoIds
      BY <1>1, <2>2
  <2>4. Phase = phase
      BY <2>2 DEF Phase
  <2>5. PICK S \in SUBSET {O, 3} : \E shape \in {"old", "new"} :
            local = [i \in Ids |-> IF i \notin S THEN NoRow
                                   ELSE IF i = O THEN Row(NoId, imp, "old")
                                        ELSE Row(NoId, imp, shape)]
      BY <1>5 DEF LegacyInit
  <2>6. \A i \in Ids : local[i].leg = NoId /\ (local[i].imp \in {imp, "none"})
      BY <2>5 DEF Row, NoRow
  <2>7. NamesFit
    <3>1. Phase \notin Unidentified \cup Replacing \cup Unrestored \cup {"none"}
        BY <2>1, <2>4 DEF FirstVersion, Unidentified, Replacing, Unrestored
    <3>2. saga.repl.id # O
        BY <1>2, <2>3 DEF O
    <3> QED
        BY <2>2, <2>3, <3>1, <3>2 DEF NamesFit
  <2>8. MapsFit
      BY <1>1, <2>1, <2>2, <2>4 DEF MapsFit, FirstVersion, Replacing, Restored
  <2>9. FirstVersionFits
      BY <1>1, <2>2, <2>3, <2>4, <2>6 DEF FirstVersionFits, Live
  <2>10. LegsFit
      BY <1>2, <1>5, <2>1, <2>4, <2>6
      DEF LegsFit, LegacyInit, FirstVersion, Replacing, Restored, Live, O
  <2>11. MentionsFit
    <3>1. refs \in [Stores -> {{}, {O}}] /\ O \in Ids /\ O \in Core
        BY <1>2, <1>5 DEF LegacyInit, O, Core
    <3>2. refs \in [Stores -> SUBSET Ids]
        BY <3>1
    <3>3. Phase \notin Terminal
        BY <2>1, <2>4 DEF FirstVersion, Terminal
    <3> QED
        BY <3>1, <3>2, <3>3 DEF MentionsFit, Mentioned
  <2> QED
      BY <2>7, <2>8, <2>9, <2>10, <2>11 DEF RecordInv
<1>6. RecordInv
    BY <1>4, <1>5 DEF Init
<1> QED
    BY <1>3, <1>6 DEF RefInv

LEMMA RefInvariant == Spec => [](OrderInv /\ (~disturbed => RefInv))
<1>1. Init => OrderInv /\ (~disturbed => RefInv)
    BY OrderInit, RefInit, ReplacementAssumption
<1>2. OrderInv /\ (~disturbed => RefInv) /\ OrderInv' /\ [Next]_vars
          => (~disturbed' => RefInv')
    BY DisturbedStays, RefStep
<1> QED
    BY <1>1, <1>2, OrderInvariant, PTL DEF Spec

\* A store never mentions what is neither in the ledger nor known to the
\* saga, whatever fails and wherever the process is killed.
THEOREM TheReferencesKeepTheirEvidence == Spec => []NoReferenceDangles
<1>1. OrderInv /\ (~disturbed => RefInv) => NoReferenceDangles
  <2> SUFFICES ASSUME OrderInv, RefInv, ~disturbed,
                      NEW k \in Stores, NEW i \in refs[k]
               PROVE  \/ i \in Live \/ \E r \in Live : local[r].leg = i
                      \/ Active /\ i \in Owned
                      \/ i \in saga.retired \cup saga.backRetired
                      \/ i \notin Owned /\ local[i] = NoRow
      BY DEF NoReferenceDangles
  <2>1. Mentioned(i) /\ i \in Ids /\ NamesFit /\ MapsFit /\ WhichOne
      BY DEF RefInv, RecordInv, MentionsFit, OrderInv, CountInv, InOrder
  <2>2. i # NoId
      BY <2>1, ReplacementAssumption DEF Ids
  <2>3. Owned = Core \ {NoId}
    <3>1. Range(saga.idMap) \cup Range(saga.plan.map) \subseteq Core
        BY <2>1 DEF MapsFit, Core
    <3> QED
        BY <3>1 DEF Owned, Core
  <2>4. CASE Phase \in Terminal
      BY <2>1, <2>3, <2>4 DEF Mentioned, InLedger
  <2>5. CASE Active
      BY <2>1, <2>2, <2>3, <2>5 DEF Mentioned, Active
  <2>6. CASE Phase = "none"
    <3>1. O \in Live /\ Core \subseteq {O, NoId}
        BY <2>1, <2>6 DEF WhichOne, WhichFor, NamesFit
    <3> QED
        BY <2>1, <2>2, <2>3, <2>6, <3>1 DEF Mentioned, Terminal
  <2> QED
      BY <2>4, <2>5, <2>6 DEF Active
<1> QED
    BY <1>1, RefInvariant, PTL
=============================================================================
