--------------------------- MODULE DeletionProofs ---------------------------
(***************************************************************************)
(* Proofs about the deletion saga: whatever the transactions, the files    *)
(* and who shares them, the sidecar stores and the number of failures,     *)
(* bytes and records match, a saga deletes and unlinks what it may, and a  *)
(* completed record stands for a finished deletion.                        *)
(***************************************************************************)
EXTENDS MCTransactionDeletionSaga, TLAPS, FiniteSetTheorems

----------------------------------------------------------------------------
(***************************************************************************)
(* The inductive invariant.                                                *)
(***************************************************************************)
InCleanup(s) == Phase(s) = "receipt_cleanup_pending"

\* What assertAvailable keeps true of the saga file.
OneOwner == \A r, s \in Active : Target(r) = Target(s) => r = s

\* The durable permission to unlink is only given, and only stands, while
\* nothing mentions the transaction and its deletion is synchronised.
CleanupIsEarned ==
    \A s \in Sagas : InCleanup(s) =>
        Converged(Target(s)) /\ Target(s) \notin unsynced

\* Where the drive is agrees with the record it drives.
DriveFits ==
    run.cur \in Sagas =>
        /\ run.cur \notin run.todo
        /\ run.op = "mark" =>
              Phase(run.cur) \in {"sync_pending", "receipt_cleanup_pending"}
        /\ run.at \in {"delete", "verify"} => Phase(run.cur) = "delete_pending"
        /\ run.at = "delete" => local[Target(run.cur)] = saga[run.cur].shape
        /\ run.at \in {"clean", "unlinked"} =>
              InCleanup(run.cur) /\ Absent(run.cur)
        /\ run.at = "unlinked" =>
              ~ saga[run.cur].files \subseteq saga[run.cur].cleaned

\* Between two drives there is no place in one, without a process no pass.
RestFits == /\ ~up => run = Idle
            /\ run.cur = NoSaga => run.at = "phase"

\* What a pass has put aside waits for a sync.
ReadyFits == \A s \in run.ready : Phase(s) = "sync_pending"

\* What follows a sync finds nothing left to synchronise, and drives what
\* waited for it.
MarkFits ==
    run.op = "mark" => /\ unsynced = {} /\ run.ready = {}
                       /\ \A s \in run.todo : Phase(s) = "sync_pending"

\* A file that two transactions did not share at the start is never shared.
OneMention ==
    \A q, r \in receipts : q[2] = r[2] /\ q[2] \notin SharedFiles => q = r

\* No file is cleaned before the permission.
CleanedLate ==
    \A s \in Sagas : \/ Phase(s) \in {"receipt_cleanup_pending", "completed"}
                     \/ saga[s].cleaned = {}

\* A plan holds every file its transaction mentions alone.
PlansCover ==
    \A s \in Active, f \in Files \ SharedFiles :
        <<Target(s), f>> \in receipts => f \in saga[s].files

PassInv == /\ OneOwner /\ CleanupIsEarned
           /\ DriveFits /\ RestFits /\ ReadyFits /\ MarkFits
FileInv == OneMention /\ CleanedLate /\ PlansCover /\ BytesMatchRecords
DeletionInv == TypeOK /\ PassInv /\ FileInv

----------------------------------------------------------------------------
(***************************************************************************)
(* Lemmas about records, passes and receipts.                              *)
(***************************************************************************)
\* A checkpoint changes one record.
LEMMA CheckpointFacts ==
    ASSUME TypeOK, NEW s \in Sagas, NEW q \in Records, Checkpoint(s, q)
    PROVE  /\ saga' \in [Sagas -> Records]
           /\ saga'[s] = q
           /\ \A r \in Sagas : r # s => saga'[r] = saga[r]
  BY DEF TypeOK, Checkpoint

\* What a checkpoint of the drive keeps of the record, and the phase it
\* gives it.
Moves(s, p) ==
    /\ saga' \in [Sagas -> Records]
    /\ \A r \in Sagas : r # s => saga'[r] = saga[r]
    /\ saga'[s].phase = p /\ saga'[s].target = saga[s].target
    /\ saga'[s].shape = saga[s].shape
    /\ saga[s].files \subseteq saga'[s].files
    /\ saga[s].cleaned \subseteq saga'[s].cleaned

SamePlan(s) == saga'[s].files = saga[s].files /\ saga'[s].cleaned = saga[s].cleaned

LEMMA NextFileIsPlanned ==
    ASSUME NEW s \in Sagas, ~ saga[s].files \subseteq saga[s].cleaned
    PROVE  NextFile(s) \in saga[s].files \ saga[s].cleaned
  BY DEF NextFile

\* A new phase and nothing else.
LEMMA PhaseMoves ==
    ASSUME TypeOK, NEW s \in Sagas, NEW p \in Phases,
           Checkpoint(s, [saga[s] EXCEPT !.phase = p])
    PROVE  Moves(s, p) /\ SamePlan(s)
<1>1. saga[s] \in Records
    BY DEF TypeOK
<1> DEFINE q == [saga[s] EXCEPT !.phase = p]
<1>2. /\ q \in Records
      /\ q.phase = p /\ q.target = saga[s].target /\ q.shape = saga[s].shape
      /\ q.files = saga[s].files /\ q.cleaned = saga[s].cleaned
    BY <1>1 DEF Records
<1> HIDE DEF q
<1>3. Checkpoint(s, q)
    BY DEF q
<1> QED
    BY <1>2, <1>3, CheckpointFacts DEF Moves, SamePlan

\* The steps of the drive that write a record.
LEMMA DriveMoves ==
    ASSUME TypeOK, DriveFits, NEW s \in Sagas
    PROVE
           /\ Intent(s) => Moves(s, "delete_pending") /\ SamePlan(s)
           /\ VerifyGone(s) => Moves(s, "actual_deleted") /\ SamePlan(s)
           /\ ReferencesDeleted(s) => Moves(s, "references_deleted") /\ SamePlan(s)
           /\ SyncPending(s) => Moves(s, "sync_pending") /\ SamePlan(s)
           /\ AllowCleanup(s) => Moves(s, "receipt_cleanup_pending") /\ SamePlan(s)
           /\ Complete(s) => Moves(s, "completed") /\ SamePlan(s)
           /\ PlanReferences(s) =>
                 Moves(s, "references_pending") /\ saga'[s].cleaned = saga[s].cleaned
           /\ StepDone(s) => Moves(s, saga[s].phase) /\ SamePlan(s)
           /\ FileDone(s) =>
                 /\ Moves(s, saga[s].phase) /\ saga'[s].files = saga[s].files
                 /\ saga'[s].cleaned = saga[s].cleaned \cup {NextFile(s)}
<1>1. /\ saga[s] \in Records /\ saga[s].phase \in Phases
      /\ saga[s].target \in Txns /\ saga[s].files \subseteq Files
      /\ saga[s].done \subseteq Range(Steps) /\ saga[s].cleaned \subseteq Files
    BY DEF TypeOK, Records
<1>2. Intent(s) => Moves(s, "delete_pending") /\ SamePlan(s)
    BY PhaseMoves DEF Intent, Phases
<1>3. VerifyGone(s) => Moves(s, "actual_deleted") /\ SamePlan(s)
    BY PhaseMoves DEF VerifyGone, Phases
<1>4. ReferencesDeleted(s) => Moves(s, "references_deleted") /\ SamePlan(s)
    BY PhaseMoves DEF ReferencesDeleted, Phases
<1>5. SyncPending(s) => Moves(s, "sync_pending") /\ SamePlan(s)
    BY PhaseMoves DEF SyncPending, Phases
<1>6. AllowCleanup(s) => Moves(s, "receipt_cleanup_pending") /\ SamePlan(s)
    BY PhaseMoves DEF AllowCleanup, Phases
<1>7. Complete(s) => Moves(s, "completed") /\ SamePlan(s)
    BY PhaseMoves DEF Complete, Phases
<1>8. ASSUME PlanReferences(s)
      PROVE  Moves(s, "references_pending") /\ saga'[s].cleaned = saga[s].cleaned
  <2> DEFINE q == [saga[s] EXCEPT !.phase = "references_pending",
                                  !.files = @ \cup PlannedFiles(Target(s))]
  <2>1. PlannedFiles(Target(s)) \subseteq Files
        BY DEF PlannedFiles, FilesOf, TypeOK
  <2>2. /\ q \in Records
        /\ q.phase = "references_pending" /\ q.target = saga[s].target
        /\ q.shape = saga[s].shape /\ q.cleaned = saga[s].cleaned
        /\ saga[s].files \subseteq q.files
        BY <1>1, <2>1 DEF Records, Phases
  <2>3. Checkpoint(s, q)
        BY <1>8 DEF PlanReferences
  <2> HIDE DEF q
  <2> QED
      BY <2>2, <2>3, CheckpointFacts DEF Moves
<1>9. ASSUME StepDone(s) PROVE Moves(s, saga[s].phase) /\ SamePlan(s)
  <2>1. PICK k \in Range(Steps) :
            Checkpoint(s, [saga[s] EXCEPT !.done = @ \cup {k}])
        BY <1>9 DEF StepDone
  <2> DEFINE q == [saga[s] EXCEPT !.done = @ \cup {k}]
  <2>2. /\ q \in Records
        /\ q.phase = saga[s].phase /\ q.target = saga[s].target
        /\ q.shape = saga[s].shape /\ q.files = saga[s].files
        /\ q.cleaned = saga[s].cleaned
        BY <1>1 DEF Records
  <2>3. Checkpoint(s, q)
        BY <2>1
  <2> HIDE DEF q
  <2> QED
      BY <2>2, <2>3, CheckpointFacts DEF Moves, SamePlan
<1>10. ASSUME FileDone(s)
       PROVE  /\ Moves(s, saga[s].phase) /\ saga'[s].files = saga[s].files
              /\ saga'[s].cleaned = saga[s].cleaned \cup {NextFile(s)}
  <2> DEFINE q == [saga[s] EXCEPT !.cleaned = @ \cup {NextFile(s)}]
  <2>1. NextFile(s) \in saga[s].files
        BY <1>10, NextFileIsPlanned DEF FileDone, Driving, DriveFits
  <2>2. /\ q \in Records
        /\ q.phase = saga[s].phase /\ q.target = saga[s].target
        /\ q.shape = saga[s].shape /\ q.files = saga[s].files
        /\ q.cleaned = saga[s].cleaned \cup {NextFile(s)}
        BY <1>1, <2>1 DEF Records
  <2>3. Checkpoint(s, q)
        BY <1>10 DEF FileDone
  <2> HIDE DEF q
  <2> QED
      BY <2>2, <2>3, CheckpointFacts DEF Moves
<1> QED
    BY <1>2, <1>3, <1>4, <1>5, <1>6, <1>7, <1>8, <1>9, <1>10

\* What becomes of the pass.
LEMMA GotoFacts ==
    ASSUME TypeOK, NEW a \in {"phase", "delete", "verify", "written", "return",
                              "clean", "unlinked"}, Goto(a)
    PROVE  /\ run' \in Passes
           /\ run'.at = a /\ run'.op = run.op /\ run'.defer = run.defer
           /\ run'.todo = run.todo /\ run'.cur = run.cur
           /\ run'.ready = run.ready
  BY DEF TypeOK, Goto, Passes

LEMMA GiveUpFacts ==
    ASSUME TypeOK, GiveUp
    PROVE  /\ run' \in Passes
           /\ run'.at = "phase" /\ run'.op = run.op /\ run'.defer = run.defer
           /\ run'.todo = run.todo /\ run'.cur = NoSaga
           /\ run'.ready = run.ready
  BY DEF TypeOK, GiveUp, Passes

LEMMA NeedsSyncFacts ==
    ASSUME TypeOK, NEW s \in Sagas, NeedsSync(s)
    PROVE  /\ run' \in Passes
           /\ run'.at = "phase" /\ run'.op = run.op
           /\ run'.todo = run.todo /\ run'.cur = NoSaga
           /\ run'.ready = run.ready \cup {s}
  BY DEF TypeOK, NeedsSync, Passes

LEMMA PickSagaFacts ==
    ASSUME TypeOK, NEW s \in Sagas, PickSaga(s)
    PROVE  /\ run' \in Passes
           /\ run'.at = run.at /\ run'.op = run.op
           /\ run'.todo = run.todo \ {s} /\ run'.cur = s
           /\ run'.ready = run.ready
  BY DEF TypeOK, PickSaga, Passes

LEMMA IdleFacts ==
    /\ Idle \in Passes /\ Idle.op = "idle" /\ Idle.todo = {}
    /\ Idle.cur = NoSaga /\ Idle.cur \notin Sagas
    /\ Idle.at = "phase" /\ Idle.ready = {}
  BY DeletionAssumption DEF Idle, Passes

LEMMA RemoveFacts ==
    ASSUME TypeOK, NEW s \in Sagas, NEW t \in Txns, RemoveTransaction(s, t)
    PROVE  /\ run' \in Passes
           /\ run'.at = "phase" /\ run'.op = "remove"
           /\ run'.todo = {} /\ run'.cur = s /\ run'.ready = {}
           /\ saga' \in [Sagas -> Records]
           /\ \A r \in Sagas : r # s => saga'[r] = saga[r]
           /\ Phase(s) = "none" /\ Available(t)
           /\ saga'[s].phase = "prepared" /\ saga'[s].target = t
           /\ saga'[s].files = PlannedFiles(t) /\ saga'[s].cleaned = {}
<1> DEFINE q == [phase |-> "prepared", target |-> t, shape |-> local[t],
                 files |-> PlannedFiles(t), done |-> {}, cleaned |-> {}]
<1>1. PlannedFiles(t) \subseteq Files
    BY DEF PlannedFiles, FilesOf, TypeOK
<1>2. /\ q \in Records /\ q.phase = "prepared" /\ q.target = t
      /\ q.files = PlannedFiles(t) /\ q.cleaned = {}
    BY <1>1 DEF Records, Phases, RemoveTransaction
<1>3. Checkpoint(s, q)
    BY DEF RemoveTransaction
<1> HIDE DEF q
<1>4. /\ saga' \in [Sagas -> Records] /\ saga'[s] = q
      /\ \A r \in Sagas : r # s => saga'[r] = saga[r]
    BY <1>2, <1>3, CheckpointFacts
<1>5. /\ run' \in Passes
      /\ run'.at = "phase" /\ run'.op = "remove"
      /\ run'.todo = {} /\ run'.cur = s /\ run'.ready = {}
    BY DEF RemoveTransaction, Idle, Passes
<1> QED
    BY <1>2, <1>4, <1>5 DEF RemoveTransaction, IsNextRecord

LEMMA StartFacts ==
    ASSUME TypeOK, StartSync \/ Restart
    PROVE  /\ run' \in Passes
           /\ run'.at = "phase" /\ run'.op = "recover"
           /\ run'.todo = Active /\ run'.cur = NoSaga /\ run'.ready = {}
  BY DEF StartSync, Restart, Idle, Passes, Active

LEMMA SyncFacts ==
    ASSUME TypeOK, SyncSucceeds
    PROVE  /\ run' \in Passes
           /\ run'.at = "phase" /\ run'.op = "mark"
           /\ run'.cur = NoSaga /\ run'.ready = {}
           /\ \/ run'.todo = {s \in Sagas : Phase(s) = "sync_pending"}
              \/ run'.todo = run.ready
  BY DEF SyncSucceeds, Idle, Passes, TypeOK

\* A sync leaves the ledger well-formed and nothing to send.
LEMMA SynchronisedFacts ==
    ASSUME TypeOK, Synchronised
    PROVE  /\ server' \in [Txns -> Rows] /\ local' \in [Txns -> Rows]
           /\ unsynced' = {}
  BY DEF TypeOK, Synchronised, Rows

----------------------------------------------------------------------------
(***************************************************************************)
(* Type correctness.                                                       *)
(***************************************************************************)
LEMMA PlacesOfRecords ==
    ASSUME TypeOK, NEW s \in Sagas
    PROVE  /\ saga[s] \in Records /\ Target(s) \in Txns
           /\ Phase(s) \in Phases /\ saga[s].shape \in Shapes
           /\ saga[s].files \subseteq Files /\ saga[s].cleaned \subseteq Files
  BY DEF TypeOK, Records, Target, Phase

LEMMA TypeStep == TypeOK /\ DriveFits /\ [Next]_vars => TypeOK'
<1> SUFFICES ASSUME TypeOK, DriveFits, [Next]_vars PROVE TypeOK'
    OBVIOUS
<1> USE DeletionAssumption
<1>1. ASSUME NEW s \in Sagas, PickSaga(s) PROVE  TypeOK'
    BY <1>1, PickSagaFacts DEF PickSaga, TypeOK, ledger, sidecar
<1>2. ASSUME NEW s \in Sagas, Intent(s) PROVE  TypeOK'
    BY <1>2, DriveMoves DEF Moves, Intent, TypeOK, ledger, sidecar
<1>3. ASSUME NEW s \in Sagas, Revalidate(s) PROVE  TypeOK'
    BY <1>3, GotoFacts DEF Revalidate, TypeOK, ledger, sidecar
<1>4. ASSUME NEW s \in Sagas, DeleteRow(s) PROVE  TypeOK'
    BY <1>4, GotoFacts, PlacesOfRecords DEF DeleteRow, TypeOK, ledger, sidecar, Rows
<1>5. ASSUME NEW s \in Sagas, VerifyGone(s) PROVE  TypeOK'
    BY <1>5, DriveMoves, GotoFacts DEF Moves, VerifyGone, TypeOK, ledger, sidecar
<1>6. ASSUME NEW s \in Sagas, PlanReferences(s) PROVE  TypeOK'
    BY <1>6, DriveMoves DEF Moves, PlanReferences, TypeOK, ledger, sidecar
<1>7. ASSUME NEW s \in Sagas, WriteStep(s) PROVE  TypeOK'
    BY <1>7, GotoFacts DEF WriteStep, TypeOK, ledger, sidecar
<1>8. ASSUME NEW s \in Sagas, StepDone(s) PROVE  TypeOK'
    BY <1>8, DriveMoves, GotoFacts DEF Moves, StepDone, TypeOK, ledger, sidecar
<1>9. ASSUME NEW s \in Sagas, ReferencesDeleted(s) PROVE  TypeOK'
    BY <1>9, DriveMoves DEF Moves, ReferencesDeleted, TypeOK, ledger, sidecar
<1>10. ASSUME NEW s \in Sagas, SyncPending(s) PROVE  TypeOK'
    BY <1>10, DriveMoves, GotoFacts DEF Moves, SyncPending, TypeOK, ledger, sidecar
<1>11. ASSUME NEW s \in Sagas, NeedsSync(s) PROVE  TypeOK'
    BY <1>11, NeedsSyncFacts DEF NeedsSync, TypeOK, ledger, sidecar
<1>12. ASSUME NEW s \in Sagas, AllowCleanup(s) PROVE  TypeOK'
    BY <1>12, DriveMoves, GotoFacts DEF Moves, AllowCleanup, TypeOK, ledger, sidecar
<1>13. ASSUME NEW s \in Sagas, ResumeCleanup(s) PROVE  TypeOK'
    BY <1>13, GotoFacts DEF ResumeCleanup, TypeOK, ledger, sidecar
<1>14. ASSUME NEW s \in Sagas, CleanFile(s) PROVE  TypeOK'
    BY <1>14, GotoFacts DEF CleanFile, TypeOK, ledger, sidecar
<1>15. ASSUME NEW s \in Sagas, FileDone(s) PROVE  TypeOK'
    BY <1>15, DriveMoves, GotoFacts DEF Moves, FileDone, TypeOK, ledger, sidecar
<1>16. ASSUME NEW s \in Sagas, Complete(s) PROVE  TypeOK'
    BY <1>16, DriveMoves, GiveUpFacts DEF Moves, Complete, TypeOK, ledger, sidecar
<1>17. ASSUME NEW s \in Sagas, OutcomeUnknown(s) PROVE  TypeOK'
    BY <1>17, GiveUpFacts DEF OutcomeUnknown, TypeOK, ledger, sidecar
<1>18. ASSUME NEW s \in Sagas, CallFails(s) PROVE  TypeOK'
    BY <1>18, GiveUpFacts DEF CallFails, TypeOK, ledger, sidecar
<1>19. CASE PassEnds
    BY <1>19, IdleFacts DEF PassEnds, TypeOK, ledger, sidecar
<1>20. CASE SyncSucceeds
    BY <1>20, SyncFacts, SynchronisedFacts DEF SyncSucceeds, TypeOK, ledger, sidecar
<1>21. CASE StartSync
    BY <1>21, StartFacts DEF StartSync, TypeOK, ledger, sidecar
<1>22. CASE Restart
    BY <1>22, StartFacts, SynchronisedFacts DEF Restart, TypeOK, ledger, sidecar
<1>23. CASE SyncFails
    BY <1>23, IdleFacts, SynchronisedFacts DEF SyncFails, TypeOK, ledger, sidecar
<1>24. CASE Crash
  <2>1. run' \in Passes /\ up' \in BOOLEAN
        BY <1>24, IdleFacts DEF Crash
  <2>2. left' \in 0 .. MaxTrouble
        BY <1>24 DEF Crash, TypeOK
  <2> QED
      BY <1>24, <2>1, <2>2 DEF Crash, TypeOK, ledger, sidecar
<1>25. CASE CacheReset
    BY <1>25 DEF CacheReset, TypeOK, ledger, sidecar
<1>26. ASSUME NEW t \in Txns, RemoteEdit(t) PROVE  TypeOK'
    BY <1>26 DEF RemoteEdit, TypeOK, ledger, sidecar
<1>27. ASSUME NEW s \in Sagas, NEW t \in Txns, RemoveTransaction(s, t) PROVE  TypeOK'
    BY <1>27, RemoveFacts DEF RemoveTransaction, TypeOK, ledger, sidecar
<1>28. ASSUME NEW t \in Txns, NEW f \in Files, AddReceipt(t, f) PROVE  TypeOK'
    BY <1>28 DEF AddReceipt, TypeOK, ledger, sidecar
<1>29. ASSUME NEW t \in Txns, NEW k \in Range(RefSteps), AddReference(k, t) PROVE  TypeOK'
    BY <1>29 DEF AddReference, TypeOK, ledger, sidecar
<1>30. CASE UNCHANGED vars
    BY <1>30 DEF vars, TypeOK, ledger, sidecar
<1> QED
    BY <1>1, <1>2, <1>3, <1>4, <1>5, <1>6, <1>7, <1>8, <1>9, <1>10, <1>11, <1>12,
       <1>13, <1>14, <1>15, <1>16, <1>17, <1>18, <1>19, <1>20, <1>21, <1>22, <1>23, <1>24,
       <1>25, <1>26, <1>27, <1>28, <1>29, <1>30
    DEF Next, PassStep, SagaStep, Environment, Requests

----------------------------------------------------------------------------
(***************************************************************************)
(* The pass, its records and the ledger.                                   *)
(***************************************************************************)
\* No transaction changes hands and none gets an owner.
LEMMA OwnersStay ==
    ASSUME OneOwner,
           \A r \in Sagas : (r \in Active)' => r \in Active /\ Target(r)' = Target(r)
    PROVE  OneOwner'
  BY DEF OneOwner, Active

\* The permission outlives whatever removes references and deletions to send.
LEMMA PermissionStays ==
    ASSUME CleanupIsEarned,
           \A r \in Sagas :
               InCleanup(r)' => InCleanup(r) /\ Target(r)' = Target(r),
           receipts' \subseteq receipts, unsynced' \subseteq unsynced,
           \A k \in Range(RefSteps) : refs'[k] \subseteq refs[k]
    PROVE  CleanupIsEarned'
  BY DEF CleanupIsEarned, Converged, FilesOf

LEMMA PassHolds ==
    TypeOK /\ PassInv /\ [Next]_vars => PassInv'
<1> SUFFICES ASSUME TypeOK, OneOwner, CleanupIsEarned, DriveFits,
                    RestFits, ReadyFits, MarkFits, [Next]_vars
             PROVE  PassInv'
    BY DEF PassInv
<1> USE DeletionAssumption
<1> run.ready \subseteq Sagas /\ run.todo \subseteq Sagas
    BY DEF TypeOK, Passes
<1>1. ASSUME NEW s \in Sagas, PickSaga(s) PROVE  PassInv'
  <2>1. OneOwner'
        BY <1>1, OwnersStay DEF PickSaga, Active, Phase, Target
  <2>2. CleanupIsEarned'
        BY <1>1, PermissionStays DEF PickSaga, InCleanup, Phase, Target, ledger, sidecar
  <2>3. DriveFits'
        BY <1>1, PickSagaFacts DEF PickSaga, DriveFits, RestFits, MarkFits, InCleanup, Absent, Phase, Target, Driving, ledger, sidecar
  <2>4. RestFits'
        BY <1>1, PickSagaFacts DEF PickSaga, RestFits, Driving, ledger, sidecar
  <2>5. ReadyFits'
        BY <1>1, PickSagaFacts DEF PickSaga, ReadyFits, DriveFits, Phase, Driving, ledger, sidecar
  <2>6. MarkFits'
        BY <1>1, PickSagaFacts DEF PickSaga, MarkFits, DriveFits, Phase, Driving, ledger, sidecar
  <2> QED
      BY <2>1, <2>2, <2>3, <2>4, <2>5, <2>6 DEF PassInv
<1>2. ASSUME NEW s \in Sagas, Intent(s) PROVE  PassInv'
  <2>0. Moves(s, "delete_pending")
        BY <1>2, DriveMoves
  <2>1. OneOwner'
        BY <1>2, OwnersStay, <2>0 DEF Intent, Driving, DriveFits, InCleanup, Moves, Active, Phase, Target
  <2>2. CleanupIsEarned'
        BY <1>2, PermissionStays, <2>0 DEF Intent, Driving, DriveFits, Moves, InCleanup, Phase, Target, ledger, sidecar
  <2>3. DriveFits'
        BY <1>2, <2>0 DEF Intent, Moves, SamePlan, DriveFits, RestFits, MarkFits, InCleanup, Absent, Phase, Target, Driving, ledger, sidecar
  <2>4. RestFits'
        BY <1>2, <2>0 DEF Intent, Moves, RestFits, Driving, ledger, sidecar
  <2>5. ReadyFits'
        BY <1>2, <2>0 DEF Intent, Moves, ReadyFits, DriveFits, InCleanup, Phase, Driving, ledger, sidecar
  <2>6. MarkFits'
        BY <1>2, <2>0 DEF Intent, Moves, MarkFits, DriveFits, InCleanup, Phase, Driving, ledger, sidecar
  <2> QED
      BY <2>1, <2>2, <2>3, <2>4, <2>5, <2>6 DEF PassInv
<1>3. ASSUME NEW s \in Sagas, Revalidate(s) PROVE  PassInv'
  <2>1. OneOwner'
        BY <1>3, OwnersStay DEF Revalidate, Active, Phase, Target
  <2>2. CleanupIsEarned'
        BY <1>3, PermissionStays DEF Revalidate, InCleanup, Phase, Target, ledger, sidecar
  <2>3. DriveFits'
        BY <1>3, GotoFacts DEF Revalidate, DriveFits, RestFits, MarkFits, InCleanup, Absent, Phase, Target, Driving, ledger, sidecar
  <2>4. RestFits'
        BY <1>3, GotoFacts DEF Revalidate, RestFits, Driving, ledger, sidecar
  <2>5. ReadyFits'
        BY <1>3, GotoFacts DEF Revalidate, ReadyFits, DriveFits, Phase, Driving, ledger, sidecar
  <2>6. MarkFits'
        BY <1>3, GotoFacts DEF Revalidate, MarkFits, DriveFits, Phase, Driving, ledger, sidecar
  <2> QED
      BY <2>1, <2>2, <2>3, <2>4, <2>5, <2>6 DEF PassInv
<1>4. ASSUME NEW s \in Sagas, DeleteRow(s) PROVE  PassInv'
  <2>1. OneOwner'
        BY <1>4, OwnersStay DEF DeleteRow, Active, Phase, Target
  <2>2. CleanupIsEarned'
        BY <1>4 DEF DeleteRow, CleanupIsEarned, OneOwner, Active, DriveFits, Driving, InCleanup, Converged, FilesOf, Phase, Target, sidecar
  <2>3. DriveFits'
        BY <1>4, GotoFacts, PlacesOfRecords DEF DeleteRow, TypeOK, DriveFits, InCleanup, Absent, Phase, Target, Driving
  <2>4. RestFits'
        BY <1>4, GotoFacts, PlacesOfRecords DEF DeleteRow, RestFits, Driving, ledger, sidecar
  <2>5. ReadyFits'
        BY <1>4, GotoFacts, PlacesOfRecords DEF DeleteRow, ReadyFits, DriveFits, Phase, Driving, ledger, sidecar
  <2>6. MarkFits'
        BY <1>4, GotoFacts, PlacesOfRecords DEF DeleteRow, MarkFits, DriveFits, Phase, Driving, ledger, sidecar
  <2> QED
      BY <2>1, <2>2, <2>3, <2>4, <2>5, <2>6 DEF PassInv
<1>5. ASSUME NEW s \in Sagas, VerifyGone(s) PROVE  PassInv'
  <2>0. Moves(s, "actual_deleted")
        BY <1>5, DriveMoves
  <2>1. OneOwner'
        BY <1>5, OwnersStay, <2>0 DEF VerifyGone, Driving, DriveFits, InCleanup, Moves, Active, Phase, Target
  <2>2. CleanupIsEarned'
        BY <1>5, PermissionStays, <2>0 DEF VerifyGone, Driving, DriveFits, Moves, InCleanup, Phase, Target, ledger, sidecar
  <2>3. DriveFits'
        BY <1>5, <2>0, GotoFacts DEF VerifyGone, Moves, SamePlan, DriveFits, RestFits, MarkFits, InCleanup, Absent, Phase, Target, Driving, ledger, sidecar
  <2>4. RestFits'
        BY <1>5, <2>0, GotoFacts DEF VerifyGone, Moves, RestFits, Driving, ledger, sidecar
  <2>5. ReadyFits'
        BY <1>5, <2>0, GotoFacts DEF VerifyGone, Moves, ReadyFits, DriveFits, InCleanup, Phase, Driving, ledger, sidecar
  <2>6. MarkFits'
        BY <1>5, <2>0, GotoFacts DEF VerifyGone, Moves, MarkFits, DriveFits, InCleanup, Phase, Driving, ledger, sidecar
  <2> QED
      BY <2>1, <2>2, <2>3, <2>4, <2>5, <2>6 DEF PassInv
<1>6. ASSUME NEW s \in Sagas, PlanReferences(s) PROVE  PassInv'
  <2>0. Moves(s, "references_pending")
        BY <1>6, DriveMoves
  <2>1. OneOwner'
        BY <1>6, OwnersStay, <2>0 DEF PlanReferences, Driving, DriveFits, InCleanup, Moves, Active, Phase, Target
  <2>2. CleanupIsEarned'
        BY <1>6, PermissionStays, <2>0 DEF PlanReferences, Driving, DriveFits, Moves, InCleanup, Phase, Target, ledger, sidecar
  <2>3. DriveFits'
        BY <1>6, <2>0 DEF PlanReferences, Moves, SamePlan, DriveFits, RestFits, MarkFits, InCleanup, Absent, Phase, Target, Driving, ledger, sidecar
  <2>4. RestFits'
        BY <1>6, <2>0 DEF PlanReferences, Moves, RestFits, Driving, ledger, sidecar
  <2>5. ReadyFits'
        BY <1>6, <2>0 DEF PlanReferences, Moves, ReadyFits, DriveFits, InCleanup, Phase, Driving, ledger, sidecar
  <2>6. MarkFits'
        BY <1>6, <2>0 DEF PlanReferences, Moves, MarkFits, DriveFits, InCleanup, Phase, Driving, ledger, sidecar
  <2> QED
      BY <2>1, <2>2, <2>3, <2>4, <2>5, <2>6 DEF PassInv
<1>7. ASSUME NEW s \in Sagas, WriteStep(s) PROVE  PassInv'
  <2>1. OneOwner'
        BY <1>7, OwnersStay DEF WriteStep, Active, Phase, Target
  <2>2. CleanupIsEarned'
        BY <1>7, PermissionStays DEF WriteStep, TypeOK, InCleanup, Phase, Target, ledger
  <2>3. DriveFits'
        BY <1>7, GotoFacts DEF WriteStep, DriveFits, RestFits, MarkFits, InCleanup, Absent, Phase, Target, Driving, ledger, sidecar
  <2>4. RestFits'
        BY <1>7, GotoFacts DEF WriteStep, RestFits, Driving, ledger, sidecar
  <2>5. ReadyFits'
        BY <1>7, GotoFacts DEF WriteStep, ReadyFits, DriveFits, Phase, Driving, ledger, sidecar
  <2>6. MarkFits'
        BY <1>7, GotoFacts DEF WriteStep, MarkFits, DriveFits, Phase, Driving, ledger, sidecar
  <2> QED
      BY <2>1, <2>2, <2>3, <2>4, <2>5, <2>6 DEF PassInv
<1>8. ASSUME NEW s \in Sagas, StepDone(s) PROVE  PassInv'
  <2>0. Moves(s, saga[s].phase) /\ SamePlan(s)
        BY <1>8, DriveMoves
  <2>1. OneOwner'
        BY <1>8, OwnersStay, <2>0 DEF StepDone, Driving, DriveFits, InCleanup, Moves, Active, Phase, Target
  <2>2. CleanupIsEarned'
        BY <1>8, PermissionStays, <2>0 DEF StepDone, Driving, DriveFits, Moves, InCleanup, Phase, Target, ledger, sidecar
  <2>3. DriveFits'
        BY <1>8, <2>0, GotoFacts DEF StepDone, Moves, SamePlan, DriveFits, RestFits, MarkFits, InCleanup, Absent, Phase, Target, Driving, ledger, sidecar
  <2>4. RestFits'
        BY <1>8, <2>0, GotoFacts DEF StepDone, Moves, RestFits, Driving, ledger, sidecar
  <2>5. ReadyFits'
        BY <1>8, <2>0, GotoFacts DEF StepDone, Moves, ReadyFits, DriveFits, InCleanup, Phase, Driving, ledger, sidecar
  <2>6. MarkFits'
        BY <1>8, <2>0, GotoFacts DEF StepDone, Moves, MarkFits, DriveFits, InCleanup, Phase, Driving, ledger, sidecar
  <2> QED
      BY <2>1, <2>2, <2>3, <2>4, <2>5, <2>6 DEF PassInv
<1>9. ASSUME NEW s \in Sagas, ReferencesDeleted(s) PROVE  PassInv'
  <2>0. Moves(s, "references_deleted")
        BY <1>9, DriveMoves
  <2>1. OneOwner'
        BY <1>9, OwnersStay, <2>0 DEF ReferencesDeleted, Driving, DriveFits, InCleanup, Moves, Active, Phase, Target
  <2>2. CleanupIsEarned'
        BY <1>9, PermissionStays, <2>0 DEF ReferencesDeleted, Driving, DriveFits, Moves, InCleanup, Phase, Target, ledger, sidecar
  <2>3. DriveFits'
        BY <1>9, <2>0 DEF ReferencesDeleted, Moves, SamePlan, DriveFits, RestFits, MarkFits, InCleanup, Absent, Phase, Target, Driving, ledger, sidecar
  <2>4. RestFits'
        BY <1>9, <2>0 DEF ReferencesDeleted, Moves, RestFits, Driving, ledger, sidecar
  <2>5. ReadyFits'
        BY <1>9, <2>0 DEF ReferencesDeleted, Moves, ReadyFits, DriveFits, InCleanup, Phase, Driving, ledger, sidecar
  <2>6. MarkFits'
        BY <1>9, <2>0 DEF ReferencesDeleted, Moves, MarkFits, DriveFits, InCleanup, Phase, Driving, ledger, sidecar
  <2> QED
      BY <2>1, <2>2, <2>3, <2>4, <2>5, <2>6 DEF PassInv
<1>10. ASSUME NEW s \in Sagas, SyncPending(s) PROVE  PassInv'
  <2>0. Moves(s, "sync_pending")
        BY <1>10, DriveMoves
  <2>1. OneOwner'
        BY <1>10, OwnersStay, <2>0 DEF SyncPending, Driving, DriveFits, InCleanup, Moves, Active, Phase, Target
  <2>2. CleanupIsEarned'
        BY <1>10, PermissionStays, <2>0 DEF SyncPending, Driving, DriveFits, Moves, InCleanup, Phase, Target, ledger, sidecar
  <2>3. DriveFits'
        BY <1>10, <2>0, GotoFacts DEF SyncPending, Moves, SamePlan, DriveFits, RestFits, MarkFits, InCleanup, Absent, Phase, Target, Driving, ledger, sidecar
  <2>4. RestFits'
        BY <1>10, <2>0, GotoFacts DEF SyncPending, Moves, RestFits, Driving, ledger, sidecar
  <2>5. ReadyFits'
        BY <1>10, <2>0, GotoFacts DEF SyncPending, Moves, ReadyFits, DriveFits, InCleanup, Phase, Driving, ledger, sidecar
  <2>6. MarkFits'
        BY <1>10, <2>0, GotoFacts DEF SyncPending, Moves, MarkFits, DriveFits, InCleanup, Phase, Driving, ledger, sidecar
  <2> QED
      BY <2>1, <2>2, <2>3, <2>4, <2>5, <2>6 DEF PassInv
<1>11. ASSUME NEW s \in Sagas, NeedsSync(s) PROVE  PassInv'
  <2>1. OneOwner'
        BY <1>11, OwnersStay DEF NeedsSync, Active, Phase, Target
  <2>2. CleanupIsEarned'
        BY <1>11, PermissionStays DEF NeedsSync, InCleanup, Phase, Target, ledger, sidecar
  <2>3. DriveFits'
        BY <1>11, NeedsSyncFacts DEF NeedsSync, DriveFits, RestFits, MarkFits, InCleanup, Absent, Phase, Target, Driving, ledger, sidecar
  <2>4. RestFits'
        BY <1>11, NeedsSyncFacts DEF NeedsSync, RestFits, Driving, ledger, sidecar
  <2>5. ReadyFits'
        BY <1>11, NeedsSyncFacts DEF NeedsSync, ReadyFits, DriveFits, Phase, Driving, ledger, sidecar
  <2>6. MarkFits'
        BY <1>11, NeedsSyncFacts DEF NeedsSync, MarkFits, DriveFits, Phase, Driving, ledger, sidecar
  <2> QED
      BY <2>1, <2>2, <2>3, <2>4, <2>5, <2>6 DEF PassInv
<1>12. ASSUME NEW s \in Sagas, AllowCleanup(s) PROVE  PassInv'
  <2>0. Moves(s, "receipt_cleanup_pending")
        BY <1>12, DriveMoves
  <2>7. /\ unsynced = {} /\ run.ready = {} /\ s \notin run.todo
        /\ Converged(Target(s))
        BY <1>12 DEF AllowCleanup, MarkFits, DriveFits, Driving
  <2>8. /\ receipts' = receipts /\ refs' = refs /\ unsynced' = unsynced
        /\ Goto("clean")
        BY <1>12 DEF AllowCleanup, ledger, sidecar
  <2>1. OneOwner'
        BY <1>12, OwnersStay, <2>0 DEF AllowCleanup, Driving, DriveFits, InCleanup, Moves, Active, Phase, Target
  <2>2. CleanupIsEarned'
    <3>1. \A r \in Sagas : InCleanup(r)' => r = s \/ InCleanup(r)
          BY <2>0 DEF Moves, InCleanup, Phase
    <3>2. \A r \in Sagas : Target(r)' = Target(r)
          BY <2>0 DEF Moves, Target
    <3>3. \A t : Converged(t) => Converged(t)'
          BY <2>8 DEF Converged, FilesOf
    <3> QED
        BY <2>7, <2>8, <3>1, <3>2, <3>3 DEF CleanupIsEarned
  <2>3. DriveFits'
        BY <1>12, <2>0, GotoFacts DEF AllowCleanup, Moves, SamePlan, DriveFits, RestFits, MarkFits, InCleanup, Absent, Phase, Target, Driving, ledger, sidecar
  <2>4. RestFits'
        BY <1>12, <2>0, GotoFacts DEF AllowCleanup, Moves, RestFits, MarkFits, Driving, ledger, sidecar
  <2>5. ReadyFits'
        BY <1>12, <2>0, GotoFacts DEF AllowCleanup, Moves, ReadyFits, DriveFits, MarkFits, Phase, Driving, ledger, sidecar
  <2>6. MarkFits'
        BY <2>0, <2>7, <2>8, GotoFacts DEF Moves, MarkFits, Phase
  <2> QED
      BY <2>1, <2>2, <2>3, <2>4, <2>5, <2>6 DEF PassInv
<1>13. ASSUME NEW s \in Sagas, ResumeCleanup(s) PROVE  PassInv'
  <2>1. OneOwner'
        BY <1>13, OwnersStay DEF ResumeCleanup, Active, Phase, Target
  <2>2. CleanupIsEarned'
        BY <1>13, PermissionStays DEF ResumeCleanup, InCleanup, Phase, Target, ledger, sidecar
  <2>3. DriveFits'
        BY <1>13, GotoFacts DEF ResumeCleanup, DriveFits, RestFits, MarkFits, InCleanup, Absent, Phase, Target, Driving, ledger, sidecar
  <2>4. RestFits'
        BY <1>13, GotoFacts DEF ResumeCleanup, RestFits, Driving, ledger, sidecar
  <2>5. ReadyFits'
        BY <1>13, GotoFacts DEF ResumeCleanup, ReadyFits, DriveFits, Phase, Driving, ledger, sidecar
  <2>6. MarkFits'
        BY <1>13, GotoFacts DEF ResumeCleanup, MarkFits, DriveFits, Phase, Driving, ledger, sidecar
  <2> QED
      BY <2>1, <2>2, <2>3, <2>4, <2>5, <2>6 DEF PassInv
<1>14. ASSUME NEW s \in Sagas, CleanFile(s) PROVE  PassInv'
  <2>1. OneOwner'
        BY <1>14, OwnersStay DEF CleanFile, Active, Phase, Target
  <2>2. CleanupIsEarned'
        BY <1>14, PermissionStays DEF CleanFile, InCleanup, Phase, Target, ledger, sidecar
  <2>3. DriveFits'
        BY <1>14, GotoFacts, NextFileIsPlanned DEF CleanFile, DriveFits, RestFits, MarkFits, InCleanup, Absent, Phase, Target, Driving, ledger, sidecar
  <2>4. RestFits'
        BY <1>14, GotoFacts, NextFileIsPlanned DEF CleanFile, RestFits, Driving, ledger, sidecar
  <2>5. ReadyFits'
        BY <1>14, GotoFacts, NextFileIsPlanned DEF CleanFile, ReadyFits, DriveFits, Phase, Driving, ledger, sidecar
  <2>6. MarkFits'
        BY <1>14, GotoFacts, NextFileIsPlanned DEF CleanFile, MarkFits, DriveFits, Phase, Driving, ledger, sidecar
  <2> QED
      BY <2>1, <2>2, <2>3, <2>4, <2>5, <2>6 DEF PassInv
<1>15. ASSUME NEW s \in Sagas, FileDone(s) PROVE  PassInv'
  <2>0. Moves(s, saga[s].phase) /\ saga'[s].cleaned = saga[s].cleaned \cup {NextFile(s)}
        BY <1>15, DriveMoves
  <2>1. OneOwner'
        BY <1>15, OwnersStay, <2>0 DEF FileDone, Driving, DriveFits, InCleanup, Moves, Active, Phase, Target
  <2>2. CleanupIsEarned'
        BY <1>15, PermissionStays, <2>0 DEF FileDone, Driving, DriveFits, Moves, InCleanup, Phase, Target, ledger, sidecar
  <2>3. DriveFits'
        BY <1>15, <2>0, GotoFacts DEF FileDone, Moves, SamePlan, DriveFits, RestFits, MarkFits, InCleanup, Absent, Phase, Target, Driving, ledger, sidecar
  <2>4. RestFits'
        BY <1>15, <2>0, GotoFacts DEF FileDone, Moves, RestFits, Driving, ledger, sidecar
  <2>5. ReadyFits'
        BY <1>15, <2>0, GotoFacts DEF FileDone, Moves, ReadyFits, DriveFits, InCleanup, Phase, Driving, ledger, sidecar
  <2>6. MarkFits'
        BY <1>15, <2>0, GotoFacts DEF FileDone, Moves, MarkFits, DriveFits, InCleanup, Phase, Driving, ledger, sidecar
  <2> QED
      BY <2>1, <2>2, <2>3, <2>4, <2>5, <2>6 DEF PassInv
<1>16. ASSUME NEW s \in Sagas, Complete(s) PROVE  PassInv'
  <2>0. Moves(s, "completed")
        BY <1>16, DriveMoves
  <2>1. OneOwner'
        BY <1>16, OwnersStay, <2>0 DEF Complete, Driving, DriveFits, InCleanup, Moves, Active, Phase, Target
  <2>2. CleanupIsEarned'
        BY <1>16, PermissionStays, <2>0 DEF Complete, Driving, DriveFits, Moves, InCleanup, Phase, Target, ledger, sidecar
  <2>3. DriveFits'
        BY <1>16, <2>0, GiveUpFacts DEF Complete, Moves, SamePlan, DriveFits, RestFits, MarkFits, InCleanup, Absent, Phase, Target, Driving, ledger, sidecar
  <2>4. RestFits'
        BY <1>16, <2>0, GiveUpFacts DEF Complete, Moves, RestFits, Driving, ledger, sidecar
  <2>5. ReadyFits'
        BY <1>16, <2>0, GiveUpFacts DEF Complete, Moves, ReadyFits, DriveFits, InCleanup, Phase, Driving, ledger, sidecar
  <2>6. MarkFits'
        BY <1>16, <2>0, GiveUpFacts DEF Complete, Moves, MarkFits, DriveFits, InCleanup, Phase, Driving, ledger, sidecar
  <2> QED
      BY <2>1, <2>2, <2>3, <2>4, <2>5, <2>6 DEF PassInv
<1>17. ASSUME NEW s \in Sagas, OutcomeUnknown(s) PROVE  PassInv'
  <2>1. OneOwner'
        BY <1>17, OwnersStay DEF OutcomeUnknown, Active, Phase, Target
  <2>2. CleanupIsEarned'
        BY <1>17, PermissionStays DEF OutcomeUnknown, InCleanup, Phase, Target, ledger, sidecar
  <2>3. DriveFits'
        BY <1>17, GiveUpFacts DEF OutcomeUnknown, DriveFits, RestFits, MarkFits, InCleanup, Absent, Phase, Target, Driving, ledger, sidecar
  <2>4. RestFits'
        BY <1>17, GiveUpFacts DEF OutcomeUnknown, RestFits, Driving, ledger, sidecar
  <2>5. ReadyFits'
        BY <1>17, GiveUpFacts DEF OutcomeUnknown, ReadyFits, DriveFits, Phase, Driving, ledger, sidecar
  <2>6. MarkFits'
        BY <1>17, GiveUpFacts DEF OutcomeUnknown, MarkFits, DriveFits, Phase, Driving, ledger, sidecar
  <2> QED
      BY <2>1, <2>2, <2>3, <2>4, <2>5, <2>6 DEF PassInv
<1>18. ASSUME NEW s \in Sagas, CallFails(s) PROVE  PassInv'
  <2>1. OneOwner'
        BY <1>18, OwnersStay DEF CallFails, Active, Phase, Target
  <2>2. CleanupIsEarned'
        BY <1>18, PermissionStays DEF CallFails, InCleanup, Phase, Target, ledger, sidecar
  <2>3. DriveFits'
        BY <1>18, GiveUpFacts DEF CallFails, DriveFits, RestFits, MarkFits, InCleanup, Absent, Phase, Target, Driving, ledger, sidecar
  <2>4. RestFits'
        BY <1>18, GiveUpFacts DEF CallFails, RestFits, Driving, ledger, sidecar
  <2>5. ReadyFits'
        BY <1>18, GiveUpFacts DEF CallFails, ReadyFits, DriveFits, Phase, Driving, ledger, sidecar
  <2>6. MarkFits'
        BY <1>18, GiveUpFacts DEF CallFails, MarkFits, DriveFits, Phase, Driving, ledger, sidecar
  <2> QED
      BY <2>1, <2>2, <2>3, <2>4, <2>5, <2>6 DEF PassInv
<1>19. CASE PassEnds
  <2>1. OneOwner'
        BY <1>19, OwnersStay DEF PassEnds, Active, Phase, Target
  <2>2. CleanupIsEarned'
        BY <1>19, PermissionStays DEF PassEnds, InCleanup, Phase, Target, ledger, sidecar
  <2>3. DriveFits'
        BY <1>19, IdleFacts DEF PassEnds, DriveFits, RestFits, MarkFits, InCleanup, Absent, Phase, Target, Driving, ledger, sidecar
  <2>4. RestFits'
        BY <1>19, IdleFacts DEF PassEnds, RestFits, Driving, ledger, sidecar
  <2>5. ReadyFits'
        BY <1>19, IdleFacts DEF PassEnds, ReadyFits, DriveFits, Phase, Driving, ledger, sidecar
  <2>6. MarkFits'
        BY <1>19, IdleFacts DEF PassEnds, MarkFits, DriveFits, Phase, Driving, ledger, sidecar
  <2> QED
      BY <2>1, <2>2, <2>3, <2>4, <2>5, <2>6 DEF PassInv
<1>20. CASE SyncSucceeds
  <2>1. OneOwner'
        BY <1>20, OwnersStay DEF SyncSucceeds, Active, Phase, Target
  <2>2. CleanupIsEarned'
        BY <1>20, PermissionStays, SynchronisedFacts DEF SyncSucceeds, InCleanup, Phase, Target, sidecar
  <2>3. DriveFits'
        BY <1>20, SyncFacts, SynchronisedFacts DEF SyncSucceeds, DriveFits, RestFits, MarkFits, InCleanup, Absent, Phase, Target, Driving, ledger, sidecar
  <2>4. RestFits'
        BY <1>20, SyncFacts, SynchronisedFacts DEF SyncSucceeds, AtSync, RestFits, ReadyFits
  <2>5. ReadyFits'
        BY <1>20, SyncFacts, SynchronisedFacts DEF SyncSucceeds, AtSync, ReadyFits, Phase
  <2>6. MarkFits'
        BY <1>20, SyncFacts, SynchronisedFacts DEF SyncSucceeds, AtSync, MarkFits, ReadyFits, Phase
  <2> QED
      BY <2>1, <2>2, <2>3, <2>4, <2>5, <2>6 DEF PassInv
<1>21. CASE StartSync
  <2>1. OneOwner'
        BY <1>21, OwnersStay DEF StartSync, Active, Phase, Target
  <2>2. CleanupIsEarned'
        BY <1>21, PermissionStays DEF StartSync, InCleanup, Phase, Target, ledger, sidecar
  <2>3. DriveFits'
        BY <1>21, StartFacts DEF StartSync, DriveFits, RestFits, MarkFits, InCleanup, Absent, Phase, Target, Driving, ledger, sidecar
  <2>4. RestFits'
        BY <1>21, StartFacts DEF StartSync, RestFits, Driving, ledger, sidecar
  <2>5. ReadyFits'
        BY <1>21, StartFacts DEF StartSync, ReadyFits, DriveFits, Phase, Driving, ledger, sidecar
  <2>6. MarkFits'
        BY <1>21, StartFacts DEF StartSync, MarkFits, DriveFits, Phase, Driving, ledger, sidecar
  <2> QED
      BY <2>1, <2>2, <2>3, <2>4, <2>5, <2>6 DEF PassInv
<1>22. CASE Restart
  <2>1. OneOwner'
        BY <1>22, OwnersStay DEF Restart, Active, Phase, Target
  <2>2. CleanupIsEarned'
        BY <1>22, PermissionStays, SynchronisedFacts DEF Restart, InCleanup, Phase, Target, ledger, sidecar
  <2>3. DriveFits'
        BY <1>22, StartFacts, SynchronisedFacts DEF Restart, DriveFits, RestFits, MarkFits, InCleanup, Absent, Phase, Target, Driving, ledger, sidecar
  <2>4. RestFits'
        BY <1>22, StartFacts, SynchronisedFacts DEF Restart, RestFits, Driving, ledger, sidecar
  <2>5. ReadyFits'
        BY <1>22, StartFacts, SynchronisedFacts DEF Restart, ReadyFits, DriveFits, Phase, Driving, ledger, sidecar
  <2>6. MarkFits'
        BY <1>22, StartFacts, SynchronisedFacts DEF Restart, MarkFits, DriveFits, Phase, Driving, ledger, sidecar
  <2> QED
      BY <2>1, <2>2, <2>3, <2>4, <2>5, <2>6 DEF PassInv
<1>23. CASE SyncFails
  <2>1. OneOwner'
        BY <1>23, OwnersStay DEF SyncFails, Active, Phase, Target
  <2>2. CleanupIsEarned'
        BY <1>23, PermissionStays, SynchronisedFacts DEF SyncFails, InCleanup, Phase, Target, ledger, sidecar
  <2>3. DriveFits'
        BY <1>23, IdleFacts, SynchronisedFacts DEF SyncFails, DriveFits, RestFits, MarkFits, InCleanup, Absent, Phase, Target, Driving, ledger, sidecar
  <2>4. RestFits'
        BY <1>23, IdleFacts, SynchronisedFacts DEF SyncFails, RestFits, Driving, ledger, sidecar
  <2>5. ReadyFits'
        BY <1>23, IdleFacts, SynchronisedFacts DEF SyncFails, ReadyFits, DriveFits, Phase, Driving, ledger, sidecar
  <2>6. MarkFits'
        BY <1>23, IdleFacts, SynchronisedFacts DEF SyncFails, MarkFits, DriveFits, Phase, Driving, ledger, sidecar
  <2> QED
      BY <2>1, <2>2, <2>3, <2>4, <2>5, <2>6 DEF PassInv
<1>24. CASE Crash
  <2>1. OneOwner'
        BY <1>24, OwnersStay DEF Crash, Active, Phase, Target
  <2>2. CleanupIsEarned'
        BY <1>24, PermissionStays DEF Crash, InCleanup, Phase, Target, ledger, sidecar
  <2>3. DriveFits'
        BY <1>24, IdleFacts DEF Crash, DriveFits, RestFits, MarkFits, InCleanup, Absent, Phase, Target, Driving, ledger, sidecar
  <2>4. RestFits'
        BY <1>24, IdleFacts DEF Crash, RestFits, Driving, ledger, sidecar
  <2>5. ReadyFits'
        BY <1>24, IdleFacts DEF Crash, ReadyFits, DriveFits, Phase, Driving, ledger, sidecar
  <2>6. MarkFits'
        BY <1>24, IdleFacts DEF Crash, MarkFits, DriveFits, Phase, Driving, ledger, sidecar
  <2> QED
      BY <2>1, <2>2, <2>3, <2>4, <2>5, <2>6 DEF PassInv
<1>25. CASE CacheReset
  <2>1. OneOwner'
        BY <1>25, OwnersStay DEF CacheReset, Active, Phase, Target
  <2>2. CleanupIsEarned'
        BY <1>25, PermissionStays DEF CacheReset, InCleanup, Phase, Target, ledger, sidecar
  <2>3. DriveFits'
        BY <1>25, IdleFacts DEF CacheReset, DriveFits, RestFits, MarkFits, InCleanup, Absent, Phase, Target, Driving, ledger, sidecar
  <2>4. RestFits'
        BY <1>25, IdleFacts DEF CacheReset, RestFits, Driving, ledger, sidecar
  <2>5. ReadyFits'
        BY <1>25, IdleFacts DEF CacheReset, ReadyFits, DriveFits, Phase, Driving, ledger, sidecar
  <2>6. MarkFits'
        BY <1>25, IdleFacts DEF CacheReset, MarkFits, DriveFits, Phase, Driving, ledger, sidecar
  <2> QED
      BY <2>1, <2>2, <2>3, <2>4, <2>5, <2>6 DEF PassInv
<1>26. ASSUME NEW t \in Txns, RemoteEdit(t) PROVE  PassInv'
  <2>1. OneOwner'
        BY <1>26, OwnersStay DEF RemoteEdit, Active, Phase, Target
  <2>2. CleanupIsEarned'
        BY <1>26, PermissionStays DEF RemoteEdit, InCleanup, Phase, Target, ledger, sidecar
  <2>3. DriveFits'
        BY <1>26 DEF RemoteEdit, DriveFits, RestFits, MarkFits, InCleanup, Absent, Phase, Target, Driving, ledger, sidecar
  <2>4. RestFits'
        BY <1>26 DEF RemoteEdit, RestFits, Driving, ledger, sidecar
  <2>5. ReadyFits'
        BY <1>26 DEF RemoteEdit, ReadyFits, DriveFits, Phase, Driving, ledger, sidecar
  <2>6. MarkFits'
        BY <1>26 DEF RemoteEdit, MarkFits, DriveFits, Phase, Driving, ledger, sidecar
  <2> QED
      BY <2>1, <2>2, <2>3, <2>4, <2>5, <2>6 DEF PassInv
<1>27. ASSUME NEW s \in Sagas, NEW t \in Txns, RemoveTransaction(s, t) PROVE  PassInv'
  <2>1. OneOwner'
        BY <1>27, RemoveFacts DEF OneOwner, Active, Available, Phase, Target
  <2>2. CleanupIsEarned'
        BY <1>27, PermissionStays, RemoveFacts DEF RemoveTransaction, InCleanup, Phase, Target, ledger, sidecar
  <2>3. DriveFits'
        BY <1>27, RemoveFacts DEF RemoveTransaction, DriveFits, RestFits, MarkFits, InCleanup, Absent, Phase, Target, Driving, ledger, sidecar
  <2>4. RestFits'
        BY <1>27, RemoveFacts DEF RemoveTransaction, RestFits, Driving, ledger, sidecar
  <2>5. ReadyFits'
        BY <1>27, RemoveFacts DEF RemoveTransaction, ReadyFits, DriveFits, Phase, Driving, ledger, sidecar
  <2>6. MarkFits'
        BY <1>27, RemoveFacts DEF RemoveTransaction, MarkFits, DriveFits, Phase, Driving, ledger, sidecar
  <2> QED
      BY <2>1, <2>2, <2>3, <2>4, <2>5, <2>6 DEF PassInv
<1>28. ASSUME NEW t \in Txns, NEW f \in Files, AddReceipt(t, f) PROVE  PassInv'
  <2>1. OneOwner'
        BY <1>28, OwnersStay DEF AddReceipt, Active, Phase, Target
  <2>2. CleanupIsEarned'
        BY <1>28 DEF AddReceipt, TypeOK, CleanupIsEarned, Available, Active, InCleanup, Converged, FilesOf, Phase, Target, ledger
  <2>3. DriveFits'
        BY <1>28 DEF AddReceipt, DriveFits, RestFits, MarkFits, InCleanup, Absent, Phase, Target, Driving, ledger, sidecar
  <2>4. RestFits'
        BY <1>28 DEF AddReceipt, RestFits, Driving, ledger, sidecar
  <2>5. ReadyFits'
        BY <1>28 DEF AddReceipt, ReadyFits, DriveFits, Phase, Driving, ledger, sidecar
  <2>6. MarkFits'
        BY <1>28 DEF AddReceipt, MarkFits, DriveFits, Phase, Driving, ledger, sidecar
  <2> QED
      BY <2>1, <2>2, <2>3, <2>4, <2>5, <2>6 DEF PassInv
<1>29. ASSUME NEW t \in Txns, NEW k \in Range(RefSteps), AddReference(k, t) PROVE  PassInv'
  <2>1. OneOwner'
        BY <1>29, OwnersStay DEF AddReference, Active, Phase, Target
  <2>2. CleanupIsEarned'
        BY <1>29 DEF AddReference, TypeOK, CleanupIsEarned, Available, Active, InCleanup, Converged, FilesOf, Phase, Target, ledger
  <2>3. DriveFits'
        BY <1>29 DEF AddReference, DriveFits, RestFits, MarkFits, InCleanup, Absent, Phase, Target, Driving, ledger, sidecar
  <2>4. RestFits'
        BY <1>29 DEF AddReference, RestFits, Driving, ledger, sidecar
  <2>5. ReadyFits'
        BY <1>29 DEF AddReference, ReadyFits, DriveFits, Phase, Driving, ledger, sidecar
  <2>6. MarkFits'
        BY <1>29 DEF AddReference, MarkFits, DriveFits, Phase, Driving, ledger, sidecar
  <2> QED
      BY <2>1, <2>2, <2>3, <2>4, <2>5, <2>6 DEF PassInv
<1>30. CASE UNCHANGED vars
  <2>1. OneOwner'
        BY <1>30, OwnersStay DEF vars, Active, Phase, Target
  <2>2. CleanupIsEarned'
        BY <1>30, PermissionStays DEF vars, InCleanup, Phase, Target, ledger, sidecar
  <2>3. DriveFits'
        BY <1>30 DEF vars, DriveFits, RestFits, MarkFits, InCleanup, Absent, Phase, Target, Driving, ledger, sidecar
  <2>4. RestFits'
        BY <1>30 DEF vars, RestFits, Driving, ledger, sidecar
  <2>5. ReadyFits'
        BY <1>30 DEF vars, ReadyFits, DriveFits, Phase, Driving, ledger, sidecar
  <2>6. MarkFits'
        BY <1>30 DEF vars, MarkFits, DriveFits, Phase, Driving, ledger, sidecar
  <2> QED
      BY <2>1, <2>2, <2>3, <2>4, <2>5, <2>6 DEF PassInv
<1> QED
    BY <1>1, <1>2, <1>3, <1>4, <1>5, <1>6, <1>7, <1>8, <1>9, <1>10, <1>11, <1>12,
       <1>13, <1>14, <1>15, <1>16, <1>17, <1>18, <1>19, <1>20, <1>21, <1>22, <1>23, <1>24,
       <1>25, <1>26, <1>27, <1>28, <1>29, <1>30
    DEF Next, PassStep, SagaStep, Environment, Requests

----------------------------------------------------------------------------
(***************************************************************************)
(* The bytes and who mentions them.                                        *)
(***************************************************************************)
\* A step that touches neither records nor receipts nor bytes.
LEMMA FilesQuiet ==
    ASSUME FileInv, UNCHANGED <<saga, receipts, disk>>
    PROVE  FileInv'
  BY DEF FileInv, OneMention, CleanedLate, PlansCover, BytesMatchRecords,
         RecordedBytesExist, NoOrphanBytes, Referenced, Active, Phase, Target

\* A record that goes on with its plan, which may only grow.
LEMMA FilesMove ==
    ASSUME FileInv, UNCHANGED <<receipts, disk>>,
           NEW s \in Sagas, NEW p \in Phases, Moves(s, p),
           saga'[s].cleaned = saga[s].cleaned,
           s \in Active /\ p \notin {"none", "completed"},
           InCleanup(s) => p = "receipt_cleanup_pending"
    PROVE  FileInv'
<1>1. \A r \in Sagas : /\ r \in Active' <=> r \in Active
                       /\ Target(r)' = Target(r)
                       /\ saga[r].files \subseteq saga'[r].files
                       /\ saga'[r].cleaned = saga[r].cleaned
    BY DEF Moves, Active, Phase, Target
<1>2. OneMention' /\ RecordedBytesExist'
    BY DEF FileInv, OneMention, BytesMatchRecords, RecordedBytesExist
<1>3. CleanedLate'
    BY <1>1 DEF FileInv, CleanedLate, Moves, InCleanup, Active, Phase
<1>4. PlansCover'
    BY <1>1 DEF FileInv, PlansCover, Active
<1>5. NoOrphanBytes'
    BY <1>1 DEF FileInv, BytesMatchRecords, NoOrphanBytes, Referenced, Active
<1> QED
    BY <1>2, <1>3, <1>4, <1>5 DEF FileInv, BytesMatchRecords

\* A record that only notes a step.
LEMMA SameRecords ==
    ASSUME FileInv, UNCHANGED <<receipts, disk>>,
           \A r \in Sagas : /\ saga'[r].phase = saga[r].phase
                            /\ saga'[r].target = saga[r].target
                            /\ saga'[r].files = saga[r].files
                            /\ saga'[r].cleaned = saga[r].cleaned
    PROVE  FileInv'
<1>1. Active' = Active
    BY DEF Active, Phase
<1>2. OneMention' /\ RecordedBytesExist' /\ CleanedLate'
    BY DEF FileInv, OneMention, BytesMatchRecords, RecordedBytesExist,
           CleanedLate, Phase
<1>3. PlansCover' /\ NoOrphanBytes'
    BY <1>1 DEF FileInv, PlansCover, BytesMatchRecords, NoOrphanBytes,
                Referenced, Active, Target
<1> QED
    BY <1>2, <1>3 DEF FileInv, BytesMatchRecords

\* A receipt is a pair.
LEMMA ReceiptIsPair ==
    ASSUME TypeOK, NEW r \in receipts
    PROVE  r = <<r[1], r[2]>> /\ r[1] \in Txns /\ r[2] \in Files
  BY DEF TypeOK

LEMMA FilesHold ==
    TypeOK /\ DriveFits /\ FileInv /\ [Next]_vars => FileInv'
<1> SUFFICES ASSUME TypeOK, DriveFits, FileInv, [Next]_vars PROVE FileInv'
    OBVIOUS
<1> USE DeletionAssumption
<1>1. ASSUME NEW s \in Sagas, PickSaga(s) PROVE  FileInv'
    BY <1>1, FilesQuiet DEF PickSaga, ledger, sidecar
<1>2. ASSUME NEW s \in Sagas, Intent(s) PROVE  FileInv'
  <2>1. Moves(s, "delete_pending") /\ saga'[s].cleaned = saga[s].cleaned
        BY <1>2, DriveMoves DEF SamePlan
  <2>2. s \in Active /\ ~InCleanup(s) /\ UNCHANGED <<receipts, disk>>
        BY <1>2 DEF Intent, Active, InCleanup, DriveFits, Driving, sidecar, Phase
  <2> QED
      BY <2>1, <2>2, FilesMove DEF Phases
<1>3. ASSUME NEW s \in Sagas, Revalidate(s) PROVE  FileInv'
    BY <1>3, FilesQuiet DEF Revalidate, ledger, sidecar
<1>4. ASSUME NEW s \in Sagas, DeleteRow(s) PROVE  FileInv'
    BY <1>4, FilesQuiet DEF DeleteRow, ledger, sidecar
<1>5. ASSUME NEW s \in Sagas, VerifyGone(s) PROVE  FileInv'
  <2>1. Moves(s, "actual_deleted") /\ saga'[s].cleaned = saga[s].cleaned
        BY <1>5, DriveMoves DEF SamePlan
  <2>2. s \in Active /\ ~InCleanup(s) /\ UNCHANGED <<receipts, disk>>
        BY <1>5 DEF VerifyGone, Active, InCleanup, DriveFits, Driving, sidecar, Phase
  <2> QED
      BY <2>1, <2>2, FilesMove DEF Phases
<1>6. ASSUME NEW s \in Sagas, PlanReferences(s) PROVE  FileInv'
  <2>1. Moves(s, "references_pending") /\ saga'[s].cleaned = saga[s].cleaned
        BY <1>6, DriveMoves DEF SamePlan
  <2>2. s \in Active /\ ~InCleanup(s) /\ UNCHANGED <<receipts, disk>>
        BY <1>6 DEF PlanReferences, Active, InCleanup, DriveFits, Driving, sidecar, Phase
  <2> QED
      BY <2>1, <2>2, FilesMove DEF Phases
<1>7. ASSUME NEW s \in Sagas, WriteStep(s) PROVE  FileInv'
  <2>1. /\ s \in Active /\ Phase(s) = "references_pending"
        /\ UNCHANGED <<saga, disk>> /\ receipts' \subseteq receipts
        /\ \A r \in receipts : r[1] # Target(s) => r \in receipts'
        BY <1>7 DEF WriteStep, Active, ledger
  <2>2. saga[s].cleaned = {}
        BY <2>1 DEF FileInv, CleanedLate
  <2>3. OneMention' /\ CleanedLate' /\ PlansCover' /\ RecordedBytesExist'
        BY <2>1 DEF FileInv, OneMention, CleanedLate, PlansCover, Active,
             BytesMatchRecords, RecordedBytesExist, Phase, Target
  <2>4. ASSUME NEW f \in disk \ SharedFiles, NEW r \in receipts, r[2] = f
        PROVE  Referenced(f)' \/ f \in saga[s].files \ saga[s].cleaned
    <3>1. CASE r[1] # Target(s)
          BY <2>1, <2>4, <3>1 DEF Referenced
    <3>2. CASE r[1] = Target(s)
      <4>1. f \in Files \ SharedFiles /\ <<Target(s), f>> \in receipts
            BY <2>4, <3>2, ReceiptIsPair
      <4> QED
          BY <2>1, <2>2, <4>1 DEF FileInv, PlansCover
    <3> QED
        BY <3>1, <3>2
  <2>5. Active' = Active
        BY <2>1 DEF Active, Phase
  <2>6. NoOrphanBytes'
        BY <2>1, <2>4, <2>5 DEF FileInv, BytesMatchRecords, NoOrphanBytes, Referenced
  <2> QED
      BY <2>3, <2>6 DEF FileInv, BytesMatchRecords
<1>8. ASSUME NEW s \in Sagas, StepDone(s) PROVE  FileInv'
  <2>1. Moves(s, Phase(s)) /\ SamePlan(s) /\ UNCHANGED <<receipts, disk>>
        BY <1>8, DriveMoves DEF StepDone, sidecar, Phase
  <2>2. \A r \in Sagas : /\ saga'[r].phase = saga[r].phase
                         /\ saga'[r].target = saga[r].target
                         /\ saga'[r].files = saga[r].files
                         /\ saga'[r].cleaned = saga[r].cleaned
        BY <2>1 DEF Moves, SamePlan, Phase
  <2> QED
      BY <2>1, <2>2, SameRecords
<1>9. ASSUME NEW s \in Sagas, ReferencesDeleted(s) PROVE  FileInv'
  <2>1. Moves(s, "references_deleted") /\ saga'[s].cleaned = saga[s].cleaned
        BY <1>9, DriveMoves DEF SamePlan
  <2>2. s \in Active /\ ~InCleanup(s) /\ UNCHANGED <<receipts, disk>>
        BY <1>9 DEF ReferencesDeleted, Active, InCleanup, DriveFits, Driving, sidecar, Phase
  <2> QED
      BY <2>1, <2>2, FilesMove DEF Phases
<1>10. ASSUME NEW s \in Sagas, SyncPending(s) PROVE  FileInv'
  <2>1. Moves(s, "sync_pending") /\ saga'[s].cleaned = saga[s].cleaned
        BY <1>10, DriveMoves DEF SamePlan
  <2>2. s \in Active /\ ~InCleanup(s) /\ UNCHANGED <<receipts, disk>>
        BY <1>10 DEF SyncPending, Active, InCleanup, DriveFits, Driving, sidecar, Phase
  <2> QED
      BY <2>1, <2>2, FilesMove DEF Phases
<1>11. ASSUME NEW s \in Sagas, NeedsSync(s) PROVE  FileInv'
    BY <1>11, FilesQuiet DEF NeedsSync, ledger, sidecar
<1>12. ASSUME NEW s \in Sagas, AllowCleanup(s) PROVE  FileInv'
  <2>1. Moves(s, "receipt_cleanup_pending") /\ saga'[s].cleaned = saga[s].cleaned
        BY <1>12, DriveMoves DEF SamePlan
  <2>2. s \in Active /\ UNCHANGED <<receipts, disk>>
        BY <1>12 DEF AllowCleanup, Active, sidecar, Phase
  <2> QED
      BY <2>1, <2>2, FilesMove DEF Phases
<1>13. ASSUME NEW s \in Sagas, ResumeCleanup(s) PROVE  FileInv'
    BY <1>13, FilesQuiet DEF ResumeCleanup, ledger, sidecar
<1>14. ASSUME NEW s \in Sagas, CleanFile(s) PROVE  FileInv'
  <2>1. /\ UNCHANGED <<saga, receipts>> /\ disk' \subseteq disk
        /\ \A f \in disk : Referenced(f) => f \in disk'
        BY <1>14 DEF CleanFile
  <2>2. OneMention' /\ CleanedLate' /\ PlansCover'
        BY <2>1 DEF FileInv, OneMention, CleanedLate, PlansCover, Active, Phase, Target
  <2>3. RecordedBytesExist'
        BY <2>1 DEF FileInv, BytesMatchRecords, RecordedBytesExist, Referenced
  <2>4. NoOrphanBytes'
        BY <2>1 DEF FileInv, BytesMatchRecords, NoOrphanBytes, Referenced, Active, Phase
  <2> QED
      BY <2>2, <2>3, <2>4 DEF FileInv, BytesMatchRecords
<1>15. ASSUME NEW s \in Sagas, FileDone(s) PROVE  FileInv'
  <2>1. /\ Moves(s, Phase(s)) /\ saga'[s].files = saga[s].files
        /\ saga'[s].cleaned = saga[s].cleaned \cup {NextFile(s)}
        /\ UNCHANGED <<receipts, disk>>
        BY <1>15, DriveMoves DEF FileDone, sidecar, Phase
  <2>2. /\ InCleanup(s)
        /\ NextFile(s) \notin disk \/ Referenced(NextFile(s))
        BY <1>15 DEF FileDone, DriveFits, Driving
  <2>3. \A r \in Sagas : /\ Phase(r)' = Phase(r) /\ Target(r)' = Target(r)
                         /\ saga'[r].files = saga[r].files
        BY <2>1 DEF Moves, Phase, Target
  <2>4. Active' = Active
        BY <2>3 DEF Active
  <2>5. \A r \in Sagas : r # s => saga'[r] = saga[r]
        BY <2>1 DEF Moves
  <2>6. OneMention' /\ RecordedBytesExist'
        BY <2>1 DEF FileInv, OneMention, BytesMatchRecords, RecordedBytesExist
  <2>7. CleanedLate'
        BY <2>2, <2>3, <2>5 DEF FileInv, CleanedLate, InCleanup
  <2>8. PlansCover'
        BY <2>1, <2>3, <2>4 DEF FileInv, PlansCover, Active
  <2>9. NoOrphanBytes'
    <3>1. ASSUME NEW f \in disk \ SharedFiles, ~Referenced(f), NEW r \in Active,
                 f \in saga[r].files \ saga[r].cleaned
          PROVE  f \in saga'[r].files \ saga'[r].cleaned
          BY <2>1, <2>2, <2>3, <2>5, <3>1 DEF Active
    <3> QED
        BY <2>1, <2>4, <3>1 DEF FileInv, BytesMatchRecords, NoOrphanBytes, Referenced
  <2> QED
      BY <2>6, <2>7, <2>8, <2>9 DEF FileInv, BytesMatchRecords
<1>16. ASSUME NEW s \in Sagas, Complete(s) PROVE  FileInv'
  <2>1. /\ Moves(s, "completed") /\ SamePlan(s) /\ UNCHANGED <<receipts, disk>>
        /\ saga[s].files \subseteq saga[s].cleaned
        BY <1>16, DriveMoves DEF Complete, sidecar
  <2>2. InCleanup(s)
        BY <1>16 DEF Complete, DriveFits, Driving
  <2>3. Active' = Active \ {s}
        BY <2>1 DEF Moves, Active, Phase
  <2>4. \A r \in Sagas : r # s => saga'[r] = saga[r]
        BY <2>1 DEF Moves
  <2>5. OneMention' /\ RecordedBytesExist'
        BY <2>1 DEF FileInv, OneMention, BytesMatchRecords, RecordedBytesExist
  <2>6. CleanedLate'
        BY <2>1, <2>4 DEF FileInv, CleanedLate, Moves, Phase
  <2>7. PlansCover'
        BY <2>1, <2>3, <2>4 DEF FileInv, PlansCover, Active, Target
  <2>8. NoOrphanBytes'
        BY <2>1, <2>3, <2>4 DEF FileInv, BytesMatchRecords, NoOrphanBytes,
             Referenced, Active
  <2> QED
      BY <2>5, <2>6, <2>7, <2>8 DEF FileInv, BytesMatchRecords
<1>17. ASSUME NEW s \in Sagas, OutcomeUnknown(s) PROVE  FileInv'
    BY <1>17, FilesQuiet DEF OutcomeUnknown, ledger, sidecar
<1>18. ASSUME NEW s \in Sagas, CallFails(s) PROVE  FileInv'
    BY <1>18, FilesQuiet DEF CallFails, ledger, sidecar
<1>19. CASE PassEnds
    BY <1>19, FilesQuiet DEF PassEnds, ledger, sidecar
<1>20. CASE SyncSucceeds
    BY <1>20, FilesQuiet DEF SyncSucceeds, ledger, sidecar
<1>21. CASE StartSync
    BY <1>21, FilesQuiet DEF StartSync, ledger, sidecar
<1>22. CASE Restart
    BY <1>22, FilesQuiet DEF Restart, ledger, sidecar
<1>23. CASE SyncFails
    BY <1>23, FilesQuiet DEF SyncFails, ledger, sidecar
<1>24. CASE Crash
    BY <1>24, FilesQuiet DEF Crash, ledger, sidecar
<1>25. CASE CacheReset
    BY <1>25, FilesQuiet DEF CacheReset, ledger, sidecar
<1>26. ASSUME NEW t \in Txns, RemoteEdit(t) PROVE  FileInv'
    BY <1>26, FilesQuiet DEF RemoteEdit, ledger, sidecar
<1>27. ASSUME NEW s \in Sagas, NEW t \in Txns, RemoveTransaction(s, t) PROVE  FileInv'
  <2>1. UNCHANGED <<receipts, disk>>
        BY <1>27 DEF RemoveTransaction, sidecar
  <2>2. Active' = Active \cup {s} /\ s \notin Active
        BY <1>27, RemoveFacts DEF Active, Phase
  <2>3. \A r \in Sagas : r # s => saga'[r] = saga[r]
        BY <1>27, RemoveFacts
  <2>4. OneMention' /\ RecordedBytesExist'
        BY <2>1 DEF FileInv, OneMention, BytesMatchRecords, RecordedBytesExist
  <2>5. CleanedLate'
        BY <1>27, <2>3, RemoveFacts DEF FileInv, CleanedLate, Phase
  <2>6. ASSUME NEW f \in Files \ SharedFiles, <<t, f>> \in receipts
        PROVE  f \in PlannedFiles(t)
    <3>1. f \in FilesOf(t)
          BY <2>6 DEF FilesOf
    <3>2. \A r \in receipts : r[2] = f => r = <<t, f>>
          BY <2>6 DEF FileInv, OneMention
    <3> QED
        BY <3>1, <3>2 DEF PlannedFiles
  <2>7. PlansCover'
    <3>1. ASSUME NEW r \in Active', NEW f \in Files \ SharedFiles,
                 <<saga'[r].target, f>> \in receipts
          PROVE  f \in saga'[r].files
      <4>1. CASE r = s
        <5>1. saga'[s].target = t /\ saga'[s].files = PlannedFiles(t)
              BY <1>27, RemoveFacts
        <5> QED
            BY <2>6, <3>1, <4>1, <5>1
      <4>2. CASE r # s
            BY <2>2, <2>3, <3>1, <4>2 DEF FileInv, PlansCover, Active, Target
      <4> QED
          BY <4>1, <4>2
    <3> QED
        BY <2>1, <3>1 DEF PlansCover, Target
  <2>8. NoOrphanBytes'
        BY <2>1, <2>2, <2>3 DEF FileInv, BytesMatchRecords, NoOrphanBytes,
             Referenced, Active
  <2> QED
      BY <2>4, <2>5, <2>7, <2>8 DEF FileInv, BytesMatchRecords
<1>28. ASSUME NEW t \in Txns, NEW f \in Files, AddReceipt(t, f) PROVE  FileInv'
  <2>1. /\ UNCHANGED saga /\ Available(t) /\ f \notin disk
        /\ receipts' = receipts \cup {<<t, f>>} /\ disk' = disk \cup {f}
        BY <1>28 DEF AddReceipt
  <2>2. ~Referenced(f)
        BY <2>1 DEF FileInv, BytesMatchRecords, RecordedBytesExist, Referenced
  <2>3. OneMention'
        BY <2>1, <2>2 DEF FileInv, OneMention, Referenced
  <2>4. CleanedLate' /\ PlansCover'
        BY <2>1 DEF FileInv, CleanedLate, PlansCover, Available, Active, Phase, Target
  <2>5. RecordedBytesExist'
        BY <2>1 DEF FileInv, BytesMatchRecords, RecordedBytesExist
  <2>6. \A g : Referenced(g) => Referenced(g)'
        BY <2>1 DEF Referenced
  <2>7. Referenced(f)'
    <3>1. <<t, f>> \in receipts' /\ <<t, f>>[2] = f
          BY <2>1
    <3> QED
        BY <3>1 DEF Referenced
  <2>8. NoOrphanBytes'
        BY <2>1, <2>6, <2>7 DEF FileInv, BytesMatchRecords, NoOrphanBytes,
             Active, Phase
  <2> QED
      BY <2>3, <2>4, <2>5, <2>8 DEF FileInv, BytesMatchRecords
<1>29. ASSUME NEW t \in Txns, NEW k \in Range(RefSteps), AddReference(k, t) PROVE  FileInv'
    BY <1>29, FilesQuiet DEF AddReference, ledger, sidecar
<1>30. CASE UNCHANGED vars
    BY <1>30, FilesQuiet DEF vars, ledger, sidecar
<1> QED
    BY <1>1, <1>2, <1>3, <1>4, <1>5, <1>6, <1>7, <1>8, <1>9, <1>10, <1>11, <1>12,
       <1>13, <1>14, <1>15, <1>16, <1>17, <1>18, <1>19, <1>20, <1>21, <1>22, <1>23, <1>24,
       <1>25, <1>26, <1>27, <1>28, <1>29, <1>30
    DEF Next, PassStep, SagaStep, Environment, Requests

----------------------------------------------------------------------------
(***************************************************************************)
(* The theorems.                                                           *)
(***************************************************************************)
\* A file that is not shared has one record at the start.
LEMMA SharedAtTheStart ==
    ASSUME NEW q \in InitialReceipts, NEW r \in InitialReceipts,
           q[2] = r[2], q[2] \notin SharedFiles
    PROVE  q = r
<1> USE DeletionAssumption
<1>1. /\ q = <<q[1], q[2]>> /\ r = <<r[1], q[2]>>
      /\ q[1] \in Txns /\ r[1] \in Txns /\ q[2] \in Files
    OBVIOUS
<1> DEFINE A == {t \in Txns : <<t, q[2]>> \in InitialReceipts}
<1>2. IsFiniteSet(A) /\ ~ Cardinality(A) > 1
  <2>1. A \subseteq Txns
        OBVIOUS
  <2>2. IsFiniteSet(A)
        BY <2>1, FS_Subset
  <2> QED
      BY <1>1, <2>2 DEF SharedFiles
<1>3. {q[1], r[1]} \subseteq A
    BY <1>1
<1>4. ASSUME q[1] # r[1] PROVE FALSE
  <2> DEFINE B == {q[1]} \cup {r[1]}
  <2>1. IsFiniteSet({q[1]}) /\ Cardinality({q[1]}) = 1
        BY FS_Singleton
  <2>2. r[1] \notin {q[1]} /\ B \subseteq A
        BY <1>3, <1>4
  <2>3. Cardinality(B) = Cardinality({q[1]}) + 1
        BY <2>1, <2>2, FS_AddElement
  <2> HIDE DEF A, B
  <2>4. Cardinality(B) <= Cardinality(A) /\ Cardinality(A) \in Nat
        BY <1>2, <2>2, FS_Subset, FS_CardinalityType
  <2> QED
      BY <1>2, <2>1, <2>3, <2>4
<1> QED
    BY <1>1, <1>4

\* The initial states satisfy the inductive invariant.
LEMMA DeletionInit == Init => DeletionInv
<1> SUFFICES ASSUME Init PROVE DeletionInv
    OBVIOUS
<1> USE DeletionAssumption
<1>1. /\ NoRecord \in Records /\ NoRecord.phase = "none"
      /\ NoRecord.cleaned = {}
    BY DEF NoRecord, Records, Phases, Shapes
<1>2. \A s \in Sagas : saga[s] = NoRecord
    BY DEF Init
<1>3. Active = {}
    BY <1>1, <1>2 DEF Active, Phase
<1>4. TypeOK
  <2>1. server \in [Txns -> Rows] /\ local \in [Txns -> Rows]
        BY DEF Init, Rows, Shapes
  <2>2. receipts \subseteq Txns \X Files /\ disk \subseteq Files
        BY DEF Init
  <2>3. saga \in [Sagas -> Records] /\ run \in Passes
        BY <1>1, IdleFacts DEF Init
  <2> QED
      BY <2>1, <2>2, <2>3 DEF Init, TypeOK
<1>5. PassInv
  <2>1. run = Idle /\ up
        BY DEF Init
  <2>2. OneOwner /\ CleanupIsEarned
        BY <1>1, <1>2, <1>3 DEF OneOwner, CleanupIsEarned, InCleanup, Phase
  <2> QED
      BY <2>1, <2>2, IdleFacts DEF PassInv, DriveFits, RestFits, ReadyFits, MarkFits
<1>6. FileInv
  <2>1. OneMention
        BY SharedAtTheStart DEF Init, OneMention
  <2>2. CleanedLate /\ PlansCover
        BY <1>1, <1>2, <1>3 DEF CleanedLate, PlansCover
  <2>3. RecordedBytesExist
        BY DEF Init, RecordedBytesExist
  <2>4. \A f \in disk : Referenced(f)
        BY DEF Init, Referenced
  <2>5. NoOrphanBytes
        BY <2>4 DEF NoOrphanBytes
  <2> QED
      BY <2>1, <2>2, <2>3, <2>5 DEF FileInv, BytesMatchRecords
<1> QED
    BY <1>4, <1>5, <1>6 DEF DeletionInv

LEMMA DeletionStep == DeletionInv /\ [Next]_vars => DeletionInv'
  BY TypeStep, PassHolds, FilesHold DEF DeletionInv, PassInv

\* The inductive invariant holds of every reachable state.
THEOREM DeletionInvariant == Spec => []DeletionInv
<1> QED
    BY DeletionInit, DeletionStep, PTL DEF Spec

\* The state is well-formed: what the saga file, the sidecar stores and a pass
\* can hold, whatever fails (loadState, drive).
THEOREM DeletionTypes == Spec => []TypeOK
<1>1. DeletionInv => TypeOK
    BY DEF DeletionInv
<1> QED
    BY <1>1, DeletionInvariant, PTL

\* Every receipt on record has its bytes, and all bytes have a receipt or a
\* deletion that has still to unlink them (planReferences, receiptFileState,
\* cleanupReceiptFiles).
THEOREM ReceiptsKeepTheirBytes == Spec => []BytesMatchRecords
<1>1. DeletionInv => BytesMatchRecords
    BY DEF DeletionInv, FileInv
<1> QED
    BY <1>1, DeletionInvariant, PTL

\* What the two destructive calls of a drive touch.
LEMMA DeletesAdmitted ==
    ASSUME DeletionInv, [Next]_vars, NEW t \in unsynced' \ unsynced
    PROVE  \E s \in Sagas : /\ Phase(s) = "delete_pending" /\ Target(s) = t
                            /\ local[t] = saga[s].shape
<1> USE DeletionAssumption
<1>1. PICK s \in Sagas : DeleteRow(s) /\ t = Target(s)
    BY SynchronisedFacts
    DEF DeletionInv, Next, PassStep, SagaStep, Environment, Requests, vars, ledger,
        PickSaga, Intent, Revalidate, DeleteRow, VerifyGone, PlanReferences,
        WriteStep, StepDone, ReferencesDeleted, SyncPending, NeedsSync,
        AllowCleanup, ResumeCleanup, CleanFile, FileDone, Complete,
        OutcomeUnknown, CallFails, PassEnds, SyncSucceeds, StartSync, Restart,
        SyncFails, Crash, CacheReset, RemoteEdit, RemoveTransaction,
        AddReceipt, AddReference
<1> QED
    BY <1>1 DEF DeletionInv, PassInv, DriveFits, DeleteRow, Driving, Phase, Target

LEMMA UnlinksPermitted ==
    ASSUME DeletionInv, [Next]_vars, NEW f \in disk \ disk'
    PROVE  \E s \in Sagas : /\ Phase(s) = "receipt_cleanup_pending"
                            /\ f \in saga[s].files
                            /\ Absent(s) /\ Target(s) \notin unsynced
<1> USE DeletionAssumption
<1>1. PICK s \in Sagas : CleanFile(s) /\ f = NextFile(s)
    BY DEF Next, PassStep, SagaStep, Environment, Requests, vars, sidecar,
        PickSaga, Intent, Revalidate, DeleteRow, VerifyGone, PlanReferences,
        WriteStep, StepDone, ReferencesDeleted, SyncPending, NeedsSync,
        AllowCleanup, ResumeCleanup, CleanFile, FileDone, Complete,
        OutcomeUnknown, CallFails, PassEnds, SyncSucceeds, StartSync, Restart,
        SyncFails, Crash, CacheReset, RemoteEdit, RemoveTransaction,
        AddReceipt, AddReference
<1>2. f \in saga[s].files
    BY <1>1, NextFileIsPlanned DEF CleanFile
<1> QED
    BY <1>1, <1>2 DEF DeletionInv, PassInv, DriveFits, CleanupIsEarned, CleanFile,
       Driving, InCleanup, Phase, Target

\* A saga deletes the row it admitted and nothing else, and unlinks a file of
\* its plan once its own deletion has reached the server (targetMatches,
\* exactRows, unlinkReceiptFile).
THEOREM DeletionSparesTheRest == Spec => DestroysOnlyWhatWasAdmitted
<1>1. DeletionInv /\ [Next]_vars =>
        [\A t \in unsynced' \ unsynced : \E s \in Sagas :
            /\ Phase(s) = "delete_pending" /\ Target(s) = t
            /\ local[t] = saga[s].shape]_vars
    BY DeletesAdmitted
<1>2. DeletionInv /\ [Next]_vars =>
        [\A f \in disk \ disk' : \E s \in Sagas :
            /\ Phase(s) = "receipt_cleanup_pending" /\ f \in saga[s].files
            /\ Absent(s) /\ Target(s) \notin unsynced]_vars
    BY UnlinksPermitted
<1> QED
    BY <1>1, <1>2, DeletionInvariant, PTL
    DEF Spec, DestroysOnlyWhatWasAdmitted, DeletesOnlyWhatWasAdmitted,
        BytesOutliveTheDeletion

LEMMA CompletesClean ==
    ASSUME DeletionInv, [Next]_vars, NEW s \in Sagas,
           Phase(s) # "completed", saga'[s].phase = "completed"
    PROVE  /\ Absent(s) /\ Target(s) \notin unsynced
           /\ Converged(Target(s))
           /\ \A f \in saga[s].files : f \notin disk \/ Referenced(f)
<1> USE DeletionAssumption
<1>1. Complete(s)
    BY DriveMoves, RemoveFacts
    DEF DeletionInv, PassInv, Moves, Next, PassStep, SagaStep, Environment,
        Requests, vars, Phase,
        PickSaga, Revalidate, DeleteRow, WriteStep, NeedsSync,
        ResumeCleanup, CleanFile,
        OutcomeUnknown, CallFails, PassEnds, SyncSucceeds, StartSync, Restart,
        SyncFails, Crash, CacheReset, RemoteEdit,
        AddReceipt, AddReference
<1> QED
    BY <1>1 DEF DeletionInv, PassInv, DriveFits, CleanupIsEarned, Complete,
       Driving, InCleanup

\* A completed record stands for a deletion that is finished in the ledger, in
\* every store and in the receipts directory (auditOutcome).
THEOREM CompletedMeansDone == Spec => CompletionIsClean
<1>1. DeletionInv /\ [Next]_vars =>
        [\A s \in Sagas : Phase(s) # "completed" /\ saga'[s].phase = "completed" =>
            /\ Absent(s) /\ Target(s) \notin unsynced
            /\ Converged(Target(s))
            /\ \A f \in saga[s].files : f \notin disk \/ Referenced(f)]_vars
    BY CompletesClean
<1> QED
    BY <1>1, DeletionInvariant, PTL DEF Spec, CompletionIsClean
=============================================================================
