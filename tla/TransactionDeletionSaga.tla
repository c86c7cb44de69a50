--------------------- MODULE TransactionDeletionSaga ---------------------
(***************************************************************************)
(* finance-dashboard/lib/transaction-deletion-saga.js and the functions of *)
(* dataModule.js it is built with: the durable saga that removes a         *)
(* transaction from Actual, then its references from the sidecar stores,   *)
(* then, once Actual has synchronised, the bytes of its receipts.          *)
(*                                                                         *)
(* The file of saga records, the sidecar stores and the receipts directory *)
(* survive a crash; the pass that drives the sagas does not.  Actual is a  *)
(* local copy, which deleteTransaction edits, and the server behind it,    *)
(* which only api.sync() reaches and which other devices edit as well.     *)
(* The coordinator's lane runs one pass at a time (ActualCoordinator), the *)
(* sidecar writers of other requests run between any two of its steps.     *)
(***************************************************************************)
EXTENDS Naturals, FiniteSets, Sequences, Functions

CONSTANTS
    Sagas,             \* saga records that can be created, in that order
    Txns,              \* transactions of the account (parent and legs are one)
    Files,             \* receipt file names
    NoSaga,            \* no saga is being driven
    RefSteps,          \* the sidecar stores after the receipts, in step order
    InitialReceipts,   \* receipt records <<transaction, file>> at the start
    MaxTrouble         \* bound: calls that fail, crashes, losses of the local
                       \* copy and edits made by other devices, all together

ASSUME DeletionAssumption ==
    /\ Sagas \subseteq Nat
    /\ NoSaga \notin Sagas
    /\ Txns # {} /\ IsFiniteSet(Txns)
    /\ InitialReceipts \subseteq Txns \X Files
    /\ RefSteps \in Seq(STRING)
    /\ "receipts" \notin Range(RefSteps)
    /\ MaxTrouble \in Nat

VARIABLES
    server,      \* what the Actual server holds of each transaction
    local,       \* what the local copy holds of it
    unsynced,    \* transactions deleted locally and not yet on the server
    saga,        \* transaction-deletion-sagas.json
    receipts,    \* receipts.json: records <<transaction, file>>
    refs,        \* the other sidecar stores: who each of them mentions
    disk,        \* files of the receipts directory
    run,         \* the pass in progress: recover, remove or markSynced
    up,          \* the process is running
    left,        \* what remains of MaxTrouble
    disturbed    \* history: transactions edited behind the saga's back

ledger  == <<server, local, unsynced>>
sidecar == <<receipts, refs, disk>>
vars    == <<ledger, saga, sidecar, run, up, left, disturbed>>

----------------------------------------------------------------------------
(***************************************************************************)
(* Data.  A row is a shape (what the fingerprint covers), or found in      *)
(* another account, or reduced to a leg without its parent, or gone.       *)
(***************************************************************************)
Shapes == {"v1", "v2"}
Rows   == Shapes \cup {"moved", "leg", "gone"}

Steps  == <<"receipts">> \o RefSteps

Phases == {"none", "prepared", "delete_pending", "actual_deleted",
           "references_pending", "references_deleted", "sync_pending",
           "receipt_cleanup_pending", "completed"}

\* One record of the saga file.  files is referencePlan.receiptFiles, done
\* its completedSteps, cleaned the completed files of receiptCleanup.
Records == [phase   : Phases,
            target  : Txns,
            shape   : Shapes,
            files   : SUBSET Files,
            done    : SUBSET Range(Steps),
            cleaned : SUBSET Files]

NoRecord == [phase |-> "none", target |-> CHOOSE t \in Txns : TRUE,
             shape |-> "v1", files |-> {}, done |-> {}, cleaned |-> {}]

Target(s) == saga[s].target
Phase(s)  == saga[s].phase

\* Records whose transaction nobody else may change.
Active == {s \in Sagas : Phase(s) \notin {"none", "completed"}}

\* assertAvailable: no nonterminal record owns the transaction.
Available(t) == \A s \in Active : Target(s) # t

\* Records are numbered in the order they are made.
IsNextRecord(s) ==
    Phase(s) = "none" /\ \A r \in Sagas : r < s => Phase(r) # "none"

FilesOf(t)    == {r[2] : r \in {q \in receipts : q[1] = t}}
Referenced(f) == \E r \in receipts : r[2] = f

\* rewriteReceipts: the files only the removed records mention.
PlannedFiles(t) ==
    {f \in FilesOf(t) : ~ \E r \in receipts : r[1] # t /\ r[2] = f}

\* referencesConverged: no store mentions the transaction any more.
Converged(t) == /\ FilesOf(t) = {}
                /\ \A k \in Range(RefSteps) : t \notin refs[k]

Absent(s) == local[Target(s)] = "gone"

Passes == [op    : {"idle", "remove", "recover", "mark"},
           defer : BOOLEAN,
           todo  : SUBSET Sagas,
           cur   : Sagas \cup {NoSaga},
           at    : {"phase", "delete", "verify", "written", "return",
                    "clean", "unlinked"},
           ready : SUBSET Sagas]

Idle == [op |-> "idle", defer |-> FALSE, todo |-> {}, cur |-> NoSaga,
         at |-> "phase", ready |-> {}]

TypeOK ==
    /\ server \in [Txns -> Rows]
    /\ local \in [Txns -> Rows]
    /\ unsynced \subseteq Txns
    /\ saga \in [Sagas -> Records]
    /\ receipts \subseteq Txns \X Files
    /\ refs \in [Range(RefSteps) -> SUBSET Txns]
    /\ disk \subseteq Files
    /\ run \in Passes
    /\ up \in BOOLEAN
    /\ left \in 0 .. MaxTrouble
    /\ disturbed \subseteq Txns

Init ==
    /\ server = [t \in Txns |-> "v1"]
    /\ local = server
    /\ unsynced = {}
    /\ saga = [s \in Sagas |-> NoRecord]
    /\ receipts = InitialReceipts
    /\ refs = [k \in Range(RefSteps) |-> Txns]
    /\ disk = {r[2] : r \in InitialReceipts}
    /\ run = Idle
    /\ up = TRUE
    /\ left = MaxTrouble
    /\ disturbed = {}

----------------------------------------------------------------------------
(***************************************************************************)
(* Passes.  A pass drives its sagas one after the other; a saga whose      *)
(* drive throws is left where its last checkpoint put it and the pass goes *)
(* on to the next one.                                                     *)
(***************************************************************************)
Driving(s) == up /\ run.cur = s

Goto(at) == run' = [run EXCEPT !.at = at]

\* Variant: the first saga that throws ends the pass.
EndPass == run' = Idle

\* The catch of recover and of terminalizeSynced.
GiveUp == run' = [run EXCEPT !.cur = NoSaga, !.at = "phase"]

\* checkpoint: one durable write of the record.
Checkpoint(s, record) == saga' = [saga EXCEPT ![s] = record]

\* deleteTransaction and remove: the row is read, ownership checked again
\* and the record written with its plan, without an await in between.
RemoveTransaction(s, t) ==
    /\ up /\ run.op = "idle"
    /\ IsNextRecord(s)
    /\ Available(t)
    /\ local[t] \in Shapes
    /\ Checkpoint(s, [phase |-> "prepared", target |-> t, shape |-> local[t],
                      files |-> PlannedFiles(t), done |-> {}, cleaned |-> {}])
    /\ run' = [Idle EXCEPT !.op = "remove", !.cur = s]
    /\ UNCHANGED <<ledger, sidecar, up, left, disturbed>>

\* syncNow, bankSync and shutdown: syncTransactionSagas.
StartSync ==
    /\ up /\ run.op = "idle"
    /\ run' = [Idle EXCEPT !.op = "recover", !.defer = TRUE, !.todo = Active]
    /\ UNCHANGED <<ledger, saga, sidecar, up, left, disturbed>>

\* The for loops of recover and of terminalizeSynced.
PickSaga(s) ==
    /\ up /\ run.cur = NoSaga /\ s \in run.todo
    /\ run' = [run EXCEPT !.cur = s, !.todo = @ \ {s}]
    /\ UNCHANGED <<ledger, saga, sidecar, up, left, disturbed>>

\* The pass has nothing left to drive and no sync to make.
PassEnds ==
    /\ up /\ run.cur = NoSaga /\ run.todo = {}
    /\ \/ run.op \in {"remove", "mark"}
       \/ run.op = "recover" /\ ~run.defer /\ run.ready = {}
    /\ run' = Idle
    /\ UNCHANGED <<ledger, saga, sidecar, up, left, disturbed>>

----------------------------------------------------------------------------
(***************************************************************************)
(* drive: one action for each stretch between two awaits.                  *)
(***************************************************************************)
Intent(s) ==
    /\ Driving(s) /\ run.at = "phase" /\ Phase(s) = "prepared"
    /\ Checkpoint(s, [saga[s] EXCEPT !.phase = "delete_pending"])
    /\ UNCHANGED <<ledger, sidecar, run, up, left, disturbed>>

\* Variant: any row with the target's id is deleted.
RevalidateById(s) ==
    /\ Driving(s) /\ run.at = "phase" /\ Phase(s) = "delete_pending"
    /\ \/ ~Absent(s) /\ Goto("delete")
       \/ Absent(s) /\ Goto("verify")
    /\ UNCHANGED <<ledger, saga, sidecar, up, left, disturbed>>

\* exactRows before the deletion: the admitted row is still there, or it is
\* nowhere and the deletion is taken for done.
Revalidate(s) ==
    /\ Driving(s) /\ run.at = "phase" /\ Phase(s) = "delete_pending"
    /\ \/ local[Target(s)] = saga[s].shape /\ Goto("delete")
       \/ Absent(s) /\ Goto("verify")
    /\ UNCHANGED <<ledger, saga, sidecar, up, left, disturbed>>

\* api.deleteTransaction edits the local copy only.
DeleteRow(s) ==
    /\ Driving(s) /\ run.at = "delete"
    /\ local' = [local EXCEPT ![Target(s)] = "gone"]
    /\ unsynced' = unsynced \cup {Target(s)}
    /\ Goto("verify")
    /\ UNCHANGED <<server, saga, sidecar, up, left, disturbed>>

VerifyGone(s) ==
    /\ Driving(s) /\ run.at = "verify" /\ Absent(s)
    /\ Checkpoint(s, [saga[s] EXCEPT !.phase = "actual_deleted"])
    /\ Goto("phase")
    /\ UNCHANGED <<ledger, sidecar, up, left, disturbed>>

\* The plan is made again, and keeps the files of the first one.
PlanReferences(s) ==
    /\ Driving(s) /\ run.at = "phase" /\ Phase(s) = "actual_deleted"
    /\ Absent(s)
    /\ Checkpoint(s, [saga[s] EXCEPT !.phase = "references_pending",
                                     !.files = @ \cup PlannedFiles(Target(s))])
    /\ UNCHANGED <<ledger, sidecar, run, up, left, disturbed>>

\* The step applyReferences takes: the first that completedSteps lacks.
IsNextStep(s, k) ==
    /\ k \notin saga[s].done
    /\ \E i \in DOMAIN Steps :
          Steps[i] = k /\ \A j \in 1 .. (i - 1) : Steps[j] \in saga[s].done

StepsDone(s) == Range(Steps) \subseteq saga[s].done

\* applyReferenceStep: rewrite one store without the transaction.
WriteStep(s) ==
    /\ Driving(s) /\ run.at = "phase" /\ Phase(s) = "references_pending"
    /\ Absent(s)
    /\ \E k \in Range(Steps) :
        /\ IsNextStep(s, k)
        /\ \/ /\ k = "receipts"
              /\ receipts' = {r \in receipts : r[1] # Target(s)}
              /\ UNCHANGED refs
           \/ /\ k # "receipts"
              /\ refs' = [refs EXCEPT ![k] = @ \ {Target(s)}]
              /\ UNCHANGED receipts
    /\ Goto("written")
    /\ UNCHANGED <<ledger, saga, disk, up, left, disturbed>>

StepDone(s) ==
    /\ Driving(s) /\ run.at = "written"
    /\ \E k \in Range(Steps) :
          /\ IsNextStep(s, k)
          /\ Checkpoint(s, [saga[s] EXCEPT !.done = @ \cup {k}])
    /\ Goto("phase")
    /\ UNCHANGED <<ledger, sidecar, up, left, disturbed>>

ReferencesDeleted(s) ==
    /\ Driving(s) /\ run.at = "phase" /\ Phase(s) = "references_pending"
    /\ StepsDone(s)
    /\ Converged(Target(s))
    /\ Checkpoint(s, [saga[s] EXCEPT !.phase = "references_deleted"])
    /\ UNCHANGED <<ledger, sidecar, run, up, left, disturbed>>

SyncPending(s) ==
    /\ Driving(s) /\ run.at = "phase" /\ Phase(s) = "references_deleted"
    /\ Absent(s) /\ Converged(Target(s))
    /\ Checkpoint(s, [saga[s] EXCEPT !.phase = "sync_pending"])
    /\ Goto("return")
    /\ UNCHANGED <<ledger, sidecar, up, left, disturbed>>

\* drive returns needsSync, at once for a record that was already there.
NeedsSync(s) ==
    /\ Driving(s) /\ Phase(s) = "sync_pending" /\ run.op # "mark"
    /\ run.at = "return" \/ Absent(s)
    /\ run' = [run EXCEPT !.cur = NoSaga, !.at = "phase",
                          !.ready = @ \cup {s}]
    /\ UNCHANGED <<ledger, saga, sidecar, up, left, disturbed>>

----------------------------------------------------------------------------
(***************************************************************************)
(* api.sync() and what follows it.                                         *)
(***************************************************************************)
\* Local deletions reach the server, everything else is read from it.
Synchronised ==
    /\ server' = [t \in Txns |-> IF t \in unsynced THEN "gone" ELSE server[t]]
    /\ local' = server'
    /\ unsynced' = {}

AtSync == /\ up /\ run.op = "recover" /\ run.cur = NoSaga /\ run.todo = {}
          /\ run.defer \/ run.ready # {}

\* A deferred sync terminalises every record it finds at sync_pending, the
\* one of a restart those its own pass has driven there.
SyncSucceeds ==
    /\ AtSync
    /\ Synchronised
    /\ run' = [Idle EXCEPT !.op = "mark",
                 !.todo = IF run.defer
                          THEN {s \in Sagas : Phase(s) = "sync_pending"}
                          ELSE run.ready]
    /\ UNCHANGED <<saga, sidecar, up, left, disturbed>>

\* sync throws, the server reached or not: nothing is terminalised.
SyncFails ==
    /\ AtSync /\ left > 0
    /\ Synchronised \/ UNCHANGED ledger
    /\ run' = Idle
    /\ left' = left - 1
    /\ UNCHANGED <<saga, sidecar, up, disturbed>>

\* Variant: the ledger is not read again after the sync.
AllowCleanupUnverified(s) ==
    /\ Driving(s) /\ run.op = "mark" /\ run.at = "phase"
    /\ Phase(s) = "sync_pending"
    /\ Converged(Target(s))
    /\ Checkpoint(s, [saga[s] EXCEPT !.phase = "receipt_cleanup_pending"])
    /\ Goto("clean")
    /\ UNCHANGED <<ledger, sidecar, up, left, disturbed>>

\* terminalizeSynced: the durable permission to unlink.
AllowCleanup(s) ==
    /\ Driving(s) /\ run.op = "mark" /\ run.at = "phase"
    /\ Phase(s) = "sync_pending"
    /\ Absent(s) /\ Converged(Target(s))
    /\ Checkpoint(s, [saga[s] EXCEPT !.phase = "receipt_cleanup_pending"])
    /\ Goto("clean")
    /\ UNCHANGED <<ledger, sidecar, up, left, disturbed>>

\* A restart or a later sync finds the permission given.
ResumeCleanup(s) ==
    /\ Driving(s) /\ run.at = "phase" /\ Phase(s) = "receipt_cleanup_pending"
    /\ Absent(s)
    /\ Goto("clean")
    /\ UNCHANGED <<ledger, saga, sidecar, up, left, disturbed>>

\* The files of the plan are taken in a fixed order.
NextFile(s) == CHOOSE f \in saga[s].files \ saga[s].cleaned : TRUE

\* receiptFileState and unlinkReceiptFile: a file still mentioned stays.
CleanFile(s) ==
    /\ Driving(s) /\ run.at = "clean"
    /\ ~ saga[s].files \subseteq saga[s].cleaned
    /\ disk' = IF Referenced(NextFile(s)) THEN disk ELSE disk \ {NextFile(s)}
    /\ Goto("unlinked")
    /\ UNCHANGED <<ledger, saga, receipts, refs, up, left, disturbed>>

\* The file is checkpointed, whether it was unlinked or preserved.
FileDone(s) ==
    /\ Driving(s) /\ run.at = "unlinked"
    /\ NextFile(s) \notin disk \/ Referenced(NextFile(s))
    /\ Checkpoint(s, [saga[s] EXCEPT !.cleaned = @ \cup {NextFile(s)}])
    /\ Goto("clean")
    /\ UNCHANGED <<ledger, sidecar, up, left, disturbed>>

\* Variant: completed with the permission, before the files are cleaned.
CompleteAtOnce(s) ==
    /\ Driving(s) /\ run.at = "clean"
    /\ Checkpoint(s, [saga[s] EXCEPT !.phase = "completed"])
    /\ GiveUp
    /\ UNCHANGED <<ledger, sidecar, up, left, disturbed>>

\* cleanupReceiptFiles: receiptCleanupConverged and the terminal write.
Complete(s) ==
    /\ Driving(s) /\ run.at = "clean"
    /\ saga[s].files \subseteq saga[s].cleaned
    /\ \A f \in saga[s].files : f \notin disk \/ Referenced(f)
    /\ Checkpoint(s, [saga[s] EXCEPT !.phase = "completed"])
    /\ GiveUp
    /\ UNCHANGED <<ledger, sidecar, up, left, disturbed>>

----------------------------------------------------------------------------
(***************************************************************************)
(* What goes wrong.                                                        *)
(***************************************************************************)
\* What drive requires before it goes on: of the ledger at each of its
\* verifications, of the sidecar stores where it checks convergence.
LedgerExpected(s) ==
    \/ Absent(s)
    \/ /\ run.at = "phase" /\ Phase(s) = "delete_pending"
       /\ local[Target(s)] = saga[s].shape

Verifying(s) ==
    \/ run.at = "verify"
    \/ /\ run.at = "phase" /\ Phase(s) # "prepared"
       /\ ~(Phase(s) = "references_pending" /\ StepsDone(s))

Converging(s) ==
    /\ run.at = "phase"
    /\ \/ Phase(s) = "references_pending" /\ StepsDone(s)
       \/ Phase(s) = "references_deleted"
       \/ Phase(s) = "sync_pending" /\ run.op = "mark"

OutcomeUnknown(s) ==
    /\ Driving(s)
    /\ ~ /\ Verifying(s) => LedgerExpected(s)
         /\ Converging(s) => Converged(Target(s))
    /\ GiveUp
    /\ UNCHANGED <<ledger, saga, sidecar, up, left, disturbed>>

\* The call in progress throws before it takes effect.  One that throws
\* after it is the step followed by this one.
CallFails(s) ==
    /\ Driving(s) /\ left > 0
    /\ GiveUp
    /\ left' = left - 1
    /\ UNCHANGED <<ledger, saga, sidecar, up, disturbed>>

Crash ==
    /\ up /\ left > 0
    /\ up' = FALSE
    /\ run' = Idle
    /\ left' = left - 1
    /\ UNCHANGED <<ledger, saga, sidecar, disturbed>>

\* loadBudgetResilient discards a local copy it cannot open.
CacheReset ==
    /\ ~up /\ left > 0
    /\ local' = server
    /\ unsynced' = {}
    /\ left' = left - 1
    /\ disturbed' = disturbed \cup unsynced
    /\ UNCHANGED <<server, saga, sidecar, run, up>>

\* ensureApiReady: the budget is loaded, with a first sync of its own or
\* without, and recoverOperationalSagas drives every nonterminal record.
Restart ==
    /\ ~up
    /\ up' = TRUE
    /\ Synchronised \/ UNCHANGED ledger
    /\ run' = [Idle EXCEPT !.op = "recover", !.todo = Active]
    /\ UNCHANGED <<saga, sidecar, left, disturbed>>

\* Another device edits, moves, removes or restores a transaction.
RemoteEdit(t) ==
    /\ left > 0
    /\ \E row \in Rows \ {server[t]} : server' = [server EXCEPT ![t] = row]
    /\ left' = left - 1
    /\ disturbed' = disturbed \cup {t}
    /\ UNCHANGED <<local, unsynced, saga, sidecar, run, up>>

\* addReceipt: new bytes under a new name, then the record that names them.
AddReceipt(t, f) ==
    /\ up
    /\ Available(t)
    /\ f \notin disk \cup UNION {saga[s].files : s \in Sagas}
    /\ disk' = disk \cup {f}
    /\ receipts' = receipts \cup {<<t, f>>}
    /\ UNCHANGED <<ledger, saga, refs, run, up, left, disturbed>>

\* setReconcileItem, the reimbursement links and their like.
AddReference(k, t) ==
    /\ up
    /\ Available(t)
    /\ refs' = [refs EXCEPT ![k] = @ \cup {t}]
    /\ UNCHANGED <<ledger, saga, receipts, disk, run, up, left, disturbed>>

----------------------------------------------------------------------------
SagaStep(s) ==
    \/ Intent(s) \/ Revalidate(s) \/ DeleteRow(s) \/ VerifyGone(s)
    \/ PlanReferences(s) \/ WriteStep(s) \/ StepDone(s)
    \/ ReferencesDeleted(s) \/ SyncPending(s) \/ NeedsSync(s)
    \/ AllowCleanup(s) \/ ResumeCleanup(s)
    \/ CleanFile(s) \/ FileDone(s) \/ Complete(s)
    \/ OutcomeUnknown(s)

PassStep ==
    \/ \E s \in Sagas : PickSaga(s) \/ SagaStep(s)
    \/ PassEnds
    \/ SyncSucceeds

Environment ==
    \/ \E s \in Sagas : CallFails(s)
    \/ SyncFails \/ Crash \/ CacheReset
    \/ \E t \in Txns : RemoteEdit(t)

Requests ==
    \/ \E s \in Sagas, t \in Txns : RemoveTransaction(s, t)
    \/ \E t \in Txns, f \in Files : AddReceipt(t, f)
    \/ \E t \in Txns, k \in Range(RefSteps) : AddReference(k, t)

Next == PassStep \/ StartSync \/ Restart \/ Environment \/ Requests

Spec == Init /\ [][Next]_vars

\* The lane runs the pass it has begun, the periodic timer starts another
\* one, the supervisor restarts the process.  Requests and faults are free.
Fairness == WF_vars(PassStep) /\ WF_vars(StartSync) /\ WF_vars(Restart)
FairSpec == Spec /\ Fairness

----------------------------------------------------------------------------
(***************************************************************************)
(* Properties.                                                             *)
(***************************************************************************)
\* Files more than one transaction mentions; names of new files are fresh.
SharedFiles ==
    {f \in Files : Cardinality({t \in Txns : <<t, f>> \in InitialReceipts}) > 1}

\* No crash, failure or interleaving leaves a receipt record whose bytes a
\* deletion has unlinked, a file two transactions share included
\* (planReferences, receiptFileState).
RecordedBytesExist ==
    \A r \in receipts : r[2] \in disk

\* No bytes are forgotten: a file is mentioned by a receipt record or by the
\* plan of a saga that has yet to remove it.  It does not hold of a file two
\* transactions share (referencePlan, cleanupReceiptFiles).
NoOrphanBytes ==
    \A f \in disk \ SharedFiles :
        \/ Referenced(f)
        \/ \E s \in Active : f \in saga[s].files \ saga[s].cleaned

\* "Receipt bytes remain in place through Actual deletion, reference cleanup,
\* and successful Actual sync": a file is unlinked for a saga with the
\* durable permission, whose deletion is no longer waiting to be synchronised.
BytesOutliveTheDeletion ==
    [][\A f \in disk \ disk' : \E s \in Sagas :
          /\ Phase(s) = "receipt_cleanup_pending" /\ f \in saga[s].files
          /\ Absent(s) /\ Target(s) \notin unsynced]_vars

\* A saga deletes the row it admitted and nothing else: never one whose shape
\* or account changed since, and never one that reappeared after the deletion
\* was verified (targetMatches, exactRows).
DeletesOnlyWhatWasAdmitted ==
    [][\A t \in unsynced' \ unsynced : \E s \in Sagas :
          /\ Phase(s) = "delete_pending" /\ Target(s) = t
          /\ local[t] = saga[s].shape]_vars

\* Completion means all of it: the row gone from the ledger and the deletion
\* synchronised, no store mentioning it, every planned file gone or still
\* in use (the auditOutcome of the terminal write).
CompletionIsClean ==
    [][\A s \in Sagas : Phase(s) # "completed" /\ saga'[s].phase = "completed" =>
          /\ Absent(s) /\ Target(s) \notin unsynced
          /\ Converged(Target(s))
          /\ \A f \in saga[s].files : f \notin disk \/ Referenced(f)]_vars

\* "One broken saga cannot strand healthy work": every deletion whose
\* transaction nobody edited behind its back completes, whatever becomes of
\* the others.
HealthyEnded == \A s \in Active : Target(s) \in disturbed
HealthyIsNotStranded == <>[]HealthyEnded

=============================================================================
