-------------------------- MODULE CoordinatedRun --------------------------
(***************************************************************************)
(* The coordinated backups and restores of ops/lib/coordinated-backup.js   *)
(* and ops/lib/coordinated-restore.js.  A run takes the operations lock,   *)
(* notes in a run journal which writers (timers, jobs, dashboard,          *)
(* container) were active, stops them, does its work and starts them       *)
(* again; the next run resumes the journal of one that was killed.  A      *)
(* restore replaces the runtime tree by the staged restore of              *)
(* ops/lib/staged-restore.js, which has a journal of its own.              *)
(*                                                                         *)
(* Taking the lock, or taking it over from a dead process, is one step:    *)
(* OperationLock looks into it.  Writes of the two journals succeed.       *)
(***************************************************************************)
EXTENDS Naturals, FiniteSets

CONSTANTS
    Sessions,      \* processes that run one operation each
    Operations,    \* the operations they run: "backup", "restore"
    Archives,      \* backup archives that can be restored
    Writers,       \* the writer inventory
    Timers,        \* those of them that are timers and enabled
    Nobody,        \* nobody holds the lock
    NoJournal,     \* there is no run journal
    NoArchive,     \* a backup names none, nor does an empty restore record
    MaxCrashes,    \* bound: sessions that are killed
    MaxFaults,     \* bound: commands that fail, and signals
    MaxStrays      \* bound: writers that somebody else starts

Phases == {"writers_captured", "quiescence_verified", "backup_complete",
           "restore_staged", "restart_complete", "health_verified",
           "complete", "failed", "recovery_required"}

\* createRunJournal.  pre: preRunWriters, those that were active before the
\* run; archived: artifacts.bundleArchive is there.
Journals == [op : Operations, phase : Phases, pre : SUBSET Writers,
             archived : BOOLEAN]

\* What the proofs need of the constants.
Parameters ==
    /\ Operations \subseteq {"backup", "restore"} /\ Timers \subseteq Writers
    /\ NoJournal \notin Journals
    /\ MaxCrashes \in Nat /\ MaxFaults \in Nat /\ MaxStrays \in Nat

\* mutationStatus in the staged restore's journal, or none of that.
Statuses == {"none", "not_started", "unverified", "rollback_verified",
             "replacement_verified"}

VARIABLES
    active,        \* writers that are running
    partial,       \* the runtime tree is a mix of two generations
    staged,        \* the staged restore's journal: its archive and status
    disk,          \* the run journal
    lock,          \* who holds the operations lock
    run,           \* the state of each session's run
    alive,         \* sessions whose process exists
    crashes, faults, strays,
    down,          \* history: writers a run has stopped and nobody started
    disturbed,     \* history: a run journal was replaced that was not complete,
                   \* or resumed from what is no longer on disk
    blind          \* history: a restore has failed before it read the record of
                   \* the one before it, or a backup has resumed its journal

machine == <<active, down>>
tree == <<partial, staged>>
history == <<disturbed, blind>>
bounds == <<alive, crashes, faults, strays>>
vars == <<active, partial, staged, disk, lock, run, alive, crashes, faults,
          strays, down, disturbed, blind>>

Places == {"start", "lock", "prepare", "stop", "publish", "boundary", "stage",
           "gate", "swap", "staged", "restart", "health", "finish", "release",
           "ended"}

\* journal: the session's copy; snap: the writers it means to start again
\* (snapshotsById); todo: those it has still to stop or start; safe:
\* restoreRestartSafety.restartAllowed.
Runs == [at : Places, op : Operations, archive : Archives \cup {NoArchive},
         journal : Journals \cup {NoJournal},
         snap : SUBSET Writers, todo : SUBSET Writers,
         err : BOOLEAN, interrupted : BOOLEAN, safe : BOOLEAN]

TypeOK ==
    /\ active \subseteq Writers /\ down \subseteq Writers
    /\ partial \in BOOLEAN /\ disturbed \in BOOLEAN /\ blind \in BOOLEAN
    /\ staged \in [archive : Archives \cup {NoArchive}, status : Statuses]
    /\ disk \in Journals \cup {NoJournal}
    /\ lock \in Sessions \cup {Nobody}
    /\ run \in [Sessions -> Runs]
    /\ alive \subseteq Sessions
    /\ crashes \in 0 .. MaxCrashes /\ faults \in 0 .. MaxFaults
    /\ strays \in 0 .. MaxStrays

\* Any writers may be active; a session is a backup or a restore of an archive.
Init ==
    /\ active \in SUBSET Writers
    /\ partial = FALSE
    /\ staged = [archive |-> NoArchive, status |-> "none"]
    /\ disk = NoJournal
    /\ lock = Nobody
    /\ run \in [Sessions ->
                  [at : {"start"}, op : Operations,
                   archive : Archives \cup {NoArchive},
                   journal : {NoJournal}, snap : {{}}, todo : {{}},
                   err : {FALSE}, interrupted : {FALSE}, safe : {TRUE}]]
    /\ \A s \in Sessions :
          run[s].op = "backup" <=> run[s].archive = NoArchive
    /\ alive = Sessions
    /\ crashes = 0 /\ faults = 0 /\ strays = 0
    /\ down = {} /\ disturbed = FALSE /\ blind = FALSE

----------------------------------------------------------------------------
At(s, place) == s \in alive /\ run[s].at = place
Becomes(s, r) == run' = [run EXCEPT ![s] = r]
Goto(s, place) == Becomes(s, [run[s] EXCEPT !.at = place])

\* isTerminalPhase; what readRunJournal finds may be resumed.
Unfinished(journal) ==
    /\ journal # NoJournal
    /\ journal.phase \notin {"complete", "failed", "recovery_required"}

InPhase(s, phase) == [run[s].journal EXCEPT !.phase = phase]

\* writeRunJournal of the session's journal in a new phase.
Records(s, phase, place) ==
    /\ disk' = InPhase(s, phase)
    /\ Becomes(s, [run[s] EXCEPT !.journal = InPhase(s, phase), !.at = place])

\* recordRestoreRestartSafety writes the journal in the phase it has.
Keeps(s, place) == disk' = run[s].journal /\ Goto(s, place)


\* restartWriter skips what was neither active nor enabled.
Returning(pre) == pre \cup Timers

\* A command that fails.
Fault == faults < MaxFaults /\ faults' = faults + 1

\* The catch clause: failed, or recovery_required after a signal or when the
\* tree may be a mix.  The finally clause follows it.
FailedPhase(s, safe) ==
    IF run[s].interrupted \/ ~safe THEN "recovery_required" ELSE "failed"

Fails(s, safe) ==
    LET phase == FailedPhase(s, safe) IN
    /\ disk' = InPhase(s, phase)
    /\ Becomes(s, [run[s] EXCEPT !.journal = InPhase(s, phase), !.err = TRUE,
                                 !.safe = safe, !.todo = Returning(run[s].snap),
                                 !.at = "restart"])

----------------------------------------------------------------------------
\* The journal is read before the lock is taken.  A backup resumes whatever
\* is unfinished, a restore only a restore.
ReadJournal(s) ==
    /\ At(s, "start")
    /\ LET resumes == Unfinished(disk)
                      /\ (run[s].op = "restore" => disk.op = "restore")
       IN Becomes(s, [run[s] EXCEPT
                        !.journal = IF resumes THEN disk ELSE NoJournal, !.at = "lock"])
    /\ UNCHANGED <<machine, tree, disk, lock, bounds, history>>

\* acquireCoordinatedLock.
Acquire(s) ==
    /\ At(s, "lock")
    /\ lock \notin alive
    /\ lock' = s
    /\ Goto(s, "prepare")
    /\ UNCHANGED <<machine, tree, disk, bounds, history>>

\* In progress: the catch clause marks the journal it has read as failed and
\* writes it; there is nothing to restart and no lock to release.
Refused(s) ==
    /\ At(s, "lock")
    /\ lock \in alive
    /\ LET read == run[s].journal # NoJournal IN
       /\ disk' = IF read THEN InPhase(s, "failed") ELSE disk
       /\ disturbed' = (disturbed \/ read)
       /\ Becomes(s, [run[s] EXCEPT
                        !.journal = IF read THEN InPhase(s, "failed") ELSE NoJournal,
                        !.err = TRUE, !.at = "ended"])
    /\ UNCHANGED <<machine, tree, lock, bounds, blind>>


\* needsBackupPublish, needsRestoreQuiescence, needsStagedRestore.
AfterPrepare(s, phase) ==
    CASE run[s].op = "backup" ->
           IF phase \in {"writers_captured", "quiescence_verified"}
           THEN "stop" ELSE "boundary"
      [] run[s].op = "restore" ->
           IF phase = "writers_captured" THEN "stop"
           ELSE IF phase = "quiescence_verified" THEN "stage" ELSE "restart"


\* A new journal: the writers active now are those to start again.
CaptureWriters(s) ==
    /\ At(s, "prepare") /\ run[s].journal = NoJournal
    /\ LET journal == [op |-> run[s].op, phase |-> "writers_captured",
                       pre |-> active, archived |-> FALSE]
       IN /\ disk' = journal
          /\ Becomes(s, [run[s] EXCEPT !.journal = journal, !.snap = active,
                                       !.todo = Writers, !.at = "stop"])
    /\ disturbed' = (disturbed \/ (disk # NoJournal /\ disk.phase # "complete"))
    /\ UNCHANGED <<machine, tree, lock, bounds, blind>>

\* A resumed one: the writers it names are.  A backup writes the journal
\* again, a restore does not.
Resume(s) ==
    LET journal == run[s].journal
        place == AfterPrepare(s, journal.phase)
    IN /\ At(s, "prepare") /\ journal # NoJournal
       /\ disk' = IF run[s].op = "backup" THEN journal ELSE disk
       /\ Becomes(s, [run[s] EXCEPT !.snap = journal.pre, !.at = place,
                                    !.todo = IF place = "stop" THEN Writers
                                             ELSE Returning(journal.pre)])
       /\ disturbed' = (disturbed \/ disk # journal)
       /\ blind' = (blind \/ journal.op # run[s].op)
       /\ UNCHANGED <<machine, tree, lock, bounds>>

\* discoverWriters or auditDeploymentDiscovery fails, or assertJournalBinding
\* of a backup: nothing is started again, and the journal is closed.
PrepareFails(s) ==
    /\ At(s, "prepare")
    /\ Fault
    /\ LET resumed == run[s].journal # NoJournal IN
       /\ disk' = IF resumed THEN InPhase(s, "failed") ELSE disk
       /\ Becomes(s, [run[s] EXCEPT
                        !.journal = IF resumed THEN InPhase(s, "failed") ELSE NoJournal,
                        !.err = TRUE, !.at = "release"])
       /\ disturbed' = (disturbed \/ (resumed /\ disk # run[s].journal))
    /\ UNCHANGED <<machine, tree, lock, alive, crashes, strays, blind>>

\* assertJournalBinding of a restore: it has taken the writers active now for
\* its own, and the timers are enabled whoever has stopped them.
RefuseJournal(s) ==
    /\ At(s, "prepare") /\ run[s].journal # NoJournal /\ run[s].op = "restore"
    /\ Fault
    /\ disk' = InPhase(s, "failed")
    /\ Becomes(s, [run[s] EXCEPT !.journal = InPhase(s, "failed"),
                                 !.err = TRUE, !.snap = active,
                                 !.todo = Returning(active), !.at = "restart"])
    /\ disturbed' = (disturbed \/ disk # run[s].journal)
    /\ blind' = TRUE
    /\ UNCHANGED <<machine, tree, lock, alive, crashes, strays>>

----------------------------------------------------------------------------
\* stopWriter: one that was not active before is skipped.
Stop(s) ==
    /\ At(s, "stop") /\ ~run[s].interrupted
    /\ \E w \in run[s].todo :
          /\ Becomes(s, [run[s] EXCEPT !.todo = run[s].todo \ {w}])
          /\ active' = IF w \in run[s].snap THEN active \ {w} ELSE active
          /\ down' = IF w \in run[s].snap \cap active THEN down \cup {w} ELSE down
    /\ UNCHANGED <<tree, disk, lock, bounds, history>>

\* A stop fails or does not come to rest in time, also after it was obeyed.
StopFails(s) ==
    /\ At(s, "stop") /\ run[s].todo # {}
    /\ Fault
    /\ \/ UNCHANGED machine
       \/ \E w \in run[s].todo \cap run[s].snap \cap active :
             active' = active \ {w} /\ down' = down \cup {w}
    /\ Fails(s, TRUE)
    /\ UNCHANGED <<tree, lock, alive, crashes, strays, history>>

\* onSignal while a writer is being stopped or health is polled.
Signal(s) ==
    /\ At(s, "health") \/ (At(s, "stop") /\ run[s].todo # {})
    /\ ~run[s].interrupted
    /\ Fault
    /\ disk' = InPhase(s, "recovery_required")
    /\ Becomes(s, [run[s] EXCEPT !.journal = InPhase(s, "recovery_required"),
                                 !.interrupted = TRUE])
    /\ UNCHANGED <<machine, tree, lock, alive, crashes, strays, history>>

\* "interrupted during quiescence".
StopInterrupted(s) ==
    /\ At(s, "stop") /\ run[s].interrupted
    /\ Fails(s, TRUE)
    /\ UNCHANGED <<machine, tree, lock, bounds, history>>

\* verifySnapshotBoundary: no writer is active, or the run fails.
Verify(s) ==
    /\ At(s, "stop") /\ run[s].todo = {} /\ ~run[s].interrupted
    /\ IF active = {}
       THEN Records(s, "quiescence_verified",
                    IF run[s].op = "backup" THEN "publish" ELSE "stage")
       ELSE Fails(s, TRUE)
    /\ UNCHANGED <<machine, tree, lock, bounds, history>>

\* The bundle is built, verified and published; every boundary verifies that
\* the writers are still at rest.
Publish(s) ==
    /\ At(s, "publish") /\ active = {}
    /\ LET journal == [InPhase(s, "backup_complete") EXCEPT !.archived = TRUE]
       IN /\ disk' = journal
          /\ Becomes(s, [run[s] EXCEPT !.journal = journal, !.at = "restart",
                                       !.todo = Returning(run[s].snap)])
    /\ UNCHANGED <<machine, tree, lock, bounds, history>>

PublishFails(s) ==
    /\ At(s, "publish")
    /\ \/ active # {} /\ UNCHANGED faults
       \/ Fault
    /\ Fails(s, TRUE)
    /\ UNCHANGED <<machine, tree, lock, alive, crashes, strays, history>>

\* A backup resumed once it was complete reports the artifacts on record.
\* shouldRestart goes by the phase.
Boundary(s) ==
    /\ At(s, "boundary")
    /\ IF active # {} THEN Fails(s, TRUE)
       ELSE /\ Goto(s, IF run[s].journal.phase \in {"backup_complete", "restart_complete"}
                       THEN "restart" ELSE "release")
            /\ UNCHANGED disk
    /\ UNCHANGED <<machine, tree, lock, bounds, history>>

----------------------------------------------------------------------------
\* runStagedRestore.  It publishes first that nothing has been changed, and
\* refuses an archive it cannot read, or that is not the one on record, before
\* it looks at what the record says of the tree (requireArchive,
\* assertJournalMatchesRequest, verifyCompleteArchiveBindings).
OtherArchive(s) ==
    staged.status # "none" /\ staged.archive # run[s].archive

StageRefuses(s) ==
    /\ At(s, "stage")
    /\ \/ OtherArchive(s) /\ UNCHANGED faults
       \/ Fault
    /\ blind' = TRUE
    /\ Fails(s, TRUE)
    /\ UNCHANGED <<machine, tree, lock, alive, crashes, strays, disturbed>>

\* A completed restore of this archive is verified and reported again.
StageReplays(s) ==
    /\ At(s, "stage") /\ ~OtherArchive(s)
    /\ staged.status = "replacement_verified"
    /\ Keeps(s, "staged")
    /\ UNCHANGED <<machine, tree, lock, bounds, history>>

\* performRollback of what an earlier attempt has left: it is verified, or
\* the writers stay at rest.
StageRollsBack(s) ==
    /\ At(s, "stage") /\ ~OtherArchive(s)
    /\ staged.status = "unverified"
    /\ partial' = FALSE
    /\ staged' = [staged EXCEPT !.status = "not_started"]
    /\ Keeps(s, "gate")
    /\ UNCHANGED <<machine, lock, bounds, history>>

StageStaysBroken(s) ==
    /\ At(s, "stage") /\ ~OtherArchive(s)
    /\ staged.status = "unverified"
    /\ Fault
    /\ Fails(s, FALSE)
    /\ UNCHANGED <<machine, tree, lock, alive, crashes, strays, history>>

StageBegins(s) ==
    /\ At(s, "stage") /\ ~OtherArchive(s)
    /\ staged.status \in {"none", "not_started", "rollback_verified"}
    /\ staged' = [archive |-> run[s].archive, status |-> "not_started"]
    /\ Keeps(s, "gate")
    /\ UNCHANGED <<machine, partial, lock, bounds, history>>

\* Mutant: the files are swapped before the record says so.
MarkForgotten(s) ==
    /\ At(s, "gate") /\ active = {}
    /\ Keeps(s, "swap")
    /\ UNCHANGED <<machine, tree, lock, bounds, history>>

\* assertMutationGate, then markDestinationMutationStarted.
MarkMutation(s) ==
    /\ At(s, "gate") /\ active = {}
    /\ staged' = [staged EXCEPT !.status = "unverified"]
    /\ Keeps(s, "swap")
    /\ UNCHANGED <<machine, partial, lock, bounds, history>>

\* A check of the archive, the tree or the gate fails, or the admission is not
\* consumed after all is done.
StagingFails(s) ==
    /\ \/ At(s, "gate") \/ At(s, "staged")
       \/ At(s, "stage") /\ ~OtherArchive(s) /\ staged.status # "unverified"
    /\ \/ At(s, "gate") /\ active # {} /\ UNCHANGED faults
       \/ Fault
    /\ Fails(s, TRUE)
    /\ UNCHANGED <<machine, tree, lock, alive, crashes, strays, history>>

\* swapRuntimeTree: the first of the files, and the last of them.
SwapSome(s) ==
    /\ At(s, "swap") /\ ~partial
    /\ partial' = TRUE
    /\ UNCHANGED <<machine, staged, disk, lock, run, bounds, history>>

\* verifyInstalledRuntime: the replacement is whole.
SwapDone(s) ==
    /\ At(s, "swap") /\ partial
    /\ partial' = FALSE
    /\ staged' = [staged EXCEPT !.status = "replacement_verified"]
    /\ Keeps(s, "staged")
    /\ UNCHANGED <<machine, lock, bounds, history>>

\* The swap fails, or a writer has come back: it is rolled back, and the run
\* has failed either way.
SwapFails(s) ==
    /\ At(s, "swap")
    /\ \/ active # {} /\ UNCHANGED faults
       \/ Fault
    /\ partial' = FALSE
    /\ staged' = [staged EXCEPT !.status = "rollback_verified"]
    /\ Fails(s, TRUE)
    /\ UNCHANGED <<machine, lock, alive, crashes, strays, history>>

\* Mutant: the outcome of the rollback is not looked at.
RollbackIgnored(s) ==
    /\ At(s, "swap")
    /\ Fault
    /\ Fails(s, TRUE)
    /\ UNCHANGED <<machine, tree, lock, alive, crashes, strays, history>>

\* ... or the rollback fails too.
RollbackFails(s) ==
    /\ At(s, "swap")
    /\ Fault
    /\ Fails(s, FALSE)
    /\ UNCHANGED <<machine, tree, lock, alive, crashes, strays, history>>

RestoreStaged(s) ==
    /\ At(s, "staged")
    /\ disk' = InPhase(s, "restore_staged")
    /\ Becomes(s, [run[s] EXCEPT !.journal = InPhase(s, "restore_staged"),
                                 !.todo = Returning(run[s].snap), !.at = "restart"])
    /\ UNCHANGED <<machine, tree, lock, bounds, history>>

----------------------------------------------------------------------------
Settled(journal) == journal.phase \in {"failed", "recovery_required"}

\* "writers intentionally remain quiesced".
SuppressRestart(s) ==
    /\ At(s, "restart") /\ ~run[s].safe
    /\ Records(s, "recovery_required", "release")
    /\ UNCHANGED <<machine, tree, lock, bounds, history>>

\* restartWriter of one that was active before.
Start(s) ==
    /\ At(s, "restart") /\ run[s].safe
    /\ \E w \in run[s].todo :
          /\ Becomes(s, [run[s] EXCEPT !.todo = run[s].todo \ {w}])
          /\ active' = active \cup {w}
          /\ down' = down \ {w}
    /\ UNCHANGED <<tree, disk, lock, bounds, history>>

\* Mutant: a start that fails is not reported.
StartFailsQuietly(s) ==
    /\ At(s, "restart") /\ run[s].safe
    /\ Fault
    /\ \E w \in run[s].todo : Becomes(s, [run[s] EXCEPT !.todo = run[s].todo \ {w}])
    /\ UNCHANGED <<machine, tree, disk, lock, alive, crashes, strays, history>>

\* A start that fails is reported in the end; the others are still started.
StartFails(s) ==
    /\ At(s, "restart") /\ run[s].safe
    /\ Fault
    /\ \E w \in run[s].todo :
          Becomes(s, [run[s] EXCEPT
                        !.todo = run[s].todo \ {w}, !.err = TRUE,
                        !.journal = IF Settled(run[s].journal) THEN run[s].journal
                                    ELSE InPhase(s, "recovery_required")])
    /\ UNCHANGED <<machine, tree, disk, lock, alive, crashes, strays, history>>

Restarted(s) ==
    /\ At(s, "restart") /\ run[s].safe /\ run[s].todo = {}
    /\ Records(s, IF Settled(run[s].journal) THEN run[s].journal.phase
                  ELSE "restart_complete", "health")
    /\ UNCHANGED <<machine, tree, lock, bounds, history>>

\* runPostRestartHealthChecks.  Without an earlier error the run is verified,
\* whatever its phase; a failing check asks for recovery.
Healthy(s) ==
    /\ At(s, "health")
    /\ IF run[s].err THEN Records(s, run[s].journal.phase, "release")
       ELSE Records(s, "health_verified", "finish")
    /\ UNCHANGED <<machine, tree, lock, bounds, history>>

Unhealthy(s) ==
    /\ At(s, "health")
    /\ Fault
    /\ LET phase == IF Settled(run[s].journal) THEN run[s].journal.phase
                    ELSE "recovery_required"
       IN /\ disk' = InPhase(s, phase)
          /\ Becomes(s, [run[s] EXCEPT !.journal = InPhase(s, phase),
                                       !.err = TRUE, !.at = "release"])
    /\ UNCHANGED <<machine, tree, lock, alive, crashes, strays, history>>

Finish(s) ==
    /\ At(s, "finish")
    /\ Records(s, "complete", "release")
    /\ UNCHANGED <<machine, tree, lock, bounds, history>>

Release(s) ==
    /\ At(s, "release")
    /\ lock' = IF lock = s THEN Nobody ELSE lock
    /\ Goto(s, "ended")
    /\ UNCHANGED <<machine, tree, disk, bounds, history>>

----------------------------------------------------------------------------
\* A process is killed between any two steps.
Crash(s) ==
    /\ s \in alive /\ run[s].at # "ended" /\ crashes < MaxCrashes
    /\ alive' = alive \ {s}
    /\ crashes' = crashes + 1
    /\ UNCHANGED <<machine, tree, disk, lock, run, faults, strays, history>>

\* Somebody else, a timer or an operator, starts a writer.
StrayStart(w) ==
    /\ w \notin active /\ strays < MaxStrays
    /\ active' = active \cup {w} /\ down' = down \ {w}
    /\ strays' = strays + 1
    /\ UNCHANGED <<tree, disk, lock, run, alive, crashes, faults, history>>

Step(s) ==
    \/ ReadJournal(s) \/ Acquire(s) \/ Refused(s)
    \/ CaptureWriters(s) \/ Resume(s) \/ PrepareFails(s) \/ RefuseJournal(s)
    \/ Stop(s) \/ StopFails(s) \/ Signal(s) \/ StopInterrupted(s) \/ Verify(s)
    \/ Publish(s) \/ PublishFails(s) \/ Boundary(s)
    \/ StageRefuses(s) \/ StageReplays(s) \/ StageRollsBack(s)
    \/ StageStaysBroken(s) \/ StageBegins(s)
    \/ MarkMutation(s) \/ StagingFails(s) \/ SwapSome(s) \/ SwapDone(s)
    \/ SwapFails(s) \/ RollbackFails(s) \/ RestoreStaged(s)
    \/ SuppressRestart(s) \/ Start(s) \/ StartFails(s) \/ Restarted(s)
    \/ Healthy(s) \/ Unhealthy(s) \/ Finish(s) \/ Release(s)

Next ==
    \/ \E s \in Sessions : Step(s) \/ Crash(s)
    \/ \E w \in Writers : StrayStart(w)

Spec == Init /\ [][Next]_vars

----------------------------------------------------------------------------
(***************************************************************************)
(* Properties.                                                             *)
(***************************************************************************)
\* "Captures an immutable run journal with pre-mutation writer ...
\* snapshots": as long as no run has replaced another's journal, the journal
\* on disk names every writer that was stopped and is still down, and does
\* not call the run complete, wherever the run was killed.
StoppedAreOnRecord ==
    ~disturbed /\ down # {} =>
        disk # NoJournal /\ disk.phase # "complete" /\ down \subseteq disk.pre

\* Under the same condition a run that ends without an error has brought
\* back what it, and the killed runs of its kind it resumed, have stopped.
SuccessBringsAllBack ==
    \A s \in alive :
        /\ ~disturbed /\ run[s].at = "release" /\ ~run[s].err
        /\ run[s].journal.op = run[s].op
        => down = {}

\* "writers intentionally remain quiesced": no run starts a writer on a tree
\* that is a mix of two generations, wherever runs fail or are killed, as long
\* as every run resumes the journal that is on disk, a restore's only by a
\* restore, and every restore reads its record (restoreRestartSafety).
StartsOnPartialRestore ==
    partial /\ strays' = strays /\ ~(active' \subseteq active)
StartsOnMixedTree == ~disturbed /\ ~blind /\ StartsOnPartialRestore
WritersWaitForTheTree == [][~StartsOnMixedTree]_vars

\* The record of the staged restore never calls a mixed tree verified.
MixIsOnRecord ==
    partial => staged.status = "unverified"

=============================================================================
