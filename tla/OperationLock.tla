-------------------------- MODULE OperationLock --------------------------
(***************************************************************************)
(* The lock file of ops/lib/coordinated-operation-lock.js, which keeps     *)
(* backup and restore sessions apart, and the one of                       *)
(* ops/lib/restore-instance-lock.js, which keeps live restores apart.      *)
(* Both create the file with O_EXCL and write the owner's pid into it, and *)
(* both remove a file whose owner is dead; the second one reads the file   *)
(* once more before it does (Rereads).                                     *)
(*                                                                         *)
(* Every file-system call is a step of its own: the sessions are separate  *)
(* operating-system processes.  A lock file is told apart by the process   *)
(* that created it, since its owner writes through its own descriptor.     *)
(***************************************************************************)
EXTENDS Naturals, FiniteSets

CONSTANTS
    Sessions,      \* processes that run one operation each
    NoFile,        \* there is no lock file
    Rereads,       \* acquireRestoreLock: removeStaleLockIfDead
    MaxCrashes,    \* bound: sessions that are killed
    MaxFaults      \* bound: owner writes that fail

Locks == [by : Sessions, named : BOOLEAN]

ASSUME LockAssumption ==
    /\ Rereads \in BOOLEAN
    /\ MaxCrashes \in Nat /\ MaxFaults \in Nat
    /\ NoFile \notin Locks

VARIABLES
    lock,      \* NoFile, or who created the file and whether it names him
    pc,        \* where each session is
    seen,      \* the owner each session last read in the file
    alive,     \* sessions whose process exists
    crashes, faults,
    takeover   \* history: some session has decided to remove a lock

vars == <<lock, pc, seen, alive, crashes, faults, takeover>>

Places == {"start", "validate", "judge", "reread", "rejudge", "unlink",
           "create", "write", "held", "drop", "failed", "ended"}

TypeOK ==
    /\ lock \in Locks \cup {NoFile}
    /\ pc \in [Sessions -> Places]
    /\ seen \in [Sessions -> Sessions]
    /\ alive \subseteq Sessions
    /\ crashes \in 0 .. MaxCrashes
    /\ faults \in 0 .. MaxFaults
    /\ takeover \in BOOLEAN

Init ==
    /\ lock = NoFile
    /\ pc = [s \in Sessions |-> "start"]
    /\ seen = [s \in Sessions |-> s]
    /\ alive = Sessions
    /\ crashes = 0 /\ faults = 0
    /\ takeover = FALSE

----------------------------------------------------------------------------
At(s, place) == s \in alive /\ pc[s] = place
Goto(s, place) == pc' = [pc EXCEPT ![s] = place]

\* The file as openSync creates it, and once it names its creator.
NewFile(s) == [by |-> s, named |-> FALSE]
NamedFile(s) == [by |-> s, named |-> TRUE]

\* The file names its owner; it does so once writeFileSync is through.
Named == lock # NoFile /\ lock.named
OwnFile(s) == lock # NoFile /\ lock.by = s

Rest == <<seen, alive, crashes, faults, takeover>>

\* existsSync.
Look(s) ==
    /\ At(s, "start")
    /\ \/ lock = NoFile /\ Goto(s, "create")
       \/ lock # NoFile /\ Goto(s, "validate")
    /\ UNCHANGED <<lock, Rest>>


\* validateLockOwnership: a file that is gone by now or does not name its
\* owner yet makes the lock unavailable.
Validate(s) ==
    /\ At(s, "validate")
    /\ \/ /\ Named
          /\ seen' = [seen EXCEPT ![s] = lock.by]
          /\ Goto(s, "judge")
       \/ /\ ~Named
          /\ Goto(s, "ended")
          /\ UNCHANGED seen
    /\ UNCHANGED <<lock, alive, crashes, faults, takeover>>

\* isProcessAlive of the pid that was read: in progress, or stale.
Judge(s) ==
    /\ At(s, "judge")
    /\ \/ /\ seen[s] \in alive /\ Goto(s, "ended")
          /\ UNCHANGED takeover
       \/ /\ seen[s] \notin alive /\ Goto(s, IF Rereads THEN "reread" ELSE "unlink")
          /\ takeover' = TRUE
    /\ UNCHANGED <<lock, seen, alive, crashes, faults>>

\* removeStaleLockIfDead reads the file again, and gives up in silence when
\* it has gone or its owner lives: the creation that follows decides.
Reread(s) ==
    /\ At(s, "reread")
    /\ \/ lock = NoFile /\ Goto(s, "create") /\ UNCHANGED seen
       \/ /\ Named
          /\ seen' = [seen EXCEPT ![s] = lock.by]
          /\ Goto(s, "rejudge")
       \/ lock # NoFile /\ ~Named /\ Goto(s, "ended") /\ UNCHANGED seen
    /\ UNCHANGED <<lock, alive, crashes, faults, takeover>>

Rejudge(s) ==
    /\ At(s, "rejudge")
    /\ Goto(s, IF seen[s] \in alive THEN "create" ELSE "unlink")
    /\ UNCHANGED <<lock, Rest>>

\* unlinkSync removes whatever has the name by now, or throws ENOENT.
Unlink(s) ==
    /\ At(s, "unlink")
    /\ \/ lock # NoFile /\ lock' = NoFile /\ Goto(s, "create")
       \/ lock = NoFile /\ Goto(s, "ended") /\ UNCHANGED lock
    /\ UNCHANGED Rest

\* Mutant: opens with 'w', which truncates a file that is there.
CreateOver(s) ==
    /\ At(s, "create")
    /\ lock' = NewFile(s)
    /\ Goto(s, "write")
    /\ UNCHANGED Rest

\* openSync(.., 'wx'): EEXIST means in progress.
Create(s) ==
    /\ At(s, "create")
    /\ \/ /\ lock = NoFile
          /\ lock' = NewFile(s)
          /\ Goto(s, "write")
       \/ lock # NoFile /\ Goto(s, "ended") /\ UNCHANGED lock
    /\ UNCHANGED Rest

\* writeFileSync goes to the descriptor: it names the owner in the file it
\* created, under its name or unlinked since.
Write(s) ==
    /\ At(s, "write")
    /\ lock' = IF OwnFile(s) THEN NamedFile(s) ELSE lock
    /\ Goto(s, "held")
    /\ UNCHANGED Rest

\* A write or a sync that throws ends the acquisition and leaves the file
\* behind, with or without a name in it.
WriteFails(s) ==
    /\ At(s, "write") /\ faults < MaxFaults
    /\ faults' = faults + 1
    /\ \/ UNCHANGED lock
       \/ OwnFile(s) /\ lock' = NamedFile(s)
    /\ Goto(s, "failed")
    /\ UNCHANGED <<seen, alive, crashes, takeover>>

\* Mutant: the operation ends without release.
ReleaseForgotten(s) ==
    /\ At(s, "held")
    /\ Goto(s, "ended")
    /\ UNCHANGED <<lock, Rest>>

\* release reads the file and leaves one that does not name it alone.
Release(s) ==
    /\ At(s, "held")
    /\ Goto(s, IF OwnFile(s) /\ Named THEN "drop" ELSE "ended")
    /\ UNCHANGED <<lock, Rest>>

Drop(s) ==
    /\ At(s, "drop")
    /\ lock' = NoFile
    /\ Goto(s, "ended")
    /\ UNCHANGED Rest

\* The process of a session that is over exits.
Exit(s) ==
    /\ At(s, "ended") \/ At(s, "failed")
    /\ alive' = alive \ {s}
    /\ UNCHANGED <<lock, pc, seen, crashes, faults, takeover>>

\* The process is killed wherever it is.
Crash(s) ==
    /\ s \in alive /\ pc[s] \notin {"ended", "failed"} /\ crashes < MaxCrashes
    /\ alive' = alive \ {s}
    /\ crashes' = crashes + 1
    /\ UNCHANGED <<lock, pc, seen, faults, takeover>>

Next ==
    \E s \in Sessions :
        \/ Look(s) \/ Validate(s) \/ Judge(s) \/ Reread(s) \/ Rejudge(s)
        \/ Unlink(s) \/ Create(s) \/ Write(s) \/ WriteFails(s)
        \/ Release(s) \/ Drop(s) \/ Exit(s) \/ Crash(s)

Spec == Init /\ [][Next]_vars

----------------------------------------------------------------------------
(***************************************************************************)
(* Properties.                                                             *)
(***************************************************************************)
\* Sessions that go on as the holder of the lock.
Holders == {s \in alive : pc[s] \in {"held", "drop"}}

\* "Takes an exclusive lock ... so backup, restore, and sync cannot overlap":
\* the lock has one holder at a time.  A stale lock refutes it (takeovers).
MutualExclusion ==
    \A r, s \in Holders : r = s

\* The O_EXCL protocol itself is sound: as long as no session has taken a
\* lock for stale, one session holds it, through kills and failing writes.
ExclusiveWithoutTakeover ==
    ~takeover => MutualExclusion

\* A session that was refused or has released leaves no lock file of its own:
\* only one that is killed or fails to write leaves it to the others, even
\* when they remove each other's files meanwhile (release).
NothingLeftBehind ==
    lock # NoFile => pc[lock.by] # "ended"

=============================================================================
