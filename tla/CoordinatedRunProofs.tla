----------------------- MODULE CoordinatedRunProofs -----------------------
(***************************************************************************)
(* Proofs about CoordinatedRun, for any sessions, archives and writers and *)
(* any number of kills, failing commands and stray starts: what was        *)
(* stopped stays on record, a run that succeeds has brought it back, and   *)
(* no writer is started on a tree that is a mix of two generations.        *)
(*                                                                         *)
(* The updates of a run are taken apart once (the lemmas ...Turns), and    *)
(* one lemma for each action (...Keeps) shows what it keeps of the         *)
(* invariant for its own session; StepKeeps adds the other sessions, which *)
(* do not hold the lock.                                                   *)
(***************************************************************************)
EXTENDS CoordinatedRun, TLAPS

\* Where a session has the lock; where it has a journal; where the staged restore
\* is at work; where no writer has been started again.
Holding == Places \ {"start", "lock", "ended"}
Working == Holding \ {"prepare", "release"}
Staging == {"stage", "gate", "swap", "staged"}
Resting == {"stop", "publish", "boundary"} \cup Staging

\* The runs that live past acquireCoordinatedLock hold the lock: there is one.
OneHolder == \A s \in alive : run[s].at \in Holding => lock = s

\* Between the record of a mutation and the end of the swap the tree may be a
\* mix; where the staged restore has not begun or is over it is not.
TreeFits(s) ==
    /\ run[s].at = "swap" => staged.status = "unverified"
    /\ run[s].at \in {"gate", "staged"} => ~partial

JournalFits(journal) == journal.op = "backup" => journal.phase # "restore_staged"

\* What a run knows by where it is.
RunFits(s) ==
    LET r == run[s] IN
    /\ r.at \in {"lock", "prepare"} => r.journal = NoJournal \/ Unfinished(r.journal)
    /\ r.at \in Working => r.journal # NoJournal
    /\ r.journal # NoJournal =>
         /\ JournalFits(r.journal)
         /\ r.op = "restore" => r.journal.op = "restore"
    /\ r.at \in Staging => r.op = "restore" /\ r.journal.phase = "quiescence_verified"
    /\ r.at \in {"publish", "boundary"} => r.op = "backup"
    /\ r.at = "publish" => r.journal.phase = "quiescence_verified"
    /\ r.at = "boundary" =>
         /\ Unfinished(r.journal)
         /\ r.journal.phase \notin {"writers_captured", "quiescence_verified"}
    /\ r.at = "stop" => r.journal.phase \in
         IF r.interrupted THEN {"recovery_required"}
         ELSE {"writers_captured", "quiescence_verified"}
    /\ r.at \in Resting => r.snap = r.journal.pre
    /\ r.at \in {"start", "lock", "prepare"} \cup Resting => ~r.err /\ r.safe
    /\ r.at \in {"start", "lock", "prepare"} => ~r.interrupted
    /\ ~r.safe => r.err
    /\ r.at = "finish" => ~r.err
    /\ r.at \in {"restart", "health"} /\ r.err => Settled(r.journal)

RunsFit == \A s \in Sessions : RunFits(s)

\* As long as no journal was replaced, the holder's is the one on disk, but for
\* the phase while it starts writers.
OnRecord(s) ==
    run[s].at \in Working =>
        /\ disk # NoJournal
        /\ disk.op = run[s].journal.op /\ disk.pre = run[s].journal.pre
        /\ disk = run[s].journal \/ run[s].at = "restart"

DiskFits == disk # NoJournal => JournalFits(disk)

\* The journal on disk names what is down, and does not call it restarted.
DiskTells ==
    down # {} => /\ disk # NoJournal /\ down \subseteq disk.pre
                 /\ disk.phase \notin {"restart_complete", "health_verified", "complete"}

\* ... and a run that has not failed knows which writers are still down.
Knows(s) ==
    ~run[s].err =>
        /\ run[s].at \in {"boundary", "restart"} => down \subseteq run[s].todo
        /\ run[s].at \in {"health", "finish"} => down = {}
        /\ run[s].at = "release" /\ run[s].journal.op = run[s].op => down = {}

\* A mixed tree is a restore's, which has not got past it.
MixTells ==
    partial => /\ disk # NoJournal /\ disk.op = "restore"
               /\ disk.phase \in {"quiescence_verified", "failed", "recovery_required"}

Waits(s) ==
    partial /\ run[s].at \in Holding =>
        \/ run[s].at \in {"prepare", "stage", "swap", "release"}
        \/ run[s].at = "restart" /\ ~run[s].safe

\* The inductive invariant.
IInv ==
    /\ TypeOK /\ OneHolder /\ MixIsOnRecord /\ \A s \in alive : TreeFits(s)
    /\ RunsFit /\ DiskFits
    /\ ~disturbed => DiskTells /\ \A s \in alive : OnRecord(s) /\ Knows(s)
    /\ ~disturbed /\ ~blind => MixTells /\ \A s \in alive : Waits(s)

\* What a journal is, and what it becomes in another phase.
LEMMA JournalFacts ==
    ASSUME NEW journal \in Journals
    PROVE  /\ journal.op \in Operations /\ journal.phase \in Phases
           /\ journal.pre \in SUBSET Writers
  BY DEF Journals

LEMMA PhaseFacts ==
    ASSUME NEW s \in Sessions, run[s].journal \in Journals
    PROVE  \A phase \in Phases :
              LET journal == InPhase(s, phase) IN
              /\ journal \in Journals
              /\ journal.op = run[s].journal.op /\ journal.pre = run[s].journal.pre
              /\ journal.phase = phase
  BY DEF Journals, InPhase

\* Only the session's own run changes.
LEMMA Changes ==
    ASSUME TypeOK, NEW s \in Sessions, NEW r \in Runs, Becomes(s, r)
    PROVE  /\ run' \in [Sessions -> Runs] /\ run'[s] = r
           /\ \A t \in Sessions : t # s => run'[t] = run[t]
  BY DEF TypeOK, Becomes

\* What a step makes of the run of its session; the others stay.
Turned(s, at, journal, snap, todo, err, interrupted, safe) ==
    /\ run' \in [Sessions -> Runs]
    /\ \A t \in Sessions : t # s => run'[t] = run[t]
    /\ run'[s].op = run[s].op
    /\ run'[s].at = at /\ run'[s].journal = journal
    /\ run'[s].snap = snap /\ run'[s].todo = todo
    /\ run'[s].err = err /\ run'[s].interrupted = interrupted /\ run'[s].safe = safe

\* The session's journal in another phase, and that journal on disk.
Rephased(s, journal, phase) ==
    /\ journal \in Journals
    /\ journal.op = run[s].journal.op /\ journal.pre = run[s].journal.pre
    /\ journal.phase = phase

Written(s, phase) == Rephased(s, disk', phase)

\* What an update of a run makes of it, for each set of fields a step updates.
LEMMA JournalAt ==
    ASSUME TypeOK, NEW s \in Sessions, NEW journal \in Journals \cup {NoJournal},
           NEW at \in Places,
           Becomes(s, [run[s] EXCEPT !.journal = journal, !.at = at])
    PROVE  Turned(s, at, journal, run[s].snap, run[s].todo, run[s].err,
                  run[s].interrupted, run[s].safe)
<1> DEFINE r == [run[s] EXCEPT !.journal = journal, !.at = at]
<1>1. run[s] \in Runs
      BY DEF TypeOK
<1>2. r \in Runs
      BY <1>1 DEF Runs
<1>3. /\ r.at = at /\ r.journal = journal /\ r.snap = run[s].snap /\ r.todo = run[s].todo
      /\ r.err = run[s].err /\ r.interrupted = run[s].interrupted /\ r.safe = run[s].safe
      /\ r.op = run[s].op
      BY <1>1 DEF Runs
<1> HIDE DEF r
<1> QED
    BY <1>2, <1>3, Changes DEF r, Turned

LEMMA JournalErrAt ==
    ASSUME TypeOK, NEW s \in Sessions, NEW journal \in Journals \cup {NoJournal},
           NEW err \in BOOLEAN, NEW at \in Places,
           Becomes(s, [run[s] EXCEPT !.journal = journal, !.err = err, !.at = at])
    PROVE  Turned(s, at, journal, run[s].snap, run[s].todo, err, run[s].interrupted,
                  run[s].safe)
<1> DEFINE r == [run[s] EXCEPT !.journal = journal, !.err = err, !.at = at]
<1>1. run[s] \in Runs
      BY DEF TypeOK
<1>2. r \in Runs
      BY <1>1 DEF Runs
<1>3. /\ r.at = at /\ r.journal = journal /\ r.snap = run[s].snap /\ r.todo = run[s].todo
      /\ r.err = err /\ r.interrupted = run[s].interrupted /\ r.safe = run[s].safe
      /\ r.op = run[s].op
      BY <1>1 DEF Runs
<1> HIDE DEF r
<1> QED
    BY <1>2, <1>3, Changes DEF r, Turned

LEMMA JournalErrSafeTodoAt ==
    ASSUME TypeOK, NEW s \in Sessions, NEW journal \in Journals \cup {NoJournal},
           NEW err \in BOOLEAN, NEW safe \in BOOLEAN,
           NEW todo \in SUBSET Writers, NEW at \in Places,
           Becomes(s, [run[s] EXCEPT !.journal = journal, !.err = err, !.safe = safe, !.todo =
                                      todo, !.at = at])
    PROVE  Turned(s, at, journal, run[s].snap, todo, err, run[s].interrupted, safe)
<1> DEFINE r == [run[s] EXCEPT !.journal = journal, !.err = err, !.safe = safe, !.todo =
                                todo, !.at = at]
<1>1. run[s] \in Runs
      BY DEF TypeOK
<1>2. r \in Runs
      BY <1>1 DEF Runs
<1>3. /\ r.at = at /\ r.journal = journal /\ r.snap = run[s].snap /\ r.todo = todo
      /\ r.err = err /\ r.interrupted = run[s].interrupted /\ r.safe = safe
      /\ r.op = run[s].op
      BY <1>1 DEF Runs
<1> HIDE DEF r
<1> QED
    BY <1>2, <1>3, Changes DEF r, Turned

LEMMA JournalSnapTodoAt ==
    ASSUME TypeOK, NEW s \in Sessions, NEW journal \in Journals \cup {NoJournal},
           NEW snap \in SUBSET Writers, NEW todo \in SUBSET Writers,
           NEW at \in Places,
           Becomes(s, [run[s] EXCEPT !.journal = journal, !.snap = snap, !.todo = todo, !.at = at])
    PROVE  Turned(s, at, journal, snap, todo, run[s].err, run[s].interrupted,
                  run[s].safe)
<1> DEFINE r == [run[s] EXCEPT !.journal = journal, !.snap = snap, !.todo = todo, !.at = at]
<1>1. run[s] \in Runs
      BY DEF TypeOK
<1>2. r \in Runs
      BY <1>1 DEF Runs
<1>3. /\ r.at = at /\ r.journal = journal /\ r.snap = snap /\ r.todo = todo
      /\ r.err = run[s].err /\ r.interrupted = run[s].interrupted /\ r.safe = run[s].safe
      /\ r.op = run[s].op
      BY <1>1 DEF Runs
<1> HIDE DEF r
<1> QED
    BY <1>2, <1>3, Changes DEF r, Turned

LEMMA SnapAtTodo ==
    ASSUME TypeOK, NEW s \in Sessions, NEW snap \in SUBSET Writers,
           NEW at \in Places, NEW todo \in SUBSET Writers,
           Becomes(s, [run[s] EXCEPT !.snap = snap, !.at = at, !.todo = todo])
    PROVE  Turned(s, at, run[s].journal, snap, todo, run[s].err, run[s].interrupted,
                  run[s].safe)
<1> DEFINE r == [run[s] EXCEPT !.snap = snap, !.at = at, !.todo = todo]
<1>1. run[s] \in Runs
      BY DEF TypeOK
<1>2. r \in Runs
      BY <1>1 DEF Runs
<1>3. /\ r.at = at /\ r.journal = run[s].journal /\ r.snap = snap /\ r.todo = todo
      /\ r.err = run[s].err /\ r.interrupted = run[s].interrupted /\ r.safe = run[s].safe
      /\ r.op = run[s].op
      BY <1>1 DEF Runs
<1> HIDE DEF r
<1> QED
    BY <1>2, <1>3, Changes DEF r, Turned

LEMMA JournalErrSnapTodoAt ==
    ASSUME TypeOK, NEW s \in Sessions, NEW journal \in Journals \cup {NoJournal},
           NEW err \in BOOLEAN, NEW snap \in SUBSET Writers,
           NEW todo \in SUBSET Writers, NEW at \in Places,
           Becomes(s, [run[s] EXCEPT !.journal = journal, !.err = err, !.snap = snap, !.todo =
                                      todo, !.at = at])
    PROVE  Turned(s, at, journal, snap, todo, err, run[s].interrupted, run[s].safe)
<1> DEFINE r == [run[s] EXCEPT !.journal = journal, !.err = err, !.snap = snap, !.todo =
                                todo, !.at = at]
<1>1. run[s] \in Runs
      BY DEF TypeOK
<1>2. r \in Runs
      BY <1>1 DEF Runs
<1>3. /\ r.at = at /\ r.journal = journal /\ r.snap = snap /\ r.todo = todo
      /\ r.err = err /\ r.interrupted = run[s].interrupted /\ r.safe = run[s].safe
      /\ r.op = run[s].op
      BY <1>1 DEF Runs
<1> HIDE DEF r
<1> QED
    BY <1>2, <1>3, Changes DEF r, Turned

LEMMA JournalInterrupted ==
    ASSUME TypeOK, NEW s \in Sessions, NEW journal \in Journals \cup {NoJournal},
           NEW interrupted \in BOOLEAN,
           Becomes(s, [run[s] EXCEPT !.journal = journal, !.interrupted = interrupted])
    PROVE  Turned(s, run[s].at, journal, run[s].snap, run[s].todo, run[s].err,
                  interrupted, run[s].safe)
<1> DEFINE r == [run[s] EXCEPT !.journal = journal, !.interrupted = interrupted]
<1>1. run[s] \in Runs
      BY DEF TypeOK
<1>2. r \in Runs
      BY <1>1 DEF Runs
<1>3. /\ r.at = run[s].at /\ r.journal = journal /\ r.snap = run[s].snap /\ r.todo = run[s].todo
      /\ r.err = run[s].err /\ r.interrupted = interrupted /\ r.safe = run[s].safe
      /\ r.op = run[s].op
      BY <1>1 DEF Runs
<1> HIDE DEF r
<1> QED
    BY <1>2, <1>3, Changes DEF r, Turned

LEMMA JournalAtTodo ==
    ASSUME TypeOK, NEW s \in Sessions, NEW journal \in Journals \cup {NoJournal},
           NEW at \in Places, NEW todo \in SUBSET Writers,
           Becomes(s, [run[s] EXCEPT !.journal = journal, !.at = at, !.todo = todo])
    PROVE  Turned(s, at, journal, run[s].snap, todo, run[s].err, run[s].interrupted,
                  run[s].safe)
<1> DEFINE r == [run[s] EXCEPT !.journal = journal, !.at = at, !.todo = todo]
<1>1. run[s] \in Runs
      BY DEF TypeOK
<1>2. r \in Runs
      BY <1>1 DEF Runs
<1>3. /\ r.at = at /\ r.journal = journal /\ r.snap = run[s].snap /\ r.todo = todo
      /\ r.err = run[s].err /\ r.interrupted = run[s].interrupted /\ r.safe = run[s].safe
      /\ r.op = run[s].op
      BY <1>1 DEF Runs
<1> HIDE DEF r
<1> QED
    BY <1>2, <1>3, Changes DEF r, Turned

LEMMA JournalTodoAt ==
    ASSUME TypeOK, NEW s \in Sessions, NEW journal \in Journals \cup {NoJournal},
           NEW todo \in SUBSET Writers, NEW at \in Places,
           Becomes(s, [run[s] EXCEPT !.journal = journal, !.todo = todo, !.at = at])
    PROVE  Turned(s, at, journal, run[s].snap, todo, run[s].err, run[s].interrupted,
                  run[s].safe)
<1> DEFINE r == [run[s] EXCEPT !.journal = journal, !.todo = todo, !.at = at]
<1>1. run[s] \in Runs
      BY DEF TypeOK
<1>2. r \in Runs
      BY <1>1 DEF Runs
<1>3. /\ r.at = at /\ r.journal = journal /\ r.snap = run[s].snap /\ r.todo = todo
      /\ r.err = run[s].err /\ r.interrupted = run[s].interrupted /\ r.safe = run[s].safe
      /\ r.op = run[s].op
      BY <1>1 DEF Runs
<1> HIDE DEF r
<1> QED
    BY <1>2, <1>3, Changes DEF r, Turned

LEMMA TodoErrJournal ==
    ASSUME TypeOK, NEW s \in Sessions, NEW todo \in SUBSET Writers,
           NEW err \in BOOLEAN, NEW journal \in Journals \cup {NoJournal},
           Becomes(s, [run[s] EXCEPT !.todo = todo, !.err = err, !.journal = journal])
    PROVE  Turned(s, run[s].at, journal, run[s].snap, todo, err, run[s].interrupted,
                  run[s].safe)
<1> DEFINE r == [run[s] EXCEPT !.todo = todo, !.err = err, !.journal = journal]
<1>1. run[s] \in Runs
      BY DEF TypeOK
<1>2. r \in Runs
      BY <1>1 DEF Runs
<1>3. /\ r.at = run[s].at /\ r.journal = journal /\ r.snap = run[s].snap /\ r.todo = todo
      /\ r.err = err /\ r.interrupted = run[s].interrupted /\ r.safe = run[s].safe
      /\ r.op = run[s].op
      BY <1>1 DEF Runs
<1> HIDE DEF r
<1> QED
    BY <1>2, <1>3, Changes DEF r, Turned

LEMMA GotoTurns ==
    ASSUME TypeOK, NEW s \in Sessions, NEW place \in Places, Goto(s, place)
    PROVE  Turned(s, place, run[s].journal, run[s].snap, run[s].todo,
                  run[s].err, run[s].interrupted, run[s].safe)
  BY DEF Goto, Becomes, Turned, TypeOK, Runs

LEMMA RecordsTurns ==
    ASSUME TypeOK, NEW s \in Sessions, run[s].journal \in Journals,
           NEW phase \in Phases, NEW place \in Places, Records(s, phase, place)
    PROVE  /\ Written(s, phase)
           /\ Turned(s, place, disk', run[s].snap, run[s].todo,
                     run[s].err, run[s].interrupted, run[s].safe)
<1>1. Rephased(s, InPhase(s, phase), phase)
      BY PhaseFacts DEF Rephased
<1> QED
    BY <1>1, JournalAt DEF Records, Written, Rephased

LEMMA FailsTurns ==
    ASSUME Parameters, TypeOK, NEW s \in Sessions, run[s].journal \in Journals,
           NEW safe \in BOOLEAN, Fails(s, safe)
    PROVE  /\ \/ Written(s, "recovery_required")
              \/ safe /\ Written(s, "failed")
           /\ Turned(s, "restart", disk', run[s].snap, Returning(run[s].snap),
                     TRUE, run[s].interrupted, safe)
<1>1. /\ FailedPhase(s, safe) \in {"failed", "recovery_required"}
      /\ ~safe => FailedPhase(s, safe) = "recovery_required"
      BY DEF FailedPhase
<1>2. Returning(run[s].snap) \in SUBSET Writers
      BY DEF TypeOK, Runs, Returning, Parameters
<1>3. Rephased(s, InPhase(s, FailedPhase(s, safe)), FailedPhase(s, safe))
      BY <1>1, PhaseFacts DEF Phases, Rephased
<1>4. disk' = InPhase(s, FailedPhase(s, safe)) /\ disk' \in Journals
      BY <1>3 DEF Fails, Rephased
<1>5. Turned(s, "restart", disk', run[s].snap, Returning(run[s].snap),
             TRUE, run[s].interrupted, safe)
      BY <1>2, <1>4, JournalErrSafeTodoAt DEF Fails, Places
<1> QED
    BY <1>1, <1>3, <1>4, <1>5 DEF Written

LEMMA ReadJournalTurns ==
    ASSUME TypeOK, NEW s \in Sessions, ReadJournal(s)
    PROVE  LET resumes == Unfinished(disk) /\ (run[s].op = "restore" => disk.op = "restore") IN
           Turned(s, "lock", IF resumes THEN disk ELSE NoJournal, run[s].snap, run[s].todo,
                  run[s].err, run[s].interrupted, run[s].safe)
<1> DEFINE journal == IF Unfinished(disk) /\ (run[s].op = "restore" => disk.op = "restore")
                      THEN disk ELSE NoJournal
<1>1. journal \in Journals \cup {NoJournal} /\ "lock" \in Places
      BY DEF TypeOK, Places
<1>2. Becomes(s, [run[s] EXCEPT !.journal = journal, !.at = "lock"])
      BY DEF ReadJournal
<1> HIDE DEF journal
<1>3. Turned(s, "lock", journal, run[s].snap, run[s].todo,
             run[s].err, run[s].interrupted, run[s].safe)
      BY <1>1, <1>2, JournalAt
<1> QED
    BY <1>3 DEF journal

\* A session that cannot go on closes the journal it has read, if any.
Closed(s) == IF run[s].journal # NoJournal THEN InPhase(s, "failed") ELSE NoJournal

LEMMA ClosedFacts ==
    ASSUME TypeOK, NEW s \in Sessions
    PROVE  /\ Closed(s) \in Journals \cup {NoJournal}
           /\ run[s].journal = NoJournal => Closed(s) = NoJournal
           /\ run[s].journal # NoJournal => Rephased(s, Closed(s), "failed")
<1>1. run[s].journal \in Journals \cup {NoJournal}
      BY DEF TypeOK, Runs
<1> QED
    BY <1>1, PhaseFacts DEF Closed, Phases, Rephased

LEMMA RefusedTurns ==
    ASSUME TypeOK, NEW s \in Sessions, Refused(s)
    PROVE  /\ disk' = IF run[s].journal # NoJournal THEN Closed(s) ELSE disk
           /\ Turned(s, "ended", Closed(s), run[s].snap, run[s].todo,
                     TRUE, run[s].interrupted, run[s].safe)
<1>1. /\ disk' = IF run[s].journal # NoJournal THEN Closed(s) ELSE disk
      /\ Becomes(s, [run[s] EXCEPT !.journal = Closed(s), !.err = TRUE, !.at = "ended"])
      BY DEF Refused, Closed
<1> QED
    BY <1>1, ClosedFacts, JournalErrAt DEF Places

LEMMA PrepareFailsTurns ==
    ASSUME TypeOK, NEW s \in Sessions, PrepareFails(s)
    PROVE  /\ disk' = IF run[s].journal # NoJournal THEN Closed(s) ELSE disk
           /\ Turned(s, "release", Closed(s), run[s].snap, run[s].todo,
                     TRUE, run[s].interrupted, run[s].safe)
<1>1. /\ disk' = IF run[s].journal # NoJournal THEN Closed(s) ELSE disk
      /\ Becomes(s, [run[s] EXCEPT !.journal = Closed(s), !.err = TRUE, !.at = "release"])
      BY DEF PrepareFails, Closed
<1> QED
    BY <1>1, ClosedFacts, JournalErrAt DEF Places

LEMMA CaptureWritersTurns ==
    ASSUME TypeOK, NEW s \in Sessions, CaptureWriters(s)
    PROVE  /\ disk' \in Journals /\ disk'.op = run[s].op /\ disk'.pre = active
           /\ disk'.phase = "writers_captured"
           /\ Turned(s, "stop", disk', active, Writers,
                     run[s].err, run[s].interrupted, run[s].safe)
<1>1. run[s].op \in Operations /\ active \in SUBSET Writers
      BY DEF TypeOK, Runs
<1>2. disk' = [op |-> run[s].op, phase |-> "writers_captured",
               pre |-> active, archived |-> FALSE]
      BY DEF CaptureWriters
<1>3. /\ disk' \in Journals /\ disk'.op = run[s].op /\ disk'.pre = active
      /\ disk'.phase = "writers_captured"
      BY <1>1, <1>2 DEF Journals, Phases
<1>4. Becomes(s, [run[s] EXCEPT !.journal = disk', !.snap = active,
                                !.todo = Writers, !.at = "stop"])
      BY <1>2 DEF CaptureWriters
<1> QED
    BY <1>1, <1>3, <1>4, JournalSnapTodoAt DEF Places

LEMMA ResumeTurns ==
    ASSUME Parameters, TypeOK, NEW s \in Sessions, Resume(s)
    PROVE  LET pre == run[s].journal.pre
               place == AfterPrepare(s, run[s].journal.phase)
           IN /\ run[s].journal \in Journals /\ disk' \in {disk, run[s].journal}
              /\ Turned(s, place, run[s].journal, pre,
                        IF place = "stop" THEN Writers ELSE Returning(pre),
                        run[s].err, run[s].interrupted, run[s].safe)
<1> DEFINE pre == run[s].journal.pre
           place == AfterPrepare(s, run[s].journal.phase)
           todo == IF place = "stop" THEN Writers ELSE Returning(pre)
<1>1. run[s].journal \in Journals /\ run[s].op \in {"backup", "restore"}
      BY DEF Resume, TypeOK, Runs, Parameters
<1>2. pre \in SUBSET Writers
      BY <1>1, JournalFacts
<1>3. todo \in SUBSET Writers
      BY <1>2 DEF Returning, Parameters
<1>4. place \in Places
      BY <1>1 DEF AfterPrepare, Places
<1>5. /\ disk' \in {disk, run[s].journal}
      /\ Becomes(s, [run[s] EXCEPT !.snap = pre, !.at = place, !.todo = todo])
      BY DEF Resume
<1> HIDE DEF place, todo, pre
<1>6. Turned(s, place, run[s].journal, pre, todo,
             run[s].err, run[s].interrupted, run[s].safe)
      BY <1>2, <1>3, <1>4, <1>5, SnapAtTodo
<1> QED
    BY <1>1, <1>5, <1>6 DEF place, todo, pre

LEMMA RefuseJournalTurns ==
    ASSUME Parameters, TypeOK, NEW s \in Sessions, RefuseJournal(s)
    PROVE  /\ run[s].journal \in Journals /\ Written(s, "failed")
           /\ Turned(s, "restart", disk', active, Returning(active),
                     TRUE, run[s].interrupted, run[s].safe)
<1>1. run[s].journal \in Journals
      BY DEF RefuseJournal, TypeOK, Runs
<1>2. Returning(active) \in SUBSET Writers
      BY DEF TypeOK, Returning, Parameters
<1>3. disk' = InPhase(s, "failed") /\ Written(s, "failed") /\ disk' \in Journals
      BY <1>1, PhaseFacts DEF Phases, RefuseJournal, Written, Rephased
<1>4. active \in SUBSET Writers
      BY DEF TypeOK
<1> QED
    BY <1>1, <1>2, <1>3, <1>4, JournalErrSnapTodoAt DEF RefuseJournal, Places

LEMMA StopTurns ==
    ASSUME TypeOK, NEW s \in Sessions, NEW w \in run[s].todo,
           Becomes(s, [run[s] EXCEPT !.todo = run[s].todo \ {w}])
    PROVE  Turned(s, run[s].at, run[s].journal, run[s].snap, run[s].todo \ {w},
                  run[s].err, run[s].interrupted, run[s].safe)
<1>1. run[s].todo \ {w} \in SUBSET Writers
      BY DEF TypeOK, Runs
<1> QED
    BY <1>1 DEF Becomes, Turned, TypeOK, Runs

LEMMA SignalTurns ==
    ASSUME TypeOK, NEW s \in Sessions, run[s].journal \in Journals, Signal(s)
    PROVE  /\ Written(s, "recovery_required")
           /\ Turned(s, run[s].at, disk', run[s].snap,
                     run[s].todo, run[s].err, TRUE, run[s].safe)
<1>1. /\ disk' = InPhase(s, "recovery_required") /\ disk' \in Journals
      /\ Written(s, "recovery_required")
      BY PhaseFacts DEF Phases, Signal, Written, Rephased
<1> QED
    BY <1>1, JournalInterrupted DEF Signal

LEMMA PublishTurns ==
    ASSUME Parameters, TypeOK, NEW s \in Sessions, run[s].journal \in Journals, Publish(s)
    PROVE  /\ Written(s, "backup_complete")
           /\ Turned(s, "restart", disk', run[s].snap, Returning(run[s].snap),
                     run[s].err, run[s].interrupted, run[s].safe)
<1>1. /\ disk' = [InPhase(s, "backup_complete") EXCEPT !.archived = TRUE]
      /\ Becomes(s, [run[s] EXCEPT !.journal = disk', !.at = "restart",
                                   !.todo = Returning(run[s].snap)])
      BY DEF Publish
<1>2. /\ disk' \in Journals /\ disk'.op = run[s].journal.op
      /\ disk'.pre = run[s].journal.pre /\ disk'.phase = "backup_complete"
  <2>1. /\ InPhase(s, "backup_complete") \in Journals
        /\ InPhase(s, "backup_complete").op = run[s].journal.op
        /\ InPhase(s, "backup_complete").pre = run[s].journal.pre
        /\ InPhase(s, "backup_complete").phase = "backup_complete"
        BY PhaseFacts DEF Phases
  <2> QED
      BY <1>1, <2>1 DEF Journals
<1>3. Returning(run[s].snap) \in SUBSET Writers
      BY DEF TypeOK, Runs, Returning, Parameters
<1> QED
    BY <1>1, <1>2, <1>3, JournalAtTodo DEF Places, Written, Rephased

LEMMA RestoreStagedTurns ==
    ASSUME Parameters, TypeOK, NEW s \in Sessions, run[s].journal \in Journals,
           RestoreStaged(s)
    PROVE  /\ Written(s, "restore_staged")
           /\ Turned(s, "restart", disk', run[s].snap, Returning(run[s].snap),
                     run[s].err, run[s].interrupted, run[s].safe)
<1>1. /\ disk' = InPhase(s, "restore_staged") /\ disk' \in Journals
      /\ Written(s, "restore_staged")
      BY PhaseFacts DEF Phases, RestoreStaged, Written, Rephased
<1>2. Returning(run[s].snap) \in SUBSET Writers
      BY DEF TypeOK, Runs, Returning, Parameters
<1> QED
    BY <1>1, <1>2, JournalTodoAt DEF RestoreStaged, Places

LEMMA StartFailsTurns ==
    ASSUME TypeOK, NEW s \in Sessions, run[s].journal \in Journals, StartFails(s)
    PROVE  \E w \in run[s].todo, journal \in Journals :
              /\ IF Settled(run[s].journal) THEN journal = run[s].journal
                 ELSE Rephased(s, journal, "recovery_required")
              /\ Turned(s, run[s].at, journal, run[s].snap, run[s].todo \ {w}, TRUE,
                        run[s].interrupted, run[s].safe)
<1> DEFINE journal == IF Settled(run[s].journal) THEN run[s].journal
                      ELSE InPhase(s, "recovery_required")
<1>1. /\ journal \in Journals
      /\ IF Settled(run[s].journal) THEN journal = run[s].journal
         ELSE Rephased(s, journal, "recovery_required")
      BY PhaseFacts DEF Phases, Rephased
<1>2. PICK w \in run[s].todo :
         Becomes(s, [run[s] EXCEPT !.todo = run[s].todo \ {w}, !.err = TRUE,
                                   !.journal = journal])
      BY DEF StartFails
<1> HIDE DEF journal
<1>3. run[s].todo \ {w} \in SUBSET Writers
      BY DEF TypeOK, Runs
<1>4. Turned(s, run[s].at, journal, run[s].snap, run[s].todo \ {w}, TRUE,
             run[s].interrupted, run[s].safe)
      BY <1>1, <1>2, <1>3, TodoErrJournal
<1> QED
    BY <1>1, <1>4

LEMMA UnhealthyTurns ==
    ASSUME TypeOK, NEW s \in Sessions, run[s].journal \in Journals, Unhealthy(s)
    PROVE  /\ Written(s, IF Settled(run[s].journal) THEN run[s].journal.phase
                         ELSE "recovery_required")
           /\ Turned(s, "release", disk', run[s].snap, run[s].todo, TRUE,
                     run[s].interrupted, run[s].safe)
<1> DEFINE phase == IF Settled(run[s].journal) THEN run[s].journal.phase
                    ELSE "recovery_required"
<1>1. phase \in Phases
      BY JournalFacts DEF Phases
<1>2. /\ disk' = InPhase(s, phase)
      /\ Becomes(s, [run[s] EXCEPT !.journal = InPhase(s, phase), !.err = TRUE,
                                   !.at = "release"])
      BY DEF Unhealthy
<1> HIDE DEF phase
<1>3. disk' \in Journals /\ Written(s, phase)
      BY <1>1, <1>2, PhaseFacts DEF Written, Rephased
<1>4. Turned(s, "release", disk', run[s].snap, run[s].todo, TRUE,
             run[s].interrupted, run[s].safe)
      BY <1>2, <1>3, JournalErrAt DEF Places
<1> QED
    BY <1>3, <1>4 DEF phase


\* The three things most steps do: go to another place, write the journal in
\* another phase, or fail.
Sent(s, place) ==
    Turned(s, place, run[s].journal, run[s].snap, run[s].todo,
           run[s].err, run[s].interrupted, run[s].safe)

Recorded(s, phase, place) ==
    /\ Written(s, phase)
    /\ Turned(s, place, disk', run[s].snap, run[s].todo,
              run[s].err, run[s].interrupted, run[s].safe)

Failed(s, safe) ==
    /\ Written(s, "recovery_required") \/ (safe /\ Written(s, "failed"))
    /\ Turned(s, "restart", disk', run[s].snap, Returning(run[s].snap),
              TRUE, run[s].interrupted, safe)

\* What is typed of a run.
RunFacts(s) ==
    /\ NoJournal \notin Journals
    /\ run[s].op \in {"backup", "restore"} /\ run[s].archive \in Archives \cup {NoArchive}
    /\ run[s].snap \subseteq Writers /\ run[s].todo \subseteq Writers
    /\ Fault => faults' \in 0 .. MaxFaults

LEMMA RunIsTyped ==
    ASSUME Parameters, TypeOK, NEW s \in Sessions PROVE RunFacts(s)
<1>1. run[s] \in Runs
      BY DEF TypeOK
<1>2. Fault => faults' \in 0 .. MaxFaults
      BY DEF TypeOK, Fault, Parameters
<1> QED
    BY <1>1, <1>2 DEF Runs, Parameters, RunFacts

LEMMA HasJournal ==
    ASSUME TypeOK, NEW s \in Sessions, RunFits(s), run[s].at \in Working
    PROVE  run[s].journal \in Journals /\ run[s].journal # NoJournal
  BY DEF TypeOK, Runs, RunFits


\* What a step leaves to the other sessions: only the holder of the lock has
\* changed what they know.
Aside(s) ==
    /\ s \in alive /\ alive' = alive
    /\ disturbed => disturbed'
    /\ blind => blind'
    /\ \A t \in Sessions : t # s => run'[t] = run[t]
    /\ \/ run[s].at \in Holding
       \/ UNCHANGED <<partial, staged, down>> /\ (disk' = disk \/ disturbed')
    /\ IF run[s].at \in Holding THEN lock' = lock \/ run'[s].at \notin Holding
       ELSE \/ lock' = lock /\ run'[s].at \notin Holding
            \/ lock' = s /\ lock \notin alive

\* What each step of a session keeps of it.
Kept(s) ==
    /\ TypeOK' /\ RunFits(s)' /\ DiskFits' /\ MixIsOnRecord' /\ TreeFits(s)'
    /\ Aside(s)
    /\ ~disturbed' => DiskTells' /\ OnRecord(s)' /\ Knows(s)'
    /\ ~disturbed' /\ ~blind' => MixTells' /\ Waits(s)'

\* One lemma for each action of a session.
LEMMA ReadJournalKeeps ==
    ASSUME Parameters, IInv, NEW s \in Sessions, ReadJournal(s) PROVE Kept(s)
<1>1. /\ TypeOK /\ RunFits(s) /\ DiskFits /\ MixIsOnRecord /\ TreeFits(s) /\ s \in alive
      /\ ~disturbed => DiskTells /\ OnRecord(s) /\ Knows(s)
      /\ ~disturbed /\ ~blind => MixTells /\ Waits(s)
      /\ RunFacts(s)
  <2>1. TypeOK
        BY DEF IInv
  <2> QED
      BY RunIsTyped DEF IInv, RunsFit, ReadJournal, At
<1>2. run[s].journal \in Journals \cup {NoJournal}
      BY <1>1 DEF TypeOK, Runs
<1>3. LET resumes == Unfinished(disk) /\ (run[s].op = "restore" => disk.op = "restore") IN
      Turned(s, "lock", IF resumes THEN disk ELSE NoJournal, run[s].snap, run[s].todo,
             run[s].err, run[s].interrupted, run[s].safe)
      BY <1>1, <1>2, ReadJournalTurns
<1>4. TypeOK'
      BY <1>1, <1>3 DEF ReadJournal, Turned, TypeOK, machine, tree, history, bounds
<1>5. RunFits(s)' /\ DiskFits'
      BY <1>1, <1>3 DEF ReadJournal, Turned, RunFits, DiskFits, Working, Holding,
         Staging, Resting, At
<1>6. MixIsOnRecord' /\ TreeFits(s)'
      BY <1>1, <1>3 DEF ReadJournal, Turned, MixIsOnRecord, TreeFits, tree
<1>7. ~disturbed' => DiskTells' /\ OnRecord(s)' /\ Knows(s)'
      BY <1>1, <1>3 DEF ReadJournal, Turned, machine, history, DiskTells, OnRecord,
         Knows, Working, Holding
<1>8. ~disturbed' /\ ~blind' => MixTells' /\ Waits(s)'
      BY <1>1, <1>3 DEF ReadJournal, Turned, tree, history, MixTells, Waits, Holding
<1>9. Aside(s)
      BY <1>1, <1>3 DEF ReadJournal, Turned, Aside, machine, tree, history, bounds,
         Holding
<1> QED
    BY <1>4, <1>5, <1>6, <1>7, <1>8, <1>9 DEF Kept

LEMMA AcquireKeeps ==
    ASSUME Parameters, IInv, NEW s \in Sessions, Acquire(s) PROVE Kept(s)
<1>1. /\ TypeOK /\ RunFits(s) /\ DiskFits /\ MixIsOnRecord /\ TreeFits(s) /\ s \in alive
      /\ ~disturbed => DiskTells /\ OnRecord(s) /\ Knows(s)
      /\ ~disturbed /\ ~blind => MixTells /\ Waits(s)
      /\ RunFacts(s)
  <2>1. TypeOK
        BY DEF IInv
  <2> QED
      BY RunIsTyped DEF IInv, RunsFit, Acquire, At
<1>2. run[s].journal \in Journals \cup {NoJournal}
      BY <1>1 DEF TypeOK, Runs
<1>3. Sent(s, "prepare")
      BY <1>1, GotoTurns DEF Acquire, Sent, Places
<1>4. TypeOK'
      BY <1>1, <1>3 DEF Acquire, Sent, Turned, TypeOK, machine, tree, history, bounds
<1>5. RunFits(s)' /\ DiskFits'
      BY <1>1, <1>3 DEF Acquire, Sent, Turned, RunFits, DiskFits, Working, Staging,
         Resting, At
<1>6. MixIsOnRecord' /\ TreeFits(s)'
      BY <1>1, <1>3 DEF Acquire, Sent, Turned, MixIsOnRecord, TreeFits, tree
<1>7. ~disturbed' => DiskTells' /\ OnRecord(s)' /\ Knows(s)'
      BY <1>1, <1>3 DEF Acquire, Sent, Turned, machine, history, DiskTells, OnRecord,
         Knows, Working
<1>8. ~disturbed' /\ ~blind' => MixTells' /\ Waits(s)'
      BY <1>1, <1>3 DEF Acquire, Sent, Turned, tree, history, MixTells, Waits
<1>9. Aside(s)
      BY <1>3 DEF Acquire, Sent, Turned, Aside, At, machine, tree, history, bounds,
         Holding
<1> QED
    BY <1>4, <1>5, <1>6, <1>7, <1>8, <1>9 DEF Kept

LEMMA RefusedKeeps ==
    ASSUME Parameters, IInv, NEW s \in Sessions, Refused(s) PROVE Kept(s)
<1>1. /\ TypeOK /\ RunFits(s) /\ DiskFits /\ MixIsOnRecord /\ TreeFits(s) /\ s \in alive
      /\ ~disturbed => DiskTells /\ OnRecord(s) /\ Knows(s)
      /\ ~disturbed /\ ~blind => MixTells /\ Waits(s)
      /\ RunFacts(s)
  <2>1. TypeOK
        BY DEF IInv
  <2> QED
      BY RunIsTyped DEF IInv, RunsFit, Refused, At
<1>2. run[s].journal \in Journals \cup {NoJournal}
      BY <1>1 DEF TypeOK, Runs
<1>3. /\ disk' = IF run[s].journal # NoJournal THEN Closed(s) ELSE disk
      /\ Turned(s, "ended", Closed(s), run[s].snap, run[s].todo,
                TRUE, run[s].interrupted, run[s].safe)
      BY <1>1, <1>2, RefusedTurns
<1>4. /\ Closed(s) \in Journals \cup {NoJournal}
      /\ run[s].journal = NoJournal => Closed(s) = NoJournal
      /\ run[s].journal # NoJournal => Rephased(s, Closed(s), "failed")
      BY <1>1, ClosedFacts
<1>5. TypeOK'
      BY <1>1, <1>3, <1>4 DEF Refused, Turned, TypeOK, machine, tree, bounds
<1>6. RunFits(s)' /\ DiskFits'
      BY <1>1, <1>3, <1>4 DEF Turned, Rephased, RunFits, DiskFits, JournalFits, Working,
         Holding, Staging, Resting
<1>7. MixIsOnRecord' /\ TreeFits(s)'
      BY <1>1, <1>3 DEF Refused, Turned, MixIsOnRecord, TreeFits, tree
<1>8. ~disturbed' => DiskTells' /\ OnRecord(s)' /\ Knows(s)'
      BY <1>1, <1>3 DEF Refused, Turned, machine, DiskTells, OnRecord, Knows, Working,
         Holding
<1>9. ~disturbed' /\ ~blind' => MixTells' /\ Waits(s)'
      BY <1>1, <1>3 DEF Refused, Turned, tree, MixTells, Waits, Holding
<1>10. Aside(s)
      BY <1>1, <1>3 DEF Refused, Turned, Aside, machine, tree, bounds, Holding
<1> QED
    BY <1>5, <1>6, <1>7, <1>8, <1>9, <1>10 DEF Kept

LEMMA CaptureWritersKeeps ==
    ASSUME Parameters, IInv, NEW s \in Sessions, CaptureWriters(s) PROVE Kept(s)
<1>1. /\ TypeOK /\ RunFits(s) /\ DiskFits /\ MixIsOnRecord /\ TreeFits(s) /\ s \in alive
      /\ ~disturbed => DiskTells /\ OnRecord(s) /\ Knows(s)
      /\ ~disturbed /\ ~blind => MixTells /\ Waits(s)
      /\ RunFacts(s)
  <2>1. TypeOK
        BY DEF IInv
  <2> QED
      BY RunIsTyped DEF IInv, RunsFit, CaptureWriters, At
<1>2. run[s].journal \in Journals \cup {NoJournal}
      BY <1>1 DEF TypeOK, Runs
<1>3. /\ disk' \in Journals /\ disk'.op = run[s].op /\ disk'.pre = active
      /\ disk'.phase = "writers_captured"
      /\ Turned(s, "stop", disk', active, Writers,
                run[s].err, run[s].interrupted, run[s].safe)
      BY <1>1, <1>2, CaptureWritersTurns
<1>4. TypeOK'
      BY <1>1, <1>3 DEF CaptureWriters, Turned, TypeOK, machine, tree, bounds
<1>5. RunFits(s)' /\ DiskFits'
      BY <1>1, <1>3 DEF RunFacts, CaptureWriters, Turned, RunFits, DiskFits,
         JournalFits, Staging, At
<1>6. MixIsOnRecord' /\ TreeFits(s)'
      BY <1>1, <1>3 DEF CaptureWriters, Turned, MixIsOnRecord, TreeFits, tree
<1>7. ~disturbed' => DiskTells' /\ OnRecord(s)' /\ Knows(s)'
      BY <1>1, <1>3 DEF RunFacts, CaptureWriters, Turned, machine, DiskTells, OnRecord,
         Knows
<1>8. ~disturbed' /\ ~blind' => MixTells' /\ Waits(s)'
      BY <1>1 DEF CaptureWriters, tree, MixTells, Waits
<1>9. Aside(s)
  <2>1. \A t \in Sessions : t # s => run'[t] = run[t]
        BY <1>3 DEF Turned
  <2>2. /\ s \in alive /\ alive' = alive /\ run[s].at \in Holding /\ lock' = lock
        /\ (disturbed => disturbed') /\ (blind => blind')
        BY DEF CaptureWriters, At, bounds, Holding, Places
  <2> QED
      BY <2>1, <2>2 DEF Aside
<1> QED
    BY <1>4, <1>5, <1>6, <1>7, <1>8, <1>9 DEF Kept

LEMMA ResumeKeeps ==
    ASSUME Parameters, IInv, NEW s \in Sessions, Resume(s) PROVE Kept(s)
<1>1. /\ TypeOK /\ RunFits(s) /\ DiskFits /\ MixIsOnRecord /\ TreeFits(s) /\ s \in alive
      /\ ~disturbed => DiskTells /\ OnRecord(s) /\ Knows(s)
      /\ ~disturbed /\ ~blind => MixTells /\ Waits(s)
      /\ RunFacts(s)
  <2>1. TypeOK
        BY DEF IInv
  <2> QED
      BY RunIsTyped DEF IInv, RunsFit, Resume, At
<1>2. run[s].journal \in Journals \cup {NoJournal}
      BY <1>1 DEF TypeOK, Runs
<1>3. LET pre == run[s].journal.pre
          place == AfterPrepare(s, run[s].journal.phase)
      IN /\ run[s].journal \in Journals /\ disk' \in {disk, run[s].journal}
         /\ Turned(s, place, run[s].journal, pre,
                   IF place = "stop" THEN Writers ELSE Returning(pre),
                   run[s].err, run[s].interrupted, run[s].safe)
      BY <1>1, <1>2, ResumeTurns
<1>4. LET phase == run[s].journal.phase IN
      \/ run[s].op = "backup" /\ run'[s].at = "stop"
         /\ phase \in {"writers_captured", "quiescence_verified"}
      \/ run[s].op = "backup" /\ run'[s].at = "boundary"
         /\ phase \notin {"writers_captured", "quiescence_verified"}
      \/ run[s].op = "restore" /\ run'[s].at = "stop" /\ phase = "writers_captured"
      \/ run[s].op = "restore" /\ run'[s].at = "stage" /\ phase = "quiescence_verified"
      \/ run[s].op = "restore" /\ run'[s].at = "restart"
         /\ phase \notin {"writers_captured", "quiescence_verified"}
  <2>1. run[s].op \in {"backup", "restore"}
        BY <1>1 DEF TypeOK, Runs, Parameters
  <2>2. run'[s].at = AfterPrepare(s, run[s].journal.phase)
        BY <1>3 DEF Turned
  <2> QED
      BY <2>1, <2>2 DEF AfterPrepare
<1>5. /\ run[s].journal # NoJournal /\ run[s].at = "prepare"
      /\ run'[s].snap = run[s].journal.pre
      /\ run'[s].at = "stop" \/ run'[s].todo = Returning(run[s].journal.pre)
      /\ run' \in [Sessions -> Runs] /\ run'[s].op = run[s].op /\ run'[s].journal = run[s].journal
      /\ ~run'[s].err /\ run'[s].safe /\ ~run'[s].interrupted
      BY <1>1, <1>3 DEF Resume, Turned, RunFits, At
<1>6. TypeOK'
      BY <1>1, <1>3, <1>5 DEF Resume, TypeOK, machine, tree, bounds
<1>7. RunFits(s)' /\ DiskFits'
      BY <1>1, <1>3, <1>4, <1>5 DEF RunFits, DiskFits, Staging
<1>8. MixIsOnRecord' /\ TreeFits(s)'
      BY <1>1, <1>4 DEF Resume, MixIsOnRecord, TreeFits, tree
<1>9. ~disturbed' => DiskTells' /\ OnRecord(s)' /\ Knows(s)'
      BY <1>1, <1>4, <1>5 DEF Resume, machine, DiskTells, OnRecord, Knows, Returning
<1>10. ~disturbed' /\ ~blind' => MixTells' /\ Waits(s)'
      BY <1>1, <1>4, <1>5 DEF Resume, tree, RunFits, MixTells, Waits, Unfinished
<1>11. Aside(s)
  <2>1. \A t \in Sessions : t # s => run'[t] = run[t]
        BY <1>3 DEF Turned
  <2>2. /\ s \in alive /\ alive' = alive /\ run[s].at \in Holding /\ lock' = lock
        /\ (disturbed => disturbed') /\ (blind => blind')
        BY DEF Resume, At, bounds, Holding, Places
  <2> QED
      BY <2>1, <2>2 DEF Aside
<1> QED
    BY <1>6, <1>7, <1>8, <1>9, <1>10, <1>11 DEF Kept

LEMMA PrepareFailsKeeps ==
    ASSUME Parameters, IInv, NEW s \in Sessions, PrepareFails(s) PROVE Kept(s)
<1>1. /\ TypeOK /\ RunFits(s) /\ DiskFits /\ MixIsOnRecord /\ TreeFits(s) /\ s \in alive
      /\ ~disturbed => DiskTells /\ OnRecord(s) /\ Knows(s)
      /\ ~disturbed /\ ~blind => MixTells /\ Waits(s)
      /\ RunFacts(s)
  <2>1. TypeOK
        BY DEF IInv
  <2> QED
      BY RunIsTyped DEF IInv, RunsFit, PrepareFails, At
<1>2. run[s].journal \in Journals \cup {NoJournal}
      BY <1>1 DEF TypeOK, Runs
<1>3. /\ disk' = IF run[s].journal # NoJournal THEN Closed(s) ELSE disk
      /\ Turned(s, "release", Closed(s), run[s].snap, run[s].todo,
                TRUE, run[s].interrupted, run[s].safe)
      BY <1>1, <1>2, PrepareFailsTurns
<1>4. /\ Closed(s) \in Journals \cup {NoJournal}
      /\ run[s].journal = NoJournal => Closed(s) = NoJournal
      /\ run[s].journal # NoJournal => Rephased(s, Closed(s), "failed")
      BY <1>1, ClosedFacts
<1>5. TypeOK'
      BY <1>1, <1>3, <1>4 DEF RunFacts, PrepareFails, Turned, TypeOK, machine, tree
<1>6. RunFits(s)' /\ DiskFits'
      BY <1>1, <1>3, <1>4 DEF Turned, Rephased, RunFits, DiskFits, JournalFits, Working,
         Staging, Resting
<1>7. MixIsOnRecord' /\ TreeFits(s)'
      BY <1>1, <1>3 DEF PrepareFails, Turned, MixIsOnRecord, TreeFits, tree
<1>8. ~disturbed' => DiskTells' /\ OnRecord(s)' /\ Knows(s)'
      BY <1>1, <1>3, <1>4 DEF RunFacts, PrepareFails, Turned, Rephased, machine,
         DiskTells, OnRecord, Knows, Working
<1>9. ~disturbed' /\ ~blind' => MixTells' /\ Waits(s)'
      BY <1>1, <1>2, <1>3, <1>4 DEF RunFacts, PrepareFails, Turned, Rephased, At, tree,
         RunFits, MixTells, Waits, OnRecord, Holding, Working, Places, Staging, Resting,
         MixIsOnRecord, TreeFits
<1>10. Aside(s)
  <2>1. \A t \in Sessions : t # s => run'[t] = run[t]
        BY <1>3 DEF Turned
  <2>2. /\ s \in alive /\ alive' = alive /\ run[s].at \in Holding /\ lock' = lock
        /\ (disturbed => disturbed') /\ (blind => blind')
        BY DEF PrepareFails, At, Holding, Places
  <2> QED
      BY <2>1, <2>2 DEF Aside
<1> QED
    BY <1>5, <1>6, <1>7, <1>8, <1>9, <1>10 DEF Kept

LEMMA RefuseJournalKeeps ==
    ASSUME Parameters, IInv, NEW s \in Sessions, RefuseJournal(s) PROVE Kept(s)
<1>1. /\ TypeOK /\ RunFits(s) /\ DiskFits /\ MixIsOnRecord /\ TreeFits(s) /\ s \in alive
      /\ ~disturbed => DiskTells /\ OnRecord(s) /\ Knows(s)
      /\ ~disturbed /\ ~blind => MixTells /\ Waits(s)
      /\ RunFacts(s)
  <2>1. TypeOK
        BY DEF IInv
  <2> QED
      BY RunIsTyped DEF IInv, RunsFit, RefuseJournal, At
<1>2. run[s].journal \in Journals \cup {NoJournal}
      BY <1>1 DEF TypeOK, Runs
<1>3. /\ run[s].journal \in Journals /\ Written(s, "failed")
      /\ Turned(s, "restart", disk', active, Returning(active),
                TRUE, run[s].interrupted, run[s].safe)
      BY <1>1, <1>2, RefuseJournalTurns
<1>4. TypeOK'
      BY <1>1, <1>3 DEF RunFacts, RefuseJournal, Turned, Written, Rephased, TypeOK,
         machine, tree
<1>5. RunFits(s)' /\ DiskFits'
      BY <1>1, <1>3 DEF RunFacts, Turned, Written, Rephased, RunFits, DiskFits,
         JournalFits, Settled, Staging, Resting
<1>6. MixIsOnRecord' /\ TreeFits(s)'
      BY <1>1, <1>3 DEF RefuseJournal, Turned, MixIsOnRecord, TreeFits, tree
<1>7. ~disturbed' => DiskTells' /\ OnRecord(s)' /\ Knows(s)'
      BY <1>1, <1>3 DEF RunFacts, RefuseJournal, Turned, Written, Rephased, machine,
         DiskTells, OnRecord, Knows
<1>8. ~disturbed' /\ ~blind' => MixTells' /\ Waits(s)'
      BY DEF RefuseJournal
<1>9. Aside(s)
  <2>1. \A t \in Sessions : t # s => run'[t] = run[t]
        BY <1>3 DEF Turned
  <2>2. /\ s \in alive /\ alive' = alive /\ run[s].at \in Holding /\ lock' = lock
        /\ (disturbed => disturbed') /\ (blind => blind')
        BY DEF RefuseJournal, At, Holding, Places
  <2> QED
      BY <2>1, <2>2 DEF Aside
<1> QED
    BY <1>4, <1>5, <1>6, <1>7, <1>8, <1>9 DEF Kept

LEMMA StopKeeps ==
    ASSUME Parameters, IInv, NEW s \in Sessions, Stop(s) PROVE Kept(s)
<1>1. /\ TypeOK /\ RunFits(s) /\ DiskFits /\ MixIsOnRecord /\ TreeFits(s) /\ s \in alive
      /\ ~disturbed => DiskTells /\ OnRecord(s) /\ Knows(s)
      /\ ~disturbed /\ ~blind => MixTells /\ Waits(s)
      /\ RunFacts(s)
  <2>1. TypeOK
        BY DEF IInv
  <2> QED
      BY RunIsTyped DEF IInv, RunsFit, Stop, At
<1>2. run[s].journal \in Journals /\ run[s].journal # NoJournal /\ run[s].at \in Working
  <2>1. run[s].at \in Working
        BY DEF Stop, At, Working, Holding, Places
  <2> QED
      BY <1>1, <2>1, HasJournal
<1>3. \E w \in run[s].todo :
         /\ Turned(s, run[s].at, run[s].journal, run[s].snap, run[s].todo \ {w},
                   run[s].err, run[s].interrupted, run[s].safe)
         /\ active' = (IF w \in run[s].snap THEN active \ {w} ELSE active)
         /\ down' = IF w \in run[s].snap \cap active THEN down \cup {w} ELSE down
      BY <1>1, <1>2, StopTurns DEF Stop
<1>4. TypeOK'
      BY <1>1, <1>3 DEF Stop, Turned, TypeOK, tree, history, bounds
<1>5. RunFits(s)' /\ DiskFits'
      BY <1>1, <1>3 DEF Stop, Turned, RunFits, DiskFits
<1>6. MixIsOnRecord' /\ TreeFits(s)'
      BY <1>1, <1>3 DEF Stop, Turned, MixIsOnRecord, TreeFits, tree
<1>7. ~disturbed' => DiskTells' /\ OnRecord(s)' /\ Knows(s)'
      BY <1>1, <1>2, <1>3 DEF Stop, Turned, At, history, RunFits, DiskTells, OnRecord,
         Knows, Resting
<1>8. ~disturbed' /\ ~blind' => MixTells' /\ Waits(s)'
      BY <1>1, <1>2 DEF Stop, At, tree, history, MixTells, Waits, Working
<1>9. Aside(s)
  <2>1. \A t \in Sessions : t # s => run'[t] = run[t]
        BY <1>3 DEF Turned
  <2>2. /\ s \in alive /\ alive' = alive /\ run[s].at \in Holding /\ lock' = lock
        /\ (disturbed => disturbed') /\ (blind => blind')
        BY DEF Stop, At, history, bounds, Holding, Places
  <2> QED
      BY <2>1, <2>2 DEF Aside
<1> QED
    BY <1>4, <1>5, <1>6, <1>7, <1>8, <1>9 DEF Kept

LEMMA StopFailsKeeps ==
    ASSUME Parameters, IInv, NEW s \in Sessions, StopFails(s) PROVE Kept(s)
<1>1. /\ TypeOK /\ RunFits(s) /\ DiskFits /\ MixIsOnRecord /\ TreeFits(s) /\ s \in alive
      /\ ~disturbed => DiskTells /\ OnRecord(s) /\ Knows(s)
      /\ ~disturbed /\ ~blind => MixTells /\ Waits(s)
      /\ RunFacts(s)
  <2>1. TypeOK
        BY DEF IInv
  <2> QED
      BY RunIsTyped DEF IInv, RunsFit, StopFails, At
<1>2. run[s].journal \in Journals /\ run[s].journal # NoJournal /\ run[s].at \in Working
  <2>1. run[s].at \in Working
        BY DEF StopFails, At, Working, Holding, Places
  <2> QED
      BY <1>1, <2>1, HasJournal
<1>3. Failed(s, TRUE)
      BY <1>1, <1>2, FailsTurns DEF StopFails, Failed
<1>4. /\ active' \subseteq active /\ down' \subseteq down \cup run[s].snap
      /\ faults' \in 0 .. MaxFaults /\ UNCHANGED <<tree, lock, alive, crashes, strays, history>>
      /\ run[s].at = "stop"
      BY <1>1 DEF StopFails, machine, At, TypeOK, Fault, Parameters
<1>5. TypeOK'
      BY <1>1, <1>3, <1>4 DEF RunFacts, Failed, Turned, Written, Rephased, TypeOK, tree,
         history
<1>6. RunFits(s)' /\ DiskFits'
      BY <1>1, <1>2, <1>3 DEF RunFacts, Failed, Turned, Written, Rephased, RunFits,
         DiskFits, JournalFits, Settled, Staging, Resting
<1>7. MixIsOnRecord' /\ TreeFits(s)'
      BY <1>1, <1>3, <1>4 DEF Failed, Turned, MixIsOnRecord, TreeFits, tree
<1>8. ~disturbed' => DiskTells' /\ OnRecord(s)' /\ Knows(s)'
      BY <1>1, <1>2, <1>3, <1>4 DEF RunFacts, Failed, Turned, Written, Rephased,
         history, RunFits, DiskTells, OnRecord, Knows, Resting
<1>9. ~disturbed' /\ ~blind' => MixTells' /\ Waits(s)'
      BY <1>1, <1>2, <1>4 DEF tree, history, MixTells, Waits, Working
<1>10. Aside(s)
  <2>1. \A t \in Sessions : t # s => run'[t] = run[t]
        BY <1>3 DEF Failed, Turned
  <2>2. /\ s \in alive /\ alive' = alive /\ run[s].at \in Holding /\ lock' = lock
        /\ (disturbed => disturbed') /\ (blind => blind')
        BY DEF StopFails, At, history, Holding, Places
  <2> QED
      BY <2>1, <2>2 DEF Aside
<1> QED
    BY <1>5, <1>6, <1>7, <1>8, <1>9, <1>10 DEF Kept

LEMMA SignalKeeps ==
    ASSUME Parameters, IInv, NEW s \in Sessions, Signal(s) PROVE Kept(s)
<1>1. /\ TypeOK /\ RunFits(s) /\ DiskFits /\ MixIsOnRecord /\ TreeFits(s) /\ s \in alive
      /\ ~disturbed => DiskTells /\ OnRecord(s) /\ Knows(s)
      /\ ~disturbed /\ ~blind => MixTells /\ Waits(s)
      /\ RunFacts(s)
  <2>1. TypeOK
        BY DEF IInv
  <2> QED
      BY RunIsTyped DEF IInv, RunsFit, Signal, At
<1>2. run[s].journal \in Journals /\ run[s].journal # NoJournal /\ run[s].at \in Working
  <2>1. run[s].at \in Working
        BY DEF Signal, At, Working, Holding, Places
  <2> QED
      BY <1>1, <2>1, HasJournal
<1>3. /\ Written(s, "recovery_required")
      /\ Turned(s, run[s].at, disk', run[s].snap,
                run[s].todo, run[s].err, TRUE, run[s].safe)
      BY <1>1, <1>2, SignalTurns
<1>4. TypeOK'
      BY <1>1, <1>3 DEF RunFacts, Signal, Turned, Written, Rephased, TypeOK, machine,
         tree, history
<1>5. RunFits(s)' /\ DiskFits'
      BY <1>1, <1>2, <1>3 DEF RunFacts, Signal, Turned, Written, Rephased, RunFits,
         DiskFits, JournalFits, Settled, Staging, At
<1>6. MixIsOnRecord' /\ TreeFits(s)'
      BY <1>1, <1>3 DEF Signal, Turned, MixIsOnRecord, TreeFits, tree
<1>7. ~disturbed' => DiskTells' /\ OnRecord(s)' /\ Knows(s)'
      BY <1>1, <1>2, <1>3 DEF RunFacts, Signal, Turned, Written, Rephased, machine,
         history, DiskTells, OnRecord, Knows
<1>8. ~disturbed' /\ ~blind' => MixTells' /\ Waits(s)'
      BY <1>1, <1>2 DEF Signal, At, tree, history, MixTells, Waits, Working
<1>9. Aside(s)
  <2>1. \A t \in Sessions : t # s => run'[t] = run[t]
        BY <1>3 DEF Turned
  <2>2. /\ s \in alive /\ alive' = alive /\ run[s].at \in Holding /\ lock' = lock
        /\ (disturbed => disturbed') /\ (blind => blind')
        BY DEF Signal, At, history, Holding, Places
  <2> QED
      BY <2>1, <2>2 DEF Aside
<1> QED
    BY <1>4, <1>5, <1>6, <1>7, <1>8, <1>9 DEF Kept

LEMMA StopInterruptedKeeps ==
    ASSUME Parameters, IInv, NEW s \in Sessions, StopInterrupted(s) PROVE Kept(s)
<1>1. /\ TypeOK /\ RunFits(s) /\ DiskFits /\ MixIsOnRecord /\ TreeFits(s) /\ s \in alive
      /\ ~disturbed => DiskTells /\ OnRecord(s) /\ Knows(s)
      /\ ~disturbed /\ ~blind => MixTells /\ Waits(s)
      /\ RunFacts(s)
  <2>1. TypeOK
        BY DEF IInv
  <2> QED
      BY RunIsTyped DEF IInv, RunsFit, StopInterrupted, At
<1>2. run[s].journal \in Journals /\ run[s].journal # NoJournal /\ run[s].at \in Working
  <2>1. run[s].at \in Working
        BY DEF StopInterrupted, At, Working, Holding, Places
  <2> QED
      BY <1>1, <2>1, HasJournal
<1>3. Failed(s, TRUE)
      BY <1>1, <1>2, FailsTurns DEF StopInterrupted, Failed
<1>4. TypeOK'
      BY <1>1, <1>3 DEF StopInterrupted, Failed, Turned, Written, Rephased, TypeOK,
         machine, tree, history, bounds
<1>5. RunFits(s)' /\ DiskFits'
      BY <1>1, <1>2, <1>3 DEF RunFacts, Failed, Turned, Written, Rephased, RunFits,
         DiskFits, JournalFits, Settled, Staging, Resting
<1>6. MixIsOnRecord' /\ TreeFits(s)'
      BY <1>1, <1>3 DEF StopInterrupted, Failed, Turned, MixIsOnRecord, TreeFits, tree
<1>7. ~disturbed' => DiskTells' /\ OnRecord(s)' /\ Knows(s)'
      BY <1>1, <1>2, <1>3 DEF RunFacts, StopInterrupted, Failed, Turned, Written,
         Rephased, machine, history, DiskTells, OnRecord, Knows
<1>8. ~disturbed' /\ ~blind' => MixTells' /\ Waits(s)'
      BY <1>1, <1>2 DEF StopInterrupted, At, tree, history, MixTells, Waits, Working
<1>9. Aside(s)
  <2>1. \A t \in Sessions : t # s => run'[t] = run[t]
        BY <1>3 DEF Failed, Turned
  <2>2. /\ s \in alive /\ alive' = alive /\ run[s].at \in Holding /\ lock' = lock
        /\ (disturbed => disturbed') /\ (blind => blind')
        BY DEF StopInterrupted, At, history, bounds, Holding, Places
  <2> QED
      BY <2>1, <2>2 DEF Aside
<1> QED
    BY <1>4, <1>5, <1>6, <1>7, <1>8, <1>9 DEF Kept

LEMMA VerifyKeeps ==
    ASSUME Parameters, IInv, NEW s \in Sessions, Verify(s) PROVE Kept(s)
<1>1. /\ TypeOK /\ RunFits(s) /\ DiskFits /\ MixIsOnRecord /\ TreeFits(s) /\ s \in alive
      /\ ~disturbed => DiskTells /\ OnRecord(s) /\ Knows(s)
      /\ ~disturbed /\ ~blind => MixTells /\ Waits(s)
      /\ RunFacts(s)
  <2>1. TypeOK
        BY DEF IInv
  <2> QED
      BY RunIsTyped DEF IInv, RunsFit, Verify, At
<1>2. run[s].journal \in Journals /\ run[s].journal # NoJournal /\ run[s].at \in Working
  <2>1. run[s].at \in Working
        BY DEF Verify, At, Working, Holding, Places
  <2> QED
      BY <1>1, <2>1, HasJournal
<1>3. IF active = {}
          THEN Recorded(s, "quiescence_verified",
                        IF run[s].op = "backup" THEN "publish" ELSE "stage")
          ELSE Failed(s, TRUE)
      BY <1>1, <1>2, RecordsTurns, FailsTurns DEF Verify, Recorded, Failed, Phases,
         Places
<1>4. TypeOK'
      BY <1>1, <1>3 DEF Verify, Recorded, Turned, Written, Rephased, Failed, TypeOK,
         machine, tree, history, bounds
<1>5. RunFits(s)' /\ DiskFits'
      BY <1>1, <1>2, <1>3 DEF RunFacts, Verify, Recorded, Turned, Written, Rephased,
         Failed, RunFits, DiskFits, JournalFits, Settled, Staging, Resting, At
<1>6. MixIsOnRecord' /\ TreeFits(s)'
      BY <1>1, <1>3 DEF Verify, Recorded, Turned, Failed, MixIsOnRecord, TreeFits, tree
<1>7. ~disturbed' => DiskTells' /\ OnRecord(s)' /\ Knows(s)'
      BY <1>1, <1>2, <1>3 DEF RunFacts, Verify, Recorded, Turned, Written, Rephased,
         Failed, machine, history, DiskTells, OnRecord, Knows
<1>8. ~disturbed' /\ ~blind' => MixTells' /\ Waits(s)'
      BY <1>1, <1>2 DEF Verify, At, tree, history, MixTells, Waits, Working
<1>9. Aside(s)
  <2>1. \A t \in Sessions : t # s => run'[t] = run[t]
        BY <1>3 DEF Recorded, Turned, Failed
  <2>2. /\ s \in alive /\ alive' = alive /\ run[s].at \in Holding /\ lock' = lock
        /\ (disturbed => disturbed') /\ (blind => blind')
        BY DEF Verify, At, history, bounds, Holding, Places
  <2> QED
      BY <2>1, <2>2 DEF Aside
<1> QED
    BY <1>4, <1>5, <1>6, <1>7, <1>8, <1>9 DEF Kept

LEMMA PublishKeeps ==
    ASSUME Parameters, IInv, NEW s \in Sessions, Publish(s) PROVE Kept(s)
<1>1. /\ TypeOK /\ RunFits(s) /\ DiskFits /\ MixIsOnRecord /\ TreeFits(s) /\ s \in alive
      /\ ~disturbed => DiskTells /\ OnRecord(s) /\ Knows(s)
      /\ ~disturbed /\ ~blind => MixTells /\ Waits(s)
      /\ RunFacts(s)
  <2>1. TypeOK
        BY DEF IInv
  <2> QED
      BY RunIsTyped DEF IInv, RunsFit, Publish, At
<1>2. run[s].journal \in Journals /\ run[s].journal # NoJournal /\ run[s].at \in Working
  <2>1. run[s].at \in Working
        BY DEF Publish, At, Working, Holding, Places
  <2> QED
      BY <1>1, <2>1, HasJournal
<1>3. /\ Written(s, "backup_complete")
      /\ Turned(s, "restart", disk', run[s].snap, Returning(run[s].snap),
                run[s].err, run[s].interrupted, run[s].safe)
      BY <1>1, <1>2, PublishTurns
<1>4. TypeOK'
      BY <1>1, <1>3 DEF Publish, Turned, Written, Rephased, TypeOK, machine, tree,
         history, bounds
<1>5. RunFits(s)' /\ DiskFits'
      BY <1>1, <1>3 DEF RunFacts, Publish, Turned, Written, Rephased, RunFits, DiskFits,
         JournalFits, Staging, Resting, At
<1>6. MixIsOnRecord' /\ TreeFits(s)'
      BY <1>1, <1>3 DEF Publish, Turned, MixIsOnRecord, TreeFits, tree
<1>7. ~disturbed' => DiskTells' /\ OnRecord(s)' /\ Knows(s)'
      BY <1>1, <1>2, <1>3 DEF RunFacts, Publish, Turned, Written, Rephased, At, machine,
         history, RunFits, DiskTells, OnRecord, Knows, Resting, Returning
<1>8. ~disturbed' /\ ~blind' => MixTells' /\ Waits(s)'
      BY <1>1, <1>2 DEF Publish, At, tree, history, MixTells, Waits, Working
<1>9. Aside(s)
  <2>1. \A t \in Sessions : t # s => run'[t] = run[t]
        BY <1>3 DEF Turned
  <2>2. /\ s \in alive /\ alive' = alive /\ run[s].at \in Holding /\ lock' = lock
        /\ (disturbed => disturbed') /\ (blind => blind')
        BY DEF Publish, At, history, bounds, Holding, Places
  <2> QED
      BY <2>1, <2>2 DEF Aside
<1> QED
    BY <1>4, <1>5, <1>6, <1>7, <1>8, <1>9 DEF Kept

LEMMA PublishFailsKeeps ==
    ASSUME Parameters, IInv, NEW s \in Sessions, PublishFails(s) PROVE Kept(s)
<1>1. /\ TypeOK /\ RunFits(s) /\ DiskFits /\ MixIsOnRecord /\ TreeFits(s) /\ s \in alive
      /\ ~disturbed => DiskTells /\ OnRecord(s) /\ Knows(s)
      /\ ~disturbed /\ ~blind => MixTells /\ Waits(s)
      /\ RunFacts(s)
  <2>1. TypeOK
        BY DEF IInv
  <2> QED
      BY RunIsTyped DEF IInv, RunsFit, PublishFails, At
<1>2. run[s].journal \in Journals /\ run[s].journal # NoJournal /\ run[s].at \in Working
  <2>1. run[s].at \in Working
        BY DEF PublishFails, At, Working, Holding, Places
  <2> QED
      BY <1>1, <2>1, HasJournal
<1>3. Failed(s, TRUE)
      BY <1>1, <1>2, FailsTurns DEF PublishFails, Failed
<1>4. TypeOK'
      BY <1>1, <1>3 DEF RunFacts, PublishFails, Failed, Turned, Written, Rephased,
         TypeOK, machine, tree, history
<1>5. RunFits(s)' /\ DiskFits'
      BY <1>1, <1>2, <1>3 DEF RunFacts, Failed, Turned, Written, Rephased, RunFits,
         DiskFits, JournalFits, Settled, Staging, Resting
<1>6. MixIsOnRecord' /\ TreeFits(s)'
      BY <1>1, <1>3 DEF PublishFails, Failed, Turned, MixIsOnRecord, TreeFits, tree
<1>7. ~disturbed' => DiskTells' /\ OnRecord(s)' /\ Knows(s)'
      BY <1>1, <1>2, <1>3 DEF RunFacts, PublishFails, Failed, Turned, Written, Rephased,
         machine, history, DiskTells, OnRecord, Knows
<1>8. ~disturbed' /\ ~blind' => MixTells' /\ Waits(s)'
      BY <1>1, <1>2 DEF PublishFails, At, tree, history, MixTells, Waits, Working
<1>9. Aside(s)
  <2>1. \A t \in Sessions : t # s => run'[t] = run[t]
        BY <1>3 DEF Failed, Turned
  <2>2. /\ s \in alive /\ alive' = alive /\ run[s].at \in Holding /\ lock' = lock
        /\ (disturbed => disturbed') /\ (blind => blind')
        BY DEF PublishFails, At, history, Holding, Places
  <2> QED
      BY <2>1, <2>2 DEF Aside
<1> QED
    BY <1>4, <1>5, <1>6, <1>7, <1>8, <1>9 DEF Kept

LEMMA BoundaryKeeps ==
    ASSUME Parameters, IInv, NEW s \in Sessions, Boundary(s) PROVE Kept(s)
<1>1. /\ TypeOK /\ RunFits(s) /\ DiskFits /\ MixIsOnRecord /\ TreeFits(s) /\ s \in alive
      /\ ~disturbed => DiskTells /\ OnRecord(s) /\ Knows(s)
      /\ ~disturbed /\ ~blind => MixTells /\ Waits(s)
      /\ RunFacts(s)
  <2>1. TypeOK
        BY DEF IInv
  <2> QED
      BY RunIsTyped DEF IInv, RunsFit, Boundary, At
<1>2. run[s].journal \in Journals /\ run[s].journal # NoJournal /\ run[s].at \in Working
  <2>1. run[s].at \in Working
        BY DEF Boundary, At, Working, Holding, Places
  <2> QED
      BY <1>1, <2>1, HasJournal
<1>3. /\ run[s].at = "boundary" /\ UNCHANGED <<machine, tree, lock, bounds, history>>
      /\ \/ Failed(s, TRUE)
         \/ /\ disk' = disk /\ run[s].journal.phase \in {"backup_complete", "restart_complete"}
            /\ Sent(s, "restart")
         \/ /\ disk' = disk /\ run[s].journal.phase \notin {"backup_complete", "restart_complete"}
            /\ Sent(s, "release")
      BY <1>1, <1>2, FailsTurns, GotoTurns DEF Boundary, Failed, Sent, Places, At
<1>4. run[s].journal.phase \in Phases
      BY <1>1, <1>2, <1>3, JournalFacts
<1>5. TypeOK'
      BY <1>1, <1>3 DEF Sent, Turned, Failed, Written, Rephased, TypeOK, machine, tree,
         history, bounds
<1>6. RunFits(s)' /\ DiskFits'
      BY <1>1, <1>2, <1>3 DEF RunFacts, Sent, Turned, Failed, Written, Rephased,
         RunFits, DiskFits, JournalFits, Settled, Staging, Resting
<1>7. MixIsOnRecord' /\ TreeFits(s)'
      BY <1>1, <1>3 DEF Sent, Turned, Failed, MixIsOnRecord, TreeFits, tree
<1>8. ~disturbed' => DiskTells' /\ OnRecord(s)' /\ Knows(s)'
      BY <1>1, <1>2, <1>3, <1>4 DEF RunFacts, Sent, Turned, Failed, Written, Rephased,
         machine, history, RunFits, DiskTells, OnRecord, Knows, Unfinished, Phases,
         JournalFits
<1>9. ~disturbed' /\ ~blind' => MixTells' /\ Waits(s)'
      BY <1>1, <1>2, <1>3 DEF tree, history, MixTells, Waits, Working
<1>10. Aside(s)
  <2>1. \A t \in Sessions : t # s => run'[t] = run[t]
        BY <1>3 DEF Sent, Turned, Failed
  <2>2. /\ s \in alive /\ alive' = alive /\ run[s].at \in Holding /\ lock' = lock
        /\ (disturbed => disturbed') /\ (blind => blind')
        BY DEF Boundary, At, history, bounds, Holding, Places
  <2> QED
      BY <2>1, <2>2 DEF Aside
<1> QED
    BY <1>5, <1>6, <1>7, <1>8, <1>9, <1>10 DEF Kept

LEMMA StageRefusesKeeps ==
    ASSUME Parameters, IInv, NEW s \in Sessions, StageRefuses(s) PROVE Kept(s)
<1>1. /\ TypeOK /\ RunFits(s) /\ DiskFits /\ MixIsOnRecord /\ TreeFits(s) /\ s \in alive
      /\ ~disturbed => DiskTells /\ OnRecord(s) /\ Knows(s)
      /\ ~disturbed /\ ~blind => MixTells /\ Waits(s)
      /\ RunFacts(s)
  <2>1. TypeOK
        BY DEF IInv
  <2> QED
      BY RunIsTyped DEF IInv, RunsFit, StageRefuses, At
<1>2. run[s].journal \in Journals /\ run[s].journal # NoJournal /\ run[s].at \in Working
  <2>1. run[s].at \in Working
        BY DEF StageRefuses, At, Working, Holding, Places
  <2> QED
      BY <1>1, <2>1, HasJournal
<1>3. Failed(s, TRUE)
      BY <1>1, <1>2, FailsTurns DEF StageRefuses, Failed
<1>4. TypeOK'
      BY <1>1, <1>3 DEF RunFacts, StageRefuses, Failed, Turned, Written, Rephased,
         TypeOK, machine, tree
<1>5. RunFits(s)' /\ DiskFits'
      BY <1>1, <1>2, <1>3 DEF RunFacts, Failed, Turned, Written, Rephased, RunFits,
         DiskFits, JournalFits, Settled, Staging, Resting
<1>6. MixIsOnRecord' /\ TreeFits(s)'
      BY <1>1, <1>3 DEF StageRefuses, Failed, Turned, MixIsOnRecord, TreeFits, tree
<1>7. ~disturbed' => DiskTells' /\ OnRecord(s)' /\ Knows(s)'
      BY <1>1, <1>2, <1>3 DEF RunFacts, StageRefuses, Failed, Turned, Written, Rephased,
         machine, DiskTells, OnRecord, Knows
<1>8. ~disturbed' /\ ~blind' => MixTells' /\ Waits(s)'
      BY DEF StageRefuses
<1>9. Aside(s)
  <2>1. \A t \in Sessions : t # s => run'[t] = run[t]
        BY <1>3 DEF Failed, Turned
  <2>2. /\ s \in alive /\ alive' = alive /\ run[s].at \in Holding /\ lock' = lock
        /\ (disturbed => disturbed') /\ (blind => blind')
        BY DEF StageRefuses, At, Holding, Places
  <2> QED
      BY <2>1, <2>2 DEF Aside
<1> QED
    BY <1>4, <1>5, <1>6, <1>7, <1>8, <1>9 DEF Kept

LEMMA StageReplaysKeeps ==
    ASSUME Parameters, IInv, NEW s \in Sessions, StageReplays(s) PROVE Kept(s)
<1>1. /\ TypeOK /\ RunFits(s) /\ DiskFits /\ MixIsOnRecord /\ TreeFits(s) /\ s \in alive
      /\ ~disturbed => DiskTells /\ OnRecord(s) /\ Knows(s)
      /\ ~disturbed /\ ~blind => MixTells /\ Waits(s)
      /\ RunFacts(s)
  <2>1. TypeOK
        BY DEF IInv
  <2> QED
      BY RunIsTyped DEF IInv, RunsFit, StageReplays, At
<1>2. run[s].journal \in Journals /\ run[s].journal # NoJournal /\ run[s].at \in Working
  <2>1. run[s].at \in Working
        BY DEF StageReplays, At, Working, Holding, Places
  <2> QED
      BY <1>1, <2>1, HasJournal
<1>3. disk' = run[s].journal /\ Sent(s, "staged")
      BY <1>1, GotoTurns DEF StageReplays, Sent, Places, Keeps
<1>4. TypeOK'
      BY <1>1, <1>2, <1>3 DEF StageReplays, Sent, Turned, TypeOK, machine, tree,
         history, bounds
<1>5. RunFits(s)' /\ DiskFits'
      BY <1>1, <1>2, <1>3 DEF StageReplays, Sent, Turned, RunFits, DiskFits, Staging,
         Resting, At
<1>6. MixIsOnRecord' /\ TreeFits(s)'
      BY <1>1, <1>3 DEF StageReplays, Sent, Turned, MixIsOnRecord, TreeFits, tree
<1>7. ~disturbed' => DiskTells' /\ OnRecord(s)' /\ Knows(s)'
      BY <1>1, <1>2, <1>3 DEF StageReplays, Sent, Turned, At, machine, history,
         DiskTells, OnRecord, Knows
<1>8. ~disturbed' /\ ~blind' => MixTells' /\ Waits(s)'
      BY <1>1 DEF StageReplays, tree, MixTells, Waits, MixIsOnRecord
<1>9. Aside(s)
  <2>1. \A t \in Sessions : t # s => run'[t] = run[t]
        BY <1>3 DEF Sent, Turned
  <2>2. /\ s \in alive /\ alive' = alive /\ run[s].at \in Holding /\ lock' = lock
        /\ (disturbed => disturbed') /\ (blind => blind')
        BY DEF StageReplays, At, history, bounds, Holding, Places
  <2> QED
      BY <2>1, <2>2 DEF Aside
<1> QED
    BY <1>4, <1>5, <1>6, <1>7, <1>8, <1>9 DEF Kept

LEMMA StageRollsBackKeeps ==
    ASSUME Parameters, IInv, NEW s \in Sessions, StageRollsBack(s) PROVE Kept(s)
<1>1. /\ TypeOK /\ RunFits(s) /\ DiskFits /\ MixIsOnRecord /\ TreeFits(s) /\ s \in alive
      /\ ~disturbed => DiskTells /\ OnRecord(s) /\ Knows(s)
      /\ ~disturbed /\ ~blind => MixTells /\ Waits(s)
      /\ RunFacts(s)
  <2>1. TypeOK
        BY DEF IInv
  <2> QED
      BY RunIsTyped DEF IInv, RunsFit, StageRollsBack, At
<1>2. run[s].journal \in Journals /\ run[s].journal # NoJournal /\ run[s].at \in Working
  <2>1. run[s].at \in Working
        BY DEF StageRollsBack, At, Working, Holding, Places
  <2> QED
      BY <1>1, <2>1, HasJournal
<1>3. disk' = run[s].journal /\ Sent(s, "gate")
      BY <1>1, GotoTurns DEF StageRollsBack, Sent, Places, Keeps
<1>4. TypeOK'
      BY <1>1, <1>2, <1>3 DEF StageRollsBack, Sent, Turned, TypeOK, machine, history,
         bounds, Statuses
<1>5. RunFits(s)' /\ DiskFits'
      BY <1>1, <1>2, <1>3 DEF StageRollsBack, Sent, Turned, RunFits, DiskFits, Staging,
         Resting, At
<1>6. MixIsOnRecord' /\ TreeFits(s)'
      BY <1>3 DEF StageRollsBack, Sent, Turned, MixIsOnRecord, TreeFits
<1>7. ~disturbed' => DiskTells' /\ OnRecord(s)' /\ Knows(s)'
      BY <1>1, <1>2, <1>3 DEF StageRollsBack, Sent, Turned, At, machine, history,
         DiskTells, OnRecord, Knows
<1>8. ~disturbed' /\ ~blind' => MixTells' /\ Waits(s)'
      BY DEF StageRollsBack, MixTells, Waits
<1>9. Aside(s)
  <2>1. \A t \in Sessions : t # s => run'[t] = run[t]
        BY <1>3 DEF Sent, Turned
  <2>2. /\ s \in alive /\ alive' = alive /\ run[s].at \in Holding /\ lock' = lock
        /\ (disturbed => disturbed') /\ (blind => blind')
        BY DEF StageRollsBack, At, history, bounds, Holding, Places
  <2> QED
      BY <2>1, <2>2 DEF Aside
<1> QED
    BY <1>4, <1>5, <1>6, <1>7, <1>8, <1>9 DEF Kept

LEMMA StageStaysBrokenKeeps ==
    ASSUME Parameters, IInv, NEW s \in Sessions, StageStaysBroken(s) PROVE Kept(s)
<1>1. /\ TypeOK /\ RunFits(s) /\ DiskFits /\ MixIsOnRecord /\ TreeFits(s) /\ s \in alive
      /\ ~disturbed => DiskTells /\ OnRecord(s) /\ Knows(s)
      /\ ~disturbed /\ ~blind => MixTells /\ Waits(s)
      /\ RunFacts(s)
  <2>1. TypeOK
        BY DEF IInv
  <2> QED
      BY RunIsTyped DEF IInv, RunsFit, StageStaysBroken, At
<1>2. run[s].journal \in Journals /\ run[s].journal # NoJournal /\ run[s].at \in Working
  <2>1. run[s].at \in Working
        BY DEF StageStaysBroken, At, Working, Holding, Places
  <2> QED
      BY <1>1, <2>1, HasJournal
<1>3. Failed(s, FALSE)
      BY <1>1, <1>2, FailsTurns DEF StageStaysBroken, Failed
<1>4. TypeOK'
      BY <1>1, <1>3 DEF RunFacts, StageStaysBroken, Failed, Turned, Written, Rephased,
         TypeOK, machine, tree, history
<1>5. RunFits(s)' /\ DiskFits'
      BY <1>1, <1>2, <1>3 DEF RunFacts, Failed, Turned, Written, Rephased, RunFits,
         DiskFits, JournalFits, Settled, Staging, Resting
<1>6. MixIsOnRecord' /\ TreeFits(s)'
      BY <1>3 DEF StageStaysBroken, Failed, Turned, MixIsOnRecord, TreeFits, tree
<1>7. ~disturbed' => DiskTells' /\ OnRecord(s)' /\ Knows(s)'
      BY <1>1, <1>2, <1>3 DEF RunFacts, StageStaysBroken, Failed, Turned, Written,
         Rephased, machine, history, DiskTells, OnRecord, Knows
<1>8. ~disturbed' /\ ~blind' => MixTells' /\ Waits(s)'
      BY <1>1, <1>2, <1>3 DEF RunFacts, StageStaysBroken, Failed, Turned, Written,
         Rephased, tree, history, MixTells, Waits, OnRecord
<1>9. Aside(s)
  <2>1. \A t \in Sessions : t # s => run'[t] = run[t]
        BY <1>3 DEF Failed, Turned
  <2>2. /\ s \in alive /\ alive' = alive /\ run[s].at \in Holding /\ lock' = lock
        /\ (disturbed => disturbed') /\ (blind => blind')
        BY DEF StageStaysBroken, At, history, Holding, Places
  <2> QED
      BY <2>1, <2>2 DEF Aside
<1> QED
    BY <1>4, <1>5, <1>6, <1>7, <1>8, <1>9 DEF Kept

LEMMA StageBeginsKeeps ==
    ASSUME Parameters, IInv, NEW s \in Sessions, StageBegins(s) PROVE Kept(s)
<1>1. /\ TypeOK /\ RunFits(s) /\ DiskFits /\ MixIsOnRecord /\ TreeFits(s) /\ s \in alive
      /\ ~disturbed => DiskTells /\ OnRecord(s) /\ Knows(s)
      /\ ~disturbed /\ ~blind => MixTells /\ Waits(s)
      /\ RunFacts(s)
  <2>1. TypeOK
        BY DEF IInv
  <2> QED
      BY RunIsTyped DEF IInv, RunsFit, StageBegins, At
<1>2. run[s].journal \in Journals /\ run[s].journal # NoJournal /\ run[s].at \in Working
  <2>1. run[s].at \in Working
        BY DEF StageBegins, At, Working, Holding, Places
  <2> QED
      BY <1>1, <2>1, HasJournal
<1>3. disk' = run[s].journal /\ Sent(s, "gate")
      BY <1>1, GotoTurns DEF StageBegins, Sent, Places, Keeps
<1>4. TypeOK'
      BY <1>1, <1>2, <1>3 DEF RunFacts, StageBegins, Sent, Turned, TypeOK, machine,
         history, bounds, Statuses
<1>5. RunFits(s)' /\ DiskFits'
      BY <1>1, <1>2, <1>3 DEF StageBegins, Sent, Turned, RunFits, DiskFits, Staging,
         Resting, At
<1>6. MixIsOnRecord' /\ TreeFits(s)'
      BY <1>1, <1>3 DEF StageBegins, Sent, Turned, MixIsOnRecord, TreeFits
<1>7. ~disturbed' => DiskTells' /\ OnRecord(s)' /\ Knows(s)'
      BY <1>1, <1>2, <1>3 DEF StageBegins, Sent, Turned, At, machine, history,
         DiskTells, OnRecord, Knows
<1>8. ~disturbed' /\ ~blind' => MixTells' /\ Waits(s)'
      BY <1>1 DEF StageBegins, MixTells, Waits, MixIsOnRecord
<1>9. Aside(s)
  <2>1. \A t \in Sessions : t # s => run'[t] = run[t]
        BY <1>3 DEF Sent, Turned
  <2>2. /\ s \in alive /\ alive' = alive /\ run[s].at \in Holding /\ lock' = lock
        /\ (disturbed => disturbed') /\ (blind => blind')
        BY DEF StageBegins, At, history, bounds, Holding, Places
  <2> QED
      BY <2>1, <2>2 DEF Aside
<1> QED
    BY <1>4, <1>5, <1>6, <1>7, <1>8, <1>9 DEF Kept

LEMMA MarkMutationKeeps ==
    ASSUME Parameters, IInv, NEW s \in Sessions, MarkMutation(s) PROVE Kept(s)
<1>1. /\ TypeOK /\ RunFits(s) /\ DiskFits /\ MixIsOnRecord /\ TreeFits(s) /\ s \in alive
      /\ ~disturbed => DiskTells /\ OnRecord(s) /\ Knows(s)
      /\ ~disturbed /\ ~blind => MixTells /\ Waits(s)
      /\ RunFacts(s)
  <2>1. TypeOK
        BY DEF IInv
  <2> QED
      BY RunIsTyped DEF IInv, RunsFit, MarkMutation, At
<1>2. run[s].journal \in Journals /\ run[s].journal # NoJournal /\ run[s].at \in Working
  <2>1. run[s].at \in Working
        BY DEF MarkMutation, At, Working, Holding, Places
  <2> QED
      BY <1>1, <2>1, HasJournal
<1>3. disk' = run[s].journal /\ Sent(s, "swap")
      BY <1>1, GotoTurns DEF MarkMutation, Sent, Places, Keeps
<1>4. TypeOK'
      BY <1>1, <1>2, <1>3 DEF MarkMutation, Sent, Turned, TypeOK, machine, history,
         bounds, Statuses
<1>5. RunFits(s)' /\ DiskFits'
      BY <1>1, <1>2, <1>3 DEF MarkMutation, Sent, Turned, RunFits, DiskFits, Staging,
         Resting, At
<1>6. MixIsOnRecord' /\ TreeFits(s)'
      BY <1>1 DEF MarkMutation, MixIsOnRecord, TreeFits, At
<1>7. ~disturbed' => DiskTells' /\ OnRecord(s)' /\ Knows(s)'
      BY <1>1, <1>2, <1>3 DEF MarkMutation, Sent, Turned, At, machine, history,
         DiskTells, OnRecord, Knows
<1>8. ~disturbed' /\ ~blind' => MixTells' /\ Waits(s)'
      BY <1>1 DEF MarkMutation, At, MixTells, Waits, TreeFits
<1>9. Aside(s)
  <2>1. \A t \in Sessions : t # s => run'[t] = run[t]
        BY <1>3 DEF Sent, Turned
  <2>2. /\ s \in alive /\ alive' = alive /\ run[s].at \in Holding /\ lock' = lock
        /\ (disturbed => disturbed') /\ (blind => blind')
        BY DEF MarkMutation, At, history, bounds, Holding, Places
  <2> QED
      BY <2>1, <2>2 DEF Aside
<1> QED
    BY <1>4, <1>5, <1>6, <1>7, <1>8, <1>9 DEF Kept

LEMMA StagingFailsKeeps ==
    ASSUME Parameters, IInv, NEW s \in Sessions, StagingFails(s) PROVE Kept(s)
<1>1. /\ TypeOK /\ RunFits(s) /\ DiskFits /\ MixIsOnRecord /\ TreeFits(s) /\ s \in alive
      /\ ~disturbed => DiskTells /\ OnRecord(s) /\ Knows(s)
      /\ ~disturbed /\ ~blind => MixTells /\ Waits(s)
      /\ RunFacts(s)
  <2>1. TypeOK
        BY DEF IInv
  <2> QED
      BY RunIsTyped DEF IInv, RunsFit, StagingFails, At
<1>2. run[s].journal \in Journals /\ run[s].journal # NoJournal /\ run[s].at \in Working
  <2>1. run[s].at \in Working
        BY DEF StagingFails, At, Working, Holding, Places
  <2> QED
      BY <1>1, <2>1, HasJournal
<1>3. Failed(s, TRUE)
      BY <1>1, <1>2, FailsTurns DEF StagingFails, Failed
<1>4. TypeOK'
      BY <1>1, <1>3 DEF RunFacts, StagingFails, Failed, Turned, Written, Rephased,
         TypeOK, machine, tree, history
<1>5. RunFits(s)' /\ DiskFits'
      BY <1>1, <1>2, <1>3 DEF RunFacts, Failed, Turned, Written, Rephased, RunFits,
         DiskFits, JournalFits, Settled, Staging, Resting
<1>6. MixIsOnRecord' /\ TreeFits(s)'
      BY <1>1, <1>3 DEF StagingFails, Failed, Turned, MixIsOnRecord, TreeFits, tree
<1>7. ~disturbed' => DiskTells' /\ OnRecord(s)' /\ Knows(s)'
      BY <1>1, <1>2, <1>3 DEF RunFacts, StagingFails, Failed, Turned, Written, Rephased,
         machine, history, DiskTells, OnRecord, Knows
<1>8. ~disturbed' /\ ~blind' => MixTells' /\ Waits(s)'
      BY <1>1 DEF StagingFails, At, tree, MixTells, Waits, MixIsOnRecord, TreeFits
<1>9. Aside(s)
  <2>1. \A t \in Sessions : t # s => run'[t] = run[t]
        BY <1>3 DEF Failed, Turned
  <2>2. /\ s \in alive /\ alive' = alive /\ run[s].at \in Holding /\ lock' = lock
        /\ (disturbed => disturbed') /\ (blind => blind')
        BY DEF StagingFails, At, history, Holding, Places
  <2> QED
      BY <2>1, <2>2 DEF Aside
<1> QED
    BY <1>4, <1>5, <1>6, <1>7, <1>8, <1>9 DEF Kept

LEMMA SwapSomeKeeps ==
    ASSUME Parameters, IInv, NEW s \in Sessions, SwapSome(s) PROVE Kept(s)
<1>1. /\ TypeOK /\ RunFits(s) /\ DiskFits /\ MixIsOnRecord /\ TreeFits(s) /\ s \in alive
      /\ ~disturbed => DiskTells /\ OnRecord(s) /\ Knows(s)
      /\ ~disturbed /\ ~blind => MixTells /\ Waits(s)
      /\ RunFacts(s)
  <2>1. TypeOK
        BY DEF IInv
  <2> QED
      BY RunIsTyped DEF IInv, RunsFit, SwapSome, At
<1>2. run[s].journal \in Journals \cup {NoJournal}
      BY <1>1 DEF TypeOK, Runs
<1>3. TypeOK'
      BY <1>1 DEF SwapSome, TypeOK, machine, history, bounds
<1>4. RunFits(s)' /\ DiskFits'
      BY <1>1 DEF SwapSome, RunFits, DiskFits
<1>5. MixIsOnRecord' /\ TreeFits(s)'
      BY <1>1 DEF SwapSome, MixIsOnRecord, TreeFits, At
<1>6. ~disturbed' => DiskTells' /\ OnRecord(s)' /\ Knows(s)'
      BY <1>1 DEF SwapSome, machine, history, DiskTells, OnRecord, Knows
<1>7. ~disturbed' /\ ~blind' => MixTells' /\ Waits(s)'
      BY <1>1 DEF SwapSome, At, history, RunFits, MixTells, Waits, OnRecord, Holding,
         Working, Places, Staging
<1>8. Aside(s)
      BY DEF SwapSome, Aside, At, history, bounds, Holding, Places
<1> QED
    BY <1>3, <1>4, <1>5, <1>6, <1>7, <1>8 DEF Kept

LEMMA SwapDoneKeeps ==
    ASSUME Parameters, IInv, NEW s \in Sessions, SwapDone(s) PROVE Kept(s)
<1>1. /\ TypeOK /\ RunFits(s) /\ DiskFits /\ MixIsOnRecord /\ TreeFits(s) /\ s \in alive
      /\ ~disturbed => DiskTells /\ OnRecord(s) /\ Knows(s)
      /\ ~disturbed /\ ~blind => MixTells /\ Waits(s)
      /\ RunFacts(s)
  <2>1. TypeOK
        BY DEF IInv
  <2> QED
      BY RunIsTyped DEF IInv, RunsFit, SwapDone, At
<1>2. run[s].journal \in Journals /\ run[s].journal # NoJournal /\ run[s].at \in Working
  <2>1. run[s].at \in Working
        BY DEF SwapDone, At, Working, Holding, Places
  <2> QED
      BY <1>1, <2>1, HasJournal
<1>3. disk' = run[s].journal /\ Sent(s, "staged")
      BY <1>1, GotoTurns DEF SwapDone, Sent, Places, Keeps
<1>4. TypeOK'
      BY <1>1, <1>2, <1>3 DEF SwapDone, Sent, Turned, TypeOK, machine, history, bounds,
         Statuses
<1>5. RunFits(s)' /\ DiskFits'
      BY <1>1, <1>2, <1>3 DEF SwapDone, Sent, Turned, RunFits, DiskFits, Staging,
         Resting, At
<1>6. MixIsOnRecord' /\ TreeFits(s)'
      BY <1>3 DEF SwapDone, Sent, Turned, MixIsOnRecord, TreeFits
<1>7. ~disturbed' => DiskTells' /\ OnRecord(s)' /\ Knows(s)'
      BY <1>1, <1>2, <1>3 DEF SwapDone, Sent, Turned, At, machine, history, DiskTells,
         OnRecord, Knows
<1>8. ~disturbed' /\ ~blind' => MixTells' /\ Waits(s)'
      BY DEF SwapDone, MixTells, Waits
<1>9. Aside(s)
  <2>1. \A t \in Sessions : t # s => run'[t] = run[t]
        BY <1>3 DEF Sent, Turned
  <2>2. /\ s \in alive /\ alive' = alive /\ run[s].at \in Holding /\ lock' = lock
        /\ (disturbed => disturbed') /\ (blind => blind')
        BY DEF SwapDone, At, history, bounds, Holding, Places
  <2> QED
      BY <2>1, <2>2 DEF Aside
<1> QED
    BY <1>4, <1>5, <1>6, <1>7, <1>8, <1>9 DEF Kept

LEMMA SwapFailsKeeps ==
    ASSUME Parameters, IInv, NEW s \in Sessions, SwapFails(s) PROVE Kept(s)
<1>1. /\ TypeOK /\ RunFits(s) /\ DiskFits /\ MixIsOnRecord /\ TreeFits(s) /\ s \in alive
      /\ ~disturbed => DiskTells /\ OnRecord(s) /\ Knows(s)
      /\ ~disturbed /\ ~blind => MixTells /\ Waits(s)
      /\ RunFacts(s)
  <2>1. TypeOK
        BY DEF IInv
  <2> QED
      BY RunIsTyped DEF IInv, RunsFit, SwapFails, At
<1>2. run[s].journal \in Journals /\ run[s].journal # NoJournal /\ run[s].at \in Working
  <2>1. run[s].at \in Working
        BY DEF SwapFails, At, Working, Holding, Places
  <2> QED
      BY <1>1, <2>1, HasJournal
<1>3. Failed(s, TRUE)
      BY <1>1, <1>2, FailsTurns DEF SwapFails, Failed
<1>4. TypeOK'
      BY <1>1, <1>3 DEF RunFacts, SwapFails, Failed, Turned, Written, Rephased, TypeOK,
         machine, history, Statuses
<1>5. RunFits(s)' /\ DiskFits'
      BY <1>1, <1>2, <1>3 DEF RunFacts, Failed, Turned, Written, Rephased, RunFits,
         DiskFits, JournalFits, Settled, Staging, Resting
<1>6. MixIsOnRecord' /\ TreeFits(s)'
      BY <1>3 DEF SwapFails, Failed, Turned, MixIsOnRecord, TreeFits
<1>7. ~disturbed' => DiskTells' /\ OnRecord(s)' /\ Knows(s)'
      BY <1>1, <1>2, <1>3 DEF RunFacts, SwapFails, Failed, Turned, Written, Rephased,
         machine, history, DiskTells, OnRecord, Knows
<1>8. ~disturbed' /\ ~blind' => MixTells' /\ Waits(s)'
      BY DEF SwapFails, MixTells, Waits
<1>9. Aside(s)
  <2>1. \A t \in Sessions : t # s => run'[t] = run[t]
        BY <1>3 DEF Failed, Turned
  <2>2. /\ s \in alive /\ alive' = alive /\ run[s].at \in Holding /\ lock' = lock
        /\ (disturbed => disturbed') /\ (blind => blind')
        BY DEF SwapFails, At, history, Holding, Places
  <2> QED
      BY <2>1, <2>2 DEF Aside
<1> QED
    BY <1>4, <1>5, <1>6, <1>7, <1>8, <1>9 DEF Kept

LEMMA RollbackFailsKeeps ==
    ASSUME Parameters, IInv, NEW s \in Sessions, RollbackFails(s) PROVE Kept(s)
<1>1. /\ TypeOK /\ RunFits(s) /\ DiskFits /\ MixIsOnRecord /\ TreeFits(s) /\ s \in alive
      /\ ~disturbed => DiskTells /\ OnRecord(s) /\ Knows(s)
      /\ ~disturbed /\ ~blind => MixTells /\ Waits(s)
      /\ RunFacts(s)
  <2>1. TypeOK
        BY DEF IInv
  <2> QED
      BY RunIsTyped DEF IInv, RunsFit, RollbackFails, At
<1>2. run[s].journal \in Journals /\ run[s].journal # NoJournal /\ run[s].at \in Working
  <2>1. run[s].at \in Working
        BY DEF RollbackFails, At, Working, Holding, Places
  <2> QED
      BY <1>1, <2>1, HasJournal
<1>3. Failed(s, FALSE)
      BY <1>1, <1>2, FailsTurns DEF RollbackFails, Failed
<1>4. TypeOK'
      BY <1>1, <1>3 DEF RunFacts, RollbackFails, Failed, Turned, Written, Rephased,
         TypeOK, machine, tree, history
<1>5. RunFits(s)' /\ DiskFits'
      BY <1>1, <1>2, <1>3 DEF RunFacts, Failed, Turned, Written, Rephased, RunFits,
         DiskFits, JournalFits, Settled, Staging, Resting
<1>6. MixIsOnRecord' /\ TreeFits(s)'
      BY <1>1, <1>3 DEF RollbackFails, Failed, Turned, MixIsOnRecord, TreeFits, tree
<1>7. ~disturbed' => DiskTells' /\ OnRecord(s)' /\ Knows(s)'
      BY <1>1, <1>2, <1>3 DEF RunFacts, RollbackFails, Failed, Turned, Written,
         Rephased, machine, history, DiskTells, OnRecord, Knows
<1>8. ~disturbed' /\ ~blind' => MixTells' /\ Waits(s)'
      BY <1>1, <1>2, <1>3 DEF RunFacts, RollbackFails, Failed, Turned, Written,
         Rephased, tree, history, MixTells, Waits, OnRecord
<1>9. Aside(s)
  <2>1. \A t \in Sessions : t # s => run'[t] = run[t]
        BY <1>3 DEF Failed, Turned
  <2>2. /\ s \in alive /\ alive' = alive /\ run[s].at \in Holding /\ lock' = lock
        /\ (disturbed => disturbed') /\ (blind => blind')
        BY DEF RollbackFails, At, history, Holding, Places
  <2> QED
      BY <2>1, <2>2 DEF Aside
<1> QED
    BY <1>4, <1>5, <1>6, <1>7, <1>8, <1>9 DEF Kept

LEMMA RestoreStagedKeeps ==
    ASSUME Parameters, IInv, NEW s \in Sessions, RestoreStaged(s) PROVE Kept(s)
<1>1. /\ TypeOK /\ RunFits(s) /\ DiskFits /\ MixIsOnRecord /\ TreeFits(s) /\ s \in alive
      /\ ~disturbed => DiskTells /\ OnRecord(s) /\ Knows(s)
      /\ ~disturbed /\ ~blind => MixTells /\ Waits(s)
      /\ RunFacts(s)
  <2>1. TypeOK
        BY DEF IInv
  <2> QED
      BY RunIsTyped DEF IInv, RunsFit, RestoreStaged, At
<1>2. run[s].journal \in Journals /\ run[s].journal # NoJournal /\ run[s].at \in Working
  <2>1. run[s].at \in Working
        BY DEF RestoreStaged, At, Working, Holding, Places
  <2> QED
      BY <1>1, <2>1, HasJournal
<1>3. /\ Written(s, "restore_staged")
      /\ Turned(s, "restart", disk', run[s].snap, Returning(run[s].snap),
                run[s].err, run[s].interrupted, run[s].safe)
      BY <1>1, <1>2, RestoreStagedTurns
<1>4. TypeOK'
      BY <1>1, <1>3 DEF RestoreStaged, Turned, Written, Rephased, TypeOK, machine, tree,
         history, bounds
<1>5. RunFits(s)' /\ DiskFits'
      BY <1>1, <1>2, <1>3 DEF RunFacts, RestoreStaged, Turned, Written, Rephased,
         RunFits, DiskFits, JournalFits, Staging, Resting, At
<1>6. MixIsOnRecord' /\ TreeFits(s)'
      BY <1>1, <1>3 DEF RestoreStaged, Turned, MixIsOnRecord, TreeFits, tree
<1>7. ~disturbed' => DiskTells' /\ OnRecord(s)' /\ Knows(s)'
      BY <1>1, <1>2, <1>3 DEF RunFacts, RestoreStaged, Turned, Written, Rephased, At,
         machine, history, RunFits, DiskTells, OnRecord, Knows, Staging, Resting,
         Returning
<1>8. ~disturbed' /\ ~blind' => MixTells' /\ Waits(s)'
      BY <1>1 DEF RestoreStaged, At, tree, MixTells, Waits, TreeFits
<1>9. Aside(s)
  <2>1. \A t \in Sessions : t # s => run'[t] = run[t]
        BY <1>3 DEF Turned
  <2>2. /\ s \in alive /\ alive' = alive /\ run[s].at \in Holding /\ lock' = lock
        /\ (disturbed => disturbed') /\ (blind => blind')
        BY DEF RestoreStaged, At, history, bounds, Holding, Places
  <2> QED
      BY <2>1, <2>2 DEF Aside
<1> QED
    BY <1>4, <1>5, <1>6, <1>7, <1>8, <1>9 DEF Kept

LEMMA SuppressRestartKeeps ==
    ASSUME Parameters, IInv, NEW s \in Sessions, SuppressRestart(s) PROVE Kept(s)
<1>1. /\ TypeOK /\ RunFits(s) /\ DiskFits /\ MixIsOnRecord /\ TreeFits(s) /\ s \in alive
      /\ ~disturbed => DiskTells /\ OnRecord(s) /\ Knows(s)
      /\ ~disturbed /\ ~blind => MixTells /\ Waits(s)
      /\ RunFacts(s)
  <2>1. TypeOK
        BY DEF IInv
  <2> QED
      BY RunIsTyped DEF IInv, RunsFit, SuppressRestart, At
<1>2. run[s].journal \in Journals /\ run[s].journal # NoJournal /\ run[s].at \in Working
  <2>1. run[s].at \in Working
        BY DEF SuppressRestart, At, Working, Holding, Places
  <2> QED
      BY <1>1, <2>1, HasJournal
<1>3. Recorded(s, "recovery_required", "release")
      BY <1>1, <1>2, RecordsTurns DEF SuppressRestart, Recorded, Phases, Places
<1>4. TypeOK'
      BY <1>1, <1>3 DEF SuppressRestart, Recorded, Turned, Written, Rephased, TypeOK,
         machine, tree, history, bounds
<1>5. RunFits(s)' /\ DiskFits'
      BY <1>1, <1>2, <1>3 DEF Recorded, Turned, Written, Rephased, RunFits, DiskFits,
         JournalFits, Working, Staging, Resting
<1>6. MixIsOnRecord' /\ TreeFits(s)'
      BY <1>1, <1>3 DEF SuppressRestart, Recorded, Turned, MixIsOnRecord, TreeFits, tree
<1>7. ~disturbed' => DiskTells' /\ OnRecord(s)' /\ Knows(s)'
      BY <1>1, <1>2, <1>3 DEF RunFacts, SuppressRestart, Recorded, Turned, Written,
         Rephased, machine, history, RunFits, DiskTells, OnRecord, Knows
<1>8. ~disturbed' /\ ~blind' => MixTells' /\ Waits(s)'
      BY <1>1, <1>2, <1>3 DEF RunFacts, SuppressRestart, Recorded, Turned, Written,
         Rephased, tree, history, MixTells, Waits, OnRecord
<1>9. Aside(s)
  <2>1. \A t \in Sessions : t # s => run'[t] = run[t]
        BY <1>3 DEF Recorded, Turned
  <2>2. /\ s \in alive /\ alive' = alive /\ run[s].at \in Holding /\ lock' = lock
        /\ (disturbed => disturbed') /\ (blind => blind')
        BY DEF SuppressRestart, At, history, bounds, Holding, Places
  <2> QED
      BY <2>1, <2>2 DEF Aside
<1> QED
    BY <1>4, <1>5, <1>6, <1>7, <1>8, <1>9 DEF Kept

LEMMA StartKeeps ==
    ASSUME Parameters, IInv, NEW s \in Sessions, Start(s) PROVE Kept(s)
<1>1. /\ TypeOK /\ RunFits(s) /\ DiskFits /\ MixIsOnRecord /\ TreeFits(s) /\ s \in alive
      /\ ~disturbed => DiskTells /\ OnRecord(s) /\ Knows(s)
      /\ ~disturbed /\ ~blind => MixTells /\ Waits(s)
      /\ RunFacts(s)
  <2>1. TypeOK
        BY DEF IInv
  <2> QED
      BY RunIsTyped DEF IInv, RunsFit, Start, At
<1>2. run[s].journal \in Journals /\ run[s].journal # NoJournal /\ run[s].at \in Working
  <2>1. run[s].at \in Working
        BY DEF Start, At, Working, Holding, Places
  <2> QED
      BY <1>1, <2>1, HasJournal
<1>3. \E w \in run[s].todo :
         /\ Turned(s, run[s].at, run[s].journal, run[s].snap, run[s].todo \ {w},
                   run[s].err, run[s].interrupted, run[s].safe)
         /\ active' = active \cup {w} /\ down' = down \ {w}
      BY <1>1, <1>2, StopTurns DEF Start
<1>4. TypeOK'
      BY <1>1, <1>3 DEF RunFacts, Start, Turned, TypeOK, tree, history, bounds
<1>5. RunFits(s)' /\ DiskFits'
      BY <1>1, <1>3 DEF Start, Turned, RunFits, DiskFits
<1>6. MixIsOnRecord' /\ TreeFits(s)'
      BY <1>1, <1>3 DEF Start, Turned, MixIsOnRecord, TreeFits, tree
<1>7. ~disturbed' => DiskTells' /\ OnRecord(s)' /\ Knows(s)'
      BY <1>1, <1>3 DEF Start, Turned, history, DiskTells, OnRecord, Knows
<1>8. ~disturbed' /\ ~blind' => MixTells' /\ Waits(s)'
      BY <1>1, <1>2 DEF Start, At, tree, history, MixTells, Waits, Working
<1>9. Aside(s)
  <2>1. \A t \in Sessions : t # s => run'[t] = run[t]
        BY <1>3 DEF Turned
  <2>2. /\ s \in alive /\ alive' = alive /\ run[s].at \in Holding /\ lock' = lock
        /\ (disturbed => disturbed') /\ (blind => blind')
        BY DEF Start, At, history, bounds, Holding, Places
  <2> QED
      BY <2>1, <2>2 DEF Aside
<1> QED
    BY <1>4, <1>5, <1>6, <1>7, <1>8, <1>9 DEF Kept

LEMMA StartFailsKeeps ==
    ASSUME Parameters, IInv, NEW s \in Sessions, StartFails(s) PROVE Kept(s)
<1>1. /\ TypeOK /\ RunFits(s) /\ DiskFits /\ MixIsOnRecord /\ TreeFits(s) /\ s \in alive
      /\ ~disturbed => DiskTells /\ OnRecord(s) /\ Knows(s)
      /\ ~disturbed /\ ~blind => MixTells /\ Waits(s)
      /\ RunFacts(s)
  <2>1. TypeOK
        BY DEF IInv
  <2> QED
      BY RunIsTyped DEF IInv, RunsFit, StartFails, At
<1>2. run[s].journal \in Journals /\ run[s].journal # NoJournal /\ run[s].at \in Working
  <2>1. run[s].at \in Working
        BY DEF StartFails, At, Working, Holding, Places
  <2> QED
      BY <1>1, <2>1, HasJournal
<1>3. \E w \in run[s].todo, journal \in Journals :
         /\ IF Settled(run[s].journal) THEN journal = run[s].journal
            ELSE Rephased(s, journal, "recovery_required")
         /\ Turned(s, run[s].at, journal, run[s].snap, run[s].todo \ {w}, TRUE,
                   run[s].interrupted, run[s].safe)
      BY <1>1, <1>2, StartFailsTurns
<1>4. TypeOK'
      BY <1>1, <1>3 DEF RunFacts, StartFails, Turned, TypeOK, machine, tree, history
<1>5. RunFits(s)' /\ DiskFits'
      BY <1>1, <1>2, <1>3 DEF RunFacts, StartFails, Turned, Rephased, RunFits, DiskFits,
         JournalFits, Settled, Staging, Resting, At
<1>6. MixIsOnRecord' /\ TreeFits(s)'
      BY <1>1, <1>3 DEF StartFails, Turned, MixIsOnRecord, TreeFits, tree
<1>7. ~disturbed' => DiskTells' /\ OnRecord(s)' /\ Knows(s)'
      BY <1>1, <1>3 DEF StartFails, Turned, Rephased, At, machine, history, DiskTells,
         OnRecord, Knows
<1>8. ~disturbed' /\ ~blind' => MixTells' /\ Waits(s)'
      BY <1>1, <1>2 DEF StartFails, At, tree, history, MixTells, Waits, Working
<1>9. Aside(s)
  <2>1. \A t \in Sessions : t # s => run'[t] = run[t]
        BY <1>3 DEF Turned
  <2>2. /\ s \in alive /\ alive' = alive /\ run[s].at \in Holding /\ lock' = lock
        /\ (disturbed => disturbed') /\ (blind => blind')
        BY DEF StartFails, At, history, Holding, Places
  <2> QED
      BY <2>1, <2>2 DEF Aside
<1> QED
    BY <1>4, <1>5, <1>6, <1>7, <1>8, <1>9 DEF Kept

LEMMA RestartedKeeps ==
    ASSUME Parameters, IInv, NEW s \in Sessions, Restarted(s) PROVE Kept(s)
<1>1. /\ TypeOK /\ RunFits(s) /\ DiskFits /\ MixIsOnRecord /\ TreeFits(s) /\ s \in alive
      /\ ~disturbed => DiskTells /\ OnRecord(s) /\ Knows(s)
      /\ ~disturbed /\ ~blind => MixTells /\ Waits(s)
      /\ RunFacts(s)
  <2>1. TypeOK
        BY DEF IInv
  <2> QED
      BY RunIsTyped DEF IInv, RunsFit, Restarted, At
<1>2. run[s].journal \in Journals /\ run[s].journal # NoJournal /\ run[s].at \in Working
  <2>1. run[s].at \in Working
        BY DEF Restarted, At, Working, Holding, Places
  <2> QED
      BY <1>1, <2>1, HasJournal
<1>3. Recorded(s, IF Settled(run[s].journal) THEN run[s].journal.phase
                       ELSE "restart_complete", "health")
      BY <1>1, <1>2, RecordsTurns, JournalFacts DEF Restarted, Recorded, Phases, Places
<1>4. TypeOK'
      BY <1>1, <1>3 DEF Restarted, Recorded, Turned, Written, Rephased, TypeOK, machine,
         tree, history, bounds
<1>5. RunFits(s)' /\ DiskFits'
      BY <1>1, <1>2, <1>3 DEF RunFacts, Recorded, Turned, Written, Rephased, RunFits,
         DiskFits, JournalFits, Settled, Working, Holding, Places, Staging, Resting
<1>6. MixIsOnRecord' /\ TreeFits(s)'
      BY <1>1, <1>3 DEF Restarted, Recorded, Turned, MixIsOnRecord, TreeFits, tree
<1>7. ~disturbed' => DiskTells' /\ OnRecord(s)' /\ Knows(s)'
      BY <1>1, <1>2, <1>3 DEF RunFacts, Restarted, Recorded, Turned, Written, Rephased,
         At, machine, history, RunFits, DiskTells, OnRecord, Knows, Settled
<1>8. ~disturbed' /\ ~blind' => MixTells' /\ Waits(s)'
      BY <1>1, <1>2 DEF Restarted, At, tree, history, MixTells, Waits, Working
<1>9. Aside(s)
  <2>1. \A t \in Sessions : t # s => run'[t] = run[t]
        BY <1>3 DEF Recorded, Turned
  <2>2. /\ s \in alive /\ alive' = alive /\ run[s].at \in Holding /\ lock' = lock
        /\ (disturbed => disturbed') /\ (blind => blind')
        BY DEF Restarted, At, history, bounds, Holding, Places
  <2> QED
      BY <2>1, <2>2 DEF Aside
<1> QED
    BY <1>4, <1>5, <1>6, <1>7, <1>8, <1>9 DEF Kept

LEMMA HealthyKeeps ==
    ASSUME Parameters, IInv, NEW s \in Sessions, Healthy(s) PROVE Kept(s)
<1>1. /\ TypeOK /\ RunFits(s) /\ DiskFits /\ MixIsOnRecord /\ TreeFits(s) /\ s \in alive
      /\ ~disturbed => DiskTells /\ OnRecord(s) /\ Knows(s)
      /\ ~disturbed /\ ~blind => MixTells /\ Waits(s)
      /\ RunFacts(s)
  <2>1. TypeOK
        BY DEF IInv
  <2> QED
      BY RunIsTyped DEF IInv, RunsFit, Healthy, At
<1>2. run[s].journal \in Journals /\ run[s].journal # NoJournal /\ run[s].at \in Working
  <2>1. run[s].at \in Working
        BY DEF Healthy, At, Working, Holding, Places
  <2> QED
      BY <1>1, <2>1, HasJournal
<1>3. IF run[s].err THEN Recorded(s, run[s].journal.phase, "release")
          ELSE Recorded(s, "health_verified", "finish")
      BY <1>1, <1>2, RecordsTurns, JournalFacts DEF Healthy, Recorded, Phases, Places
<1>4. TypeOK'
      BY <1>1, <1>3 DEF Healthy, Recorded, Turned, Written, Rephased, TypeOK, machine,
         tree, history, bounds
<1>5. RunFits(s)' /\ DiskFits'
      BY <1>1, <1>2, <1>3 DEF RunFacts, Recorded, Turned, Written, Rephased, RunFits,
         DiskFits, JournalFits, Staging, Resting
<1>6. MixIsOnRecord' /\ TreeFits(s)'
      BY <1>1, <1>3 DEF Healthy, Recorded, Turned, MixIsOnRecord, TreeFits, tree
<1>7. ~disturbed' => DiskTells' /\ OnRecord(s)' /\ Knows(s)'
      BY <1>1, <1>2, <1>3 DEF RunFacts, Healthy, Recorded, Turned, Written, Rephased,
         At, machine, history, DiskTells, OnRecord, Knows
<1>8. ~disturbed' /\ ~blind' => MixTells' /\ Waits(s)'
      BY <1>1, <1>2 DEF Healthy, At, tree, history, MixTells, Waits, Working
<1>9. Aside(s)
  <2>1. \A t \in Sessions : t # s => run'[t] = run[t]
        BY <1>3, <1>1 DEF Recorded, Turned
  <2>2. /\ s \in alive /\ alive' = alive /\ run[s].at \in Holding /\ lock' = lock
        /\ (disturbed => disturbed') /\ (blind => blind')
        BY DEF Healthy, At, history, bounds, Holding, Places
  <2> QED
      BY <2>1, <2>2 DEF Aside
<1> QED
    BY <1>4, <1>5, <1>6, <1>7, <1>8, <1>9 DEF Kept

LEMMA UnhealthyKeeps ==
    ASSUME Parameters, IInv, NEW s \in Sessions, Unhealthy(s) PROVE Kept(s)
<1>1. /\ TypeOK /\ RunFits(s) /\ DiskFits /\ MixIsOnRecord /\ TreeFits(s) /\ s \in alive
      /\ ~disturbed => DiskTells /\ OnRecord(s) /\ Knows(s)
      /\ ~disturbed /\ ~blind => MixTells /\ Waits(s)
      /\ RunFacts(s)
  <2>1. TypeOK
        BY DEF IInv
  <2> QED
      BY RunIsTyped DEF IInv, RunsFit, Unhealthy, At
<1>2. run[s].journal \in Journals /\ run[s].journal # NoJournal /\ run[s].at \in Working
  <2>1. run[s].at \in Working
        BY DEF Unhealthy, At, Working, Holding, Places
  <2> QED
      BY <1>1, <2>1, HasJournal
<1>3. /\ Written(s, IF Settled(run[s].journal) THEN run[s].journal.phase
                    ELSE "recovery_required")
      /\ Turned(s, "release", disk', run[s].snap, run[s].todo, TRUE,
                run[s].interrupted, run[s].safe)
      BY <1>1, <1>2, UnhealthyTurns
<1>4. TypeOK'
      BY <1>1, <1>3 DEF RunFacts, Unhealthy, Turned, Written, Rephased, TypeOK, machine,
         tree, history
<1>5. RunFits(s)' /\ DiskFits'
      BY <1>1, <1>2, <1>3 DEF Turned, Written, Rephased, RunFits, DiskFits, JournalFits,
         Working, Staging, Resting
<1>6. MixIsOnRecord' /\ TreeFits(s)'
      BY <1>1, <1>3 DEF Unhealthy, Turned, MixIsOnRecord, TreeFits, tree
<1>7. ~disturbed' => DiskTells' /\ OnRecord(s)' /\ Knows(s)'
      BY <1>1, <1>2, <1>3 DEF RunFacts, Unhealthy, Turned, Written, Rephased, machine,
         history, DiskTells, OnRecord, Knows, Settled
<1>8. ~disturbed' /\ ~blind' => MixTells' /\ Waits(s)'
      BY <1>1, <1>2 DEF Unhealthy, At, tree, history, MixTells, Waits, Working
<1>9. Aside(s)
  <2>1. \A t \in Sessions : t # s => run'[t] = run[t]
        BY <1>3 DEF Turned
  <2>2. /\ s \in alive /\ alive' = alive /\ run[s].at \in Holding /\ lock' = lock
        /\ (disturbed => disturbed') /\ (blind => blind')
        BY DEF Unhealthy, At, history, Holding, Places
  <2> QED
      BY <2>1, <2>2 DEF Aside
<1> QED
    BY <1>4, <1>5, <1>6, <1>7, <1>8, <1>9 DEF Kept

LEMMA FinishKeeps ==
    ASSUME Parameters, IInv, NEW s \in Sessions, Finish(s) PROVE Kept(s)
<1>1. /\ TypeOK /\ RunFits(s) /\ DiskFits /\ MixIsOnRecord /\ TreeFits(s) /\ s \in alive
      /\ ~disturbed => DiskTells /\ OnRecord(s) /\ Knows(s)
      /\ ~disturbed /\ ~blind => MixTells /\ Waits(s)
      /\ RunFacts(s)
  <2>1. TypeOK
        BY DEF IInv
  <2> QED
      BY RunIsTyped DEF IInv, RunsFit, Finish, At
<1>2. run[s].journal \in Journals /\ run[s].journal # NoJournal /\ run[s].at \in Working
  <2>1. run[s].at \in Working
        BY DEF Finish, At, Working, Holding, Places
  <2> QED
      BY <1>1, <2>1, HasJournal
<1>3. Recorded(s, "complete", "release")
      BY <1>1, <1>2, RecordsTurns DEF Finish, Recorded, Phases, Places
<1>4. TypeOK'
      BY <1>1, <1>3 DEF Finish, Recorded, Turned, Written, Rephased, TypeOK, machine,
         tree, history, bounds
<1>5. RunFits(s)' /\ DiskFits'
      BY <1>1, <1>2, <1>3 DEF Recorded, Turned, Written, Rephased, RunFits, DiskFits,
         JournalFits, Working, Staging, Resting
<1>6. MixIsOnRecord' /\ TreeFits(s)'
      BY <1>1, <1>3 DEF Finish, Recorded, Turned, MixIsOnRecord, TreeFits, tree
<1>7. ~disturbed' => DiskTells' /\ OnRecord(s)' /\ Knows(s)'
      BY <1>1, <1>3 DEF Finish, Recorded, Turned, At, machine, history, RunFits,
         DiskTells, OnRecord, Knows, Working
<1>8. ~disturbed' /\ ~blind' => MixTells' /\ Waits(s)'
      BY <1>1, <1>2 DEF Finish, At, tree, history, MixTells, Waits, Working
<1>9. Aside(s)
  <2>1. \A t \in Sessions : t # s => run'[t] = run[t]
        BY <1>3 DEF Recorded, Turned
  <2>2. /\ s \in alive /\ alive' = alive /\ run[s].at \in Holding /\ lock' = lock
        /\ (disturbed => disturbed') /\ (blind => blind')
        BY DEF Finish, At, history, bounds, Holding, Places
  <2> QED
      BY <2>1, <2>2 DEF Aside
<1> QED
    BY <1>4, <1>5, <1>6, <1>7, <1>8, <1>9 DEF Kept

LEMMA ReleaseKeeps ==
    ASSUME Parameters, IInv, NEW s \in Sessions, Release(s) PROVE Kept(s)
<1>1. /\ TypeOK /\ RunFits(s) /\ DiskFits /\ MixIsOnRecord /\ TreeFits(s) /\ s \in alive
      /\ ~disturbed => DiskTells /\ OnRecord(s) /\ Knows(s)
      /\ ~disturbed /\ ~blind => MixTells /\ Waits(s)
      /\ RunFacts(s)
  <2>1. TypeOK
        BY DEF IInv
  <2> QED
      BY RunIsTyped DEF IInv, RunsFit, Release, At
<1>2. run[s].journal \in Journals \cup {NoJournal}
      BY <1>1 DEF TypeOK, Runs
<1>3. Sent(s, "ended")
      BY <1>1, GotoTurns DEF Release, Sent, Places
<1>4. TypeOK'
      BY <1>1, <1>3 DEF Release, Sent, Turned, TypeOK, machine, tree, history, bounds
<1>5. RunFits(s)' /\ DiskFits'
      BY <1>1, <1>3 DEF Release, Sent, Turned, RunFits, DiskFits, Working, Holding,
         Staging, Resting
<1>6. MixIsOnRecord' /\ TreeFits(s)'
      BY <1>1, <1>3 DEF Release, Sent, Turned, MixIsOnRecord, TreeFits, tree
<1>7. ~disturbed' => DiskTells' /\ OnRecord(s)' /\ Knows(s)'
      BY <1>1, <1>3 DEF Release, Sent, Turned, machine, history, DiskTells, OnRecord,
         Knows, Working, Holding
<1>8. ~disturbed' /\ ~blind' => MixTells' /\ Waits(s)'
      BY <1>1, <1>3 DEF Release, Sent, Turned, tree, history, MixTells, Waits, Holding
<1>9. Aside(s)
      BY <1>3 DEF Release, Sent, Turned, Aside, At, history, bounds, Holding, Places
<1> QED
    BY <1>4, <1>5, <1>6, <1>7, <1>8, <1>9 DEF Kept

LEMMA KeptByAll ==
    ASSUME Parameters, IInv, NEW s \in Sessions, Step(s) PROVE Kept(s)
  BY ReadJournalKeeps, AcquireKeeps, RefusedKeeps, CaptureWritersKeeps, ResumeKeeps,
     PrepareFailsKeeps, RefuseJournalKeeps, StopKeeps, StopFailsKeeps, SignalKeeps,
     StopInterruptedKeeps, VerifyKeeps, PublishKeeps, PublishFailsKeeps, BoundaryKeeps,
     StageRefusesKeeps, StageReplaysKeeps, StageRollsBackKeeps, StageStaysBrokenKeeps,
     StageBeginsKeeps, MarkMutationKeeps, StagingFailsKeeps, SwapSomeKeeps,
     SwapDoneKeeps, SwapFailsKeeps, RollbackFailsKeeps, RestoreStagedKeeps,
     SuppressRestartKeeps, StartKeeps, StartFailsKeeps, RestartedKeeps, HealthyKeeps,
     UnhealthyKeeps, FinishKeeps, ReleaseKeeps DEF Step

\* What the others know stays: there is one holder, and it is not they.
LEMMA StepKeeps ==
    ASSUME Parameters, IInv, NEW s \in Sessions, Step(s) PROVE IInv'
<1>1. Kept(s) /\ Aside(s)
      BY KeptByAll DEF Kept
<1>2. /\ TypeOK /\ OneHolder /\ alive \subseteq Sessions /\ alive' = alive /\ s \in alive
      /\ \A t \in Sessions : RunFits(t)
      /\ \A t \in alive : TreeFits(t)
      /\ ~disturbed => \A t \in alive : OnRecord(t) /\ Knows(t)
      /\ ~disturbed /\ ~blind => MixTells /\ \A t \in alive : Waits(t)
      BY <1>1 DEF IInv, RunsFit, Aside, TypeOK
<1>3. OneHolder'
      BY <1>1, <1>2 DEF Aside, OneHolder
<1>4. \A t \in Sessions : RunFits(t)'
  <2> SUFFICES ASSUME NEW t \in Sessions PROVE RunFits(t)'
      OBVIOUS
  <2>1. CASE t = s
        BY <1>1, <2>1 DEF Kept
  <2>2. CASE t # s
        BY <1>1, <1>2, <2>2 DEF Aside, RunFits
  <2> QED
      BY <2>1, <2>2
<1>5. ASSUME NEW t \in alive, t # s
      PROVE  /\ run'[t] = run[t]
             /\ run[t].at \in Holding => /\ UNCHANGED <<partial, staged, down>>
                                         /\ disk' = disk \/ disturbed'
  <2>1. run[t].at \in Holding => run[s].at \notin Holding
        BY <1>2, <1>5 DEF OneHolder
  <2> QED
      BY <1>1, <1>2, <1>5, <2>1 DEF Aside
<1>6. \A t \in alive : TreeFits(t)'
  <2> SUFFICES ASSUME NEW t \in alive PROVE TreeFits(t)'
      OBVIOUS
  <2>1. CASE t = s
        BY <1>1, <2>1 DEF Kept
  <2>2. CASE t # s
        BY <1>2, <1>5, <2>2 DEF TreeFits, Holding, Places
  <2> QED
      BY <2>1, <2>2
<1>7. ASSUME ~disturbed', NEW t \in alive PROVE OnRecord(t)' /\ Knows(t)'
  <2>1. CASE t = s
        BY <1>1, <1>7, <2>1 DEF Kept
  <2>2. CASE t # s
    <3>1. ~disturbed /\ OnRecord(t) /\ Knows(t)
          BY <1>1, <1>2, <1>7 DEF Aside
    <3> QED
        BY <1>5, <1>7, <2>2, <3>1 DEF OnRecord, Knows, Working, Holding, Places
  <2> QED
      BY <2>1, <2>2
<1>8. ASSUME ~disturbed', ~blind', NEW t \in alive PROVE Waits(t)'
  <2>1. CASE t = s
        BY <1>1, <1>8, <2>1 DEF Kept
  <2>2. CASE t # s
    <3>1. Waits(t)
          BY <1>1, <1>2, <1>8 DEF Aside
    <3> QED
        BY <1>5, <1>8, <2>2, <3>1 DEF Waits
  <2> QED
      BY <2>1, <2>2
<1> QED
    BY <1>1, <1>2, <1>3, <1>4, <1>6, <1>7, <1>8 DEF IInv, Kept, RunsFit

LEMMA CrashKeeps ==
    ASSUME Parameters, IInv, NEW s \in Sessions, Crash(s) PROVE IInv'
<1>1. /\ alive' = alive \ {s}
      /\ UNCHANGED <<active, down, partial, staged, disk, lock, run, disturbed, blind>>
      BY DEF Crash, machine, tree, history
<1>2. TypeOK'
      BY DEF IInv, TypeOK, Crash, machine, tree, history, Parameters
<1> QED
    BY <1>1, <1>2 DEF IInv, OneHolder, MixIsOnRecord, TreeFits, RunsFit, RunFits,
       DiskFits, DiskTells, OnRecord, Knows, MixTells, Waits

LEMMA StrayStartKeeps ==
    ASSUME Parameters, IInv, NEW w \in Writers, StrayStart(w) PROVE IInv'
<1>1. /\ down' \subseteq down
      /\ UNCHANGED <<partial, staged, disk, lock, run, alive, disturbed, blind>>
      BY DEF StrayStart, tree, history
<1>2. TypeOK'
      BY DEF IInv, TypeOK, StrayStart, tree, history, Parameters
<1>3. /\ OneHolder' /\ MixIsOnRecord' /\ RunsFit' /\ DiskFits'
      /\ \A s \in alive : TreeFits(s)'
      BY <1>1 DEF IInv, OneHolder, MixIsOnRecord, TreeFits, RunsFit, RunFits, DiskFits
<1>4. ~disturbed => DiskTells' /\ \A s \in alive : OnRecord(s)' /\ Knows(s)'
      BY <1>1 DEF IInv, DiskTells, OnRecord, Knows
<1>5. ~disturbed /\ ~blind => MixTells' /\ \A s \in alive : Waits(s)'
      BY <1>1 DEF IInv, MixTells, Waits
<1> QED
    BY <1>1, <1>2, <1>3, <1>4, <1>5 DEF IInv

LEMMA InitInv == Parameters /\ Init => IInv
<1> SUFFICES ASSUME Parameters, Init PROVE IInv
    OBVIOUS
<1>1. TypeOK
  <2>1. run \in [Sessions -> Runs]
        BY DEF Init, Runs, Places
  <2>2. staged \in [archive : Archives \cup {NoArchive}, status : Statuses]
        BY DEF Init, Statuses
  <2>3. /\ active \subseteq Writers /\ down \subseteq Writers
        /\ partial \in BOOLEAN /\ disturbed \in BOOLEAN /\ blind \in BOOLEAN
        /\ disk \in Journals \cup {NoJournal} /\ lock \in Sessions \cup {Nobody}
        /\ alive \subseteq Sessions
        BY DEF Init
  <2>4. /\ crashes \in 0 .. MaxCrashes /\ faults \in 0 .. MaxFaults
        /\ strays \in 0 .. MaxStrays
        BY DEF Init, Parameters
  <2> QED
      BY <2>1, <2>2, <2>3, <2>4 DEF TypeOK
<1>2. \A s \in Sessions :
         /\ run[s].at = "start" /\ run[s].journal = NoJournal
         /\ ~run[s].err /\ ~run[s].interrupted /\ run[s].safe
      BY DEF Init
<1>3. alive = Sessions /\ partial = FALSE /\ disk = NoJournal /\ down = {}
      BY DEF Init
<1> QED
    BY <1>1, <1>2, <1>3 DEF IInv, OneHolder, MixIsOnRecord, TreeFits, RunsFit, RunFits,
       DiskFits, DiskTells, OnRecord, Knows, MixTells, Waits, Working, Holding, Staging,
       Resting

LEMMA NextKeeps == Parameters /\ IInv /\ [Next]_vars => IInv'
<1> SUFFICES ASSUME Parameters, IInv, [Next]_vars PROVE IInv'
    OBVIOUS
<1>1. CASE Next
      BY <1>1, StepKeeps, CrashKeeps, StrayStartKeeps DEF Next
<1>2. CASE UNCHANGED vars
      BY <1>2 DEF vars, IInv, TypeOK, OneHolder, MixIsOnRecord, TreeFits, RunsFit,
         RunFits, DiskFits, DiskTells, OnRecord, Knows, MixTells, Waits
<1> QED
    BY <1>1, <1>2

THEOREM Invariant == Parameters /\ Spec => []IInv
<1> SUFFICES ASSUME Parameters PROVE Spec => []IInv
    OBVIOUS
<1> QED
    BY InitInv, NextKeeps, PTL DEF Spec

THEOREM TypesHold == Parameters /\ Spec => []TypeOK
<1>1. IInv => TypeOK
      BY DEF IInv
<1> QED
    BY <1>1, Invariant, PTL

\* Every writer that was stopped and is still down is on record.
THEOREM StoppedStayOnRecord == Parameters /\ Spec => []StoppedAreOnRecord
<1>1. IInv => StoppedAreOnRecord
      BY DEF IInv, StoppedAreOnRecord, DiskTells
<1> QED
    BY <1>1, Invariant, PTL

THEOREM SuccessLeavesNoneDown == Parameters /\ Spec => []SuccessBringsAllBack
<1>1. IInv => SuccessBringsAllBack
      BY DEF IInv, SuccessBringsAllBack, Knows
<1> QED
    BY <1>1, Invariant, PTL

THEOREM MixStaysOnRecord == Parameters /\ Spec => []MixIsOnRecord
<1>1. IInv => MixIsOnRecord
      BY DEF IInv
<1> QED
    BY <1>1, Invariant, PTL

\* Only Start starts a writer that is not a stray, and its session is past
\* what a mixed tree lets it do.
THEOREM NoStartOnMixedTree == Parameters /\ Spec => WritersWaitForTheTree
<1> SUFFICES ASSUME Parameters PROVE Spec => WritersWaitForTheTree
    OBVIOUS
<1>1. ASSUME IInv, [Next]_vars PROVE [~StartsOnMixedTree]_vars
  <2> SUFFICES ASSUME StartsOnMixedTree PROVE UNCHANGED vars
      OBVIOUS
  <2>1. ~disturbed /\ ~blind /\ partial /\ strays' = strays /\ ~(active' \subseteq active)
        BY DEF StartsOnMixedTree, StartsOnPartialRestore
  <2>2. ASSUME NEW s \in Sessions, Start(s) PROVE FALSE
    <3>1. s \in alive
          BY <2>2 DEF Start, At
    <3>2. Waits(s)
          BY <1>1, <2>1, <3>1 DEF IInv
    <3> QED
        BY <2>1, <2>2, <3>2 DEF Waits, Start, At, Holding, Places
  <2>3. ASSUME NEW s \in Sessions, Step(s), ~Start(s) PROVE FALSE
        BY <2>1, <2>3 DEF Step, ReadJournal, Acquire, Refused, CaptureWriters, Resume,
           PrepareFails, RefuseJournal, Stop, StopFails, Signal, StopInterrupted,
           Verify, Publish, PublishFails, Boundary, StageRefuses, StageReplays,
           StageRollsBack, StageStaysBroken, StageBegins, MarkMutation, StagingFails,
           SwapSome, SwapDone, SwapFails, RollbackFails, RestoreStaged, SuppressRestart,
           StartFails, Restarted, Healthy, Unhealthy, Finish, Release, machine
  <2>4. ASSUME NEW s \in Sessions, Crash(s) PROVE FALSE
        BY <2>1, <2>4 DEF Crash, machine
  <2>5. ASSUME NEW w \in Writers, StrayStart(w) PROVE FALSE
        BY <2>1, <2>5 DEF StrayStart
  <2> QED
      BY <1>1, <2>2, <2>3, <2>4, <2>5 DEF Next
<1> QED
    BY <1>1, InitInv, NextKeeps, PTL DEF Spec, WritersWaitForTheTree

====
