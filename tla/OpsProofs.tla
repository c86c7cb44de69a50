------------------------------ MODULE OpsProofs ------------------------------
(***************************************************************************)
(* Proofs about what outlives a process (MCOps): the operations lock, the  *)
(* tokens of restores and the state files, for any sets of processes and   *)
(* records and any number of kills, failing calls and damages, with what   *)
(* CoordinatedRunProofs shows of backups and restores.  The theorems at    *)
(* the end state the properties of MCOps.                                  *)
(***************************************************************************)
EXTENDS MCOps, TLAPS

----------------------------------------------------------------------------
(***************************************************************************)
(* The operations lock.                                                    *)
(***************************************************************************)

\* While nobody has taken a lock for stale, whoever is past O_EXCL is still
\* the one whose file has the name: Release and Drop then touch their own
\* file only, and no session is about to remove another's.
OwnersKeepTheirFile ==
    ~takeover =>
        /\ \A s \in Sessions : pc[s] \notin {"reread", "rejudge", "unlink"}
        /\ \A s \in alive :
              pc[s] \in {"write", "held", "drop"} => OwnFile(s)

\* The creator of the file is still before its release, or was stopped.  It
\* is what keeps NothingLeftBehind through takeovers.
CreatorsAreThere ==
    lock # NoFile =>
        \/ pc[lock.by] \in {"write", "failed"}
        \/ pc[lock.by] \in {"held", "drop"} /\ lock.named

LockInv == TypeOK /\ OwnersKeepTheirFile /\ CreatorsAreThere

\* A file is a lock, and says who made it.
LEMMA FileFacts ==
    ASSUME NEW s \in Sessions
    PROVE  /\ NewFile(s) \in Locks /\ NamedFile(s) \in Locks
           /\ NewFile(s) # NoFile /\ NamedFile(s) # NoFile
           /\ NewFile(s).by = s /\ NamedFile(s).by = s
           /\ NamedFile(s).named
<1>1. NewFile(s) \in Locks /\ NamedFile(s) \in Locks
      BY DEF NewFile, NamedFile, Locks
<1>2. NewFile(s).by = s /\ NamedFile(s).by = s /\ NamedFile(s).named
      BY DEF NewFile, NamedFile
<1> QED
    BY <1>1, <1>2, LockAssumption

\* Every lock has one of the sessions for its creator.
LEMMA CreatorIsSession ==
    TypeOK /\ lock # NoFile => lock \in Locks /\ lock.by \in Sessions
  BY DEF TypeOK, Locks

\* The initial states satisfy the inductive invariant.
LEMMA LockInit == Init => LockInv
<1> SUFFICES ASSUME Init PROVE LockInv
    OBVIOUS
<1>1. TypeOK
  <2>1. pc \in [Sessions -> Places] /\ seen \in [Sessions -> Sessions]
        BY DEF Init, Places
  <2>2. crashes \in 0 .. MaxCrashes /\ faults \in 0 .. MaxFaults
        BY LockAssumption DEF Init
  <2> QED
      BY <2>1, <2>2 DEF Init, TypeOK
<1>2. OwnersKeepTheirFile /\ CreatorsAreThere
      BY DEF Init, OwnersKeepTheirFile, CreatorsAreThere
<1> QED
    BY <1>1, <1>2 DEF LockInv

\* Every step keeps the type invariant.
LEMMA LockTypeStep == TypeOK /\ [Next]_vars => TypeOK'
<1> SUFFICES ASSUME TypeOK, [Next]_vars PROVE TypeOK'
    OBVIOUS
<1> USE LockAssumption DEF TypeOK, Places, At, Goto, Rest, Named, OwnFile
<1>1. ASSUME NEW s \in Sessions, Look(s) PROVE TypeOK'
      BY <1>1 DEF Look
<1>2. ASSUME NEW s \in Sessions, Validate(s) PROVE TypeOK'
      BY <1>2, CreatorIsSession DEF Validate
<1>3. ASSUME NEW s \in Sessions, Judge(s) PROVE TypeOK'
  <2>1. CASE Goto(s, "ended") /\ UNCHANGED takeover
        BY <1>3, <2>1 DEF Judge
  <2>2. CASE Goto(s, IF Rereads THEN "reread" ELSE "unlink") /\ takeover' = TRUE
        BY <1>3, <2>2 DEF Judge
  <2> QED BY <1>3, <2>1, <2>2 DEF Judge
<1>4. ASSUME NEW s \in Sessions, Reread(s) PROVE TypeOK'
      BY <1>4, CreatorIsSession DEF Reread
<1>5. ASSUME NEW s \in Sessions, Rejudge(s) PROVE TypeOK'
      BY <1>5 DEF Rejudge
<1>6. ASSUME NEW s \in Sessions, Unlink(s) PROVE TypeOK'
      BY <1>6 DEF Unlink
<1>7. ASSUME NEW s \in Sessions, Create(s) PROVE TypeOK'
      BY <1>7, FileFacts DEF Create
<1>8. ASSUME NEW s \in Sessions, Write(s) PROVE TypeOK'
      BY <1>8, FileFacts DEF Write
<1>9. ASSUME NEW s \in Sessions, WriteFails(s) PROVE TypeOK'
  <2>1. lock' \in Locks \cup {NoFile}
        BY <1>9, FileFacts DEF WriteFails
  <2>2. faults' \in 0 .. MaxFaults
        BY <1>9 DEF WriteFails
  <2> QED
      BY <1>9, <2>1, <2>2 DEF WriteFails
<1>10. ASSUME NEW s \in Sessions, Release(s) PROVE TypeOK'
      BY <1>10 DEF Release
<1>11. ASSUME NEW s \in Sessions, Drop(s) PROVE TypeOK'
      BY <1>11 DEF Drop
<1>12. ASSUME NEW s \in Sessions, Exit(s) PROVE TypeOK'
      BY <1>12 DEF Exit
<1>13. ASSUME NEW s \in Sessions, Crash(s) PROVE TypeOK'
      BY <1>13 DEF Crash
<1>14. CASE UNCHANGED vars
      BY <1>14 DEF vars
<1> QED
    BY <1>1, <1>2, <1>3, <1>4, <1>5, <1>6, <1>7, <1>8, <1>9, <1>10, <1>11,
       <1>12, <1>13, <1>14 DEF Next

\* Every step keeps the files with their owners until a takeover.
LEMMA OwnersStep == LockInv /\ [Next]_vars => OwnersKeepTheirFile'
<1> SUFFICES ASSUME LockInv, [Next]_vars PROVE OwnersKeepTheirFile'
    OBVIOUS
<1> USE LockAssumption
    DEF LockInv, TypeOK, OwnersKeepTheirFile, Places, At, Goto, Rest,
        Named, OwnFile
<1>1. ASSUME NEW s \in Sessions, Look(s) PROVE OwnersKeepTheirFile'
      BY <1>1 DEF Look
<1>2. ASSUME NEW s \in Sessions, Validate(s) PROVE OwnersKeepTheirFile'
      BY <1>2 DEF Validate
<1>3. ASSUME NEW s \in Sessions, Judge(s) PROVE OwnersKeepTheirFile'
      BY <1>3 DEF Judge
<1>4. ASSUME NEW s \in Sessions, Reread(s) PROVE OwnersKeepTheirFile'
      BY <1>4 DEF Reread
<1>5. ASSUME NEW s \in Sessions, Rejudge(s) PROVE OwnersKeepTheirFile'
      BY <1>5 DEF Rejudge
<1>6. ASSUME NEW s \in Sessions, Unlink(s) PROVE OwnersKeepTheirFile'
      BY <1>6 DEF Unlink
<1>7. ASSUME NEW s \in Sessions, Create(s) PROVE OwnersKeepTheirFile'
      BY <1>7, FileFacts DEF Create
<1>8. ASSUME NEW s \in Sessions, Write(s) PROVE OwnersKeepTheirFile'
      BY <1>8, FileFacts DEF Write
<1>9. ASSUME NEW s \in Sessions, WriteFails(s) PROVE OwnersKeepTheirFile'
      BY <1>9, FileFacts DEF WriteFails
<1>10. ASSUME NEW s \in Sessions, Release(s) PROVE OwnersKeepTheirFile'
      BY <1>10 DEF Release
<1>11. ASSUME NEW s \in Sessions, Drop(s) PROVE OwnersKeepTheirFile'
      BY <1>11 DEF Drop
<1>12. ASSUME NEW s \in Sessions, Exit(s) PROVE OwnersKeepTheirFile'
      BY <1>12 DEF Exit
<1>13. ASSUME NEW s \in Sessions, Crash(s) PROVE OwnersKeepTheirFile'
      BY <1>13 DEF Crash
<1>14. CASE UNCHANGED vars
      BY <1>14 DEF vars
<1> QED
    BY <1>1, <1>2, <1>3, <1>4, <1>5, <1>6, <1>7, <1>8, <1>9, <1>10, <1>11,
       <1>12, <1>13, <1>14 DEF Next

\* Every step keeps the creator of the file before its release.
LEMMA CreatorsStep == LockInv /\ [Next]_vars => CreatorsAreThere'
<1> SUFFICES ASSUME LockInv, [Next]_vars PROVE CreatorsAreThere'
    OBVIOUS
<1> USE LockAssumption
    DEF LockInv, TypeOK, CreatorsAreThere, Places, At, Goto, Rest,
        Named, OwnFile
<1>1. ASSUME NEW s \in Sessions, Look(s) PROVE CreatorsAreThere'
      BY CreatorIsSession, <1>1 DEF Look
<1>2. ASSUME NEW s \in Sessions, Validate(s) PROVE CreatorsAreThere'
      BY CreatorIsSession, <1>2 DEF Validate
<1>3. ASSUME NEW s \in Sessions, Judge(s) PROVE CreatorsAreThere'
      BY CreatorIsSession, <1>3 DEF Judge
<1>4. ASSUME NEW s \in Sessions, Reread(s) PROVE CreatorsAreThere'
      BY CreatorIsSession, <1>4 DEF Reread
<1>5. ASSUME NEW s \in Sessions, Rejudge(s) PROVE CreatorsAreThere'
      BY CreatorIsSession, <1>5 DEF Rejudge
<1>6. ASSUME NEW s \in Sessions, Unlink(s) PROVE CreatorsAreThere'
      BY CreatorIsSession, <1>6 DEF Unlink
<1>7. ASSUME NEW s \in Sessions, Create(s) PROVE CreatorsAreThere'
      BY CreatorIsSession, <1>7, FileFacts DEF Create
<1>8. ASSUME NEW s \in Sessions, Write(s) PROVE CreatorsAreThere'
      BY CreatorIsSession, <1>8, FileFacts DEF Write
<1>9. ASSUME NEW s \in Sessions, WriteFails(s) PROVE CreatorsAreThere'
      BY CreatorIsSession, <1>9, FileFacts DEF WriteFails
<1>10. ASSUME NEW s \in Sessions, Release(s) PROVE CreatorsAreThere'
      BY CreatorIsSession, <1>10 DEF Release
<1>11. ASSUME NEW s \in Sessions, Drop(s) PROVE CreatorsAreThere'
      BY CreatorIsSession, <1>11 DEF Drop
<1>12. ASSUME NEW s \in Sessions, Exit(s) PROVE CreatorsAreThere'
      BY CreatorIsSession, <1>12 DEF Exit
<1>13. ASSUME NEW s \in Sessions, Crash(s) PROVE CreatorsAreThere'
      BY CreatorIsSession, <1>13 DEF Crash
<1>14. CASE UNCHANGED vars
      BY <1>14 DEF vars
<1> QED
    BY <1>1, <1>2, <1>3, <1>4, <1>5, <1>6, <1>7, <1>8, <1>9, <1>10, <1>11,
       <1>12, <1>13, <1>14 DEF Next

\* The inductive invariant holds of every execution.
THEOREM LockInvariance == Spec => []LockInv
<1>1. LockInv /\ [Next]_vars => LockInv'
      BY LockTypeStep, OwnersStep, CreatorsStep DEF LockInv
<1> QED
    BY LockInit, <1>1, PTL DEF Spec

\* The variables keep their types.
THEOREM LockTypeCorrect == Spec => []TypeOK
<1>1. LockInv => TypeOK
      BY DEF LockInv
<1> QED
    BY LockInvariance, <1>1, PTL

\* Until a session takes a lock for stale (acquireCoordinatedLock and
\* acquireRestoreLock: the owner's pid is dead) the lock has one holder,
\* however many processes compete for it and whoever is killed.
THEOREM LockExclusive == Spec => []ExclusiveWithoutTakeover
<1>1. LockInv => ExclusiveWithoutTakeover
      BY DEF LockInv, TypeOK, OwnersKeepTheirFile, OwnFile,
         ExclusiveWithoutTakeover, MutualExclusion, Holders
<1> QED
    BY LockInvariance, <1>1, PTL

\* A session that was refused or has released left no file of its own, also
\* when sessions remove each other's files.
THEOREM LockLeavesNothing == Spec => []NothingLeftBehind
<1>1. LockInv => NothingLeftBehind
      BY DEF LockInv, CreatorsAreThere, NothingLeftBehind
<1> QED
    BY LockInvariance, <1>1, PTL

----------------------------------------------------------------------------
(***************************************************************************)
(* The tokens of restores: a token ends once, and every answer about it    *)
(* stays true.                                                             *)
(***************************************************************************)

Claiming == {"part", "link", "drop", "judge"}

\* Where a caller is says what it has seen: whoever claims a terminal state asks
\* for one, and for a consumption only if no older version left a marker; the
\* winner of the link is the one whose marker is there, the loser has found one.
PlacesTell ==
    \A c \in Callers :
        /\ callAt[c] \in Claiming => call[c] \in {"consume", "revoke"}
        /\ callAt[c] \in Claiming /\ call[c] = "consume" => legacy = {}
        /\ callAt[c] = "drop" => marker = Tokens!ClaimOf(c)
        /\ callAt[c] = "judge" => marker # NoMarker

TokenInv == Tokens!TypeOK /\ PlacesTell /\ Tokens!AnswersAreTrue

\* A marker says who made it and how the token ended.
LEMMA ClaimFacts ==
    ASSUME Tokens!Parameters, Tokens!TypeOK, NEW c \in Callers
    PROVE  /\ Tokens!ClaimOf(c) \in Tokens!Markers /\ Tokens!ClaimOf(c) # NoMarker
           /\ Tokens!ClaimOf(c).by = c
           /\ call[c] = "revoke" => Tokens!ClaimOf(c).terminal = "revoked"
           /\ call[c] # "revoke" => Tokens!ClaimOf(c) = [terminal |-> "consumed", by |-> c]
<1>1. Tokens!ClaimOf(c) \in Tokens!Markers
      BY DEF Tokens!ClaimOf, Tokens!Markers, Tokens!Terminals
<1> QED
    BY <1>1 DEF Tokens!Parameters, Tokens!ClaimOf

\* The marker a read goes by is one of the two ends.
LEMMA MarkerFacts ==
    ASSUME Tokens!TypeOK, marker # NoMarker
    PROVE  marker.terminal \in Tokens!Terminals /\ marker.by \in Callers
  BY DEF Tokens!TypeOK, Tokens!Markers

LEMMA FoundFacts ==
    ASSUME Tokens!TypeOK, Tokens!Found # "none"
    PROVE  Tokens!Found \in Tokens!Terminals /\ Tokens!Says(Tokens!Found)
<1>1. CASE marker # NoMarker
      BY <1>1, MarkerFacts DEF Tokens!Found, Tokens!Says
<1>2. CASE marker = NoMarker
  <2>1. legacy # {} /\ Tokens!Found = CHOOSE t \in legacy : TRUE
        BY <1>2 DEF Tokens!Found
  <2>2. Tokens!Found \in legacy
        BY <2>1
  <2> QED
      BY <2>2 DEF Tokens!TypeOK, Tokens!Says
<1> QED
    BY <1>1, <1>2

\* The initial states satisfy the inductive invariant.
LEMMA TokenInit == ASSUME Tokens!Parameters PROVE Tokens!Init => TokenInv
<1> SUFFICES ASSUME Tokens!Init PROVE TokenInv
    OBVIOUS
<1>1. Tokens!TypeOK
  <2>1. callCrashes \in 0 .. MaxCallCrashes /\ callFaults \in 0 .. MaxCallFaults
        BY DEF Tokens!Init, Tokens!Parameters
  <2> QED
      BY <2>1 DEF Tokens!Init, Tokens!TypeOK, Tokens!Places, Tokens!Calls, Tokens!Ends
<1>2. PlacesTell /\ Tokens!AnswersAreTrue
      BY DEF Tokens!Init, PlacesTell, Tokens!AnswersAreTrue, Claiming
<1> QED
    BY <1>1, <1>2 DEF TokenInv

\* An answer ends a call in a place where nothing is claimed.
LEMMA AnswerTypes ==
    ASSUME Tokens!TypeOK, NEW c \in Callers, NEW end \in Tokens!Ends, Tokens!Answer(c, end)
    PROVE  /\ callAt' \in [Callers -> Tokens!Places]
           /\ answers' \in [Callers -> SUBSET (Tokens!Calls \X Tokens!Ends)]
  BY DEF Tokens!TypeOK, Tokens!Answer, Tokens!Goto, Tokens!Places

\* Every step keeps the type invariant.
LEMMA TokenTypeStep ==
    ASSUME Tokens!Parameters
    PROVE  Tokens!TypeOK /\ PlacesTell /\ [Tokens!Next]_Tokens!vars => Tokens!TypeOK'
<1> SUFFICES ASSUME Tokens!TypeOK, PlacesTell, [Tokens!Next]_Tokens!vars
             PROVE  Tokens!TypeOK'
    OBVIOUS
<1> USE DEF Tokens!TypeOK, Tokens!Parameters, Tokens!Places, Tokens!Goto, Tokens!Store,
            Tokens!Rest
<1>1. CASE Tokens!Register
      BY <1>1 DEF Tokens!Register
<1>2. ASSUME NEW c \in Callers, NEW what \in Tokens!Calls, Tokens!Enter(c, what)
      PROVE  Tokens!TypeOK'
      BY <1>2 DEF Tokens!Enter
<1>3. CASE Tokens!Restore
      BY <1>2, <1>3 DEF Tokens!Restore, Tokens!Calls
<1>4. CASE Tokens!Expire
      BY <1>4 DEF Tokens!Expire
<1>5. ASSUME NEW c \in Callers, Tokens!Request(c) PROVE Tokens!TypeOK'
      BY <1>2, <1>5 DEF Tokens!Request
<1>6. ASSUME NEW c \in Callers, Tokens!ReadEntry(c) PROVE Tokens!TypeOK'
      BY <1>6 DEF Tokens!ReadEntry
<1>7. ASSUME NEW c \in Callers, Tokens!ReadTerminal(c) PROVE Tokens!TypeOK'
  <2>1. CASE \E end \in Tokens!Ends : Tokens!Answer(c, end)
        BY <1>7, <2>1, AnswerTypes DEF Tokens!ReadTerminal
  <2>2. CASE Tokens!Goto(c, "part") /\ UNCHANGED answers
        BY <1>7, <2>2 DEF Tokens!ReadTerminal
  <2> QED
      BY <1>7, <2>1, <2>2, FoundFacts DEF Tokens!ReadTerminal, Tokens!Ends,
         Tokens!Terminals
<1>8. ASSUME NEW c \in Callers, Tokens!WritePart(c) PROVE Tokens!TypeOK'
  <2>1. CASE Tokens!Throws(c)
        BY <1>8, <2>1, AnswerTypes DEF Tokens!WritePart, Tokens!Throws, Tokens!Ends
  <2>2. CASE Tokens!Goto(c, "link") /\ UNCHANGED <<answers, callFaults>>
        BY <1>8, <2>2 DEF Tokens!WritePart
  <2> QED
      BY <1>8, <2>1, <2>2 DEF Tokens!WritePart
<1>9. ASSUME NEW c \in Callers, Tokens!LinkPart(c) PROVE Tokens!TypeOK'
  <2>1. CASE marker' = Tokens!ClaimOf(c) /\ Tokens!Goto(c, "drop") /\ UNCHANGED <<parts, answers, callFaults>>
        BY <1>9, <2>1, ClaimFacts DEF Tokens!LinkPart
  <2>2. CASE /\ parts' = parts \ {c} /\ UNCHANGED callFaults
             /\ Tokens!Goto(c, "judge") /\ UNCHANGED <<marker, answers>>
        BY <1>9, <2>2 DEF Tokens!LinkPart
  <2>4. CASE /\ callFaults < MaxCallFaults /\ callFaults' = callFaults + 1 /\ UNCHANGED parts
             /\ Tokens!Goto(c, "judge") /\ UNCHANGED <<marker, answers>>
        BY <1>9, <2>4 DEF Tokens!LinkPart
  <2>3. CASE Tokens!Throws(c) /\ UNCHANGED marker
        BY <1>9, <2>3, AnswerTypes DEF Tokens!LinkPart, Tokens!Throws, Tokens!Ends
  <2> QED
      BY <1>9, <2>1, <2>2, <2>3, <2>4 DEF Tokens!LinkPart
<1>10. ASSUME NEW c \in Callers, Tokens!DropPart(c) PROVE Tokens!TypeOK'
  <2>1. CASE Tokens!Answer(c, "done") /\ UNCHANGED callFaults
        BY <1>10, <2>1, AnswerTypes DEF Tokens!DropPart, Tokens!Ends
  <2>2. CASE Tokens!Throws(c)
        BY <1>10, <2>2, AnswerTypes DEF Tokens!DropPart, Tokens!Throws, Tokens!Ends
  <2> QED
      BY <1>10, <2>1, <2>2 DEF Tokens!DropPart
<1>11. ASSUME NEW c \in Callers, Tokens!JudgeMarker(c) PROVE Tokens!TypeOK'
  <2>1. marker.terminal \in Tokens!Terminals
        BY <1>11, MarkerFacts DEF Tokens!JudgeMarker, PlacesTell, Tokens!At
  <2>2. \E end \in Tokens!Ends : Tokens!Answer(c, end)
        BY <1>11, <2>1 DEF Tokens!JudgeMarker, Tokens!Ends, Tokens!Terminals
  <2> QED
      BY <1>11, <2>2, AnswerTypes DEF Tokens!JudgeMarker
<1>12. ASSUME NEW c \in Callers, Tokens!Crash(c) PROVE Tokens!TypeOK'
      BY <1>12 DEF Tokens!Crash
<1>13. CASE UNCHANGED Tokens!vars
      BY <1>13 DEF Tokens!vars
<1> QED
    BY <1>1, <1>3, <1>4, <1>5, <1>6, <1>7, <1>8, <1>9, <1>10, <1>11, <1>12, <1>13 DEF
       Tokens!Next

\* A step that moves one caller, and neither takes a marker away nor changes what
\* anybody asks for, keeps PlacesTell if it holds for that caller.
LEMMA OneMoves ==
    ASSUME Tokens!TypeOK, PlacesTell, NEW c \in Callers, NEW place,
           Tokens!Goto(c, place), UNCHANGED <<legacy, call>>,
           marker # NoMarker => marker' = marker,
           place \in Claiming => call[c] \in {"consume", "revoke"},
           place \in Claiming /\ call[c] = "consume" => legacy = {},
           place = "drop" => marker' = Tokens!ClaimOf(c),
           place = "judge" => marker' # NoMarker,
           \A d \in Callers : Tokens!ClaimOf(d) # NoMarker
    PROVE  PlacesTell'
<1> SUFFICES ASSUME NEW d \in Callers
             PROVE  /\ callAt'[d] \in Claiming => call[d] \in {"consume", "revoke"}
                    /\ callAt'[d] \in Claiming /\ call[d] = "consume" => legacy = {}
                    /\ callAt'[d] = "drop" => marker' = Tokens!ClaimOf(d)
                    /\ callAt'[d] = "judge" => marker' # NoMarker
    BY DEF PlacesTell, Tokens!ClaimOf, Claiming
<1>1. CASE d = c
      BY <1>1 DEF Tokens!Goto, Tokens!TypeOK
<1>2. CASE d # c
  <2>1. callAt'[d] = callAt[d]
        BY <1>2 DEF Tokens!Goto, Tokens!TypeOK
  <2>2. callAt[d] \in {"drop", "judge"} => marker' = marker /\ marker # NoMarker
        BY DEF PlacesTell
  <2> QED
      BY <2>1, <2>2 DEF PlacesTell
<1> QED
    BY <1>1, <1>2

\* An answer, of a call that leaves the markers alone, moves its caller to a place
\* where nothing is claimed.
LEMMA AnswerMoves ==
    ASSUME Tokens!Parameters, Tokens!TypeOK, PlacesTell, NEW c \in Callers, NEW end,
           Tokens!Answer(c, end), UNCHANGED <<legacy, call, marker>>
    PROVE  PlacesTell'
<1>1. \A d \in Callers : Tokens!ClaimOf(d) # NoMarker
      BY ClaimFacts
<1>2. PICK place \in {"failed", "over"} : Tokens!Goto(c, place)
      BY DEF Tokens!Answer
<1> QED
    BY <1>1, <1>2, OneMoves DEF Claiming

\* Every step leaves callers where their places tell the truth.
LEMMA PlacesStep ==
    ASSUME Tokens!Parameters
    PROVE  Tokens!TypeOK /\ PlacesTell /\ [Tokens!Next]_Tokens!vars => PlacesTell'
<1> SUFFICES ASSUME Tokens!TypeOK, PlacesTell, [Tokens!Next]_Tokens!vars
             PROVE  PlacesTell'
    OBVIOUS
<1>0. \A d \in Callers : Tokens!ClaimOf(d) # NoMarker
      BY ClaimFacts
<1> USE DEF Tokens!Store, Tokens!Rest, Claiming
<1>1. CASE Tokens!Register
  <2>1. PICK place \in {"register", "working", "over"} : Tokens!Goto(Issuer, place)
        BY <1>1 DEF Tokens!Register
  <2> QED
      BY <1>0, <1>1, <2>1, OneMoves DEF Tokens!Register, Tokens!Parameters
<1>2. ASSUME NEW c \in Callers, NEW what \in Tokens!Calls, Tokens!Enter(c, what)
      PROVE  PlacesTell'
  <2> SUFFICES ASSUME NEW d \in Callers
               PROVE  /\ callAt'[d] \in Claiming => call'[d] \in {"consume", "revoke"}
                      /\ callAt'[d] \in Claiming /\ call'[d] = "consume" => legacy = {}
                      /\ callAt'[d] = "drop" => marker = Tokens!ClaimOf(d)'
                      /\ callAt'[d] = "judge" => marker # NoMarker
      BY <1>2 DEF PlacesTell, Tokens!Enter
  <2>1. CASE d = c
        BY <1>2, <2>1 DEF Tokens!Enter, Tokens!Goto, Tokens!TypeOK
  <2>2. CASE d # c
    <3>1. callAt'[d] = callAt[d] /\ call'[d] = call[d]
          BY <1>2, <2>2 DEF Tokens!Enter, Tokens!Goto, Tokens!TypeOK
    <3> QED
        BY <3>1 DEF PlacesTell, Tokens!ClaimOf
  <2> QED
      BY <2>1, <2>2
<1>3. CASE Tokens!Restore
      BY <1>2, <1>3 DEF Tokens!Restore, Tokens!Calls, Tokens!Parameters
<1>4. CASE Tokens!Expire
      BY <1>4 DEF Tokens!Expire, PlacesTell, Tokens!ClaimOf
<1>5. ASSUME NEW c \in Callers, Tokens!Request(c) PROVE PlacesTell'
      BY <1>2, <1>5 DEF Tokens!Request
<1>6. ASSUME NEW c \in Callers, Tokens!ReadEntry(c) PROVE PlacesTell'
  <2>1. PICK place \in {"part", "terminal"} :
            Tokens!Goto(c, place) /\ (place = "part" => call[c] = "revoke")
        BY <1>6 DEF Tokens!ReadEntry
  <2> QED
      BY <1>0, <1>6, <2>1, OneMoves DEF Tokens!ReadEntry
<1>7. ASSUME NEW c \in Callers, Tokens!ReadTerminal(c) PROVE PlacesTell'
  <2>1. CASE \E end \in Tokens!Ends : Tokens!Answer(c, end)
        BY <1>7, <2>1, AnswerMoves DEF Tokens!ReadTerminal
  <2>2. CASE ~Tokens!Unreadable /\ Tokens!Found = "none" /\ call[c] = "consume" /\ Tokens!Goto(c, "part")
    <3>1. legacy = {}
      <4>1. CASE marker # NoMarker
            BY <2>2, <4>1, MarkerFacts DEF Tokens!Found, Tokens!Terminals
      <4>2. CASE marker = NoMarker /\ legacy # {}
        <5>1. Tokens!Found \in legacy
              BY <4>2 DEF Tokens!Found
        <5> QED
            BY <2>2, <5>1 DEF Tokens!TypeOK, Tokens!Terminals
      <4> QED
          BY <4>1, <4>2
    <3> QED
        BY <1>0, <1>7, <2>2, <3>1, OneMoves DEF Tokens!ReadTerminal
  <2> QED
      BY <1>7, <2>1, <2>2, FoundFacts DEF Tokens!ReadTerminal, Tokens!Ends,
         Tokens!Terminals
<1>8. ASSUME NEW c \in Callers, Tokens!WritePart(c) PROVE PlacesTell'
  <2>1. CASE Tokens!Throws(c)
        BY <1>8, <2>1, AnswerMoves DEF Tokens!WritePart, Tokens!Throws
  <2>2. CASE Tokens!Goto(c, "link")
        BY <1>0, <1>8, <2>2, OneMoves DEF Tokens!WritePart, Tokens!At, PlacesTell
  <2> QED
      BY <1>8, <2>1, <2>2 DEF Tokens!WritePart
<1>9. ASSUME NEW c \in Callers, Tokens!LinkPart(c) PROVE PlacesTell'
  <2>1. CASE marker = NoMarker /\ marker' = Tokens!ClaimOf(c) /\ Tokens!Goto(c, "drop")
        BY <1>0, <1>9, <2>1, OneMoves DEF Tokens!LinkPart, Tokens!At, PlacesTell
  <2>2. CASE marker # NoMarker /\ Tokens!Goto(c, "judge") /\ UNCHANGED marker
        BY <1>0, <1>9, <2>2, OneMoves DEF Tokens!LinkPart, Tokens!At, PlacesTell
  <2>3. CASE Tokens!Throws(c) /\ UNCHANGED marker
        BY <1>9, <2>3, AnswerMoves DEF Tokens!LinkPart, Tokens!Throws
  <2> QED
      BY <1>9, <2>1, <2>2, <2>3 DEF Tokens!LinkPart
<1>10. ASSUME NEW c \in Callers, Tokens!DropPart(c) PROVE PlacesTell'
  <2>1. PICK end : Tokens!Answer(c, end)
        BY <1>10 DEF Tokens!DropPart, Tokens!Throws
  <2> QED
      BY <1>10, <2>1, AnswerMoves DEF Tokens!DropPart
<1>11. ASSUME NEW c \in Callers, Tokens!JudgeMarker(c) PROVE PlacesTell'
  <2>1. PICK end : Tokens!Answer(c, end)
        BY <1>11 DEF Tokens!JudgeMarker
  <2> QED
      BY <1>11, <2>1, AnswerMoves DEF Tokens!JudgeMarker
<1>12. ASSUME NEW c \in Callers, Tokens!Crash(c) PROVE PlacesTell'
      BY <1>12 DEF Tokens!Crash, PlacesTell, Tokens!ClaimOf
<1>13. CASE UNCHANGED Tokens!vars
      BY <1>13 DEF Tokens!vars, PlacesTell, Tokens!ClaimOf
<1> QED
    BY <1>1, <1>3, <1>4, <1>5, <1>6, <1>7, <1>8, <1>9, <1>10, <1>11, <1>12, <1>13 DEF
       Tokens!Next

\* An answer that is true when it is given, while markers stay where they are,
\* keeps all answers true.
LEMMA OneAnswers ==
    ASSUME Tokens!TypeOK, Tokens!AnswersAreTrue, NEW c \in Callers, NEW end \in Tokens!Ends, Tokens!Answer(c, end),
           UNCHANGED <<legacy, marker>>,
           call[c] = "consume" /\ end = "done" =>
               marker = [terminal |-> "consumed", by |-> c] /\ legacy = {},
           call[c] = "revoke" /\ end = "done" =>
               marker # NoMarker /\ marker.terminal = "revoked",
           end \in Tokens!Terminals => Tokens!Says(end)
    PROVE  Tokens!AnswersAreTrue'
<1>1. \A d \in Callers, what \in Tokens!Calls, e \in Tokens!Ends :
          <<what, e>> \in answers'[d] =>
              \/ <<what, e>> \in answers[d]
              \/ d = c /\ what = call[c] /\ e = end
      BY DEF Tokens!Answer, Tokens!TypeOK
<1>2. \A t \in Tokens!Terminals : Tokens!Says(t)' <=> Tokens!Says(t)
      BY DEF Tokens!Says
<1>3. {"consume", "revoke"} \subseteq Tokens!Calls /\ "done" \in Tokens!Ends /\ Tokens!Terminals \subseteq Tokens!Ends
      BY DEF Tokens!Calls, Tokens!Ends, Tokens!Terminals
<1>4. ASSUME NEW d \in Callers, <<"consume", "done">> \in answers'[d]
      PROVE  marker = [terminal |-> "consumed", by |-> d] /\ legacy = {}
      BY <1>1, <1>3, <1>4 DEF Tokens!AnswersAreTrue
<1>5. ASSUME NEW d \in Callers, <<"revoke", "done">> \in answers'[d]
      PROVE  marker # NoMarker /\ marker.terminal = "revoked"
      BY <1>1, <1>3, <1>5 DEF Tokens!AnswersAreTrue
<1>6. ASSUME NEW d \in Callers, NEW what \in Tokens!Calls, NEW t \in Tokens!Terminals,
             <<what, t>> \in answers'[d]
      PROVE  Tokens!Says(t)
      BY <1>1, <1>3, <1>6 DEF Tokens!AnswersAreTrue
<1> QED
    BY <1>2, <1>4, <1>5, <1>6 DEF Tokens!AnswersAreTrue

\* Answers stay true in a step that gives none and takes no marker away.
LEMMA NobodyAnswers ==
    ASSUME Tokens!AnswersAreTrue, UNCHANGED <<answers, legacy>>,
           marker # NoMarker => marker' = marker,
           ~(marker # NoMarker) => \A c \in Callers : <<"consume", "done">> \notin answers[c]
    PROVE  Tokens!AnswersAreTrue'
<1>1. \A t \in Tokens!Terminals : Tokens!Says(t) => Tokens!Says(t)'
      BY DEF Tokens!Says
<1> QED
    BY <1>1 DEF Tokens!AnswersAreTrue

\* Every step keeps the answers true.
LEMMA AnswersStep ==
    ASSUME Tokens!Parameters
    PROVE  TokenInv /\ [Tokens!Next]_Tokens!vars => Tokens!AnswersAreTrue'
<1> SUFFICES ASSUME Tokens!TypeOK, PlacesTell, Tokens!AnswersAreTrue, [Tokens!Next]_Tokens!vars
             PROVE  Tokens!AnswersAreTrue'
    BY DEF TokenInv
<1> USE DEF Tokens!Store, Tokens!Rest
<1>0. ~(marker # NoMarker) => \A c \in Callers : <<"consume", "done">> \notin answers[c]
  <2> SUFFICES ASSUME NEW c \in Callers, <<"consume", "done">> \in answers[c]
               PROVE  marker # NoMarker
      OBVIOUS
  <2>1. marker = [terminal |-> "consumed", by |-> c]
        BY DEF Tokens!AnswersAreTrue
  <2>2. [terminal |-> "consumed", by |-> c] \in Tokens!Markers
        BY DEF Tokens!Markers, Tokens!Terminals
  <2> QED
      BY <2>1, <2>2 DEF Tokens!Parameters
<1>1. CASE UNCHANGED <<answers, legacy, marker>>
      BY <1>0, <1>1, NobodyAnswers
<1>2. ASSUME NEW c \in Callers, Tokens!Throws(c), UNCHANGED <<legacy, marker>>
      PROVE  Tokens!AnswersAreTrue'
      BY <1>2, OneAnswers DEF Tokens!Throws, Tokens!Ends, Tokens!Terminals
<1>3. ASSUME NEW c \in Callers, Tokens!ReadTerminal(c) PROVE Tokens!AnswersAreTrue'
  <2>1. CASE Tokens!Unreadable /\ Tokens!Answer(c, "error")
        BY <1>3, <2>1, OneAnswers DEF Tokens!ReadTerminal, Tokens!Ends, Tokens!Terminals
  <2>2. CASE Tokens!Found # "none" /\ Tokens!Answer(c, Tokens!Found)
    <3>1. Tokens!Found \in Tokens!Ends /\ Tokens!Found # "done"
          BY <2>2, FoundFacts DEF Tokens!Ends, Tokens!Terminals
    <3> QED
        BY <1>3, <2>2, <3>1, FoundFacts, OneAnswers DEF Tokens!ReadTerminal
  <2>3. CASE Tokens!Answer(c, "expired")
        BY <1>3, <2>3, OneAnswers DEF Tokens!ReadTerminal, Tokens!Ends, Tokens!Terminals
  <2>4. CASE call[c] = "check" /\ Tokens!Answer(c, "done")
        BY <1>3, <2>4, OneAnswers DEF Tokens!ReadTerminal, Tokens!Ends, Tokens!Terminals
  <2>5. CASE UNCHANGED answers
        BY <1>1, <1>3, <2>5 DEF Tokens!ReadTerminal
  <2> QED
      BY <1>3, <2>1, <2>2, <2>3, <2>4, <2>5 DEF Tokens!ReadTerminal
<1>4. ASSUME NEW c \in Callers, Tokens!WritePart(c) PROVE Tokens!AnswersAreTrue'
      BY <1>1, <1>2, <1>4 DEF Tokens!WritePart
<1>5. ASSUME NEW c \in Callers, Tokens!LinkPart(c) PROVE Tokens!AnswersAreTrue'
  <2>1. CASE marker = NoMarker /\ marker' = Tokens!ClaimOf(c) /\ UNCHANGED answers
        BY <1>0, <1>5, <2>1, NobodyAnswers DEF Tokens!LinkPart
  <2>2. CASE UNCHANGED <<marker, answers>>
        BY <1>1, <1>5, <2>2 DEF Tokens!LinkPart
  <2>3. CASE Tokens!Throws(c) /\ UNCHANGED marker
        BY <1>2, <1>5, <2>3 DEF Tokens!LinkPart
  <2> QED
      BY <1>5, <2>1, <2>2, <2>3 DEF Tokens!LinkPart
<1>6. ASSUME NEW c \in Callers, Tokens!DropPart(c) PROVE Tokens!AnswersAreTrue'
  <2>1. CASE Tokens!Throws(c)
        BY <1>2, <1>6, <2>1 DEF Tokens!DropPart
  <2>2. CASE Tokens!Answer(c, "done")
    <3>1. /\ call[c] \in {"consume", "revoke"}
          /\ call[c] = "consume" => legacy = {}
          /\ marker = Tokens!ClaimOf(c)
          BY <1>6 DEF Tokens!DropPart, Tokens!At, PlacesTell, Claiming
    <3>2. "done" \in Tokens!Ends /\ "done" \notin Tokens!Terminals
          BY DEF Tokens!Ends, Tokens!Terminals
    <3> QED
        BY <1>6, <2>2, <3>1, <3>2, ClaimFacts, OneAnswers DEF Tokens!DropPart
  <2> QED
      BY <1>6, <2>1, <2>2 DEF Tokens!DropPart
<1>7. ASSUME NEW c \in Callers, Tokens!JudgeMarker(c) PROVE Tokens!AnswersAreTrue'
  <2>1. marker # NoMarker /\ marker.terminal \in Tokens!Terminals /\ Tokens!Says(marker.terminal)
        BY <1>7, MarkerFacts DEF Tokens!JudgeMarker, Tokens!At, PlacesTell, Tokens!Says
  <2>2. CASE Tokens!Answer(c, "error")
        BY <1>7, <2>2, OneAnswers DEF Tokens!JudgeMarker, Tokens!Ends, Tokens!Terminals
  <2>3. CASE call[c] = "revoke" /\ marker.terminal = "revoked" /\ Tokens!Answer(c, "done")
        BY <1>7, <2>1, <2>3, OneAnswers DEF Tokens!JudgeMarker, Tokens!Ends,
           Tokens!Terminals
  <2>4. CASE Tokens!Answer(c, marker.terminal)
    <3>1. marker.terminal \in Tokens!Ends /\ marker.terminal # "done"
          BY <2>1 DEF Tokens!Ends, Tokens!Terminals
    <3> QED
        BY <1>7, <2>1, <2>4, <3>1, OneAnswers DEF Tokens!JudgeMarker
  <2> QED
      BY <1>7, <2>2, <2>3, <2>4 DEF Tokens!JudgeMarker
<1>8. CASE Tokens!Register \/ Tokens!Restore \/ Tokens!Expire
      BY <1>1, <1>8 DEF Tokens!Register, Tokens!Restore, Tokens!Enter, Tokens!Expire
<1>9. ASSUME NEW c \in Callers, Tokens!Request(c) \/ Tokens!ReadEntry(c) \/ Tokens!Crash(c)
      PROVE  Tokens!AnswersAreTrue'
      BY <1>1, <1>9 DEF Tokens!Request, Tokens!Enter, Tokens!ReadEntry, Tokens!Crash
<1>10. CASE UNCHANGED Tokens!vars
      BY <1>1, <1>10 DEF Tokens!vars
<1> QED
    BY <1>3, <1>4, <1>5, <1>6, <1>7, <1>8, <1>9, <1>10 DEF Tokens!Next

\* The three parts are invariant together.
LEMMA TokenInvariance == ASSUME Tokens!Parameters PROVE Tokens!Spec => []TokenInv
<1>1. Tokens!Init => TokenInv
      BY TokenInit
<1>2. TokenInv /\ [Tokens!Next]_Tokens!vars => TokenInv'
      BY TokenTypeStep, PlacesStep, AnswersStep DEF TokenInv
<1> QED
    BY <1>1, <1>2, PTL DEF Tokens!Spec

\* The files of a token and the places of its callers keep their types.
THEOREM TokenTypeCorrect ==
    ASSUME Tokens!Parameters
    PROVE  Tokens!Spec => []Tokens!TypeOK
<1>1. TokenInv => Tokens!TypeOK
      BY DEF TokenInv
<1> QED
    BY <1>1, TokenInvariance, PTL

\* A token ends once: whoever was told that it consumed the token is the one that
\* did, and nobody is told of an end that the token does not have, for any number
\* of processes, kills and failing calls.
THEOREM TokenEndsOnce ==
    ASSUME Tokens!Parameters
    PROVE  Tokens!Spec => []Tokens!AnswersAreTrue
<1>1. TokenInv => Tokens!AnswersAreTrue
      BY DEF TokenInv
<1> QED
    BY <1>1, TokenInvariance, PTL

----------------------------------------------------------------------------
(***************************************************************************)
(* The state files.                                                        *)
(***************************************************************************)

\* A good file is the last write, a missing one was never written, and the copy
\* beside it, if it can be read, is one of the last two.  Once the copy of a write
\* is made it is the last write, which the replacement is about to make the one
\* before.
FilesHoldWrites ==
    /\ primary.kind = "good" => primary.content = last
    /\ primary.kind = "missing" =>
           primary.content = Files!Empty /\ last = Files!Empty /\ lastGood.kind = "missing"
    /\ lastGood.kind = "good" => lastGood.content \in {last, before}
    /\ write # NoWrite /\ write.step = "replace" /\ lastGood.kind = "good" =>
           lastGood.content = last

\* While nothing was damaged the file can be read, and a write in progress keeps
\* what it has.
UndamagedIsKept ==
    damages = 0 =>
        /\ primary.kind \in {"missing", "good"}
        /\ write # NoWrite => Files!Keeps(primary.content, write.content)

FileInv == Files!TypeOK /\ FilesHoldWrites /\ UndamagedIsKept

\* The initial states satisfy the inductive invariant.
LEMMA FileInit == ASSUME Files!Parameters PROVE Files!Init => FileInv
<1> SUFFICES ASSUME Files!Init PROVE FileInv
    OBVIOUS
<1>1. Files!Empty \in Files!Contents
      BY DEF Files!Empty, Files!Contents, Files!Phases
<1>2. Files!TypeOK
  <2>1. Files!File("missing") \in Files!FileSet
        BY <1>1 DEF Files!File, Files!FileSet, Files!Kinds
  <2>2. 0 \in 0 .. MaxDamages /\ 0 \in 0 .. MaxTrouble
        BY DEF Files!Parameters
  <2> QED
      BY <1>1, <2>1, <2>2 DEF Files!Init, Files!TypeOK
<1>3. FilesHoldWrites /\ UndamagedIsKept
      BY DEF Files!Init, FilesHoldWrites, UndamagedIsKept, Files!File
<1> QED
    BY <1>2, <1>3 DEF FileInv

\* A write in progress is a write, and not the mark that there is none.
LEMMA WriteFacts ==
    ASSUME Files!Parameters, Files!TypeOK, write # NoWrite
    PROVE  /\ write \in Files!Writes /\ write.content \in Files!Contents
           /\ write.step \in {"keep", "replace"}
           /\ [write EXCEPT !.step = "replace"] =
                  [step |-> "replace", content |-> write.content]
           /\ [step |-> "replace", content |-> write.content] \in Files!Writes
  BY DEF Files!TypeOK, Files!Writes

\* The content of a write makes a good file.
LEMMA GoodFacts ==
    ASSUME NEW c \in Files!Contents
    PROVE  Files!Good(c) \in Files!FileSet /\ Files!Good(c).kind = "good" /\ Files!Good(c).content = c
  BY DEF Files!Good, Files!FileSet, Files!Kinds

\* Replacing the file by a new content keeps the files what they are.
LEMMA ReplacedKeeps ==
    ASSUME Files!TypeOK, FilesHoldWrites, NEW c \in Files!Contents, Files!Replaced(c),
           UNCHANGED lastGood, lastGood.kind = "good" => lastGood.content \in {last, c},
           write' = NoWrite
    PROVE  /\ primary' \in Files!FileSet /\ last' \in Files!Contents /\ before' \in Files!Contents
           /\ primary'.kind = "good" /\ primary'.content = c
           /\ FilesHoldWrites'
<1>1. primary' = Files!Good(c) /\ last' = c /\ before' = last
      BY DEF Files!Replaced
<1>2. primary' \in Files!FileSet /\ primary'.kind = "good" /\ primary'.content = c
      BY <1>1, GoodFacts
<1> QED
    BY <1>1, <1>2 DEF Files!TypeOK, FilesHoldWrites

\* Every step keeps the inductive invariant.
LEMMA FileStep ==
    ASSUME Files!Parameters
    PROVE  FileInv /\ [Files!Next]_Files!vars => FileInv'
<1> SUFFICES ASSUME Files!TypeOK, FilesHoldWrites, UndamagedIsKept, [Files!Next]_Files!vars
             PROVE  FileInv'
    BY DEF FileInv
<1>1. CASE Files!Read
  <2>1. Files!TypeOK'
        BY <1>1 DEF Files!Read, Files!TypeOK
  <2>2. FilesHoldWrites' /\ UndamagedIsKept'
        BY <1>1 DEF Files!Read, FilesHoldWrites, UndamagedIsKept, Files!Keeps
  <2> QED
      BY <2>1, <2>2 DEF FileInv
<1>2. ASSUME NEW c \in Files!Contents, Files!Write(c) PROVE FileInv'
  <2>1. CASE ~Files!Readable
    <3>1. write' = NoWrite
          BY <1>2, <2>1 DEF Files!Write
    <3>2. Files!TypeOK'
          BY <1>2, <3>1 DEF Files!Write, Files!TypeOK
    <3>3. FilesHoldWrites' /\ UndamagedIsKept'
          BY <1>2, <3>1 DEF Files!Write, FilesHoldWrites, UndamagedIsKept
    <3> QED
        BY <3>2, <3>3 DEF FileInv
  <2>2. CASE Files!Readable
    <3> DEFINE step == IF primary.kind = "missing" THEN "replace" ELSE "keep"
    <3>1. write' = [step |-> step, content |-> c] /\ guard' \in BOOLEAN
          BY <1>2, <2>2 DEF Files!Write
    <3>2. write' \in Files!Writes /\ write'.step = step /\ write'.content = c
          BY <3>1 DEF Files!Writes
    <3>3. Files!TypeOK'
          BY <1>2, <3>1, <3>2 DEF Files!Write, Files!TypeOK
    <3>4. FilesHoldWrites'
          BY <1>2, <3>2 DEF Files!Write, FilesHoldWrites
    <3>5. UndamagedIsKept'
          BY <1>2, <3>2 DEF Files!Write, UndamagedIsKept, Files!Served, Files!Recovers,
             Files!Keeps
    <3> QED
        BY <3>3, <3>4, <3>5 DEF FileInv
  <2> QED
      BY <2>1, <2>2
<1>3. CASE Files!KeepLastGood
  <2>1. CASE primary.kind = "torn"
    <3>1. UNCHANGED <<primary, lastGood, guard, last, before, damages, trouble>> /\ write' = NoWrite
          BY <1>3, <2>1 DEF Files!KeepLastGood
    <3> QED
        BY <3>1 DEF FileInv, Files!TypeOK, FilesHoldWrites, UndamagedIsKept
  <2>2. CASE primary.kind # "torn"
    <3>1. /\ UNCHANGED <<primary, guard, last, before, damages, trouble>>
          /\ lastGood' = primary
          /\ write' = [step |-> "replace", content |-> write.content]
          BY <1>3, <2>2, WriteFacts DEF Files!KeepLastGood
    <3>2. write' \in Files!Writes /\ write'.content = write.content /\ write # NoWrite
          BY <1>3, <3>1, WriteFacts DEF Files!KeepLastGood
    <3>3. Files!TypeOK'
          BY <3>1, <3>2 DEF Files!TypeOK
    <3>4. FilesHoldWrites'
          BY <3>1 DEF FilesHoldWrites
    <3>5. UndamagedIsKept'
          BY <3>1, <3>2 DEF UndamagedIsKept, Files!Keeps
    <3> QED
        BY <3>3, <3>4, <3>5 DEF FileInv
  <2> QED
      BY <2>1, <2>2
<1>4. CASE Files!ReplacePrimary
  <2>1. write.content \in Files!Contents /\ lastGood.kind = "good" => lastGood.content \in {last, write.content}
        BY <1>4, WriteFacts DEF Files!ReplacePrimary, FilesHoldWrites
  <2>2. /\ primary' \in Files!FileSet /\ last' \in Files!Contents /\ before' \in Files!Contents
        /\ primary'.kind = "good"
        /\ FilesHoldWrites'
        BY <1>4, <2>1, WriteFacts, ReplacedKeeps DEF Files!ReplacePrimary
  <2>3. Files!TypeOK'
        BY <1>4, <2>2 DEF Files!ReplacePrimary, Files!TypeOK
  <2>4. UndamagedIsKept'
        BY <1>4, <2>2 DEF Files!ReplacePrimary, UndamagedIsKept
  <2> QED
      BY <2>2, <2>3, <2>4 DEF FileInv
<1>5. CASE Files!WriteFails
  <2>0. /\ trouble' \in 0 .. MaxTrouble /\ write' = NoWrite
        /\ UNCHANGED <<guard, damages>>
        BY <1>5 DEF Files!WriteFails, Files!TypeOK, Files!Parameters
  <2>1. CASE UNCHANGED <<primary, lastGood, last, before>>
        BY <2>0, <2>1 DEF FileInv, Files!TypeOK, FilesHoldWrites, UndamagedIsKept
  <2>2. CASE lastGood' = primary /\ UNCHANGED <<primary, last, before>>
        BY <2>0, <2>2 DEF FileInv, Files!TypeOK, FilesHoldWrites, UndamagedIsKept
  <2>3. CASE write.step = "replace" /\ Files!Replaced(write.content) /\ UNCHANGED lastGood
    <3>1. write # NoWrite /\ write.content \in Files!Contents
          BY <1>5, WriteFacts DEF Files!WriteFails
    <3>2. /\ primary' \in Files!FileSet /\ last' \in Files!Contents /\ before' \in Files!Contents
          /\ primary'.kind = "good"
          /\ FilesHoldWrites'
          BY <2>0, <2>3, <3>1, ReplacedKeeps DEF FilesHoldWrites
    <3> QED
        BY <2>0, <2>3, <3>2 DEF FileInv, Files!TypeOK, UndamagedIsKept
  <2> QED
      BY <1>5, <2>1, <2>2, <2>3 DEF Files!WriteFails
<1>6. CASE Files!Restart
  <2>1. trouble' \in 0 .. MaxTrouble
        BY <1>6 DEF Files!Restart, Files!TypeOK, Files!Parameters
  <2> QED
      BY <1>6, <2>1 DEF Files!Restart, FileInv, Files!TypeOK, FilesHoldWrites,
         UndamagedIsKept
<1>7. CASE Files!Damage
  <2>1. PICK kind \in {"shape", "meaning", "torn"} : primary' = Files!File(kind)
        BY <1>7 DEF Files!Damage
  <2>2. primary' \in Files!FileSet /\ primary'.kind = kind
        BY <2>1 DEF Files!File, Files!FileSet, Files!Kinds, Files!Empty, Files!Contents,
           Files!Phases
  <2>3. damages' \in 0 .. MaxDamages /\ damages' # 0
        BY <1>7 DEF Files!Damage, Files!TypeOK, Files!Parameters
  <2> QED
      BY <1>7, <2>2, <2>3 DEF Files!Damage, FileInv, Files!TypeOK, FilesHoldWrites,
         UndamagedIsKept
<1>8. CASE Files!Repair
  <2>1. lastGood.content \in Files!Contents
        BY DEF Files!TypeOK, Files!FileSet
  <2>2. /\ primary' \in Files!FileSet /\ last' \in Files!Contents /\ before' \in Files!Contents
        /\ primary'.kind = "good"
        /\ FilesHoldWrites'
        BY <1>8, <2>1, ReplacedKeeps DEF Files!Repair
  <2> QED
      BY <1>8, <2>2 DEF Files!Repair, FileInv, Files!TypeOK, UndamagedIsKept
<1>9. CASE UNCHANGED Files!vars
      BY <1>9 DEF Files!vars, FileInv, Files!TypeOK, FilesHoldWrites, UndamagedIsKept,
         Files!Keeps
<1> QED
    BY <1>1, <1>2, <1>3, <1>4, <1>5, <1>6, <1>7, <1>8, <1>9 DEF Files!Next

\* The three parts are invariant together.
LEMMA FileInvariance == ASSUME Files!Parameters PROVE Files!Spec => []FileInv
<1>1. Files!Init => FileInv
      BY FileInit
<1>2. FileInv /\ [Files!Next]_Files!vars => FileInv'
      BY FileStep
<1> QED
    BY <1>1, <1>2, PTL DEF Files!Spec

\* A read is given what was written last or, while the file is damaged, what was
\* written before it, however many writes fail.
THEOREM ReadsAreStaleByOne ==
    ASSUME Files!Parameters
    PROVE  Files!Spec => []Files!StaleByOneWrite
<1>1. FileInv => Files!StaleByOneWrite
  <2> SUFFICES ASSUME Files!TypeOK, FilesHoldWrites, Files!Readable
               PROVE  Files!Served = last \/ (Files!Recovers /\ Files!Served = before)
      BY DEF FileInv, Files!StaleByOneWrite
  <2>1. CASE Files!Recovers
        BY <2>1 DEF Files!Readable, Files!Served, Files!Recovers, FilesHoldWrites
  <2>2. CASE ~Files!Recovers
        BY <2>2 DEF Files!Readable, Files!Served, FilesHoldWrites
  <2> QED
      BY <2>1, <2>2
<1> QED
    BY <1>1, FileInvariance, PTL

\* Every content keeps itself.
LEMMA KeepsItself == \A c \in Files!Contents : Files!Keeps(c, c)
  BY DEF Files!Keeps

\* No step of the dashboard makes a state unreadable, drops an open record or opens
\* an ended one.
THEOREM StateSpared == ASSUME Files!Parameters PROVE Files!Spec => Files!StateIsSpared
<1>1. FileInv /\ [Files!Next]_Files!vars => [Files!WriteSparesState]_Files!vars
  <2> SUFFICES ASSUME Files!TypeOK, FilesHoldWrites, UndamagedIsKept, Files!Next
               PROVE  Files!WriteSparesState
      BY DEF FileInv
  <2>0. primary.content \in Files!Contents
        BY DEF Files!TypeOK, Files!FileSet
  <2>1. CASE UNCHANGED <<primary, lastGood>>
    <3>1. (Files!Readable' <=> Files!Readable) /\ Files!Served' = Files!Served
          BY <2>1 DEF Files!Readable, Files!Served, Files!Recovers
    <3>2. damages = 0 => Files!Served = primary.content
          BY DEF UndamagedIsKept, Files!Served, Files!Recovers
    <3>3. damages' = 0 => damages = 0
          BY DEF Files!Next, Files!Read, Files!Write, Files!KeepLastGood,
             Files!ReplacePrimary, Files!WriteFails, Files!Restart,
                 Files!Damage, Files!Repair, Files!TypeOK, Files!Parameters
    <3> QED
        BY <2>0, <3>1, <3>2, <3>3, KeepsItself DEF Files!WriteSparesState
  <2>2. CASE UNCHANGED <<primary, damages>> /\ primary.kind # "torn"
    <3>1. Files!Readable /\ primary.kind # "shape" => Files!Readable'
          BY <2>2 DEF Files!Readable, Files!Recovers
    <3>2. damages = 0 => Files!Served = primary.content /\ Files!Served' = primary.content
          BY <2>2 DEF UndamagedIsKept, Files!Served, Files!Recovers
    <3> QED
        BY <2>0, <2>2, <3>1, <3>2, KeepsItself DEF Files!WriteSparesState
  <2>3. ASSUME NEW c \in Files!Contents, Files!Replaced(c), UNCHANGED damages,
               damages = 0 => Files!Keeps(primary.content, c)
        PROVE  Files!WriteSparesState
    <3>1. primary'.kind = "good" /\ primary'.content = c
          BY <2>3, GoodFacts DEF Files!Replaced
    <3>2. Files!Readable' /\ Files!Served' = c
          BY <3>1 DEF Files!Readable, Files!Served, Files!Recovers
    <3>3. damages = 0 => Files!Served = primary.content
          BY DEF UndamagedIsKept, Files!Served, Files!Recovers
    <3> QED
        BY <2>3, <3>2, <3>3 DEF Files!WriteSparesState
  <2>4. CASE Files!Read \/ Files!Restart \/ \E c \in Files!Contents : Files!Write(c)
        BY <2>1, <2>4 DEF Files!Read, Files!Restart, Files!Write
  <2>5. CASE Files!KeepLastGood
        BY <2>1, <2>2, <2>5 DEF Files!KeepLastGood
  <2>6. CASE Files!ReplacePrimary
        BY <2>3, <2>6, WriteFacts DEF Files!ReplacePrimary, UndamagedIsKept
  <2>7. CASE Files!WriteFails
    <3>1. CASE UNCHANGED <<primary, lastGood>>
          BY <2>1, <3>1
    <3>2. CASE primary.kind # "torn" /\ UNCHANGED primary
          BY <2>2, <2>7, <3>2 DEF Files!WriteFails
    <3>3. CASE Files!Replaced(write.content)
          BY <2>3, <2>7, <3>3, WriteFacts DEF Files!WriteFails, UndamagedIsKept
    <3> QED
        BY <2>7, <3>1, <3>2, <3>3 DEF Files!WriteFails
  <2>8. CASE Files!Damage
    <3>1. damages' # damages /\ damages' # 0
          BY <2>8 DEF Files!Damage, Files!TypeOK, Files!Parameters
    <3> QED
        BY <3>1 DEF Files!WriteSparesState
  <2>9. CASE Files!Repair
    <3>1. lastGood.content \in Files!Contents /\ damages # 0
          BY <2>9 DEF Files!Repair, Files!TypeOK, Files!FileSet, UndamagedIsKept
    <3> QED
        BY <2>3, <2>9, <3>1 DEF Files!Repair
  <2> QED
      BY <2>4, <2>5, <2>6, <2>7, <2>8, <2>9 DEF Files!Next
<1> QED
    BY <1>1, FileInvariance, PTL DEF Files!Spec, Files!StateIsSpared

----------------------------------------------------------------------------
(***************************************************************************)
(* The properties of MCOps: each component takes the steps of its own      *)
(* specification in the behaviours that are its part.                      *)
(***************************************************************************)
Backups == INSTANCE CoordinatedRunProofs WITH
    Sessions <- Operators,
    lock <- runLock, alive <- runAlive, crashes <- runCrashes, faults <- runFaults,
    MaxCrashes <- MaxRunCrashes, MaxFaults <- MaxRunFaults

InRuns   == part = "runs"
InTokens == part = "tokens"
InFiles  == part = "files"

\* CoordinatedRunProofs speaks of the definitions of CoordinatedRun.
LEMMA RunsAreTheSame ==
    /\ Backups!Parameters <=> Runs!Parameters
    /\ Backups!Init <=> Runs!Init
    /\ Backups!Next <=> Runs!Next
    /\ Backups!vars = Runs!vars
  BY DEF Backups!Phases, Runs!Phases, Backups!Journals, Runs!Journals,
     Backups!Parameters, Runs!Parameters, Backups!Statuses, Runs!Statuses,
     Backups!machine, Runs!machine, Backups!tree, Runs!tree, Backups!history,
     Runs!history, Backups!bounds, Runs!bounds, Backups!vars, Runs!vars,
     Backups!Places, Runs!Places, Backups!Runs, Runs!Runs, Backups!Init,
     Runs!Init, Backups!At, Runs!At, Backups!Becomes, Runs!Becomes,
     Backups!Goto, Runs!Goto, Backups!Unfinished, Runs!Unfinished,
     Backups!InPhase, Runs!InPhase, Backups!Records, Runs!Records,
     Backups!Keeps, Runs!Keeps, Backups!Returning, Runs!Returning,
     Backups!Fault, Runs!Fault, Backups!FailedPhase, Runs!FailedPhase,
     Backups!Fails, Runs!Fails, Backups!ReadJournal, Runs!ReadJournal,
     Backups!Acquire, Runs!Acquire, Backups!Refused, Runs!Refused,
     Backups!AfterPrepare, Runs!AfterPrepare, Backups!CaptureWriters,
     Runs!CaptureWriters, Backups!Resume, Runs!Resume, Backups!PrepareFails,
     Runs!PrepareFails, Backups!RefuseJournal, Runs!RefuseJournal, Backups!Stop,
     Runs!Stop, Backups!StopFails, Runs!StopFails, Backups!Signal, Runs!Signal,
     Backups!StopInterrupted, Runs!StopInterrupted, Backups!Verify, Runs!Verify,
     Backups!Publish, Runs!Publish, Backups!PublishFails, Runs!PublishFails,
     Backups!Boundary, Runs!Boundary, Backups!OtherArchive, Runs!OtherArchive,
     Backups!StageRefuses, Runs!StageRefuses, Backups!StageReplays,
     Runs!StageReplays, Backups!StageRollsBack, Runs!StageRollsBack,
     Backups!StageStaysBroken, Runs!StageStaysBroken, Backups!StageBegins,
     Runs!StageBegins, Backups!MarkMutation, Runs!MarkMutation,
     Backups!StagingFails, Runs!StagingFails, Backups!SwapSome, Runs!SwapSome,
     Backups!SwapDone, Runs!SwapDone, Backups!SwapFails, Runs!SwapFails,
     Backups!RollbackFails, Runs!RollbackFails, Backups!RestoreStaged,
     Runs!RestoreStaged, Backups!Settled, Runs!Settled, Backups!SuppressRestart,
     Runs!SuppressRestart, Backups!Start, Runs!Start, Backups!StartFails,
     Runs!StartFails, Backups!Restarted, Runs!Restarted, Backups!Healthy,
     Runs!Healthy, Backups!Unhealthy, Runs!Unhealthy, Backups!Finish,
     Runs!Finish, Backups!Release, Runs!Release, Backups!Crash, Runs!Crash,
     Backups!StrayStart, Runs!StrayStart, Backups!Step, Runs!Step, Backups!Next,
     Runs!Next

LEMMA RunPropertiesAreTheSame ==
    /\ Backups!StoppedAreOnRecord <=> Runs!StoppedAreOnRecord
    /\ Backups!MixIsOnRecord <=> Runs!MixIsOnRecord
    /\ Backups!SuccessBringsAllBack <=> Runs!SuccessBringsAllBack
    /\ Backups!StartsOnMixedTree <=> Runs!StartsOnMixedTree
  BY DEF Backups!StoppedAreOnRecord, Runs!StoppedAreOnRecord, Backups!MixIsOnRecord,
     Runs!MixIsOnRecord, Backups!SuccessBringsAllBack, Runs!SuccessBringsAllBack,
     Backups!StartsOnMixedTree, Runs!StartsOnMixedTree,
     Backups!StartsOnPartialRestore, Runs!StartsOnPartialRestore

\* A behaviour stays in its part.
LEMMA PartsStay ==
    [MCNext]_allVars => /\ InRuns' <=> InRuns
                        /\ InTokens' <=> InTokens
                        /\ InFiles' <=> InFiles
  BY DEF MCNext, allVars, InRuns, InTokens, InFiles

LEMMA InRunsItRuns ==
    /\ MCInit /\ InRuns => Backups!Init
    /\ [MCNext]_allVars /\ InRuns => [Backups!Next]_Backups!vars
<1>1. MCInit /\ InRuns => Runs!Init
      BY DEF MCInit, InRuns
<1>2. MCNext /\ InRuns => Backups!Next
  <2>1. MCNext /\ InRuns => Runs!Next
        BY DEF MCNext, InRuns
  <2> QED
      BY <2>1, RunsAreTheSame
<1>3. UNCHANGED allVars => UNCHANGED Backups!vars
      BY DEF allVars, ofRuns, Backups!vars
<1>4. MCInit /\ InRuns => Backups!Init
      BY <1>1, RunsAreTheSame
<1> QED
    BY <1>2, <1>3, <1>4

LEMMA InTokensItRuns ==
    /\ MCInit /\ InTokens => Tokens!Init
    /\ [MCNext]_allVars /\ InTokens => [Tokens!Next]_Tokens!vars
<1>1. MCInit /\ InTokens => Tokens!Init
      BY DEF MCInit, InTokens
<1>2. MCNext /\ InTokens => Tokens!Next
      BY DEF MCNext, InTokens
<1>3. UNCHANGED allVars => UNCHANGED Tokens!vars
      BY DEF allVars, ofTokens, Tokens!vars
<1> QED
    BY <1>1, <1>2, <1>3

LEMMA InFilesItRuns ==
    /\ MCInit /\ InFiles => Files!Init
    /\ [MCNext]_allVars /\ InFiles => [Files!Next]_Files!vars
<1>1. MCInit /\ InFiles => Files!Init
      BY DEF MCInit, InFiles
<1>2. MCNext /\ InFiles => Files!Next
      BY DEF MCNext, InFiles
<1>3. UNCHANGED allVars => UNCHANGED Files!vars
      BY DEF allVars, ofFiles, Files!vars
<1> QED
    BY <1>1, <1>2, <1>3

LEMMA InTheLockItRuns ==
    /\ MCInit => Init
    /\ [MCNext]_allVars => [Next]_vars
<1>1. MCNext => [Next]_vars
      BY DEF MCNext
<1>2. UNCHANGED allVars => UNCHANGED vars
      BY DEF allVars, vars
<1> QED
    BY <1>1, <1>2 DEF MCInit

\* The lock of the composition: one holder until a lock is taken for stale, and
\* nothing left behind by a session that has ended by itself.
THEOREM LockKeepsItsWord == MCSpec => [](ExclusiveWithoutTakeover /\ NothingLeftBehind)
<1>1. MCSpec => Spec
      BY InTheLockItRuns, PTL DEF MCSpec, Spec
<1> QED
    BY <1>1, LockExclusive, LockLeavesNothing, PTL

\* What backups and restores have stopped and nobody has started is on record,
\* a mixed tree is never on record as verified, and a run that ends without an
\* error has brought back what was stopped.
THEOREM RecordsAreTrue == MCSpec => []RecordsTellTheTruth
<1>1. Backups!Parameters
      BY OpsAssumption, RunsAreTheSame
<1>2. Backups!Spec => [](/\ Runs!StoppedAreOnRecord /\ Runs!MixIsOnRecord
                         /\ Runs!SuccessBringsAllBack)
  <2>1. Backups!StoppedAreOnRecord /\ Backups!MixIsOnRecord /\ Backups!SuccessBringsAllBack
        => Runs!StoppedAreOnRecord /\ Runs!MixIsOnRecord /\ Runs!SuccessBringsAllBack
        BY RunPropertiesAreTheSame
  <2> QED
      BY <1>1, <2>1, Backups!StoppedStayOnRecord, Backups!MixStaysOnRecord,
         Backups!SuccessLeavesNoneDown, PTL
<1>3. (InRuns => Runs!StoppedAreOnRecord /\ Runs!MixIsOnRecord /\ Runs!SuccessBringsAllBack)
      => RecordsTellTheTruth
      BY DEF RecordsTellTheTruth, InRuns
<1> QED
    BY <1>2, <1>3, InRunsItRuns, PartsStay, PTL DEF MCSpec, Backups!Spec

\* A token ends once, and a state file is stale by one write at most.
THEOREM AnswersStayTrue == MCSpec => []AnswersAreTrue
<1>1. Tokens!Spec => []Tokens!AnswersAreTrue
      BY OpsAssumption, TokenEndsOnce
<1>2. Files!Spec => []Files!StaleByOneWrite
      BY OpsAssumption, ReadsAreStaleByOne
<1>3. (InTokens => Tokens!AnswersAreTrue) /\ (InFiles => Files!StaleByOneWrite)
      => AnswersAreTrue
      BY DEF AnswersAreTrue, InTokens, InFiles
<1> QED
    BY <1>1, <1>2, <1>3, InTokensItRuns, InFilesItRuns, PartsStay, PTL
       DEF MCSpec, Tokens!Spec, Files!Spec

\* No step starts a writer on a mixed tree it could know of, and no step makes a
\* state unreadable, drops an open record or opens an ended one.
THEOREM StepsSpare == MCSpec => StepsSpareTheTree
<1>1. Backups!Spec => [][~Runs!StartsOnMixedTree]_Backups!vars
  <2>1. [~Backups!StartsOnMixedTree]_Backups!vars => [~Runs!StartsOnMixedTree]_Backups!vars
        BY RunPropertiesAreTheSame
  <2>2. Backups!Parameters
        BY OpsAssumption, RunsAreTheSame
  <2> QED
      BY <2>1, <2>2, Backups!NoStartOnMixedTree, PTL DEF Backups!WritersWaitForTheTree
<1>2. Files!Spec => [][Files!WriteSparesState]_Files!vars
      BY OpsAssumption, StateSpared DEF Files!StateIsSpared
<1>3. ASSUME [MCNext]_allVars,
             InRuns => [~Runs!StartsOnMixedTree]_Backups!vars,
             InFiles => [Files!WriteSparesState]_Files!vars
      PROVE  [/\ part = "runs" => ~Runs!StartsOnMixedTree
              /\ part = "files" => Files!WriteSparesState]_allVars
  <2>1. CASE UNCHANGED allVars
        BY <2>1
  <2>2. CASE MCNext /\ ~UNCHANGED allVars
    <3>1. InRuns => ~UNCHANGED Backups!vars
          BY <2>2 DEF MCNext, InRuns, allVars, ofRuns, Backups!vars
    <3>2. InFiles => ~UNCHANGED Files!vars
          BY <2>2 DEF MCNext, InFiles, allVars, ofFiles, Files!vars
    <3> QED
        BY <1>3, <3>1, <3>2 DEF InRuns, InFiles
  <2> QED
      BY <1>3, <2>1, <2>2
<1> QED
    BY <1>1, <1>2, <1>3, InRunsItRuns, InFilesItRuns, PartsStay, PTL
       DEF MCSpec, Backups!Spec, Files!Spec, StepsSpareTheTree

=============================================================================
