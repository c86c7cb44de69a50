------------------------- MODULE AdmissionRegistry -------------------------
(***************************************************************************)
(* ops/lib/coordinated-admission-registry.js: the files that make the      *)
(* token of a live restore single-use.  A token is registered once and     *)
(* ends in one terminal marker, consumed or revoked, which is published by *)
(* link(2) of a file written under another name.  Tokens do not share      *)
(* files: one is followed.                                                 *)
(*                                                                         *)
(* The restore that issues the token consumes it when it is done, or       *)
(* revokes it when it fails (staged-restore.js).  Any other process that   *)
(* holds the token may check, consume or revoke it.  Every file-system     *)
(* call is a step: the callers are operating-system processes.             *)
(***************************************************************************)
EXTENDS Naturals, FiniteSets

CONSTANTS
    Callers,       \* processes
    Issuer,        \* the restore that issues the token
    NoMarker,      \* terminal/<nonce>.json does not exist
    MaxCrashes,    \* bound: callers that are killed
    MaxFaults      \* bound: file-system calls that fail

Terminals == {"consumed", "revoked"}
Calls     == {"consume", "revoke", "check"}
Ends      == {"done", "consumed", "revoked", "expired", "error"}
Markers   == [terminal : Terminals, by : Callers]

\* What the constants must be.
Parameters ==
    /\ Issuer \in Callers
    /\ NoMarker \notin Markers
    /\ MaxCrashes \in Nat /\ MaxFaults \in Nat

VARIABLES
    registered,    \* registered/<nonce>.json: "absent", "partial" or "whole"
    legacy,        \* the markers an older version left: consumed/, revoked/
    marker,        \* terminal/<nonce>.json, and who linked it
    parts,         \* callers whose .part file exists
    expired,       \* the time of the token is over
    pc, call,      \* where each caller is, and in which call
    answers,       \* history: the calls that have ended, and how
    alive, crashes, faults

vars == <<registered, legacy, marker, parts, expired, pc, call, answers,
          alive, crashes, faults>>

Places == {"start", "register", "working", "failed", "entry", "terminal", "part",
           "link", "drop", "judge", "over"}

TypeOK ==
    /\ registered \in {"absent", "partial", "whole"}
    /\ legacy \subseteq Terminals
    /\ marker \in Markers \cup {NoMarker}
    /\ parts \subseteq Callers
    /\ expired \in BOOLEAN
    /\ pc \in [Callers -> Places]
    /\ call \in [Callers -> Calls]
    /\ answers \in [Callers -> SUBSET (Calls \X Ends)]
    /\ alive \subseteq Callers
    /\ crashes \in 0 .. MaxCrashes /\ faults \in 0 .. MaxFaults

\* A token nobody has issued yet, or one of an older version, which kept the two
\* ends in files of their own and could leave both.
Init ==
    /\ \/ registered = "absent" /\ legacy = {} /\ alive = Callers
       \/ registered = "whole" /\ legacy \in SUBSET Terminals /\ alive = Callers \ {Issuer}
    /\ marker = NoMarker /\ parts = {} /\ expired = FALSE
    /\ pc = [c \in Callers |-> "start"]
    /\ call = [c \in Callers |-> "check"]
    /\ answers = [c \in Callers |-> {}]
    /\ crashes = 0 /\ faults = 0

----------------------------------------------------------------------------
At(c, place) == c \in alive /\ pc[c] = place
Goto(c, place) == pc' = [pc EXCEPT ![c] = place]

Store == <<registered, legacy, marker, parts>>
Rest  == <<expired, alive, crashes>>

\* A call of c ends.  The restore that cannot consume its token fails.
Answer(c, end) ==
    /\ answers' = [answers EXCEPT ![c] = @ \cup {<<call[c], end>>}]
    /\ Goto(c, IF c = Issuer /\ call[c] = "consume" /\ end # "done" THEN "failed" ELSE "over")

\* A file-system call throws, and the call of the registry with it.
Throws(c) ==
    /\ faults < MaxFaults /\ faults' = faults + 1
    /\ Answer(c, "error")

Enter(c, what) ==
    /\ call' = [call EXCEPT ![c] = what]
    /\ Goto(c, "entry")
    /\ UNCHANGED <<Store, answers, faults, Rest>>

\* registerAdmission: openSync(.., 'wx') and the write.  If the write fails or the
\* process is killed a file stays that cannot be parsed, and no token is issued.
Register ==
    /\ \/ /\ At(Issuer, "start") /\ registered = "absent"
          /\ registered' = "partial" /\ Goto(Issuer, "register")
          /\ UNCHANGED faults
       \/ /\ At(Issuer, "register")
          /\ \/ registered' = "whole" /\ Goto(Issuer, "working") /\ UNCHANGED faults
             \/ /\ faults < MaxFaults /\ faults' = faults + 1
                /\ Goto(Issuer, "over") /\ UNCHANGED registered
    /\ UNCHANGED <<legacy, marker, parts, call, answers, Rest>>

\* runStagedRestore consumes its token when the restore is complete, and revokes
\* it when the restore, or that, fails.
Restore ==
    \/ At(Issuer, "working") /\ Enter(Issuer, "consume")
    \/ (At(Issuer, "working") \/ At(Issuer, "failed")) /\ Enter(Issuer, "revoke")

\* Another process has the token, which is written to a file once it is
\* registered, and makes a call.
Request(c) ==
    /\ At(c, "start") /\ c # Issuer /\ registered = "whole"
    /\ \E what \in Calls : Enter(c, what)

\* readRegisteredEntry.  A revocation does not ask for a terminal marker first.
ReadEntry(c) ==
    /\ At(c, "entry")
    /\ Goto(c, IF call[c] = "revoke" THEN "part" ELSE "terminal")
    /\ UNCHANGED <<Store, call, answers, faults, Rest>>

\* assertRegistryFileStat refuses a file with a second link: the marker has one
\* as long as the file it was linked from is there.
Linked == marker # NoMarker /\ marker.by \in parts

\* readTerminalMarker: the unified marker counts before those of older versions.
Found ==
    IF marker # NoMarker THEN marker.terminal
    ELSE IF legacy = {} THEN "none" ELSE CHOOSE t \in legacy : TRUE

Unreadable == IF marker # NoMarker THEN Linked ELSE legacy = Terminals

\* assertAdmissionConsumable.
ReadTerminal(c) ==
    /\ At(c, "terminal")
    /\ \/ Unreadable /\ Answer(c, "error")
       \/ ~Unreadable /\ Found # "none" /\ Answer(c, Found)
       \/ ~Unreadable /\ Found = "none" /\ expired /\ Answer(c, "expired")
       \/ /\ ~Unreadable /\ Found = "none" /\ ~expired
          /\ \/ call[c] = "check" /\ Answer(c, "done")
             \/ call[c] = "consume" /\ Goto(c, "part") /\ UNCHANGED answers
    /\ UNCHANGED <<Store, call, faults, Rest>>

\* claimTerminal writes the marker under a name of its own.
WritePart(c) ==
    /\ At(c, "part")
    /\ \/ parts' = parts \cup {c} /\ Goto(c, "link") /\ UNCHANGED <<answers, faults>>
       \/ parts' \in {parts, parts \cup {c}} /\ Throws(c)
    /\ UNCHANGED <<registered, legacy, marker, call, Rest>>

ClaimOf(c) == [terminal |-> IF call[c] = "revoke" THEN "revoked" ELSE "consumed", by |-> c]

\* Mutant: renameSync, which replaces a marker that is there.
RenamePart(c) ==
    /\ At(c, "link")
    /\ marker' = ClaimOf(c) /\ Goto(c, "drop")
    /\ UNCHANGED <<registered, legacy, parts, call, answers, faults, Rest>>

\* linkSync decides; a caller that finds a marker removes its own file, if it can.
LinkPart(c) ==
    /\ At(c, "link")
    /\ \/ /\ marker = NoMarker
          /\ marker' = ClaimOf(c) /\ Goto(c, "drop")
          /\ UNCHANGED <<parts, answers, faults>>
       \/ /\ marker # NoMarker
          /\ \/ parts' = parts \ {c} /\ UNCHANGED faults
             \/ faults < MaxFaults /\ faults' = faults + 1 /\ UNCHANGED parts
          /\ Goto(c, "judge")
          /\ UNCHANGED <<marker, answers>>
       \/ /\ marker = NoMarker /\ parts' = parts \ {c}
          /\ Throws(c)
          /\ UNCHANGED marker
    /\ UNCHANGED <<registered, legacy, call, Rest>>

\* The winner removes the second link and syncs the directory.
DropPart(c) ==
    /\ At(c, "drop")
    /\ \/ parts' = parts \ {c} /\ Answer(c, "done") /\ UNCHANGED faults
       \/ parts' \in {parts, parts \ {c}} /\ Throws(c)
    /\ UNCHANGED <<registered, legacy, marker, call, Rest>>

\* The loser reads the winner's marker.  A second revocation is a success.
JudgeMarker(c) ==
    /\ At(c, "judge")
    /\ Answer(c, IF Linked THEN "error"
                 ELSE IF call[c] = "revoke" /\ marker.terminal = "revoked" THEN "done"
                 ELSE marker.terminal)
    /\ UNCHANGED <<Store, call, faults, Rest>>

Expire ==
    /\ registered = "whole" /\ ~expired
    /\ expired' = TRUE
    /\ UNCHANGED <<Store, pc, call, answers, alive, crashes, faults>>

Crash(c) ==
    /\ c \in alive /\ pc[c] \notin {"start", "over"} /\ crashes < MaxCrashes
    /\ alive' = alive \ {c} /\ crashes' = crashes + 1
    /\ UNCHANGED <<Store, expired, pc, call, answers, faults>>

Next ==
    \/ Register \/ Restore \/ Expire
    \/ \E c \in Callers :
           \/ Request(c) \/ ReadEntry(c) \/ ReadTerminal(c) \/ WritePart(c)
           \/ LinkPart(c) \/ DropPart(c) \/ JudgeMarker(c) \/ Crash(c)

Spec == Init /\ [][Next]_vars

----------------------------------------------------------------------------
(***************************************************************************)
(* Properties.                                                             *)
(***************************************************************************)
\* What the marker of a token, or that of an older version, says has happened.
Says(terminal) == (marker # NoMarker /\ marker.terminal = terminal) \/ terminal \in legacy

\* Every answer a caller was given stays true: who was told that it has consumed
\* the token is the one that did, who was told that it is revoked can rely on it.
\* So a token is used once and never used and revoked, through kills and failing
\* calls, whoever calls at the same time.
AnswersAreTrue ==
    \A c \in Callers :
        /\ <<"consume", "done">> \in answers[c] =>
               marker = [terminal |-> "consumed", by |-> c] /\ legacy = {}
        /\ <<"revoke", "done">> \in answers[c] => marker # NoMarker /\ marker.terminal = "revoked"
        /\ \A what \in Calls, t \in Terminals : <<what, t>> \in answers[c] => Says(t)
=============================================================================
