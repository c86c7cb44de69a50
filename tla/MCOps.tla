-------------------------------- MODULE MCOps --------------------------------
(***************************************************************************)
(* What outlives a process, side by side: the operations lock, coordinated *)
(* runs, the tokens of restores and a state file of the dashboard.  A      *)
(* behaviour is one of `part`, fixed at the start, and leaves the          *)
(* variables of the others where they are.                                 *)
(***************************************************************************)
EXTENDS OperationLock, TLC

CONSTANTS Operators, Operations, Archives, Writers, Timers,
          Nobody, NoJournal, NoArchive,                   \* CoordinatedRun
          MaxRunCrashes, MaxRunFaults, MaxStrays,
          Callers, Issuer, NoMarker,                      \* AdmissionRegistry
          MaxCallCrashes, MaxCallFaults,
          Ids, NoWrite, MaxDamages, MaxTrouble            \* RuntimeStateFile

VARIABLES
    part,
    active, partial, staged, disk, runLock, run, runAlive, runCrashes, runFaults,
    strays, down, disturbed, blind,
    registered, legacy, marker, parts, expired, callAt, call, answers, callAlive,
    callCrashes, callFaults,
    primary, lastGood, guard, write, last, before, damages, trouble

Runs == INSTANCE CoordinatedRun WITH
    Sessions <- Operators,
    lock <- runLock, alive <- runAlive, crashes <- runCrashes, faults <- runFaults,
    MaxCrashes <- MaxRunCrashes, MaxFaults <- MaxRunFaults

Tokens == INSTANCE AdmissionRegistry WITH
    pc <- callAt, alive <- callAlive, crashes <- callCrashes, faults <- callFaults,
    MaxCrashes <- MaxCallCrashes, MaxFaults <- MaxCallFaults

Files == INSTANCE RuntimeStateFile

ASSUME OpsAssumption == Runs!Parameters /\ Tokens!Parameters /\ Files!Parameters

ofRuns == <<active, partial, staged, disk, runLock, run, runAlive, runCrashes,
            runFaults, strays, down, disturbed, blind>>
ofTokens == <<registered, legacy, marker, parts, expired, callAt, call, answers,
              callAlive, callCrashes, callFaults>>
ofFiles == <<primary, lastGood, guard, write, last, before, damages, trouble>>
allVars == <<part, vars, ofRuns, ofTokens, ofFiles>>

NoRuns ==
    /\ active = {} /\ partial = FALSE /\ staged = <<>> /\ disk = NoJournal
    /\ runLock = Nobody /\ run = <<>> /\ runAlive = {} /\ runCrashes = 0 /\ runFaults = 0
    /\ strays = 0 /\ down = {} /\ disturbed = FALSE /\ blind = FALSE

NoTokens ==
    /\ registered = "absent" /\ legacy = {} /\ marker = NoMarker /\ parts = {}
    /\ expired = FALSE /\ callAt = <<>> /\ call = <<>> /\ answers = <<>>
    /\ callAlive = {} /\ callCrashes = 0 /\ callFaults = 0

MCInit ==
    /\ Init /\ Files!Init
    /\ \/ part \in {"lock", "files"} /\ NoRuns /\ NoTokens
       \/ part = "runs" /\ Runs!Init /\ NoTokens
       \/ part = "tokens" /\ NoRuns /\ Tokens!Init

MCNext ==
    /\ UNCHANGED part
    /\ \/ part = "lock"   /\ Next        /\ UNCHANGED <<ofRuns, ofTokens, ofFiles>>
       \/ part = "runs"   /\ Runs!Next   /\ UNCHANGED <<vars, ofTokens, ofFiles>>
       \/ part = "tokens" /\ Tokens!Next /\ UNCHANGED <<vars, ofRuns, ofFiles>>
       \/ part = "files"  /\ Files!Next  /\ UNCHANGED <<vars, ofRuns, ofTokens>>

MCSpec == MCInit /\ [][MCNext]_allVars

\* Operators and archives differ in nothing but their names.
MCSymmetry == Permutations(Operators) \cup Permutations(Archives)

\* What was stopped and is still down is on record, the record of the staged restore
\* never calls a mixed tree verified, and a run that ends without an error has
\* brought back what was stopped.
RecordsTellTheTruth ==
    part = "runs" =>
        Runs!StoppedAreOnRecord /\ Runs!MixIsOnRecord /\ Runs!SuccessBringsAllBack

\* Whoever was told how a token ended was told the truth, whatever happened since;
\* a state file gives nothing older than what was written before the last write.
AnswersAreTrue ==
    /\ part = "tokens" => Tokens!AnswersAreTrue
    /\ part = "files" => Files!StaleByOneWrite

\* No run starts a writer on a mixed tree it could know of.  No write of the
\* dashboard makes a state unreadable, drops an open record or opens an ended one.
StepsSpareTheTree ==
    [][/\ part = "runs" => ~Runs!StartsOnMixedTree
       /\ part = "files" => Files!WriteSparesState]_allVars
=============================================================================
