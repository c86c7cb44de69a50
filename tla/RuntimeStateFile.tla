-------------------------- MODULE RuntimeStateFile --------------------------
(***************************************************************************)
(* One runtime state of the dashboard: a JSON file and its `.last-good'    *)
(* beside it.  lib/runtime-state-store.js decides what is read and what    *)
(* may be written, lib/json-store.js copies the file to `.last-good' and   *)
(* replaces it, lib/private-durable-io.js writes a file under another name *)
(* and renames it.                                                         *)
(*                                                                         *)
(* All of it is synchronous, so that only a kill, a failing call and what  *)
(* damages the file from outside (a disk, an editor, an older version) can *)
(* come between two renames.  The content is the records of a saga store.  *)
(***************************************************************************)
EXTENDS Naturals

CONSTANTS
    Ids,           \* records of the store
    NoWrite,       \* no write is in progress
    MaxDamages,    \* bound: damages from outside, and repairs of them
    MaxTrouble     \* bound: failing writes and kills

Phases   == {"none", "open", "done"}
Contents == [Ids -> Phases]
Empty    == [i \in Ids |-> "none"]

\* What a file can be to its reader: not there, valid, JSON of a wrong shape, of
\* a right shape with fields or meaning refused, no JSON.
Kinds == {"missing", "good", "shape", "meaning", "torn"}
File(kind) == [kind |-> kind, content |-> Empty]
Good(c)    == [kind |-> "good", content |-> c]
FileSet    == [kind : Kinds, content : Contents]

\* A write is between its two renames, or before the first.
Writes     == [step : {"keep", "replace"}, content : Contents]

\* What the constants must be.
Parameters == MaxDamages \in Nat /\ MaxTrouble \in Nat /\ NoWrite \notin Writes

VARIABLES
    primary, lastGood,
    guard,            \* writeGuards has the file
    write,            \* the write in progress
    last, before,     \* history: the content written last, and the one before it
    damages, trouble

vars == <<primary, lastGood, guard, write, last, before, damages, trouble>>

TypeOK ==
    /\ primary \in FileSet /\ lastGood \in FileSet
    /\ guard \in BOOLEAN
    /\ write \in Writes \cup {NoWrite}
    /\ last \in Contents /\ before \in Contents
    /\ damages \in 0 .. MaxDamages /\ trouble \in 0 .. MaxTrouble

Init ==
    /\ primary = File("missing") /\ lastGood = File("missing")
    /\ guard = FALSE /\ write = NoWrite
    /\ last = Empty /\ before = Empty
    /\ damages = 0 /\ trouble = 0

----------------------------------------------------------------------------
\* readRuntimeState: a missing file is the default; one that cannot be parsed or
\* migrated is recovered from `.last-good'; one whose meaning is refused is not.
Recovers == primary.kind \in {"torn", "shape"}
Readable == primary.kind \in {"missing", "good"} \/ (Recovers /\ lastGood.kind = "good")
Served   == IF Recovers THEN lastGood.content ELSE primary.content

\* assertOwnershipNotWeakened: only a terminal record goes, and it stays terminal.
Keeps(old, new) ==
    \A i \in Ids : /\ old[i] = "open" => new[i] # "none"
                   /\ old[i] = "done" => new[i] # "open"

Replaced(c) ==
    /\ primary' = Good(c)
    /\ last' = c /\ before' = last

Read ==
    /\ write = NoWrite
    /\ guard' = ~Readable
    /\ UNCHANGED <<primary, lastGood, write, last, before, damages, trouble>>

\* Mutant: writes without reading what is there.
WriteUnread(c) ==
    /\ write = NoWrite /\ ~guard
    /\ write' = [step |-> IF primary.kind = "missing" THEN "replace" ELSE "keep", content |-> c]
    /\ UNCHANGED <<primary, lastGood, guard, last, before, damages, trouble>>

\* writeRuntimeState up to its first write: the guard, then the file as it is,
\* whose records the new ones must keep.
Write(c) ==
    /\ write = NoWrite /\ ~guard /\ Keeps(Served, c)
    /\ guard' = ~Readable
    /\ write' = IF ~Readable THEN NoWrite
                ELSE [step |-> IF primary.kind = "missing" THEN "replace" ELSE "keep", content |-> c]
    /\ UNCHANGED <<primary, lastGood, last, before, damages, trouble>>

\* Mutant: the copy is made of whatever bytes are there.
KeepUnparsed ==
    /\ write # NoWrite /\ write.step = "keep"
    /\ lastGood' = primary
    /\ write' = [write EXCEPT !.step = "replace"]
    /\ UNCHANGED <<primary, guard, last, before, damages, trouble>>

\* writeJsonFile copies the file to `.last-good' if it can be parsed, whatever its
\* shape, and refuses to replace one that cannot.
KeepLastGood ==
    /\ write # NoWrite /\ write.step = "keep"
    /\ \/ /\ primary.kind = "torn"
          /\ write' = NoWrite /\ UNCHANGED lastGood
       \/ /\ primary.kind # "torn"
          /\ lastGood' = primary
          /\ write' = [write EXCEPT !.step = "replace"]
    /\ UNCHANGED <<primary, guard, last, before, damages, trouble>>

ReplacePrimary ==
    /\ write # NoWrite /\ write.step = "replace"
    /\ Replaced(write.content)
    /\ write' = NoWrite /\ guard' = FALSE
    /\ UNCHANGED <<lastGood, damages, trouble>>

\* A write throws before its rename, or after it (writePrivateFileAtomic).
WriteFails ==
    /\ write # NoWrite /\ trouble < MaxTrouble
    /\ trouble' = trouble + 1
    /\ write' = NoWrite
    /\ \/ UNCHANGED <<primary, lastGood, last, before>>
       \/ /\ write.step = "keep" /\ primary.kind # "torn"
          /\ lastGood' = primary /\ UNCHANGED <<primary, last, before>>
       \/ /\ write.step = "replace"
          /\ Replaced(write.content) /\ UNCHANGED lastGood
    /\ UNCHANGED <<guard, damages>>

\* The process is killed and started again: writeGuards is in its memory.
Restart ==
    /\ trouble < MaxTrouble /\ trouble' = trouble + 1
    /\ write' = NoWrite /\ guard' = FALSE
    /\ UNCHANGED <<primary, lastGood, last, before, damages>>

Damage ==
    /\ write = NoWrite /\ damages < MaxDamages
    /\ damages' = damages + 1
    /\ \E kind \in {"shape", "meaning", "torn"} : primary' = File(kind)
    /\ UNCHANGED <<lastGood, guard, write, last, before, trouble>>

\* An operator puts `.last-good' in the place of a damaged file.
Repair ==
    /\ write = NoWrite /\ primary.kind \notin {"missing", "good"} /\ lastGood.kind = "good"
    /\ Replaced(lastGood.content)
    /\ UNCHANGED <<lastGood, guard, write, damages, trouble>>

Next ==
    \/ Read \/ KeepLastGood \/ ReplacePrimary \/ WriteFails \/ Restart \/ Damage \/ Repair
    \/ \E c \in Contents : Write(c)

Spec == Init /\ [][Next]_vars

----------------------------------------------------------------------------
(***************************************************************************)
(* Properties.                                                             *)
(***************************************************************************)
\* What a read is given is what was written last or, while the file is damaged,
\* what was written before it: however writes fail, nothing older comes back.
StaleByOneWrite ==
    Readable => Served = last \/ (Recovers /\ Served = before)

\* No step of the dashboard makes a state unreadable that could be read, unless it
\* was recovering from a file of a wrong shape.  While nothing is damaged from
\* outside, a record that is open is not dropped, and one that has ended is not
\* opened again.
WriteSparesState ==
    /\ Readable /\ primary.kind # "shape" /\ damages' = damages => Readable'
    /\ damages' = 0 => Keeps(Served, Served')

StateIsSpared == [][WriteSparesState]_vars
=============================================================================
