--------------------------- MODULE SplitwiseMirror ---------------------------
(***************************************************************************)
(* The mirror of shared expenses: what others paid on Splitwise, by the    *)
(* snapshot another program writes, becomes one row per expense (`source') *)
(* in an account of its own.  A record on disk is bound to a snapshot and  *)
(* carries the plan: create the account and the category, drop duplicates  *)
(* a person has reviewed, delete what the snapshot no longer has, create   *)
(* and update the rest.  The local rows stand still while a record is      *)
(* driven (the Actual lane); the snapshot may be replaced at any moment.   *)
(*                                                                         *)
(* A row belongs to a source by the tag in its notes, and, if the mirror   *)
(* has created it, by its imported id.  An amount stands for all a row and *)
(* a snapshot say of an expense.                                           *)
(***************************************************************************)
EXTENDS Naturals, Sequences, FiniteSets, SequencesExt

CONSTANTS
    Records,       \* records, numbered in the order they are asked for
    Sources,       \* expenses
    RowIds,        \* rows, numbered in the order they are created
    Amounts,       \* of an expense, besides 0: not in the snapshot
    Worlds,        \* what the mirror may find: rows, snapshot, account
    MaxTrouble,    \* bound: kills and failed calls
    MaxChanges,    \* bound: edits in Actual, deletions in the app, snapshots
    Nobody

VARIABLES
    row,     \* the rows of the account
    named,   \* the account, and the category, that bear the mirror's name
    review,  \* the reviewed duplicates of each source
    snap,    \* the snapshot
    del,     \* the phase of the deletion recorded for each row, and for what
    record,  \* the records
    drive,   \* the record being driven and the place reached in it
    budget   \* what is left of each bound
mvars == <<row, named, review, snap, del, record, drive, budget>>

----------------------------------------------------------------------------
NoRow == [src |-> Nobody, bound |-> FALSE, tagged |-> FALSE, amount |-> 0, here |-> FALSE]
NoDeletion == [phase |-> "none", was |-> NoRow, for |-> Nobody]
NoRecord == [phase |-> "none", keyed |-> FALSE, asked |-> 0, bound |-> 0,
             wants |-> [s \in Sources |-> 0], items |-> <<>>, cursor |-> 1,
             done |-> {}, recorded |-> {}, drifted |-> FALSE]
AtRest == [who |-> Nobody, at |-> "idle", n |-> 0]
Active == {"prepared", "plan_checkpoint", "items_pending", "sync_pending"}
Admitted == {"items_pending", "sync_pending"}

IsActive(b) == record[b].phase \in Active
ItemsOf(b) == record[b].items
DeletionRuns(r) == del[r].phase \in {"active", "sync_pending", "stuck"}

\* indexMirrorRowsBySourceId, importedIdMatches.
Tagged(s) == {r \in RowIds : row[r].here /\ row[r].src = s /\ row[r].tagged}
Imported(s) == {r \in RowIds : row[r].here /\ row[r].src = s /\ row[r].bound}
Matches(r, amount) == row[r].amount = amount /\ row[r].tagged
\* mirrorIdentityFingerprint: an imported id is enough; else all of the row.
SameIdentity(now, was) ==
    /\ now.src = was.src /\ now.bound = was.bound
    /\ now.bound \/ now = was

\* A review names the duplicates as they were seen, and the one to keep.
DropsOf(s) == DOMAIN review[s].saw \ {review[s].keep}
ReviewedAsIs(s) ==
    /\ Tagged(s) = DOMAIN review[s].saw
    /\ \A r \in Tagged(s) : row[r] = review[s].saw[r]
Ambiguous == \E s \in Sources : Cardinality(Tagged(s)) > 1 /\ ~ReviewedAsIs(s)
\* assertMirrorRowSourceIntegrity, snapshotBoundImportedTagMismatchSourceIds.
Sound == \A s \in Sources :
    /\ Cardinality(Imported(s)) <= 1
    /\ snap.wants[s] # 0 => Imported(s) \subseteq Tagged(s)
\* assertMirrorStructuralAdmission.
NamesAreClear == named["account"] \in {"none", "one"} /\ named["category"] \in {"none", "one"}

----------------------------------------------------------------------------
(* The plan, in the order of its stages.                                   *)
Item(type, s, r, amount) ==
    [type |-> type, src |-> s, row |-> r, amount |-> amount,
     was |-> IF r = Nobody THEN NoRow ELSE row[r]]
Each(S, ItemFor(_)) == LET q == SetToSeq(S) IN [i \in DOMAIN q |-> ItemFor(q[i])]
Keeper(s) ==
    IF Cardinality(Tagged(s)) = 1 THEN Tagged(s) ELSE Tagged(s) \cap {review[s].keep}
planSplitwiseMirror ==
    LET wanted == {s \in Sources : snap.wants[s] # 0}
        Drops == UNION {DropsOf(s) \cap Tagged(s) :
                          s \in {s \in Sources : Cardinality(Tagged(s)) > 1}}
        Unwanted == UNION {Tagged(s) \ DropsOf(s) : s \in Sources \ wanted}
        Missing == {s \in wanted : Keeper(s) = {}}
        Stale == {r \in UNION {Keeper(s) : s \in wanted} : ~Matches(r, snap.wants[row[r].src])}
    IN  <<Item("account", Nobody, Nobody, 0), Item("category", Nobody, Nobody, 0)>>
        \o Each(Drops, LAMBDA r : Item("drop", row[r].src, r, 0))
        \o Each(Unwanted, LAMBDA r : Item("delete", row[r].src, r, 0))
        \o Each(Missing, LAMBDA s : Item("create", s, Nobody, snap.wants[s]))
        \o Each(Stale, LAMBDA r : Item("update", row[r].src, r, snap.wants[row[r].src]))

At(b, at) == drive.who = b /\ drive.at = at
Go(at, i) == drive' = [drive EXCEPT !.at = at, !.n = i]
Rest == drive' = AtRest
Patch(b, changes) == record' = [record EXCEPT ![b] = changes @@ @]
Unresolved(b, i) == Patch(b, [phase |-> "unresolved", cursor |-> i]) /\ Rest
Proceed(b, i, at) == Patch(b, [cursor |-> i]) /\ Go(at, i)
Current == ItemsOf(drive.who)[drive.n]
Spend(what) ==
    /\ budget[what] > 0
    /\ budget' = [budget EXCEPT ![what] = @ - 1]
\* The records behind whose plan somebody else has changed something (kept for
\* the properties).
Drifted(who) == [b \in Records |->
    IF b # who /\ record[b].phase \in Active \ {"prepared"} THEN [record[b] EXCEPT !.drifted = TRUE] ELSE record[b]]

Init ==
    \E w \in Worlds :
        /\ row = w.rows /\ named = w.named
        /\ review = w.review
        /\ snap = [n |-> 1, valid |-> TRUE, wants |-> w.wants]
        /\ del = [r \in RowIds |-> NoDeletion]
        /\ record = [b \in Records |-> NoRecord]
        /\ drive = AtRest
        /\ budget = [trouble |-> MaxTrouble, changes |-> MaxChanges]

----------------------------------------------------------------------------
\* A new record: a keyed one always, one without a key when none of its kind is
\* open and none has completed for this snapshot (that one is replayed).
Unkeyed(phases) == {b \in Records : record[b].phase \in phases /\ ~record[b].keyed}
Preflight == snap.valid /\ NamesAreClear /\ ~Ambiguous /\ Sound
Run(b) ==
    /\ drive = AtRest /\ record[b].phase = "none"
    /\ \A c \in Records : c < b => record[c].phase # "none"
    /\ Preflight
    /\ \E keyed \in BOOLEAN :
        /\ \/ keyed
           \/ /\ Unkeyed(Active) = {}
              /\ \A c \in Unkeyed({"completed"}) : record[c].asked # snap.n
        /\ Patch(b, [phase |-> "prepared", keyed |-> keyed, asked |-> snap.n])
    /\ drive' = [who |-> b, at |-> "go", n |-> 0]
    /\ UNCHANGED <<row, named, review, snap, del, budget>>

\* A pass of recovery, or a further request, takes the record up.
Resume(b) ==
    /\ drive = AtRest /\ IsActive(b) /\ record[b].phase # "sync_pending"
    /\ drive' = [who |-> b, at |-> "go", n |-> 0]
    /\ UNCHANGED <<row, named, review, snap, del, record, budget>>

\* The plan binds the record to the snapshot as it is now.
CheckpointPlan(b) ==
    /\ At(b, "go") /\ record[b].phase = "prepared"
    /\ IF snap.valid /\ NamesAreClear /\ ~Ambiguous
       THEN /\ Patch(b, [phase |-> "plan_checkpoint", items |-> planSplitwiseMirror,
                         bound |-> snap.n, wants |-> snap.wants])
            /\ UNCHANGED drive
       ELSE Rest /\ UNCHANGED record
    /\ UNCHANGED <<row, named, review, snap, del, budget>>

\* assertPlanAdmission: any other record with a plan owns the account and the
\* category; the rows of the plan must not be under deletion.
AdmitPlan(b) ==
    /\ At(b, "go") /\ record[b].phase = "plan_checkpoint"
    /\ IF \/ \E c \in Records \ {b} : IsActive(c) /\ record[c].phase # "prepared"
          \/ \E i \in DOMAIN ItemsOf(b) :
               ItemsOf(b)[i].row # Nobody /\ DeletionRuns(ItemsOf(b)[i].row)
       THEN Rest /\ UNCHANGED record
       ELSE Patch(b, [phase |-> "items_pending"]) /\ UNCHANGED drive
    /\ UNCHANGED <<row, named, review, snap, del, budget>>

----------------------------------------------------------------------------
Unsettled(b) == {i \in DOMAIN ItemsOf(b) \ record[b].done : i >= record[b].cursor}
Takes(b, i, types) ==
    /\ At(b, "go") /\ record[b].phase = "items_pending"
    /\ i \in Unsettled(b) /\ \A j \in Unsettled(b) : i <= j
    /\ ItemsOf(b)[i].type \in types
\* verifySplitwiseSnapshotBinding.
StillBound(b) == snap.valid /\ snap.n = record[b].bound
AccountOpen == named["account"] \in {"one", "two"}
Dropped(b, s) ==
    {ItemsOf(b)[i].row : i \in {i \in record[b].done :
        ItemsOf(b)[i].type = "drop" /\ ItemsOf(b)[i].src = s}}
\* assertLiveMirrorLedgerConsistent, validateReviewedDuplicateLiveState.
LedgerConsistent(b) ==
    \A s \in Sources :
        /\ Cardinality(Imported(s)) <= 1
        /\ IF Cardinality(Tagged(s)) <= 1
           THEN Imported(s) = {} \/ Tagged(s) = {} \/ Imported(s) = Tagged(s)
           ELSE /\ \A r \in Tagged(s) :
                     r \in DOMAIN review[s].saw /\ row[r] = review[s].saw[r]
                /\ Tagged(s) = DOMAIN review[s].saw \ Dropped(b, s)

\* The account, or the category, is found by its name or created.
Bootstrap(b, i) ==
    LET what == ItemsOf(b)[i].type IN
    /\ Takes(b, i, {"account", "category"})
    /\ IF NamesAreClear
       THEN named' = [named EXCEPT ![what] = "one"] /\ Proceed(b, i, "settle")
       ELSE Unresolved(b, i) /\ UNCHANGED named
    /\ UNCHANGED <<row, review, snap, del, budget>>

\* Variant: the item does not look for a row its first attempt has created.
StandingUnseen(s) == {}

\* verifyCreateMirrorIdentity: the rows that stand for the source already, or
\* several rows when that cannot be told.
Standing(s) == IF Imported(s) # {} THEN Imported(s) \cup Tagged(s) ELSE Tagged(s)
CheckCreate(b, i) ==
    LET item == ItemsOf(b)[i]  there == Standing(item.src) IN
    /\ Takes(b, i, {"create"})
    /\ IF ~(StillBound(b) /\ LedgerConsistent(b) /\ AccountOpen) THEN Unresolved(b, i)
       ELSE IF there = {} THEN Proceed(b, i, "create")
       ELSE IF Cardinality(there) = 1 /\ \A r \in there : Matches(r, item.amount)
       THEN Proceed(b, i, "settle") ELSE Unresolved(b, i)
    /\ UNCHANGED <<row, named, review, snap, del, budget>>
Create(b) ==
    /\ At(b, "create")
    /\ \E r \in RowIds :
        /\ row[r] = NoRow /\ \A q \in RowIds : q < r => row[q] # NoRow
        /\ row' = [row EXCEPT ![r] = [src |-> Current.src, bound |-> TRUE, tagged |-> TRUE,
                                      amount |-> Current.amount, here |-> TRUE]]
    /\ Go("settle", drive.n) /\ record' = Drifted(b)
    /\ UNCHANGED <<named, review, snap, del, budget>>

CheckUpdate(b, i) ==
    LET item == ItemsOf(b)[i]  now == row[item.row] IN
    /\ Takes(b, i, {"update"})
    /\ IF ~(StillBound(b) /\ LedgerConsistent(b) /\ AccountOpen /\ now.here) THEN Unresolved(b, i)
       ELSE IF Matches(item.row, item.amount) THEN Proceed(b, i, "settle")
       ELSE IF SameIdentity(now, item.was) THEN Proceed(b, i, "update") ELSE Unresolved(b, i)
    /\ UNCHANGED <<row, named, review, snap, del, budget>>
Update(b) ==
    /\ At(b, "update")
    /\ row' = [row EXCEPT ![Current.row].amount = Current.amount, ![Current.row].tagged = TRUE]
    /\ Go("settle", drive.n) /\ record' = Drifted(b)
    /\ UNCHANGED <<named, review, snap, del, budget>>

SettleItem(b) ==
    /\ At(b, "settle")
    /\ Patch(b, [done |-> record[b].done \cup {drive.n}])
    /\ Go("go", 0)
    /\ UNCHANGED <<row, named, review, snap, del, budget>>

----------------------------------------------------------------------------
(* A row is deleted by a deletion of its own, whose record outlives it.    *)
Deletes(r) ==
    /\ del[r].phase = "active"
    /\ IF row[r].here /\ row[r] # del[r].was
       THEN del' = [del EXCEPT ![r].phase = "stuck"] /\ UNCHANGED row
       ELSE /\ del' = [del EXCEPT ![r].phase = "sync_pending"]
            /\ row' = [row EXCEPT ![r].here = FALSE]
\* completedMirrorDeletionMatchesItem: a deletion that is done counts, whoever
\* asked for it.
ProvenDeleted(item) ==
    del[item.row].phase = "completed" /\ SameIdentity(del[item.row].was, item.was)
ResolveDelegation(b, i) ==
    LET item == ItemsOf(b)[i]  r == item.row IN
    /\ Takes(b, i, {"drop", "delete"})
    /\ IF ~(StillBound(b) /\ AccountOpen /\ LedgerConsistent(b))
       THEN Unresolved(b, i) /\ UNCHANGED del
       ELSE \/ /\ r \in record[b].recorded \/ DeletionRuns(r)
               /\ Patch(b, [cursor |-> i, recorded |-> record[b].recorded \cup {r}])
               /\ Go("finish", i) /\ UNCHANGED del
            \/ /\ r \notin record[b].recorded /\ ~DeletionRuns(r) /\ ~row[r].here
               /\ IF ProvenDeleted(item)
                  THEN /\ Patch(b, [cursor |-> i, recorded |-> record[b].recorded \cup {r}])
                       /\ Go("finish", i)
                  ELSE Unresolved(b, i)
               /\ UNCHANGED del
            \/ /\ r \notin record[b].recorded /\ ~DeletionRuns(r) /\ row[r].here
               /\ IF SameIdentity(row[r], item.was)
                  THEN /\ del' = [del EXCEPT ![r] = [phase |-> "active", was |-> row[r], for |-> b]]
                       /\ Proceed(b, i, "deleting")
                  ELSE Unresolved(b, i) /\ UNCHANGED del
    /\ UNCHANGED <<row, named, review, snap, budget>>
DeleteRow(b) ==
    /\ At(b, "deleting") /\ Deletes(Current.row) /\ Go("record", drive.n) /\ record' = Drifted(b)
    /\ UNCHANGED <<named, review, snap, budget>>
RecordDeletion(b) ==
    /\ At(b, "record") /\ Go("finish", drive.n)
    /\ Patch(b, [recorded |-> record[b].recorded \cup {Current.row}])
    /\ UNCHANGED <<row, named, review, snap, del, budget>>
FinishDeletion(b) ==
    LET r == Current.row IN
    /\ At(b, "finish")
    /\ \/ Deletes(r) /\ record' = Drifted(b) /\ UNCHANGED drive
       \/ del[r].phase = "stuck" /\ Rest /\ UNCHANGED <<row, del, record>>
       \/ /\ del[r].phase \in {"sync_pending", "completed"}
          /\ IF row[r].here THEN Unresolved(b, drive.n) ELSE Go("settle", drive.n) /\ UNCHANGED record
          /\ UNCHANGED <<row, del>>
    /\ UNCHANGED <<named, review, snap, budget>>

----------------------------------------------------------------------------
\* The binding is looked at again before the record awaits its sync (the phase
\* between, sidecars_pending, only repeats this) ...
FinishItems(b) ==
    /\ At(b, "go") /\ record[b].phase = "items_pending" /\ Unsettled(b) = {}
    /\ Patch(b, [phase |-> IF StillBound(b) THEN "sync_pending" ELSE "unresolved"]) /\ Rest
    /\ UNCHANGED <<row, named, review, snap, del, budget>>
\* ... and before it is terminal.
Sync ==
    /\ drive = AtRest
    /\ del' = [r \in RowIds |-> IF del[r].phase = "sync_pending"
                             THEN [del[r] EXCEPT !.phase = "completed"] ELSE del[r]]
    /\ record' = [b \in Records |->
         IF record[b].phase # "sync_pending" THEN record[b]
         ELSE [record[b] EXCEPT !.phase = IF StillBound(b) THEN "completed" ELSE "unresolved"]]
    /\ UNCHANGED <<row, named, review, snap, drive, budget>>

----------------------------------------------------------------------------
\* The rest of the system.
Interrupt ==
    /\ drive # AtRest /\ Spend("trouble") /\ Rest
    /\ UNCHANGED <<row, named, review, snap, del, record>>
NewSnapshot ==
    /\ Spend("changes")
    /\ \/ \E w \in Worlds : snap' = [n |-> snap.n + 1, valid |-> TRUE, wants |-> w.wants]
       \/ snap.valid /\ snap' = [snap EXCEPT !.valid = FALSE]
    /\ UNCHANGED <<row, named, review, del, record, drive>>
RemoteEdit ==
    /\ drive = AtRest /\ Spend("changes")
    /\ \/ \E r \in RowIds :
            /\ row[r].here /\ UNCHANGED named
            /\ \/ \E a \in Amounts \ {row[r].amount} : row' = [row EXCEPT ![r].amount = a]
               \/ row[r].bound /\ row[r].tagged /\ row' = [row EXCEPT ![r].tagged = FALSE]
               \/ row' = [row EXCEPT ![r].here = FALSE]
       \/ \E r, q \in RowIds :
            /\ row[r].here /\ row[q] = NoRow /\ \A p \in RowIds : p < q => row[p] # NoRow
            /\ row' = [row EXCEPT ![q] = [row[r] EXCEPT !.bound = FALSE]] /\ UNCHANGED named
       \/ /\ named["account"] = "one"
          /\ \E now \in {"two", "closed"} : named' = [named EXCEPT !["account"] = now]
          /\ UNCHANGED row
    /\ record' = Drifted(Nobody)
    /\ UNCHANGED <<review, snap, del, drive>>
Owned == UNION {{ItemsOf(b)[i].row : i \in DOMAIN ItemsOf(b) \ record[b].done} :
                  b \in {b \in Records : IsActive(b)}}
UserDeletes(r) ==
    /\ drive = AtRest /\ row[r].here /\ ~DeletionRuns(r) /\ r \notin Owned /\ Spend("changes")
    /\ del' = [del EXCEPT ![r] = [phase |-> "active", was |-> row[r], for |-> Nobody]]
    /\ record' = Drifted(Nobody)
    /\ UNCHANGED <<row, named, review, snap, drive>>
RecoverDeletion(r) ==
    /\ drive = AtRest /\ Deletes(r)
    /\ record' = Drifted(del[r].for)
    /\ UNCHANGED <<named, review, snap, drive, budget>>

Step(b) ==
    \/ CheckpointPlan(b) \/ AdmitPlan(b) \/ FinishItems(b)
    \/ \E i \in DOMAIN ItemsOf(b) :
         Bootstrap(b, i) \/ CheckCreate(b, i) \/ CheckUpdate(b, i) \/ ResolveDelegation(b, i)
    \/ Create(b) \/ Update(b) \/ SettleItem(b)
    \/ DeleteRow(b) \/ RecordDeletion(b) \/ FinishDeletion(b)
Others == Sync \/ \E r \in RowIds : RecoverDeletion(r)
Next ==
    \/ \E b \in Records : Run(b) \/ Resume(b) \/ Step(b)
    \/ \E r \in RowIds : UserDeletes(r)
    \/ Others \/ Interrupt \/ NewSnapshot \/ RemoteEdit

Spec == Init /\ [][Next]_mvars
LiveSpec ==
    /\ Spec
    /\ WF_mvars(\E b \in Records : Step(b))
    /\ \A b \in Records : SF_mvars(Resume(b))
    /\ SF_mvars(Others)

----------------------------------------------------------------------------
\* One record works on the account at a time, one without a key is open, one
\* without a key has completed for a snapshot; no source is created twice; and a
\* row is under deletion for nobody but the record that works on it.
RecordsHold ==
    /\ Cardinality({b \in Records : record[b].phase \in Admitted}) <= 1
    /\ Cardinality(Unkeyed(Active)) <= 1
    /\ \A n \in 1 .. snap.n : Cardinality({b \in Unkeyed({"completed"}) : record[b].asked = n}) <= 1
    /\ \A s \in Sources : Cardinality(Imported(s)) <= 1
    /\ \A b \in Records : record[b].phase \in Admitted =>
        \A i \in DOMAIN ItemsOf(b) \ record[b].done :
            LET r == ItemsOf(b)[i].row IN
            r # Nobody /\ DeletionRuns(r) => del[r].for = b

\* A record becomes unresolved when the snapshot, or what is in Actual, changed
\* behind it; or when it was killed between the deletion of one of several
\* duplicates and its note of it.
HalfDropped(b) == \E i \in DOMAIN ItemsOf(b) \ record[b].done :
    /\ ItemsOf(b)[i].type = "drop" /\ ~row[ItemsOf(b)[i].row].here
    /\ Cardinality(DropsOf(ItemsOf(b)[i].src)) > 1
UnresolvedIsExplained ==
    \A b \in Records : record[b].phase = "unresolved" =>
        \/ record[b].drifted \/ ~StillBound(b) \/ HalfDropped(b)
        \/ \E s \in Sources : ~(Imported(s) \subseteq Tagged(s))

\* When a record completes the account holds one row, of the right amount, for
\* each expense of its snapshot and no other, but for what somebody changed
\* after the plan, and for a reviewed duplicate that lost the one to be kept.
Leftover(s) == {r \in DropsOf(s) : ~row[review[s].keep].here}
Mirrors(wants) ==
    \A s \in Sources :
        IF wants[s] = 0 THEN Tagged(s) \subseteq Leftover(s)
        ELSE \E r \in Tagged(s) : Tagged(s) = {r} /\ row[r].amount = wants[s]
CompletesAsSnapshot ==
    [][\A b \in Records :
        (record[b].phase # "completed" /\ record'[b].phase = "completed" /\ ~record[b].drifted) =>
            Mirrors(record[b].wants)]_mvars

\* Every record ends, unless it cannot be planned, another one has a plan too, or
\* a deletion it waits for has no outcome.
Stands(b) ==
    \/ record[b].phase = "prepared" /\ ~(snap.valid /\ NamesAreClear /\ ~Ambiguous)
    \/ record[b].phase = "plan_checkpoint" /\ \E c \in Records \ {b} : IsActive(c)
    \/ \E i \in DOMAIN ItemsOf(b) :
         ItemsOf(b)[i].row # Nobody /\ del[ItemsOf(b)[i].row].phase = "stuck"
AllEnded == \A b \in Records : IsActive(b) => Stands(b)
=============================================================================
