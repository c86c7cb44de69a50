------------------------- MODULE BulkOperationSaga -------------------------
(***************************************************************************)
(* The executor of operations over many rows: applying every rule, saving  *)
(* a rule and applying it, and cleaning up card holds that never posted.   *)
(* A record on disk carries the plan, a cursor and the outcome of each     *)
(* item.  The process may be killed, or a call may fail, between any two   *)
(* writes; a record is then driven again from where it stands.  One record *)
(* is driven at a time (the Actual lane), so the local rows stand still    *)
(* meanwhile; the store of rules does not, because deleting a rule does    *)
(* not pass through the lane.                                              *)
(*                                                                         *)
(* Deletions are the work of another component, seen here through the      *)
(* phases it records; other records that claim rows (replacement,          *)
(* repayment and link sagas) are the set `held'.                           *)
(***************************************************************************)
EXTENDS Naturals, Sequences, SequencesExt

CONSTANTS
    Bulks,         \* records, numbered in the order they are asked for
    Expenses,      \* rows without a category that the rules match
    SettleUps,     \* inflows filed as income that pay back a shared expense
    Holds,         \* pending card authorisations
    Kinds,         \* the kinds of operation asked for
    MaxTrouble,    \* bound: kills and failed calls
    MaxEdits,      \* bound: edits that reach a row from elsewhere
    MaxOthers,     \* bound: claims and deletions by other operations
    MaxAny,        \* bound: all of these together
    Nobody

\* What the constants have to satisfy.
BulkAssumption ==
    /\ Bulks \subseteq Nat \ {0}
    /\ Kinds \subseteq {"rules_apply", "rules_save", "phantom_cleanup"}

Txns == Expenses \cup SettleUps \cup Holds

VARIABLES
    row,      \* the local copy of each row
    unsynced, \* rows changed here and not yet on the server
    rules,    \* the store of rules; a rule is named by the record that saves it
    seen,     \* the ledger of holds being watched
    log,      \* the log of deleted holds: how often each is in it, by record
    del,      \* the phase of the deletion recorded for each row, and for whom
    held,     \* rows claimed by records of the other kinds
    bulk,     \* the records
    drive,    \* the record being driven and the place reached in it
    budget    \* what is left of each bound
bvars == <<row, unsynced, rules, seen, log, del, held, bulk, drive, budget>>

----------------------------------------------------------------------------
NoRule == 0  \* the rule that was there before
Categories == {"none", "income", "rule", "reimbursement", "other"}
Active == {"prepared", "plan_checkpoint", "items_pending", "sidecars_pending", "sync_pending"}
Terminal == {"completed", "unresolved"}
NoRecord == [phase |-> "none", kind |-> Nobody, items |-> <<>>, cursor |-> 1,
             done |-> {}, handed |-> Nobody, recorded |-> {}, intended |-> {},
             drifted |-> FALSE]
AtRest == [who |-> Nobody, at |-> "idle", n |-> 0]
NoDeletion == [phase |-> "none", for |-> Nobody, ident |-> 0]

Here(t) == row[t].cat # "gone"
IsActive(b) == bulk[b].phase \in Active
Item(type, t, intent) == [type |-> type, txn |-> t, intent |-> intent, ident |-> row[t].ident]
ItemsOf(b) == bulk[b].items
DeletionRuns(t) == del[t].phase \in {"active", "sync_pending", "stuck"}
Each(type, S, intent) ==
    LET q == SetToSeq(S) IN [i \in DOMAIN q |-> Item(type, q[i], intent)]

\* The rows a record claims: those of its unsettled items from the moment it
\* has a plan, admitted or not; a hold until the record awaits its sync.
Owned(b) ==
    IF ~IsActive(b) THEN {}
    ELSE {ItemsOf(b)[i].txn : i \in {i \in DOMAIN ItemsOf(b) :
            IF bulk[b].kind = "phantom_cleanup" /\ ItemsOf(b)[i].type \in {"seen", "delete"}
            THEN bulk[b].phase # "sync_pending"
            ELSE i \notin bulk[b].done}} \ {Nobody}
OwnedBut(b) == UNION {Owned(c) : c \in Bulks \ {b}}
\* assertExternalAvailable: the other managers, the deletions among them.
ExternallyClaimed(t) == t \in held \/ DeletionRuns(t)

----------------------------------------------------------------------------
(* Plans.  Only what is asked for now is planned: rows without a category, *)
(* holds that are still pending.                                           *)
Live == {t \in Holds : Here(t) /\ row[t].ident = 0}
Uncategorised == {t \in Expenses : row[t].cat = "none"}
MisfiledIncome == {t \in SettleUps : row[t].cat = "income"}
planRulesApply ==
    (IF rules = {} THEN <<>> ELSE Each("category", Uncategorised, "rule"))
    \o Each("category", MisfiledIncome, "reimbursement")
planRulesSave ==
    Append(Each("category", Uncategorised, "rule"),
           [type |-> "rules", txn |-> Nobody, intent |-> "rule", ident |-> 0])
planPhantomCleanup(dropped) ==
    Each("seen", Live, "none") \o Each("delete", dropped, "none")
    \o Each("prune", seen \ Live, "none")

At(b, at) == drive.who = b /\ drive.at = at
Go(at, i) == drive' = [drive EXCEPT !.at = at, !.n = i]
Rest == drive' = AtRest
Patch(b, changes) == bulk' = [bulk EXCEPT ![b] = changes @@ @]
Unresolved(b, i) == Patch(b, [phase |-> "unresolved", cursor |-> i]) /\ Rest
\* What somebody else changed after the plan (kept for the properties).
Drifted(B) == [b \in Bulks |-> IF b \in B THEN [bulk[b] EXCEPT !.drifted = TRUE] ELSE bulk[b]]
Plans(b, t) == \E i \in DOMAIN ItemsOf(b) : ItemsOf(b)[i].txn = t
Savers == {b \in Bulks : \E i \in DOMAIN ItemsOf(b) : ItemsOf(b)[i].type = "rules"}
Spend(what) ==
    /\ budget[what] > 0 /\ budget.any > 0
    /\ budget' = [budget EXCEPT ![what] = @ - 1, !.any = @ - 1]
Current == ItemsOf(drive.who)[drive.n]
Stores == <<rules, seen, log>>
Ledger == <<row, unsynced>>

Init ==
    /\ row = [t \in Txns |-> [cat |-> IF t \in SettleUps THEN "income" ELSE "none",
                              ident |-> 0]]
    /\ unsynced = {} /\ rules = {NoRule} /\ seen = {}
    /\ log = [x \in Holds \X Bulks |-> 0]
    /\ del = [t \in Txns |-> NoDeletion]
    /\ held = {}
    /\ bulk = [b \in Bulks |-> NoRecord]
    /\ drive = AtRest
    /\ budget = [trouble |-> MaxTrouble, edits |-> MaxEdits, others |-> MaxOthers,
                 any |-> MaxAny]

----------------------------------------------------------------------------
\* A keyed request: its record is written before anything else happens.
Run(b) ==
    /\ drive = AtRest /\ bulk[b].phase = "none"
    /\ \A c \in Bulks : c < b => bulk[c].phase # "none"
    /\ \E k \in Kinds : Patch(b, [phase |-> "prepared", kind |-> k])
    /\ drive' = [who |-> b, at |-> "go", n |-> 0]
    /\ UNCHANGED <<Ledger, Stores, del, held, budget>>

\* A pass of recovery, or the same key again, takes the record up.
Resume(b) ==
    /\ drive = AtRest /\ IsActive(b) /\ bulk[b].phase # "sync_pending"
    /\ drive' = [who |-> b, at |-> "go", n |-> 0]
    /\ UNCHANGED <<Ledger, Stores, del, held, bulk, budget>>

CheckpointPlan(b) ==
    /\ At(b, "go") /\ bulk[b].phase = "prepared"
    /\ \/ /\ bulk[b].kind = "rules_apply"
          /\ Patch(b, [phase |-> "plan_checkpoint", items |-> planRulesApply])
       \/ /\ bulk[b].kind = "rules_save"
          /\ Patch(b, [phase |-> "plan_checkpoint", items |-> planRulesSave,
                       intended |-> rules \cup {b}])
       \/ /\ bulk[b].kind = "phantom_cleanup"
          /\ \E dropped \in SUBSET Live :
               Patch(b, [phase |-> "plan_checkpoint", items |-> planPhantomCleanup(dropped)])
    /\ UNCHANGED <<Ledger, Stores, del, held, drive, budget>>

\* assertPlanAdmission: the plan is on disk by now, and stays there if refused.
AdmitPlan(b) ==
    /\ At(b, "go") /\ bulk[b].phase = "plan_checkpoint"
    /\ IF \E i \in DOMAIN ItemsOf(b) :
             LET t == ItemsOf(b)[i].txn IN
             t # Nobody /\ (t \in OwnedBut(b) \/ ExternallyClaimed(t))
       THEN Rest /\ UNCHANGED bulk
       ELSE Patch(b, [phase |-> "items_pending", cursor |-> 1]) /\ UNCHANGED drive
    /\ UNCHANGED <<Ledger, Stores, del, held, budget>>

\* The next item in order, from the cursor on; rules come after the rows.  The
\* cursor is written first, which no one but the deletion of a hold can tell.
Unsettled(b) ==
    {i \in DOMAIN ItemsOf(b) \ bulk[b].done :
        \/ ItemsOf(b)[i].type = "rules" /\ bulk[b].phase = "sidecars_pending"
        \/ /\ ItemsOf(b)[i].type # "rules" /\ bulk[b].phase = "items_pending"
           /\ i >= bulk[b].cursor}
Takes(b, i, type) ==
    /\ At(b, "go")
    /\ i \in Unsettled(b) /\ \A j \in Unsettled(b) : i <= j
    /\ ItemsOf(b)[i].type = type
FinishItems(b) ==
    /\ At(b, "go") /\ bulk[b].phase = "items_pending" /\ Unsettled(b) = {}
    /\ Patch(b, [phase |-> "sidecars_pending"])
    /\ UNCHANGED <<Ledger, Stores, del, held, drive, budget>>

----------------------------------------------------------------------------
\* A category: never over one somebody chose, never on a row that changed.
\* Variant: what a killed drive has done already is not recognised.
AppliedCategoryForgotten(item) == row[item.txn].cat = item.intent /\ item.txn \notin unsynced
AppliedCategory(item) == row[item.txn].cat = item.intent
\* Variant: a category that somebody chose is no divergence.
CategoryDivergedAway(item) == ~Here(item.txn) \/ row[item.txn].ident # item.ident
CategoryDiverged(item) ==
    \/ ~Here(item.txn)
    \/ row[item.txn].ident # item.ident
    \/ row[item.txn].cat # "none"
CheckCategory(b, i) ==
    LET item == ItemsOf(b)[i] IN
    /\ Takes(b, i, "category")
    /\ \/ ExternallyClaimed(item.txn) /\ Rest /\ Patch(b, [cursor |-> i])
       \/ /\ ~ExternallyClaimed(item.txn)
          /\ \/ AppliedCategory(item) /\ Go("settle", i) /\ Patch(b, [cursor |-> i])
             \/ ~AppliedCategory(item) /\ CategoryDiverged(item) /\ Unresolved(b, i)
             \/ /\ ~AppliedCategory(item) /\ ~CategoryDiverged(item)
                /\ Go("effect", i) /\ Patch(b, [cursor |-> i])
    /\ UNCHANGED <<Ledger, Stores, del, held, budget>>
ApplyCategory(b) ==
    /\ At(b, "effect")
    /\ row' = [row EXCEPT ![Current.txn].cat = Current.intent]
    /\ unsynced' = unsynced \cup {Current.txn}
    /\ Go("settle", drive.n)
    /\ UNCHANGED <<Stores, del, held, bulk, budget>>

\* The ledger of watched holds.
WatchHold(b, i) ==
    /\ Takes(b, i, "seen")
    /\ seen' = seen \cup {ItemsOf(b)[i].txn}
    /\ Patch(b, [cursor |-> i]) /\ Go("settle", i)
    /\ UNCHANGED <<Ledger, rules, log, del, held, budget>>
ForgetHold(b, i) ==
    /\ Takes(b, i, "prune")
    /\ IF Here(ItemsOf(b)[i].txn)
       THEN Unresolved(b, i) /\ UNCHANGED seen
       ELSE /\ seen' = seen \ {ItemsOf(b)[i].txn}
            /\ Patch(b, [cursor |-> i]) /\ Go("settle", i)
    /\ UNCHANGED <<Ledger, rules, log, del, held, budget>>

\* The list of rules is written as it was planned, unless the rule is there.
WriteRules(b, i) ==
    /\ Takes(b, i, "rules")
    /\ \/ /\ rules = bulk[b].intended
          /\ Patch(b, [cursor |-> i]) /\ Go("settle", i) /\ UNCHANGED rules
       \/ rules # bulk[b].intended /\ b \in rules /\ Unresolved(b, i) /\ UNCHANGED rules
       \/ /\ rules # bulk[b].intended /\ b \notin rules
          /\ rules' = bulk[b].intended /\ Go("settle", i) /\ bulk' = Drifted(Savers \ {b})
    /\ UNCHANGED <<Ledger, seen, log, del, held, budget>>

SettleItem(b) ==
    /\ At(b, "settle")
    /\ Patch(b, [done |-> bulk[b].done \cup {drive.n}])
    /\ Go("go", 0)
    /\ UNCHANGED <<Ledger, Stores, del, held, budget>>

----------------------------------------------------------------------------
(* A hold is deleted by a deletion of its own, which only the holder of    *)
(* the token the record keeps may ask for.                                 *)
Deletes(t) ==
    /\ del[t].phase = "active"
    /\ IF Here(t) /\ row[t].ident # del[t].ident
       THEN del' = [del EXCEPT ![t].phase = "stuck"] /\ UNCHANGED Ledger
       ELSE /\ del' = [del EXCEPT ![t].phase = "sync_pending"]
            /\ row' = [row EXCEPT ![t].cat = "gone"]
            /\ unsynced' = unsynced \cup {t}
ResolveDelegation(b, i) ==
    LET item == ItemsOf(b)[i]  t == item.txn IN
    /\ Takes(b, i, "delete")
    /\ \/ t \in bulk[b].recorded /\ Go("finish", i) /\ Patch(b, [cursor |-> i])
       \/ /\ t \notin bulk[b].recorded /\ DeletionRuns(t)
          /\ Go("finish", i)
          /\ Patch(b, [cursor |-> i, recorded |-> bulk[b].recorded \cup {t}, handed |-> Nobody])
       \/ /\ t \notin bulk[b].recorded /\ ~DeletionRuns(t)
          /\ IF ~Here(t) \/ row[t].ident # item.ident
             THEN Unresolved(b, i)
             ELSE Patch(b, [cursor |-> i, handed |-> t]) /\ Go("handoff", i)
    /\ UNCHANGED <<Ledger, Stores, del, held, budget>>
DelegationIsValid(b, t) ==
    /\ bulk[b].phase = "items_pending" /\ bulk[b].handed = t
    /\ t \notin bulk[b].recorded /\ ~DeletionRuns(t)
    /\ ItemsOf(b)[bulk[b].cursor].txn = t
AdmitDeletion(b) ==
    LET t == Current.txn IN
    /\ At(b, "handoff")
    /\ IF t \in held \/ ~DelegationIsValid(b, t)
       THEN Rest /\ UNCHANGED del
       ELSE /\ del' = [del EXCEPT ![t] = [phase |-> "active", for |-> b, ident |-> row[t].ident]]
            /\ Go("deleting", drive.n)
    /\ UNCHANGED <<Ledger, Stores, held, bulk, budget>>
DeleteHold(b) ==
    /\ At(b, "deleting") /\ Deletes(Current.txn) /\ Go("record", drive.n)
    /\ bulk' = Drifted({c \in Bulks \ {b} : Plans(c, Current.txn)})
    /\ UNCHANGED <<Stores, held, budget>>
RecordHold(b) ==
    /\ At(b, "record") /\ Go("finish", drive.n)
    /\ Patch(b, [recorded |-> bulk[b].recorded \cup {Current.txn}, handed |-> Nobody])
    /\ UNCHANGED <<Ledger, Stores, del, held, budget>>
FinishHold(b) ==
    LET t == Current.txn IN
    /\ At(b, "finish")
    /\ \/ Deletes(t) /\ bulk' = Drifted({c \in Bulks \ {b} : Plans(c, t)}) /\ UNCHANGED drive
       \/ del[t].phase = "stuck" /\ Rest /\ UNCHANGED <<Ledger, del, bulk>>
       \/ /\ del[t].phase \in {"sync_pending", "completed"}
          /\ IF Here(t) THEN Unresolved(b, drive.n) ELSE Go("settle", drive.n) /\ UNCHANGED bulk
          /\ UNCHANGED <<Ledger, del>>
    /\ UNCHANGED <<Stores, held, budget>>

----------------------------------------------------------------------------
\* convergePhantomSidecars, item by item, then the record awaits the sync.
Tidies(b) ==
    /\ At(b, "go") /\ bulk[b].phase = "sidecars_pending" /\ Unsettled(b) = {}
ToTidy(b) ==
    {i \in bulk[b].done : i > drive.n /\ ItemsOf(b)[i].type = "delete"}
RemoveSeen(b) ==
    /\ Tidies(b)
    /\ \E i \in ToTidy(b) :
         /\ \A j \in ToTidy(b) : i <= j
         /\ seen' = seen \ {ItemsOf(b)[i].txn}
         /\ Go("log", i)
    /\ UNCHANGED <<Ledger, rules, log, del, held, bulk, budget>>
\* Variant: an entry is appended without looking for one of this record.
AppendLogAgain(b) ==
    /\ At(b, "log")
    /\ log' = [log EXCEPT ![<<Current.txn, b>>] = @ + 1]
    /\ Go("go", drive.n)
    /\ UNCHANGED <<Ledger, rules, seen, del, held, bulk, budget>>
AppendLog(b) ==
    LET entry == <<Current.txn, b>> IN
    /\ At(b, "log")
    /\ log' = IF log[entry] > 0 THEN log ELSE [log EXCEPT ![entry] = @ + 1]
    /\ Go("go", drive.n)
    /\ UNCHANGED <<Ledger, rules, seen, del, held, bulk, budget>>
AwaitSync(b) ==
    /\ Tidies(b) /\ ToTidy(b) = {}
    /\ Patch(b, [phase |-> "sync_pending"]) /\ Rest
    /\ UNCHANGED <<Ledger, Stores, del, held, budget>>

\* One push for everything; what awaited it is then terminal, deletions first.
Sync ==
    /\ drive = AtRest
    /\ unsynced' = {}
    /\ del' = [t \in Txns |-> IF del[t].phase = "sync_pending"
                              THEN [del[t] EXCEPT !.phase = "completed"] ELSE del[t]]
    /\ bulk' = [b \in Bulks |-> IF bulk[b].phase = "sync_pending"
                                THEN [bulk[b] EXCEPT !.phase = "completed"] ELSE bulk[b]]
    /\ UNCHANGED <<row, Stores, held, drive, budget>>

----------------------------------------------------------------------------
\* The rest of the system.
Interrupt ==
    /\ drive # AtRest /\ Spend("trouble") /\ Rest
    /\ UNCHANGED <<Ledger, Stores, del, held, bulk>>
RemoteEdit(t) ==
    /\ drive = AtRest /\ Here(t) /\ Spend("edits")
    /\ \/ row' = [row EXCEPT ![t].cat = "gone"]
       \/ row[t].cat # "other" /\ row' = [row EXCEPT ![t].cat = "other"]
       \/ row' = [row EXCEPT ![t].ident = @ + 1]
    /\ bulk' = Drifted({b \in Bulks : Plans(b, t)})
    /\ UNCHANGED <<unsynced, Stores, del, held, drive>>
DeleteRule(r) ==
    /\ r \in rules /\ Spend("edits")
    /\ rules' = rules \ {r}
    /\ bulk' = Drifted(Savers)
    /\ UNCHANGED <<Ledger, seen, log, del, held, drive>>
MayTouch(t) == t \notin held /\ ~DeletionRuns(t) /\ t \notin UNION {Owned(b) : b \in Bulks}
Claim(t) ==
    /\ drive = AtRest /\ Here(t) /\ MayTouch(t) /\ Spend("others")
    /\ held' = held \cup {t}
    /\ UNCHANGED <<Ledger, Stores, del, bulk, drive>>
Release(t) ==
    /\ drive = AtRest /\ t \in held /\ held' = held \ {t}
    /\ UNCHANGED <<Ledger, Stores, del, bulk, drive, budget>>
UserDeletes(t) ==
    /\ drive = AtRest /\ Here(t) /\ MayTouch(t) /\ Spend("others")
    /\ del' = [del EXCEPT ![t] = [phase |-> "active", for |-> Nobody, ident |-> row[t].ident]]
    /\ UNCHANGED <<Ledger, Stores, held, bulk, drive>>
RecoverDeletion(t) ==
    /\ drive = AtRest /\ Deletes(t)
    /\ bulk' = Drifted({b \in Bulks \ {del[t].for} : Plans(b, t)})
    /\ UNCHANGED <<Stores, held, drive, budget>>

Step(b) ==
    \/ CheckpointPlan(b) \/ AdmitPlan(b) \/ FinishItems(b)
    \/ \E i \in DOMAIN ItemsOf(b) :
         \/ CheckCategory(b, i) \/ WatchHold(b, i) \/ ForgetHold(b, i)
         \/ WriteRules(b, i) \/ ResolveDelegation(b, i)
    \/ ApplyCategory(b) \/ SettleItem(b)
    \/ AdmitDeletion(b) \/ DeleteHold(b) \/ RecordHold(b) \/ FinishHold(b)
    \/ RemoveSeen(b) \/ AppendLog(b) \/ AwaitSync(b)
Next ==
    \/ \E b \in Bulks : Run(b) \/ Resume(b) \/ Step(b)
    \/ \E t \in Txns : RemoteEdit(t) \/ Claim(t) \/ Release(t) \/ UserDeletes(t) \/ RecoverDeletion(t)
    \/ \E r \in Bulks \cup {NoRule} : DeleteRule(r)
    \/ Sync \/ Interrupt

Spec == Init /\ [][Next]_bvars
\* The lane finishes what it started; every record is driven again by each
\* synchronisation, which pushes and which drives the deletions and the records
\* of the other managers too.
Others == Sync \/ \E t \in Txns : Release(t) \/ RecoverDeletion(t)
Fairness ==
    /\ WF_bvars(\E b \in Bulks : Step(b))
    /\ \A b \in Bulks : SF_bvars(Resume(b))
    /\ SF_bvars(Others)
LiveSpec == Spec /\ Fairness

----------------------------------------------------------------------------
Admitted(b) == bulk[b].phase \in {"items_pending", "sidecars_pending", "sync_pending"}
DeletesOf(b) == {i \in DOMAIN ItemsOf(b) : ItemsOf(b)[i].type = "delete"}

\* Two admitted records never claim one row, and while a record claims a row
\* nobody else has a deletion of it running (assertAvailable, the token).
OneOwner ==
    \A b \in Bulks : Admitted(b) =>
        \A t \in Owned(b) :
            /\ \A c \in Bulks \ {b} : Admitted(c) => t \notin Owned(c)
            /\ DeletionRuns(t) => del[t].for = b
\* A completed record did everything it planned; a hold is in the log once per
\* record, and only when it is gone; a change that has not reached the server
\* belongs to a record or a deletion that has not ended well.
CompletionIsWhole ==
    /\ \A b \in Bulks : bulk[b].phase = "completed" =>
        /\ bulk[b].done = DOMAIN ItemsOf(b)
        /\ \A i \in DeletesOf(b) : log[<<ItemsOf(b)[i].txn, b>>] = 1
    /\ \A t \in Holds, b \in Bulks :
        log[<<t, b>>] > 0 => log[<<t, b>>] = 1 /\ ~Here(t)
    /\ \A t \in unsynced :
        \/ del[t].phase = "sync_pending"
        \/ \E b \in Bulks : Plans(b, t) /\ bulk[b].phase # "completed"
\* What becomes unresolved was changed behind the plan, or is one of three
\* cases the executor cannot finish by itself: a settle-up (its category is
\* set), a watched hold that has posted, a deletion that was completed before
\* the record noted it.
Explained(b) ==
    \/ bulk[b].drifted
    \/ LET item == ItemsOf(b)[bulk[b].cursor] IN
       \/ item.txn \in SettleUps
       \/ item.type = "prune" /\ Here(item.txn)
       \/ item.type = "delete" /\ bulk[b].handed = item.txn /\ del[item.txn].phase = "completed"
UnresolvedIsExplained ==
    \A b \in Bulks : bulk[b].phase = "unresolved" => Explained(b)

\* A driven record changes a row only as its plan saw it: no category that
\* somebody chose is overwritten, no hold that posted is deleted; and the list
\* of rules loses or regains another rule only when it changed after the plan.
EffectsFollowThePlan ==
    [][/\ \A t \in Txns : (drive.who # Nobody /\ row'[t] # row[t] /\ Here(t)) =>
            /\ row[t].ident = Current.ident /\ t = Current.txn
            /\ row[t].cat = "none" \/ Current.type = "delete"
       /\ (drive.who # Nobody /\ ~bulk[drive.who].drifted /\ rules' # rules /\ drive' # drive) =>
            rules' = rules \cup {drive.who}]_bvars

\* Every record ends, unless it and another were both planned over one row
\* before either was admitted, or a deletion it waits for has no outcome.
Stands(b) ==
    \/ \E c \in Bulks \ {b} : IsActive(c) /\ Owned(b) \cap Owned(c) # {}
    \/ \E t \in Txns : Plans(b, t) /\ del[t].phase = "stuck"
AllEnded == \A b \in Bulks : IsActive(b) => Stands(b)

\* What BULK_OPERATION.md says of the outcome, without the three cases.
OnlyDriftIsUnresolved ==
    \A b \in Bulks : bulk[b].phase = "unresolved" => bulk[b].drifted
=============================================================================
