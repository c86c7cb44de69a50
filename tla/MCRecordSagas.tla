---------------------------- MODULE MCRecordSagas ----------------------------
(***************************************************************************)
(* The sagas of reimbursement, the operations over many rows and the       *)
(* mirror of shared expenses, side by side: a behaviour is one of `part',  *)
(* fixed at the start; the other parts stay in their initial states.       *)
(***************************************************************************)
EXTENDS ReimbursementSagas, TLC

CONSTANTS
    i1, i2, e1, e2, k1, k2,     \* ReimbursementSagas
    x1, u1, h1, Nobody,         \* BulkOperationSaga
    s1, s2                      \* SplitwiseMirror

VARIABLES
    part,
    rows, unsynced, rules, seen, log, del, held, bulk, drive, budget,
    mirrored, named, review, snap, dropped, record, mirroring, limits

MCAmount == [x \in {i1, i2, e1, e2} |-> IF x \in {i2, e2} THEN 1 ELSE 2]
MCAccount == (i1 :> "A") @@ (i2 :> "A") @@ (e1 :> "A") @@ (e2 :> "B")
None == [p \in {i1, i2} \X {e1, e2} |-> NoLink]
MCFirst == {None,
            [None EXCEPT ![<<i1, e1>>] = [cents |-> 1, version |-> 1]],
            [None EXCEPT ![<<i1, e1>>] = LegacyLink]}

Bulk == INSTANCE BulkOperationSaga WITH
    row <- rows,
    Bulks <- 1 .. 2, Expenses <- {x1}, SettleUps <- {u1}, Holds <- {h1},
    Kinds <- {"rules_apply", "rules_save", "phantom_cleanup"},
    MaxTrouble <- 1, MaxEdits <- 1, MaxOthers <- 1, MaxAny <- 2

ASSUME BulkIsConfigured == Bulk!BulkAssumption

\* What the mirror may find: no account; a row it created and a copy of it,
\* reviewed, of an expense that is gone; three rows of one expense, reviewed,
\* none of which it created.
Row(r, ours) == [src |-> s1, bound |-> ours /\ r = 1, tagged |-> TRUE, amount |-> 1, here |-> TRUE]
Absent == [src |-> Nobody, bound |-> FALSE, tagged |-> FALSE, amount |-> 0, here |-> FALSE]
World(n, ours, keep, account, wants) ==
    [rows |-> [r \in 1 .. 5 |-> IF r <= n THEN Row(r, ours) ELSE Absent],
     review |-> [s \in {s1, s2} |->
                    IF s = s1 /\ n > 1
                    THEN [keep |-> keep, saw |-> [r \in 1 .. n |-> Row(r, ours)]]
                    ELSE [keep |-> Nobody, saw |-> <<>>]],
     named |-> [account |-> account, category |-> "none"],
     wants |-> wants]
EmptyWorld == World(0, FALSE, Nobody, "none", (s1 :> 1) @@ (s2 :> 1))
MCWorlds == {EmptyWorld,
             World(2, TRUE,  1, "one", (s1 :> 0) @@ (s2 :> 1)),
             World(3, FALSE, 2, "one", (s1 :> 2) @@ (s2 :> 0))}

Mirror == INSTANCE SplitwiseMirror WITH
    row <- mirrored, del <- dropped, drive <- mirroring, budget <- limits,
    Records <- 1 .. 2, Sources <- {s1, s2}, RowIds <- 1 .. 5, Amounts <- {1, 2},
    Worlds <- MCWorlds,
    MaxTrouble <- 1, MaxChanges <- 1

ofBulk == <<rows, unsynced, rules, seen, log, del, held, bulk, drive, budget>>
ofMirror == <<mirrored, named, review, snap, dropped, record, mirroring, limits>>
allVars == <<part, vars, ofBulk, ofMirror>>

MCInit ==
    /\ part \in {"reimbursement", "bulk", "mirror"} /\ Init /\ Bulk!Init /\ Mirror!Init
    /\ part # "reimbursement" => links = None
    /\ part # "mirror" => mirrored = EmptyWorld.rows

Reimburses(A) == part = "reimbursement" /\ A /\ UNCHANGED <<part, ofBulk, ofMirror>>
Bulks(A)      == part = "bulk" /\ A /\ UNCHANGED <<part, vars, ofMirror>>
Mirrors(A)    == part = "mirror" /\ A /\ UNCHANGED <<part, vars, ofBulk>>

MCNext == Reimburses(Next) \/ Bulks(Bulk!Next) \/ Mirrors(Mirror!Next)

\* The fairness of the modules: in a behaviour of one part, of the actions in a
\* disjunction only that part's can occur.  Claims are bounded, so it is enough
\* that some claim ends again and again.
MCSpec ==
    /\ MCInit /\ [][MCNext]_allVars
    /\ WF_allVars(Reimburses(Drive) \/ Bulks(\E b \in 1 .. 2 : Bulk!Step(b))
                   \/ Mirrors(\E b \in 1 .. 2 : Mirror!Step(b)))
    /\ SF_allVars(Reimburses(StartSync) \/ Bulks(Bulk!Others) \/ Mirrors(Mirror!Others))
    /\ SF_allVars(Reimburses(\E x \in Txns : Release(x)) \/ Bulks(Bulk!Resume(1))
                   \/ Mirrors(Mirror!Resume(1)))
    /\ SF_allVars(Bulks(Bulk!Resume(2)) \/ Mirrors(Mirror!Resume(2)))

----------------------------------------------------------------------------
\* Two records over many rows never work on one row, two mirrors never on the
\* account, and a completed record has done, and synchronised, all it planned.
BulkRecordsHold == Bulk!OneOwner /\ Bulk!CompletionIsWhole /\ Mirror!RecordsHold

\* Such a record becomes unresolved only for a reason that is known.
UnresolvedIsExplained == Bulk!UnresolvedIsExplained /\ Mirror!UnresolvedIsExplained

\* A record over many rows changes a row, or the rules, only as its plan saw them.
EffectsFollowThePlan == Bulk!EffectsFollowThePlan

\* A completed repayment or link has changed all it planned, and a mirror completes
\* with the account as its snapshot has it.
CompletionIsWhole == CompletesWhole /\ Mirror!CompletesAsSnapshot

\* Every open record ends: a repayment unless what it works on was changed, a
\* link unless it may be refused, an operation over many rows, or a mirror, unless
\* another stands in its way.
EveryRecordEnds == <>[](AllEnded /\ Bulk!AllEnded /\ Mirror!AllEnded)

\* BULK_OPERATION.md on the phase unresolved: incompatible drift.
OnlyDriftIsUnresolved == Bulk!OnlyDriftIsUnresolved
=============================================================================
