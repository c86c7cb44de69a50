-------------------- MODULE RepaymentConfirmationSaga ---------------------
(***************************************************************************)
(* finance-dashboard/lib/repayment-confirmation-saga.js with its admission *)
(* and its sidecars: confirming a suggestion files the inflow under        *)
(* Reimbursement, writes one link for each allocation of the plan, and     *)
(* records the confirmation; each step is checkpointed, and a              *)
(* synchronisation ends the record.                                        *)
(*                                                                         *)
(* The suggestion of an inflow is named after it, so there is one record   *)
(* for each inflow.                                                        *)
(***************************************************************************)
EXTENDS ReimbursementLinks

CONSTANT Owed      \* inflows from somebody who owes: those with a suggestion

ASSUME OwedAssumption == Owed \subseteq Inflows

VARIABLES
    offer,     \* what the admission of a request has read, held in memory
    rsaga,     \* the record of each inflow
    audit      \* confirmations in reimbursement-suggestions.json: the number
               \* of allocations, NoAudit without one

repayVars == <<offer, rsaga, audit>>

RepayTag(i) == <<"repay", i>>
NoAudit == -1
NoOffer == [plan |-> [e \in Expenses |-> 0], seen |-> "none",
            links |-> [p \in Pairs |-> NoLink]]
NoRepayment == [phase |-> "none", plan |-> [e \in Expenses |-> 0],
                done |-> {}, pending |-> {}, seen |-> "none", fresh |-> TRUE]

Planned(r) == {e \in Expenses : r.plan[e] > 0}
Ids(i, r) == {i} \cup Planned(r)
Phase(i) == rsaga[i].phase
RepayActive(i) == Phase(i) \notin {"none", "completed"}

\* Variant: the inflow only.
OwnInflowOnly(i) == IF RepayActive(i) THEN {i} ELSE {}

\* sagaOwnedIds, and what assertAvailable holds against a request that names
\* no account, or the account of x.
RepayOwned(i) == IF RepayActive(i) THEN Ids(i, rsaga[i]) ELSE {}
RepayOwnedIds == UNION {RepayOwned(i) : i \in Inflows}
HeldFor(x) == UNION {RepayOwned(i) : i \in {j \in Inflows : SameAccount(j, x)}}

----------------------------------------------------------------------------
(***************************************************************************)
(* The admission: suggestRepayments, resolveRepaymentEndpoints and         *)
(* buildAdmissionPayload read outside the write scope.  How the amount is  *)
(* split is left open; validateAllocationPlan bounds it.                   *)
(***************************************************************************)
Remaining(store, i, e) ==
    Amount[e] - MapThenSumSet(LAMBDA p : Cents(store[p]),
                              OfExpense(e) \ {<<i, e>>})
PlanFits(store, i, plan) ==
    /\ \A e \in Expenses : plan[e] > 0 => plan[e] <= Remaining(store, i, e)
    /\ MapThenSumSet(LAMBDA e : plan[e], Expenses) <= Amount[i]
AmbiguousFor(i, plan) ==
    \E e \in Expenses : plan[e] > 0 /\ AmbiguousAround(<<i, e>>, TRUE)

Prepare(i, plan, linkOwned) ==
    /\ i \in Owed /\ offer[i] = NoOffer
    /\ row[i] # "gone" /\ i \notin filed
    /\ \A p \in OfInflow(i) : links[p] = NoLink
    /\ \A e \in Expenses : plan[e] > 0 => row[e] = "same"
    /\ PlanFits(links, i, plan) /\ ~AmbiguousFor(i, plan)
    /\ LET ids == {i} \cup {e \in Expenses : plan[e] > 0}
       IN  ids \cap (RepayOwnedIds \cup linkOwned \cup claimed) = {}
    /\ offer' = [offer EXCEPT ![i] =
                   [plan |-> plan, seen |-> row[i], links |-> links]]
    /\ UNCHANGED <<rsaga, audit, shared>>

Around(i, r) == OfInflow(i) \cup UNION {OfExpense(e) : e \in Planned(r)}

\* confirm: the plan is validated against the links the admission read.
ConfirmAllowed(i, linkOwned) ==
    LET ids == Ids(i, offer[i])
    IN  /\ ids \cap (HeldFor(i) \cup linkOwned) = {}
        /\ ~ClaimedFor(i, ids)
        /\ PlanFits(offer[i].links, i, offer[i].plan)

Confirm(i, linkOwned) ==
    /\ lane = Idle /\ offer[i] # NoOffer /\ ~RepayActive(i)
    /\ ConfirmAllowed(i, linkOwned)
    /\ rsaga' = [rsaga EXCEPT ![i] =
         [NoRepayment EXCEPT
            !.phase = "prepared", !.plan = offer[i].plan, !.seen = offer[i].seen,
            !.fresh = \A p \in Around(i, offer[i]) : offer[i].links[p] = links[p]]]
    /\ offer' = [offer EXCEPT ![i] = NoOffer]
    /\ Begin("confirm", RepayTag(i))
    /\ UNCHANGED <<links, row, filed, filedThere, claimed, left, audit>>

\* The request is refused, or its connection is lost before it.
Withdraw(i) ==
    /\ offer[i] # NoOffer
    /\ offer' = [offer EXCEPT ![i] = NoOffer]
    /\ UNCHANGED <<rsaga, audit, shared>>

----------------------------------------------------------------------------
(***************************************************************************)
(* drive.  The inflow must be as admitted but for its category, which must *)
(* be the old one before the update and Reimbursement after; every expense *)
(* must be as admitted.                                                    *)
(***************************************************************************)
InflowAsAdmitted(i) == row[i] = rsaga[i].seen
Verified(i) ==
    /\ InflowAsAdmitted(i) /\ i \in filed
    /\ \A e \in Planned(rsaga[i]) : row[e] = "same"

\* linksConverged and confirmationConverged
LinksConverged(i) ==
    \A e \in Planned(rsaga[i]) : Same(links[<<i, e>>], rsaga[i].plan[e])
Count(i) == Cardinality(Planned(rsaga[i]))
Confirmed(i) == audit[i] = Count(i)

\* What lets the drive go on from where it is; otherwise it throws.
Writable(i, e) ==
    links[<<i, e>>] = NoLink \/ Same(links[<<i, e>>], rsaga[i].plan[e])
Proceeds(i) ==
    CASE lane.at = "check" -> TRUE
      [] Phase(i) \in {"prepared", "sync_pending"} -> TRUE
      [] Phase(i) = "category_pending" ->
           InflowAsAdmitted(i)
      [] Phase(i) = "links_pending" /\ lane.at = "write" ->
           IF rsaga[i].done = Planned(rsaga[i]) THEN LinksConverged(i)
           ELSE \E e \in Planned(rsaga[i]) \ rsaga[i].done : Writable(i, e)
      [] Phase(i) = "confirmation_pending" ->
           Verified(i) /\ audit[i] \in {NoAudit, Count(i)}
      [] Phase(i) = "confirmation_applied" ->
           Verified(i) /\ LinksConverged(i) /\ Confirmed(i)
      [] OTHER -> Verified(i)

InPhase(i, phase, at) ==
    Driving(RepayTag(i), at) /\ Phase(i) = phase /\ Proceeds(i)
Checkpoint(i, phase) == rsaga' = [rsaga EXCEPT ![i].phase = phase]
OnlyRecord == UNCHANGED <<offer, audit, links, row, filed, filedThere,
                          claimed, left>>

Intend(i) ==
    /\ InPhase(i, "prepared", "drive")
    /\ Checkpoint(i, "category_pending") /\ UNCHANGED lane /\ OnlyRecord

\* updateTransaction, unless a former run did it.
File(i) ==
    /\ InPhase(i, "category_pending", "drive")
    /\ i \notin filed
    /\ filed' = filed \cup {i}
    /\ UNCHANGED <<repayVars, links, row, filedThere, claimed, lane, left>>

CategoryApplied(i) ==
    /\ InPhase(i, "category_pending", "drive")
    /\ i \in filed
    /\ Checkpoint(i, "category_applied") /\ UNCHANGED lane /\ OnlyRecord

LinksPending(i) ==
    /\ InPhase(i, "category_applied", "drive")
    /\ Checkpoint(i, "links_pending") /\ UNCHANGED lane /\ OnlyRecord

RevalidateLinks(i) ==
    /\ InPhase(i, "links_pending", "drive")
    /\ Goto("write")
    /\ UNCHANGED <<repayVars, links, row, filed, filedThere, claimed, left>>

\* Variant: an allocation named pending by a former run counts as written.
PutLinkOrSkip(i, e) ==
    /\ InPhase(i, "links_pending", "write")
    /\ e \in Planned(rsaga[i]) \ rsaga[i].done
    /\ Writable(i, e)
    /\ rsaga' = [rsaga EXCEPT ![i].pending = {e}]
    /\ links' = IF rsaga[i].pending # {} THEN links
                ELSE [links EXCEPT ![<<i, e>>] =
                        IF @ = NoLink THEN [cents |-> rsaga[i].plan[e], version |-> 1]
                        ELSE @]
    /\ Goto("check")
    /\ UNCHANGED <<offer, audit, row, filed, filedThere, claimed, left>>

\* applyLinks: for one allocation after the other a checkpoint names it
\* pending, the link is written, another checkpoint counts it.
PutLink(i, e) ==
    /\ InPhase(i, "links_pending", "write")
    /\ e \in Planned(rsaga[i]) \ rsaga[i].done
    /\ Writable(i, e)
    /\ rsaga' = [rsaga EXCEPT ![i].pending = {e}]
    /\ links' = [links EXCEPT ![<<i, e>>] =
         IF @ = NoLink THEN [cents |-> rsaga[i].plan[e], version |-> 1] ELSE @]
    /\ Goto("check")
    /\ UNCHANGED <<offer, audit, row, filed, filedThere, claimed, left>>
CountLink(i) ==
    /\ InPhase(i, "links_pending", "check")
    /\ rsaga' = [rsaga EXCEPT ![i].done = @ \cup rsaga[i].pending,
                              ![i].pending = {}]
    /\ Goto("write") /\ OnlyRecord

LinksApplied(i) ==
    /\ InPhase(i, "links_pending", "write")
    /\ rsaga[i].done = Planned(rsaga[i])
    /\ Checkpoint(i, "links_applied") /\ Goto("drive") /\ OnlyRecord

ConfirmationPending(i) ==
    /\ InPhase(i, "links_applied", "drive")
    /\ Checkpoint(i, IF Confirmed(i) THEN "confirmation_applied"
                                     ELSE "confirmation_pending")
    /\ UNCHANGED lane /\ OnlyRecord

\* applyConfirmationRecord throws when another number of allocations is on
\* record for the suggestion.
WriteAudit(i) ==
    /\ InPhase(i, "confirmation_pending", "drive")
    /\ audit' = [audit EXCEPT ![i] = Count(i)]
    /\ Goto("check")
    /\ UNCHANGED <<offer, rsaga, links, row, filed, filedThere, claimed, left>>
AuditApplied(i) ==
    /\ InPhase(i, "confirmation_pending", "check")
    /\ Checkpoint(i, "confirmation_applied") /\ Goto("drive") /\ OnlyRecord

SyncPending(i) ==
    /\ InPhase(i, "confirmation_applied", "drive")
    /\ Checkpoint(i, "sync_pending") /\ UNCHANGED lane /\ OnlyRecord

Waiting(i) ==
    /\ InPhase(i, "sync_pending", "drive")
    /\ DriveEnds
    /\ UNCHANGED <<repayVars, links, row, filed, filedThere, claimed, left>>

\* unresolved, or a conflict: the record stays where it is.
RepayRefused(i) ==
    /\ lane.now = RepayTag(i) /\ ~Proceeds(i)
    /\ DriveEnds
    /\ UNCHANGED <<repayVars, links, row, filed, filedThere, claimed, left>>

\* terminalizeSynced, after a synchronisation: the rows are verified once
\* more, the links are not.
Terminalize(i) ==
    /\ lane.at = "mark" /\ Phase(i) = "sync_pending" /\ Verified(i)
    /\ Checkpoint(i, "completed") /\ UNCHANGED lane /\ OnlyRecord

RepayStep ==
    \E i \in Inflows :
        \/ Intend(i) \/ File(i) \/ CategoryApplied(i) \/ LinksPending(i)
        \/ RevalidateLinks(i) \/ (\E e \in Expenses : PutLink(i, e))
        \/ CountLink(i) \/ LinksApplied(i) \/ ConfirmationPending(i)
        \/ WriteAudit(i) \/ AuditApplied(i) \/ SyncPending(i) \/ Waiting(i)
        \/ RepayRefused(i) \/ Terminalize(i)
=============================================================================
