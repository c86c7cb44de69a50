------------------------ MODULE ReimbursementSagas ------------------------
(***************************************************************************)
(* Link and repayment sagas over one store of links, one local copy and    *)
(* one write scope, as dataModule.js puts them together: requests, the     *)
(* recovery of every saga before a synchronisation, other managers that    *)
(* hold ids, edits from other devices, crashes and failing calls.          *)
(***************************************************************************)
EXTENDS ReimbursementLinkSaga, RepaymentConfirmationSaga

CONSTANT FirstLinks    \* the stores the process may start with

vars == <<shared, lsaga, repayVars>>

Tags == {Tag(k) : k \in {k \in Keys : LinkActive(k)}}
        \cup {RepayTag(i) : i \in {i \in Inflows : RepayActive(i)}}
IsRepay(tag) == tag[1] = "repay"
HeldOf == [i \in Inflows |-> HeldFor(i)]
Spend == left > 0 /\ left' = left - 1

TypeOK ==
    /\ LinksTypeOK
    /\ \A i \in Inflows :
         /\ offer[i].plan \in [Expenses -> Nat]
         /\ rsaga[i].plan \in [Expenses -> Nat]
         /\ rsaga[i].done \subseteq Planned(rsaga[i])
    /\ audit \in [Inflows -> Int]
    /\ lane.todo \subseteq {Tag(k) : k \in Keys} \cup {RepayTag(i) : i \in Inflows}

Init ==
    /\ links \in FirstLinks
    /\ row = [x \in Txns |-> "same"]
    /\ filed = {} /\ filedThere = {}
    /\ claimed = {}
    /\ lane = Idle
    /\ left = MaxTrouble
    /\ lsaga = [k \in Keys |-> NoRecord]
    /\ offer = [i \in Inflows |-> NoOffer]
    /\ rsaga = [i \in Inflows |-> NoRepayment]
    /\ audit = [i \in Inflows |-> NoAudit]

----------------------------------------------------------------------------
\* Requests.
Versions(p) == {AnyVersion, links[p].version} \cup (0 .. links[p].version)
RequestLink ==
    \E k \in Keys, p \in Pairs :
        \/ \E cents \in 1 .. Amount[p[1]], expected \in Versions(p) :
             Link(k, p, cents, expected, RepayOwnedIds)
        \/ \E expected \in Versions(p) : Unlink(k, p, expected, RepayOwnedIds)
RequestRepayment ==
    \E i \in Inflows :
        \/ \E plan \in [Expenses -> 0 .. Amount[i]] :
             Prepare(i, plan, LinkOwnedIds)
        \/ Confirm(i, LinkOwnedIds)
        \/ Withdraw(i)

\* A request ends with its drive.
Answer ==
    /\ lane.job \in {"link", "confirm"} /\ lane.now = NoTag
    /\ lane' = Idle
    /\ UNCHANGED <<links, row, filed, filedThere, claimed, left, lsaga, repayVars>>

----------------------------------------------------------------------------
(***************************************************************************)
(* driveOperationalSagaRecovery, at the start of the process and before    *)
(* every synchronisation: repayments, then links, each on its own; then    *)
(* api.sync() and markSynced.                                              *)
(***************************************************************************)
StartSync ==
    /\ lane = Idle
    /\ lane' = [Idle EXCEPT !.job = "sync", !.todo = Tags]
    /\ UNCHANGED <<links, row, filed, filedThere, claimed, left, lsaga, repayVars>>

Pick(tag) ==
    /\ lane.job = "sync" /\ lane.now = NoTag /\ lane.at = "drive"
    /\ tag \in lane.todo
    /\ (\E t \in lane.todo : IsRepay(t)) => IsRepay(tag)
    /\ lane' = [lane EXCEPT !.now = tag, !.todo = @ \ {tag}]
    /\ UNCHANGED <<links, row, filed, filedThere, claimed, left, lsaga, repayVars>>

Pushing == lane.job = "sync" /\ lane.now = NoTag /\ lane.todo = {} /\ lane.at = "drive"
Push ==
    /\ Pushing
    /\ filedThere' = filed
    /\ Goto("mark")
    /\ UNCHANGED <<links, row, filed, claimed, left, lsaga, repayVars>>

EndSync ==
    /\ lane.at = "mark"
    /\ \A i \in Inflows : Phase(i) = "sync_pending" => ~Verified(i)
    /\ lane' = Idle
    /\ UNCHANGED <<links, row, filed, filedThere, claimed, left, lsaga, repayVars>>

----------------------------------------------------------------------------
(***************************************************************************)
(* What goes wrong, and who else writes.                                   *)
(***************************************************************************)
\* A call of the drive in progress fails.
Fail ==
    /\ lane.now # NoTag /\ Spend
    /\ DriveEnds
    /\ UNCHANGED <<links, row, filed, filedThere, claimed, lsaga, repayVars>>

\* The process dies; the local copy may have to be downloaded anew.
Crash ==
    /\ Spend
    /\ lane' = Idle
    /\ offer' = [i \in Inflows |-> NoOffer]
    /\ filed' \in {filed, filedThere}
    /\ UNCHANGED <<links, row, filedThere, claimed, lsaga, rsaga, audit>>

\* An edit of another device comes with the synchronisation.
Arrive(x, to) ==
    /\ Pushing /\ Spend
    /\ row[x] = "same"
    /\ Change(x, to)
    /\ UNCHANGED <<links, filed, filedThere, claimed, lane, lsaga, repayVars>>

\* Somebody takes a repayment out of the Reimbursement category.
Unfile(i) ==
    /\ lane = Idle /\ Spend
    /\ i \in filed
    /\ i \notin LinkOwnedIds \cup RepayOwnedIds \cup claimed
    /\ filed' = filed \ {i}
    /\ UNCHANGED <<links, row, filedThere, claimed, lane, lsaga, repayVars>>

\* A replacement or deletion saga starts on a transaction an automatic rule
\* found in its account, and later changes or deletes it.
Claim(x) ==
    /\ lane = Idle /\ Spend
    /\ row[x] = "same"
    /\ x \notin LinkOwnedIds \cup HeldFor(x) \cup claimed
    /\ claimed' = claimed \cup {x}
    /\ UNCHANGED <<links, row, filed, filedThere, lane, lsaga, repayVars>>
Release(x) ==
    /\ lane = Idle
    /\ x \in claimed
    /\ claimed' = claimed \ {x}
    /\ \/ Change(x, "edited") /\ UNCHANGED links
       \/ Change(x, "gone") /\ Drop(x)
    /\ UNCHANGED <<filed, filedThere, lane, left, lsaga, repayVars>>

Disturbance ==
    \/ Fail \/ Crash
    \/ \E x \in Txns : \/ \E to \in {"edited", "gone"} : Arrive(x, to)
                       \/ Claim(x)
    \/ \E i \in Inflows : Unfile(i)

Drive ==
    \/ LinkStep(HeldOf) /\ UNCHANGED repayVars
    \/ RepayStep /\ UNCHANGED lsaga
    \/ \E tag \in Tags : Pick(tag)
    \/ Push \/ EndSync \/ Answer

Next ==
    \/ RequestLink /\ UNCHANGED repayVars
    \/ RequestRepayment /\ UNCHANGED lsaga
    \/ Drive \/ StartSync \/ Disturbance
    \/ \E x \in Txns : Release(x)

\* A run that has begun goes on, the synchronisation comes round again and
\* again, and other managers end.
Spec == Init /\ [][Next]_vars
Fairness ==
    /\ WF_vars(Drive)
    /\ SF_vars(StartSync)
    /\ \A x \in Txns : SF_vars(Release(x))
LiveSpec == Spec /\ Fairness

----------------------------------------------------------------------------
\* No endpoint gives or receives more than it is worth, unless a repayment
\* was confirmed over links written since its admission.
OverCapacity ==
    \/ \E i \in Inflows : SumOver(OfInflow(i)) > Amount[i]
    \/ \E e \in Expenses : SumOver(OfExpense(e)) > Amount[e]
CapacityUnlessOvertaken ==
    (\A i \in Inflows : rsaga[i].fresh) => ~OverCapacity

\* A repayment completes only with its whole plan linked, the inflow filed,
\* here and on the server, and the confirmation on record.
CompletesWhole ==
    [][\A i \in Inflows :
         Phase(i) # "completed" /\ Phase(i)' = "completed" =>
            /\ \A e \in Planned(rsaga[i]) :
                 links[<<i, e>>].cents = rsaga[i].plan[e]
            /\ i \in filed \cap filedThere
            /\ audit[i] = Cardinality(Planned(rsaga[i]))]_vars

Thwarted(i) ==
    \/ ~InflowAsAdmitted(i)
    \/ Phase(i) \notin {"prepared", "category_pending"} /\ i \notin filed
    \/ \E e \in Planned(rsaga[i]) : row[e] # "same" \/ ~Writable(i, e)
    \/ audit[i] \notin {NoAudit, Count(i)}
Undisturbed(k) ==
    LET s == lsaga[k]
    IN  /\ row[s.i] = s.seen /\ Admissible(s.i, s.e) /\ (s.i \in filed) = s.filed
        /\ {s.i, s.e} \cap claimed = {}
Refusable(k) ==
    \/ ~Undisturbed(k) \/ Stale(links[Pair(k)], lsaga[k].expected)
    \/ AmbiguousAround(Pair(k), TRUE)

\* Every open record ends, however often a run fails or the process dies: a
\* repayment unless its transactions, its links or its suggestion were
\* changed, a link unless it may be refused.
AllEnded ==
    /\ \A i \in Owed : RepayActive(i) => Thwarted(i)
    /\ \A k \in Keys : LinkActive(k) => Refusable(k)
SagasEnd == <>[]AllEnded

\* REIMBURSEMENT_ALLOCATION.md: link and unlink requests run through the
\* saga for crash convergence.  An open record over unchanged transactions
\* that nobody else holds ends.
LinkSagasConverge ==
    \A k \in Keys : LinkActive(k) ~> (~LinkActive(k) \/ ~Undisturbed(k))

=============================================================================
