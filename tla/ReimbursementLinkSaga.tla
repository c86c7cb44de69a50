---------------------- MODULE ReimbursementLinkSaga -----------------------
(***************************************************************************)
(* finance-dashboard/lib/reimbursement-link-saga.js with the checks of     *)
(* reimbursement-link-admission.js: a request to link or to unlink a pair  *)
(* writes a record, revalidates both transactions, writes the store and    *)
(* ends the record.  What is left open is driven again by every recovery.  *)
(* A request's key names its record; the replies by key are the operation  *)
(* journal's business.                                                     *)
(***************************************************************************)
EXTENDS ReimbursementLinks

VARIABLE lsaga     \* the record of each key

NoRecord == [phase |-> "none"]
Tag(k) == <<"link", k>>

Pair(k) == <<lsaga[k].i, lsaga[k].e>>
LinkActive(k) == lsaga[k].phase \in {"prepared", "links-pending"}
LinkOwned(k) == IF LinkActive(k) THEN {lsaga[k].i, lsaga[k].e} ELSE {}

\* activeOwnedIds, assertAvailable: whatever the account.
LinkOwnedIds == UNION {LinkOwned(k) : k \in Keys}

\* The admission of a link finds both transactions in Actual, the expense in
\* the Reimbursement category.
Admissible(i, e) == row[i] # "gone" /\ row[e] = "same"

----------------------------------------------------------------------------
(***************************************************************************)
(* addReimbLink and deleteReimbLink.  "held" is what repayments own: both  *)
(* ask for every account first.                                            *)
(***************************************************************************)
Free(i, e, held) == {i, e} \cap (held \cup LinkOwnedIds \cup claimed) = {}

Record(action, i, e, cents, expected, same) ==
    [phase |-> "prepared", action |-> action, i |-> i, e |-> e,
     cents |-> cents, expected |-> expected, same |-> same,
     seen |-> row[i], filed |-> i \in filed]

\* link: an unchanged allocation is answered without a record.
Link(k, p, cents, expected, held) ==
    LET samePair == Ambiguous(links[p])
    IN  /\ lane = Idle /\ lsaga[k] = NoRecord
        /\ Free(p[1], p[2], held)
        /\ Admissible(p[1], p[2])
        /\ ~AmbiguousAround(p, samePair)
        /\ Fits(p, cents)
        /\ Buildable(links[p], cents, expected) /\ ~Same(links[p], cents)
        /\ lsaga' = [lsaga EXCEPT ![k] =
             Record("link", p[1], p[2], cents, expected, samePair)]
        /\ Begin("link", Tag(k))
        /\ UNCHANGED <<links, row, filed, filedThere, claimed, left>>

\* unlink: nothing but the existence of the link is asked beforehand.
Unlink(k, p, expected, held) ==
    /\ lane = Idle /\ lsaga[k] = NoRecord
    /\ Free(p[1], p[2], held)
    /\ links[p] # NoLink
    /\ lsaga' = [lsaga EXCEPT ![k] =
         Record("unlink", p[1], p[2], 0, expected, TRUE)]
    /\ Begin("link", Tag(k))
    /\ UNCHANGED <<links, row, filed, filedThere, claimed, left>>

----------------------------------------------------------------------------
(***************************************************************************)
(* drive.  assertExternalAvailable asks the other managers for the account *)
(* of the inflow; what it refuses, and what is no longer as admitted,      *)
(* leaves the record open.                                                 *)
(***************************************************************************)
DriveAllowed(k, heldFor) ==
    LET ids == {lsaga[k].i, lsaga[k].e}
    IN  ids \cap heldFor[lsaga[k].i] = {} /\ ~ClaimedFor(lsaga[k].i, ids)

\* revalidateLinkApply and the record it leads to.
LinkRevalidated(k) ==
    LET s == lsaga[k]
    IN  /\ Admissible(s.i, s.e)
        /\ row[s.i] = s.seen /\ (s.i \in filed) = s.filed
        /\ ~AmbiguousAround(Pair(k), s.same)
        /\ Fits(Pair(k), s.cents)
        /\ Buildable(links[Pair(k)], s.cents, s.expected)

\* revalidateUnlinkApply: both rows must be there even to remove a link.
UnlinkRevalidated(k) ==
    LET s == lsaga[k]
    IN  /\ row[s.i] # "gone" /\ row[s.e] # "gone"
        /\ links[Pair(k)] # NoLink =>
             /\ ~AmbiguousAround(Pair(k), TRUE)
             /\ ~Stale(links[Pair(k)], s.expected)

Applies(k, heldFor) ==
    /\ DriveAllowed(k, heldFor)
    /\ IF lsaga[k].action = "link" THEN LinkRevalidated(k)
                                   ELSE UnlinkRevalidated(k)

\* The checkpoint links-pending.
LinkPending(k, heldFor) ==
    /\ Driving(Tag(k), "drive") /\ LinkActive(k)
    /\ Applies(k, heldFor)
    /\ lsaga' = [lsaga EXCEPT ![k].phase = "links-pending"]
    /\ Goto("write")
    /\ UNCHANGED <<links, row, filed, filedThere, claimed, left>>

\* An unlink writes that checkpoint before it looks.
LinkRefused(k, heldFor) ==
    /\ Driving(Tag(k), "drive") /\ LinkActive(k)
    /\ ~Applies(k, heldFor)
    /\ \/ lsaga[k].action = "unlink" /\ DriveAllowed(k, heldFor)
          /\ lsaga' = [lsaga EXCEPT ![k].phase = "links-pending"]
       \/ (lsaga[k].action = "link" \/ ~DriveAllowed(k, heldFor))
          /\ UNCHANGED lsaga
    /\ DriveEnds
    /\ UNCHANGED <<links, row, filed, filedThere, claimed, left>>

\* applyLinkRecord or removeLinkRecord, and writeLinks.  Nobody else writes
\* the store in this scope since it was read.
WriteLink(k) ==
    /\ Driving(Tag(k), "write")
    /\ links' = [links EXCEPT ![Pair(k)] =
         IF lsaga[k].action = "link" THEN Built(@, lsaga[k].cents) ELSE NoLink]
    /\ Goto("check")
    /\ UNCHANGED <<lsaga, row, filed, filedThere, claimed, left>>

\* linkRecordConverged, and the terminal checkpoint.
EndLink(k) ==
    /\ Driving(Tag(k), "check")
    /\ lsaga' = [lsaga EXCEPT ![k].phase = "completed"]
    /\ DriveEnds
    /\ UNCHANGED <<links, row, filed, filedThere, claimed, left>>

LinkStep(heldFor) ==
    \E k \in Keys : \/ LinkPending(k, heldFor) \/ LinkRefused(k, heldFor)
                    \/ WriteLink(k) \/ EndLink(k)
=============================================================================
