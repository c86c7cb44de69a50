------------------------ MODULE ReimbursementLinks ------------------------
(***************************************************************************)
(* What the two sagas over reimbursement links share: the store            *)
(* reimbursement-links.json with the arithmetic of                         *)
(* finance-dashboard/lib/reimbursement-allocation.js, the transactions it  *)
(* joins, the ids other managers hold, and the coordinator's write scope,  *)
(* in which one request, recovery or synchronisation runs at a time.       *)
(*                                                                         *)
(* A link gives cents of an inflow to an expense.  A transaction is as its *)
(* snapshot was taken, edited, or gone; its amount is a constant.          *)
(***************************************************************************)
EXTENDS Integers, FiniteSets, FiniteSetsExt

CONSTANTS
    Inflows, Expenses,   \* transaction ids
    Amount,              \* absolute cents of each transaction
    Account,             \* the account each one is in
    Keys,                \* keys of link and unlink requests
    MaxTrouble,          \* bound: crashes, failing calls, edits from other
                         \* devices, losses of the local copy and claims of
                         \* other managers together
    NoTag                \* no saga

Txns  == Inflows \cup Expenses
Pairs == Inflows \X Expenses

ASSUME LinksAssumption ==
    /\ Inflows \cap Expenses = {}
    /\ IsFiniteSet(Txns) /\ MaxTrouble \in Nat
    /\ Amount \in [Txns -> Nat \ {0}] /\ DOMAIN Account = Txns

VARIABLES
    links,     \* the store: cents and version of each pair
    row,       \* what the local copy shows of each transaction
    filed,     \* inflows it has in the Reimbursement category
    filedThere,\* those the Actual server has there
    claimed,   \* ids a replacement or deletion saga owns
    lane,      \* the run in the write scope
    left       \* what remains of MaxTrouble

shared == <<links, row, filed, filedThere, claimed, lane, left>>

----------------------------------------------------------------------------
(***************************************************************************)
(* Links.  A legacy link carries no amount: nobody knows its cents, and it *)
(* blocks new links at both its ends.                                      *)
(***************************************************************************)
NoLink     == [cents |-> 0, version |-> 0]
LegacyLink == [cents |-> -1, version |-> 0]
Trusted(link)   == link.cents > 0
Ambiguous(link) == link.cents < 0

\* trustedLinkedCents, and the sums over one endpoint without one pair.
Cents(link) == IF Trusted(link) THEN link.cents ELSE 0
SumOver(S)  == MapThenSumSet(LAMBDA p : Cents(links[p]), S)
OfInflow(i)  == {p \in Pairs : p[1] = i}
OfExpense(e) == {p \in Pairs : p[2] = e}
At(p) == OfInflow(p[1]) \cup OfExpense(p[2])

\* assertLegacyAmbiguityAdmission
AmbiguousAround(p, samePair) ==
    \E q \in At(p) \ (IF samePair THEN {p} ELSE {}) : Ambiguous(links[q])

\* validateLinkCapacity
Fits(p, cents) ==
    /\ cents <= Amount[p[1]] - SumOver(OfInflow(p[1]) \ {p})
    /\ cents <= Amount[p[2]] - SumOver(OfExpense(p[2]) \ {p})

\* buildExplicitLinkRecord: refused for a version that is not the link's,
\* or for another amount without a version; unchanged for the same amount.
AnyVersion == -1
Stale(link, expected) ==
    link # NoLink /\ expected # AnyVersion /\ expected # link.version
Unversioned(link, cents, expected) ==
    Trusted(link) /\ link.cents # cents /\ expected = AnyVersion
Same(link, cents) == Trusted(link) /\ link.cents = cents
Buildable(link, cents, expected) ==
    ~Stale(link, expected) /\ ~Unversioned(link, cents, expected)
Built(link, cents) ==
    IF Same(link, cents) THEN link
    ELSE [cents |-> cents, version |-> link.version + 1]

----------------------------------------------------------------------------
(***************************************************************************)
(* The write scope.  A run drives the sagas in todo one after the other;   *)
(* a synchronisation then pushes the local copy and marks what it carried. *)
(***************************************************************************)
Idle == [job |-> "idle", todo |-> {}, now |-> NoTag, at |-> "drive"]
Driving(tag, at) == lane.now = tag /\ lane.at = at
Goto(at) == lane' = [lane EXCEPT !.at = at]
DriveEnds == lane' = [lane EXCEPT !.now = NoTag, !.at = "drive"]
Begin(job, tag) ==
    lane' = [Idle EXCEPT !.job = job, !.now = tag]

\* Two managers ask each other with the account of the request.  Deletion
\* and replacement sagas, and repayments, count for their own account only.
SameAccount(x, y) == Account[x] = Account[y]
ClaimedFor(x, ids) == \E y \in ids \cap claimed : SameAccount(x, y)

\* Rows change for everybody at once: an edit of another device comes with
\* a synchronisation, one of another manager in its own write scope.
Change(x, to) == row' = [row EXCEPT ![x] = to]
Drop(x) == links' = [p \in Pairs |-> IF x \in {p[1], p[2]}
                                     THEN NoLink ELSE links[p]]

LinksTypeOK ==
    /\ links \in [Pairs -> [cents : Int, version : Nat]]
    /\ row \in [Txns -> {"same", "edited", "gone"}]
    /\ filed \subseteq Inflows /\ filedThere \subseteq Inflows
    /\ claimed \subseteq Txns
    /\ lane.job \in {"idle", "link", "confirm", "sync"}
    /\ lane.at \in {"drive", "write", "check", "mark", "push"}
    /\ left \in 0 .. MaxTrouble
=============================================================================
