------------------------- MODULE MCRequestAdmission -------------------------
(***************************************************************************)
(* Two lanes side by side: a behaviour is one of `part`, fixed at the      *)
(* start; the other lane stays empty.  Arrivals are those the routes of    *)
(* the dashboard produce.                                                  *)
(***************************************************************************)
EXTENDS RequestAdmission, TLC

VARIABLES part, mutations, mutationReq, mutationClosed

A(c, w, k) == [class |-> c, weight |-> w, peeks |-> k]

\* Cached and direct reads, pings and status reads, cache hits.
ReadArrivals == {A("ordinary", 1, FALSE), A("ordinary", 2, FALSE),
                 A("control", 1, FALSE), A("cheap", 1, FALSE)}
\* Versioned mutations, and the legacy routes without an idempotency key.
MutationArrivals == {A("recovery", 1, TRUE), A("ordinary", 1, FALSE)}

\* The mutation lane with its default limits.
Mutation == INSTANCE RequestAdmission WITH
    lane <- mutations, req <- mutationReq, closed <- mutationClosed,
    Arrivals <- MutationArrivals, Lane <- "mutation",
    GlobalPending <- 5, GlobalRunning <- 1, PrincipalPending <- 2, PrincipalRunning <- 1,
    MaxPendingDepth <- 5, MaxPrincipalEntries <- 2,
    ControlReserve <- 0, RecoveryReserve <- 2, CheapReserve <- 0

allVars == <<part, vars, mutations, mutationReq, mutationClosed>>

MCInit == part \in {"read", "mutation"} /\ Init /\ Mutation!Init

MCNext ==
    /\ UNCHANGED part
    /\ \/ part = "read" /\ Next /\ UNCHANGED <<mutations, mutationReq, mutationClosed>>
       \/ part = "mutation" /\ Mutation!Next /\ UNCHANGED vars

MCSpec == MCInit /\ [][MCNext]_allVars

SlotsAndPrincipals == Permutations(Slot) \cup Permutations(Principal)

\* At most the configured number of new mutations runs.
NewKeysWithinRunningLimit == Mutation!NewMutationsWithinRunningLimit

\* A mutation lane without requests has all its room.
IdleLaneIsClear == Mutation!IdleIsClear
=============================================================================
