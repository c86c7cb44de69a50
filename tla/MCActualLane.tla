----------------------------- MODULE MCActualLane -----------------------------
(***************************************************************************)
(* The coordinator, and the end of the process, side by side: a behaviour  *)
(* is one of `part`, fixed at the start; the other stays in its initial    *)
(* state.                                                                  *)
(***************************************************************************)
EXTENDS ActualCoordinator

CONSTANTS Clients, Sync, MaxRequests, MaxSyncs     \* GracefulShutdown

VARIABLES
    part,
    conn, request, mutations, busy, listening, admitting, mutationsClosed, startup,
    timer, step, expired, code, requests, syncs, cut

Calls3 == 1 .. 3

Shutdown == INSTANCE GracefulShutdown WITH
    queue <- mutations, closed <- mutationsClosed

ofShutdown == <<conn, request, mutations, busy, listening, admitting, mutationsClosed,
                startup, timer, step, expired, code, requests, syncs, cut>>
allVars == <<part, vars, ofShutdown>>

MCInit == part \in {"coordinator", "shutdown"} /\ Init /\ Shutdown!Init

MCNext ==
    /\ UNCHANGED part
    /\ \/ part = "coordinator" /\ Next /\ UNCHANGED ofShutdown
       \/ part = "shutdown" /\ Shutdown!Next /\ UNCHANGED vars

\* In its initial state neither component has a step that must be taken.
MCSpec == MCInit /\ [][MCNext]_allVars /\ Fairness /\ Shutdown!Fairness

\* While shutdownApi runs no mutation and no sync waits or runs, and a clean exit
\* has ended every accepted task and answered who stayed.
OrderlyShutdown == Shutdown!ActualAlone /\ Shutdown!CleanExit

\* Every call of the lane ends, and a signal ends the process, whatever clients,
\* tasks and Actual do.
EveryWaitEnds == EverythingEnds /\ Shutdown!SignalEnds
=============================================================================
