------------------------- MODULE GracefulShutdown -------------------------
(***************************************************************************)
(* The end of the server's process: runGracefulShutdown and                *)
(* bindGracefulShutdownSignals (finance-dashboard/lib/graceful-shutdown.js)*)
(* with http-server-drain.js, the mutation queue (serial-queue.js), the    *)
(* admission of a mutation (request-admission-runtime.js) and the periodic *)
(* sync of server.js.  Clients keep connections open over several          *)
(* requests and may leave at any time; the queue's tasks run one by one.   *)
(*                                                                         *)
(* The lanes of the admission are in RequestAdmission, what shutdownApi    *)
(* does in ActualCoordinator; reads end by themselves or by the abort      *)
(* signal and are left out.                                                *)
(***************************************************************************)
EXTENDS Naturals, Sequences

CONSTANTS
    Clients,       \* each has one connection and one request at a time
    Sync,          \* the periodic sync's task in the queue
    MaxRequests,   \* bound: mutations the clients send
    MaxSyncs       \* bound: ticks of the sync timer

VARIABLES
    conn,          \* each client's connection
    request,       \* how far its request has come
    queue,         \* accepted tasks of the mutation queue that have not ended
    busy,          \* the head of the queue is running
    listening,     \* the HTTP server accepts connections
    admitting,     \* request admission is open
    closed,        \* the mutation queue's flag
    startup,       \* the initial load has not come to the sync timer yet
    timer,         \* the sync timer is set
    step,          \* what runGracefulShutdown awaits; "up" before a signal
    expired,       \* the total time is over
    code,          \* the exit code
    requests, syncs,
    cut            \* history: connections closed by the server under a request

web == <<conn, request, requests, cut>>
lane == <<queue, busy>>
gates == <<listening, admitting, closed>>
clock == <<startup, timer, syncs>>
course == <<step, expired, code>>
vars == <<conn, request, queue, busy, listening, admitting, closed, startup,
          timer, step, expired, code, requests, syncs, cut>>

Steps == {"up", "http", "drain", "actual", "exited"}
Requests == {"none", "arrived", "admitted", "queued", "served"}

TypeOK ==
    /\ conn \in [Clients -> {"none", "open", "closed"}]
    /\ request \in [Clients -> Requests]
    /\ queue \in Seq(Clients \cup {Sync})
    /\ busy \in BOOLEAN /\ (busy => queue # <<>>)
    /\ listening \in BOOLEAN /\ admitting \in BOOLEAN /\ closed \in BOOLEAN
    /\ startup \in BOOLEAN /\ timer \in BOOLEAN
    /\ step \in Steps /\ expired \in BOOLEAN /\ code \in {0, 1}
    /\ requests \in 0 .. MaxRequests /\ syncs \in 0 .. MaxSyncs
    /\ cut \subseteq Clients

Init ==
    /\ conn = [c \in Clients |-> "none"]
    /\ request = [c \in Clients |-> "none"]
    /\ queue = <<>> /\ busy = FALSE
    /\ listening = TRUE /\ admitting = TRUE /\ closed = FALSE
    /\ startup = TRUE /\ timer = FALSE
    /\ step = "up" /\ expired = FALSE /\ code = 0
    /\ requests = 0 /\ syncs = 0 /\ cut = {}

Running == step # "exited"

----------------------------------------------------------------------------
\* A client sends a mutation on its connection, or opens one for it.
Arrive(c) ==
    /\ Running /\ requests < MaxRequests
    /\ request[c] = "none"
    /\ conn[c] = "open" \/ (conn[c] = "none" /\ listening)
    /\ conn' = [conn EXCEPT ![c] = "open"]
    /\ request' = [request EXCEPT ![c] = "arrived"]
    /\ requests' = requests + 1
    /\ UNCHANGED <<lane, gates, clock, course, cut>>

\* acquire of request admission: a ticket, or a refusal once it is closed, or
\* when the client has left.
Admit(c) ==
    /\ Running /\ request[c] = "arrived"
    /\ request' = [request EXCEPT ![c] = IF admitting /\ conn[c] = "open"
                                         THEN "admitted" ELSE "served"]
    /\ UNCHANGED <<lane, gates, clock, course, conn, requests, cut>>

\* SerialQueue.run, after the body and the checks that await.
Enqueue(c) ==
    /\ Running /\ request[c] = "admitted"
    /\ IF closed \/ conn[c] # "open"
       THEN /\ request' = [request EXCEPT ![c] = "served"]
            /\ UNCHANGED queue
       ELSE /\ request' = [request EXCEPT ![c] = "queued"]
            /\ queue' = Append(queue, c)
    /\ UNCHANGED <<gates, clock, course, conn, requests, cut, busy>>

\* The queue starts its next task, and goes on when it has ended, well or not.
StartTask ==
    /\ Running /\ ~busy /\ queue # <<>>
    /\ busy' = TRUE
    /\ UNCHANGED <<web, gates, clock, course, queue>>

EndTask ==
    /\ Running /\ busy
    /\ busy' = FALSE /\ queue' = Tail(queue)
    /\ request' = [c \in Clients |-> IF c = Head(queue) THEN "served"
                                     ELSE request[c]]
    /\ UNCHANGED <<gates, clock, course, conn, requests, cut>>

\* The response is sent; the connection stays open.
Answer(c) ==
    /\ Running /\ request[c] = "served"
    /\ request' = [request EXCEPT ![c] = "none"]
    /\ UNCHANGED <<lane, gates, clock, course, conn, requests, cut>>

\* The client closes its connection; its handler goes on.
Leave(c) ==
    /\ Running /\ conn[c] = "open"
    /\ conn' = [conn EXCEPT ![c] = "closed"]
    /\ UNCHANGED <<lane, gates, clock, course, request, requests, cut>>

----------------------------------------------------------------------------
\* initApi and warmCache have ended: the sync timer is set, also when a signal
\* has come meanwhile.
StartupEnds ==
    /\ Running /\ startup
    /\ startup' = FALSE /\ timer' = TRUE
    /\ UNCHANGED <<web, lane, gates, course, syncs>>

\* periodicSync.
Tick ==
    /\ Running /\ timer /\ syncs < MaxSyncs
    /\ syncs' = syncs + 1
    /\ queue' = IF closed THEN queue ELSE Append(queue, Sync)
    /\ UNCHANGED <<web, gates, course, startup, timer, busy>>

----------------------------------------------------------------------------
\* The first SIGTERM or SIGINT: startShutdown up to its first await, the close
\* of the server.  Later signals get the same promise.
Signal ==
    /\ step = "up"
    /\ timer' = FALSE
    /\ admitting' = FALSE /\ closed' = TRUE /\ listening' = FALSE
    /\ step' = "http"
    /\ UNCHANGED <<web, lane, startup, syncs, expired, code>>

\* The total time is over.
Expire ==
    /\ step \notin {"up", "exited"} /\ ~expired
    /\ expired' = TRUE
    /\ UNCHANGED <<web, lane, gates, clock, step, code>>

Exit(with) == step' = "exited" /\ code' = with /\ UNCHANGED expired

\* forceCloseHttpConnections, and what exit does to sockets anyway.
CutAll ==
    /\ cut' = cut \cup {c \in Clients : conn[c] = "open" /\ request[c] # "none"}
    /\ conn' = [c \in Clients |-> IF conn[c] = "open" THEN "closed" ELSE conn[c]]
    /\ UNCHANGED <<request, requests>>

\* closeIdleConnections, every 50 ms.
SweepIdle(c) ==
    /\ step = "http" /\ conn[c] = "open" /\ request[c] = "none"
    /\ conn' = [conn EXCEPT ![c] = "closed"]
    /\ UNCHANGED <<lane, gates, clock, course, request, requests, cut>>

\* The callback of close: no connection is open.
HttpClosed ==
    /\ step = "http"
    /\ \A c \in Clients : conn[c] # "open"
    /\ IF expired THEN Exit(1) ELSE step' = "drain" /\ UNCHANGED <<expired, code>>
    /\ UNCHANGED <<web, lane, gates, clock>>

\* closeHttpServerWithTimeout gives up.
HttpTimesOut ==
    /\ step = "http" /\ expired
    /\ Exit(1) /\ CutAll
    /\ UNCHANGED <<lane, gates, clock>>

\* Mutant: only tasks that have been waiting are awaited.
DrainedEarly ==
    /\ step = "drain" /\ Len(queue) <= 1
    /\ IF expired THEN Exit(1) ELSE step' = "actual" /\ UNCHANGED <<expired, code>>
    /\ UNCHANGED <<web, lane, gates, clock>>

\* SerialQueue.drain: the tail has settled.
Drained ==
    /\ step = "drain" /\ queue = <<>>
    /\ IF expired THEN Exit(1) ELSE step' = "actual" /\ UNCHANGED <<expired, code>>
    /\ UNCHANGED <<web, lane, gates, clock>>

\* Its time is over, which is the shorter one of two.
DrainTimesOut ==
    /\ step = "drain" /\ queue # <<>>
    /\ Exit(1) /\ CutAll
    /\ UNCHANGED <<lane, gates, clock>>

\* shutdownApi returns, or throws.
ActualEnds ==
    /\ step = "actual"
    /\ \E with \in {0, 1} : Exit(with)
    /\ CutAll
    /\ UNCHANGED <<lane, gates, clock>>

\* hardCapTimer.
HardCap ==
    /\ step \notin {"up", "exited"} /\ expired
    /\ Exit(1) /\ CutAll
    /\ UNCHANGED <<lane, gates, clock>>

Client(c) ==
    Arrive(c) \/ Admit(c) \/ Enqueue(c) \/ Answer(c) \/ Leave(c) \/ SweepIdle(c)

Course ==
    \/ Signal \/ Expire \/ HttpClosed \/ HttpTimesOut
    \/ Drained \/ DrainTimesOut \/ ActualEnds \/ HardCap

Next ==
    \/ \E c \in Clients : Client(c)
    \/ StartTask \/ EndTask \/ StartupEnds \/ Tick
    \/ Course

Spec == Init /\ [][Next]_vars

\* Timers fire.  Nothing is asked of clients, tasks, Actual, or the drain.
Fairness == WF_vars(Expire) /\ WF_vars(HardCap)
FairSpec == Spec /\ Fairness

----------------------------------------------------------------------------
(***************************************************************************)
(* Properties.                                                             *)
(***************************************************************************)
\* While shutdownApi runs no mutation and no sync is waiting or running: not
\* that of a client that has left, nor one that came on an open connection.
ActualAlone ==
    step = "actual" => queue = <<>>

\* A clean exit has ended every accepted task and has answered every client
\* that stayed.
CleanExit ==
    step = "exited" /\ code = 0 => queue = <<>> /\ cut = {}

\* A signal ends the process, whatever clients, tasks and Actual do.
SignalEnds ==
    step = "http" ~> step = "exited"

=============================================================================
