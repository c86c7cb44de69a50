-------------------------- MODULE RequestAdmission --------------------------
(***************************************************************************)
(* One lane of the RequestAdmissionController of the dashboard              *)
(* (finance-dashboard/lib/request-admission.js): the counters that bound    *)
(* the requests pending and running in the lane, per traffic class and per  *)
(* principal, the queues of waiters, and the drain that runs when a ticket  *)
(* is released.  Each member of Slot is a client that sends one request     *)
(* after another.  The controller is single threaded, so every call is one  *)
(* action; a request that was let in continues in a later microtask, which  *)
(* is why the journal peek is an action of its own.                         *)
(*                                                                          *)
(* Times are left out: a waiter may give up (abort, wait timeout, age       *)
(* timeout) at any moment, and the bucket evicted from a full principal map *)
(* is any idle one instead of the least recently used idle one.             *)
(***************************************************************************)
EXTENDS Integers, Sequences, FiniteSets, SequencesExt

CONSTANTS
  Slot,               \* clients, each with at most one request in the lane
  Principal,          \* the sessions and tokens requests are accounted to
  Arrivals,           \* the requests that occur: [class, weight, peeks]
  Lane,               \* "mutation", "read" or "lightweight"
  GlobalPending, GlobalRunning, PrincipalPending, PrincipalRunning,
  MaxPendingDepth, MaxPrincipalEntries,
  ControlReserve, RecoveryReserve, CheapReserve

Class == {"ordinary", "control", "recovery", "cheap"}

ASSUME AdmissionAssumption ==
  /\ Lane \in {"mutation", "read", "lightweight"}
  /\ Arrivals \subseteq [class: Class, weight: Nat \ {0}, peeks: BOOLEAN]
  /\ GlobalRunning <= GlobalPending /\ PrincipalRunning <= PrincipalPending
  /\ GlobalRunning <= MaxPendingDepth

VARIABLES
  lane,     \* the lane's counters, buckets, queues and round-robin cursor
  req,      \* what each client's request is doing
  closed    \* closeAdmission was called
vars == <<lane, req, closed>>

\* laneLimits: the reserve of each class, where the lane has one.
ClassReserve ==
  CASE Lane = "mutation" -> [control |-> ControlReserve, recovery |-> RecoveryReserve]
    [] Lane = "read"     -> [control |-> ControlReserve, cheap |-> CheapReserve]
    [] OTHER             -> <<>>
\* Mutant: the reserves are not kept out of the ordinary capacity.
NothingReserved == GlobalPending
OrdinaryCap ==
  CASE Lane = "mutation" -> GlobalPending - ControlReserve - RecoveryReserve
    [] Lane = "read"     -> GlobalPending - ControlReserve - CheapReserve
    [] OTHER             -> GlobalPending

----------------------------------------------------------------------------
\* What the lane L still has room for.
ClassLimit(c) ==
  IF c = "ordinary" THEN OrdinaryCap
  ELSE IF c \in DOMAIN ClassReserve THEN ClassReserve[c] ELSE GlobalPending

CanAddRunning(L, c, w) ==
  IF c = "ordinary" THEN L.classRunning[c] + w <= GlobalRunning
  ELSE IF c \in DOMAIN ClassReserve /\ ClassReserve[c] > 0
       THEN L.classRunning[c] + w <= ClassReserve[c]
       ELSE L.globalRunning + w <= GlobalRunning

CanAdmitClass(L, c, w) == L.classPending[c] + L.classRunning[c] + w <= ClassLimit(c)

Bucket(L, p) == IF p \in DOMAIN L.buckets THEN L.buckets[p] ELSE [pending |-> 0, running |-> 0]

PrincipalCanPend(L, p, w) == Bucket(L, p).pending + w <= PrincipalPending
PrincipalCanRun(L, p, w)  == Bucket(L, p).running + w <= PrincipalRunning

CanQueue(L, p, c, w) ==
  /\ L.globalPending + w <= GlobalPending
  /\ CanAdmitClass(L, c, w)
  /\ PrincipalCanPend(L, p, w)
  /\ L.globalPending + L.globalRunning + w <= MaxPendingDepth


CanStartNow(L, p, c, w) ==
  CanQueue(L, p, c, w) /\ CanAddRunning(L, c, w) /\ PrincipalCanRun(L, p, w)

----------------------------------------------------------------------------
\* What the lane becomes.  Less is Math.max(0, n - w).
Less(n, w) == IF n > w THEN n - w ELSE 0

\* Mutant: an active bucket may be evicted.
EvictableAnyway(b) == b.pending >= 0
Evictable(b) == b.pending = 0 /\ b.running = 0

\* _touchPrincipalBucket: the lanes in which p has a bucket; none when the map
\* is full of active buckets and the request is refused.
Touched(L, p) ==
  LET known   == DOMAIN L.buckets
      With(K) == [q \in K \cup {p} |-> Bucket(L, q)]
  IN  IF p \in known THEN {L}
      ELSE IF Cardinality(known) < MaxPrincipalEntries
           THEN {[L EXCEPT !.buckets = With(known)]}
           ELSE {[L EXCEPT !.buckets = With(known \ {q})] :
                   q \in {k \in known : Evictable(L.buckets[k])}}

Reserved(L, p, c, w) ==
  [L EXCEPT !.globalPending      = @ + w,
            !.classPending[c]    = @ + w,
            !.buckets[p].pending = @ + w]

Promoted(L, p, c, w) ==
  [L EXCEPT !.globalPending = @ - w, !.classPending[c] = @ - w,
            !.globalRunning = @ + w, !.classRunning[c] = @ + w,
            !.buckets = [q \in DOMAIN @ |->
               IF q = p THEN [pending |-> @[q].pending - w, running |-> @[q].running + w]
               ELSE @[q]]]

PendingReleased(L, p, c, w) ==
  [L EXCEPT !.globalPending = Less(@, w), !.classPending[c] = Less(@, w),
            !.buckets = [q \in DOMAIN @ |->
               IF q = p THEN [@[q] EXCEPT !.pending = Less(@, w)] ELSE @[q]]]

RunningReleased(L, p, c, w) ==
  [L EXCEPT !.globalRunning = Less(@, w), !.classRunning[c] = Less(@, w),
            !.buckets = [q \in DOMAIN @ |->
               IF q = p THEN [@[q] EXCEPT !.running = Less(@, w)] ELSE @[q]]]


\* order is the insertion order of waitersByPrincipal and, kept in step with it,
\* rrPrincipals.
Enqueued(L, s, p) ==
  [L EXCEPT !.order = IF L.queue[p] = <<>> THEN Append(@, p) ELSE @,
            !.queue[p] = Append(@, s)]

\* _removeWaiter: a principal without waiters leaves the round, and the cursor
\* is reset only when it points past the end.
WaiterRemoved(L, s, p) ==
  LET left  == SelectSeq(L.queue[p], LAMBDA t : t # s)
      order == IF left = <<>> THEN SelectSeq(L.order, LAMBDA q : q # p) ELSE L.order
  IN  [L EXCEPT !.queue[p] = left, !.order = order,
                !.cursor = IF left = <<>> /\ @ >= Len(order) THEN 0 ELSE @]

\* A waiting request, as the drain sees it.
HeadOf(L, p)    == Head(L.queue[p])
CanPromote(L, s) == /\ CanAddRunning(L, req[s].class, req[s].weight)
                    /\ PrincipalCanRun(L, req[s].principal, req[s].weight)
Resolved(L, s)  == Promoted(WaiterRemoved(L, s, req[s].principal),
                            req[s].principal, req[s].class, req[s].weight)

\* _drainLaneForClass, repeated until it finds nobody.
RECURSIVE ClassDrained(_, _)
ClassDrained(L, c) ==
  LET able == {i \in DOMAIN L.order : /\ req[HeadOf(L, L.order[i])].class = c
                                      /\ CanPromote(L, HeadOf(L, L.order[i]))}
  IN  IF able = {} THEN L
      ELSE ClassDrained(Resolved(L, HeadOf(L, L.order[Min(able)])), c)

NextCursor(idx, n) == (idx + 1) % n

\* _drainLaneRoundRobin from the given number of fruitless looks.
RECURSIVE RoundRobin(_, _, _)
RoundRobin(L, scanned, maxScans) ==
  IF L.order = <<>> \/ scanned >= maxScans THEN L
  ELSE LET idx  == L.cursor % Len(L.order)
           s    == HeadOf(L, L.order[idx + 1])
           next == [L EXCEPT !.cursor = NextCursor(idx, Len(L.order))]
       IN  IF CanPromote(L, s) THEN RoundRobin(Resolved(next, s), 0, maxScans)
           ELSE RoundRobin(next, scanned + 1, maxScans)

\* Mutant: only the reserved classes are drained.
DrainedByClass(L) == ClassDrained(ClassDrained(ClassDrained(L, "control"), "recovery"), "cheap")

RECURSIVE Drained(_)
Drained(L) ==
  LET classes == ClassDrained(ClassDrained(ClassDrained(L, "control"), "recovery"), "cheap")
      round   == RoundRobin(classes, 0, Len(classes.order))
  IN  IF L.order = <<>> THEN L
      ELSE IF round.queue = L.queue THEN round ELSE Drained(round)

\* release: the ticket's class is the one the ticket was made with, or the one
\* it was converted to when the handler holds the ticket itself.
Released(L, s) ==
  Drained(RunningReleased(L, req[s].principal, req[s].ticketClass, req[s].weight))

\* _convertTrafficClass, applied to the running ticket of s.
Converted(L, s, c) ==
  [L EXCEPT !.classRunning[req[s].class] = Less(@, req[s].weight),
            !.classRunning[c] = @ + req[s].weight]
----------------------------------------------------------------------------
Idle == [st |-> "idle"]
Waiting == {s \in Slot : req[s].st = "waiting"}
Holding == {s \in Slot : req[s].st \in {"peeking", "running"}}

Init ==
  /\ lane = [globalPending |-> 0, globalRunning |-> 0,
             classPending |-> [c \in Class |-> 0], classRunning |-> [c \in Class |-> 0],
             buckets |-> <<>>, queue |-> [p \in Principal |-> <<>>],
             order |-> <<>>, cursor |-> 0]
  /\ req = [s \in Slot |-> Idle]
  /\ closed = FALSE

Started(r) == IF r.peeks THEN "peeking" ELSE "running"

\* The requests after the lane became L: those no longer queued were resolved,
\* with a copy of their ticket.
ReqAfter(L, was) ==
  [s \in Slot |->
     IF was[s].st = "waiting" /\ ~Contains(L.queue[was[s].principal], s)
     THEN [was[s] EXCEPT !.st = Started(was[s]), !.copied = TRUE]
     ELSE was[s]]

\* acquire, when the request starts at once.
AcquireNow(s, p, a) ==
  /\ ~closed /\ req[s] = Idle
  /\ CanStartNow(lane, p, a.class, a.weight)
  /\ \E L \in Touched(lane, p) :
       lane' = Promoted(Reserved(L, p, a.class, a.weight), p, a.class, a.weight)
  /\ req' = [req EXCEPT ![s] =
       [st |-> Started(a), principal |-> p, class |-> a.class, ticketClass |-> a.class,
        weight |-> a.weight, peeks |-> a.peeks, copied |-> FALSE]]
  /\ UNCHANGED closed

\* acquire, when the request has to wait.  (A request refused for lack of room,
\* or because admission is closed, changes nothing.)
AcquireLater(s, p, a) ==
  /\ ~closed /\ req[s] = Idle
  /\ ~CanStartNow(lane, p, a.class, a.weight)
  /\ CanQueue(lane, p, a.class, a.weight)
  /\ \E L \in Touched(lane, p) :
       lane' = Enqueued(Reserved(L, p, a.class, a.weight), s, p)
  /\ req' = [req EXCEPT ![s] =
       [st |-> "waiting", principal |-> p, class |-> a.class, ticketClass |-> a.class,
        weight |-> a.weight, peeks |-> a.peeks, copied |-> FALSE]]
  /\ UNCHANGED closed

\* A waiter aborts, or one of its timers fires.  Nobody is promoted.
Leave(s) ==
  /\ s \in Waiting
  /\ lane' = PendingReleased(WaiterRemoved(lane, s, req[s].principal),
                             req[s].principal, req[s].class, req[s].weight)
  /\ req' = [req EXCEPT ![s] = Idle]
  /\ UNCHANGED closed

\* acquireMutationWithJournalPeek, after the ticket: the key is known.
PeekKnown(s) ==
  /\ req[s].st = "peeking"
  /\ req' = [req EXCEPT ![s].st = "running"]
  /\ UNCHANGED <<lane, closed>>

\* Mutant: the running limit is not looked at again after the peek.
CanConvertByTotal(L, s) == CanAdmitClass(L, "ordinary", req[s].weight)

\* A new key may start only if an ordinary mutation may.
CanConvert(L, s) ==
  /\ CanAddRunning(L, "ordinary", req[s].weight)
  /\ CanAdmitClass(L, "ordinary", req[s].weight)

\* The handler of a request that waited holds a copy of its ticket: the class
\* is converted in the copy, while release reads the ticket.
ConvertedRequest(r) ==
  [r EXCEPT !.st = "running", !.class = "ordinary",
            !.ticketClass = IF r.copied THEN @ ELSE "ordinary"]

PeekNew(s) ==
  /\ req[s].st = "peeking"
  /\ CanConvert(lane, s)
  /\ lane' = Converted(lane, s, "ordinary")
  /\ req' = [req EXCEPT ![s] = ConvertedRequest(@)]
  /\ UNCHANGED closed

\* The journal cannot be read, or a new key finds no room: released and refused.
PeekRefused(s) ==
  /\ req[s].st = "peeking"
  /\ lane' = Released(lane, s)
  /\ req' = ReqAfter(lane', [req EXCEPT ![s] = Idle])
  /\ UNCHANGED closed

\* The handler returned, failed or found its client gone: ticket.release().
Finish(s) ==
  /\ req[s].st = "running"
  /\ lane' = Released(lane, s)
  /\ req' = ReqAfter(lane', [req EXCEPT ![s] = Idle])
  /\ UNCHANGED closed

\* closeAdmission rejects every waiter and every later request; the requests
\* that run keep their tickets.
RECURSIVE AllRejected(_, _)
AllRejected(L, S) ==
  IF S = {} THEN [L EXCEPT !.queue = [p \in Principal |-> <<>>], !.order = <<>>, !.cursor = 0]
  ELSE LET s == CHOOSE t \in S : TRUE
       IN  AllRejected(PendingReleased(L, req[s].principal, req[s].class, req[s].weight), S \ {s})

CloseAdmission ==
  /\ ~closed /\ closed' = TRUE
  /\ lane' = AllRejected(lane, Waiting)
  /\ req' = [s \in Slot |-> IF s \in Waiting THEN Idle ELSE req[s]]

Next ==
  \/ \E s \in Slot, p \in Principal, a \in Arrivals : AcquireNow(s, p, a) \/ AcquireLater(s, p, a)
  \/ \E s \in Slot : Leave(s) \/ PeekKnown(s) \/ PeekNew(s) \/ PeekRefused(s) \/ Finish(s)
  \/ CloseAdmission

Spec == Init /\ [][Next]_vars

----------------------------------------------------------------------------
Weight(S) == MapThenSumSet(LAMBDA s : req[s].weight, S)
OfClass(S, c) == {s \in S : req[s].class = c}
OfPrincipal(S, p) == {s \in S : req[s].principal = p}

BucketType == [pending : Nat, running : Nat]

\* The lane's state as the controller declares it (_createLaneState), with every
\* waiter in the queue of its principal and every queue in the round.
TypeOK ==
  /\ lane.globalPending \in 0..GlobalPending /\ lane.globalRunning \in Nat
  /\ lane.classPending \in [Class -> Nat] /\ lane.classRunning \in [Class -> Nat]
  /\ DOMAIN lane.buckets \subseteq Principal /\ Cardinality(DOMAIN lane.buckets) <= MaxPrincipalEntries
  /\ \A p \in DOMAIN lane.buckets : lane.buckets[p] \in BucketType
  /\ \A p \in Principal : Range(lane.queue[p]) = OfPrincipal(Waiting, p) /\ IsInjective(lane.queue[p])
  /\ IsInjective(lane.order) /\ Range(lane.order) = {p \in Principal : lane.queue[p] # <<>>}
  /\ \A s \in Slot : req[s].st \in {"idle", "waiting", "peeking", "running"}
  /\ closed \in BOOLEAN

\* The lane's totals and each principal's bucket count exactly the requests that
\* wait and run, through evictions of buckets, departures of waiters and
\* promotions: no release is lost and none is counted twice.
TotalsMatchRequests ==
  /\ lane.globalPending = Weight(Waiting) /\ lane.globalRunning = Weight(Holding)
  /\ \A c \in Class : lane.classPending[c] = Weight(OfClass(Waiting, c))
  /\ \A p \in Principal :
       Bucket(lane, p) = [pending |-> Weight(OfPrincipal(Waiting, p)),
                          running |-> Weight(OfPrincipal(Holding, p))]

\* Where no class is converted the running counter of each class is exact, too.
CountersMatchRequests ==
  /\ TotalsMatchRequests
  /\ \A c \in Class : lane.classRunning[c] = Weight(OfClass(Holding, c))

\* Nobody takes more than their share: what waits and runs in a class stays
\* under the class's limit, ordinary requests run within the running limit, and
\* a principal holds no more than its caps, however requests overtake waiters.
SharesHold ==
  /\ \A c \in Class : Weight(OfClass(Waiting \cup Holding, c)) <= ClassLimit(c)
  /\ Weight(OfClass(Holding, "ordinary")) <= GlobalRunning
  /\ \A p \in Principal : /\ Weight(OfPrincipal(Waiting, p)) <= PrincipalPending
                         /\ Weight(OfPrincipal(Holding, p)) <= PrincipalRunning

\* The reserve is a reserve: while fewer control requests than the reserve are
\* in the lane, a control request of a principal with room of its own starts at
\* once, whatever load of other classes fills the lane.
ControlStaysResponsive ==
  \A p \in Principal :
    /\ Weight(OfClass(Waiting \cup Holding, "control")) < ControlReserve
    /\ PrincipalCanPend(lane, p, 1) /\ PrincipalCanRun(lane, p, 1)
    => CanStartNow(lane, p, "control", 1)

NobodyPromotable ==
  \A i \in DOMAIN lane.order : ~CanPromote(lane, HeadOf(lane, lane.order[i]))

\* The drain is complete: after a release no principal's first waiter could have
\* been let in, although the class passes run first, the round starts at the
\* cursor, and the cursor skips a principal when the one before it leaves.
ReleaseDrainsLane ==
  [][(\E s \in Holding : req'[s] = Idle) => NobodyPromotable']_vars

\* A versioned mutation that turns out to be new runs as an ordinary one, and
\* ordinary mutations run within the running limit: what was read before the
\* peek does not let two new keys run where one may, and a peek that is refused
\* gives back what it held.
NewMutationsWithinRunningLimit ==
  /\ TotalsMatchRequests
  /\ Weight(OfClass(Holding, "ordinary")) <= GlobalRunning

\* Tests release every ticket and then assert that the lane's counters are back
\* at zero (assertCountersZero): a lane without requests has all its room.
IdleIsClear ==
  Waiting = {} /\ Holding = {} =>
    /\ lane.globalPending = 0 /\ lane.globalRunning = 0
    /\ \A c \in Class : lane.classPending[c] = 0 /\ lane.classRunning[c] = 0
=============================================================================
