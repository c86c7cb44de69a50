-------------------------- MODULE ActualCoordinator --------------------------
(***************************************************************************)
(* The lane every use of the Actual ledger goes through                     *)
(* (finance-dashboard/lib/actual-coordinator.js over lib/serial-queue.js),  *)
(* the generation-scoped cache of HTTP reads beside it, and the callers:    *)
(* cached reads, journaled mutations (write, then sync, then invalidation), *)
(* sidecar mutations of projections, periodic syncs, the reconnect probe    *)
(* and the shutdown handoff.                                                *)
(*                                                                          *)
(* `ledger` numbers the states of what the loaders read, Actual's data and  *)
(* the sidecar files; a cached value is the number of the state it was      *)
(* computed from.  A call's deadline rejects its caller and leaves the task *)
(* in the queue, so a task may run after its caller went on.                *)
(***************************************************************************)
EXTENDS Integers, Sequences, FiniteSets

CONSTANTS
  Task,             \* calls of the coordinator, in the order they are made
  Kinds,            \* the kinds of call that occur
  Key,              \* cache keys
  ProbeKey,         \* the key the reconnect probe publishes (accounts)
  None,
  MaxFillAttempts   \* MAX_STALE_FILL_ATTEMPTS

AllKinds == {"cached", "mutation", "projection", "sync", "probe"}

ASSUME CoordinatorAssumption ==
  /\ Task \subseteq Nat
  /\ None \notin Task
  /\ Kinds \subseteq AllKinds
  /\ ProbeKey \in Key
  /\ MaxFillAttempts \in Nat \ {0}

VARIABLES
  ledger,       \* the state of the data the loaders read
  generation,
  cache,        \* the bound cache: an entry per key, or an absent one
  queue,        \* tasks accepted and not begun
  holder,       \* the task whose body runs in the lane
  task,         \* each call and its task
  closed,       \* the queue's closed flag
  shutdown,     \* "no", "draining", "running", "finalized" or "failed"
  acked,        \* history: the newest state a mutation was acknowledged for
  unannounced   \* history: a sync changed the data, failed, and nothing was
                \* invalidated since
vars == <<ledger, generation, cache, queue, holder, task, closed, shutdown, acked, unannounced>>

Absent == [gen |-> 0, value |-> 0, there |-> FALSE]
Entry(g, v) == [gen |-> g, value |-> v, there |-> TRUE]

\* readCacheEntry: an entry of another generation is as good as none.
Valid(k) == cache[k].there /\ cache[k].gen = generation

Init ==
  /\ ledger = 0 /\ generation = 0 /\ acked = 0
  /\ cache = [k \in Key |-> Absent]
  /\ queue = <<>> /\ holder = None
  /\ task = [t \in Task |->
       [st |-> "new", kind |-> "sync", keys |-> {}, awaited |-> FALSE, followUp |-> FALSE,
        gen |-> 0, value |-> 0, attempts |-> 0, floor |-> 0]]
  /\ closed = FALSE /\ shutdown = "no" /\ unannounced = FALSE

----------------------------------------------------------------------------
\* invalidateGeneration: the generation always advances; named keys are
\* deleted, or the whole cache.
Invalidate(K) ==
  /\ generation' = generation + 1
  /\ cache' = [k \in Key |-> IF K = {} \/ k \in K THEN Absent ELSE cache[k]]
  /\ unannounced' = FALSE
Uninvalidated == UNCHANGED <<generation, cache, unannounced>>

\* The keys a call is about: the one it reads, or those it invalidates.
Arguments(kind) ==
  CASE kind = "cached"     -> {{k} : k \in Key}
    [] kind = "projection" -> {{}, {ProbeKey}}
    [] OTHER               -> {{}}

TheKey(t) == CHOOSE k \in Key : task[t].keys = {k}

\* The task is over; what it worked with is gone.  The caller's promise settles,
\* unless its deadline rejected it before.
Over(t, st, v) ==
  [task EXCEPT ![t] = [@ EXCEPT !.st = st, !.awaited = FALSE, !.followUp = FALSE,
      !.gen = 0, !.attempts = 0, !.keys = {}, !.value = IF task[t].kind = "cached" THEN v ELSE 0]]
Answered(t, v) == Over(t, "done", v)
Rejected(t)    == Over(t, "failed", 0)

Calls(t, kind, K) ==
  [task[t] EXCEPT !.kind = kind, !.keys = K, !.awaited = TRUE,
                  !.floor = IF kind = "cached" THEN acked ELSE 0]

\* Calls are numbered in the order they are made.
IsNextCall(t) ==
  task[t].st = "new" /\ \A u \in Task : u < t => task[u].st # "new"

\* A cached read that hits is answered at once, whatever the lane does.
CallHits(t, k) ==
  /\ IsNextCall(t) /\ "cached" \in Kinds
  /\ Valid(k)
  /\ task' = [task EXCEPT ![t] =
       [Calls(t, "cached", {}) EXCEPT !.st = "done", !.awaited = FALSE, !.value = cache[k].value]]
  /\ UNCHANGED <<ledger, generation, cache, queue, holder, closed, shutdown, acked, unannounced>>

\* Any other call is queued, or refused once the lane is closed.
Call(t, kind, K) ==
  /\ IsNextCall(t)
  /\ kind = "cached" => \A k \in K : ~Valid(k)
  /\ IF closed
     THEN /\ task' = [task EXCEPT ![t] = [Calls(t, kind, {}) EXCEPT !.st = "failed", !.awaited = FALSE]]
          /\ UNCHANGED queue
     ELSE /\ task' = [task EXCEPT ![t] = [Calls(t, kind, K) EXCEPT !.st = "queued"]]
          /\ queue' = Append(queue, t)
  /\ UNCHANGED <<ledger, generation, cache, holder, closed, shutdown, acked, unannounced>>

\* The deadline passes: the caller is rejected, the task stays where it is.
Deadline(t) ==
  /\ task[t].st \notin {"new", "finishing", "done", "failed"} /\ task[t].awaited
  /\ task' = [task EXCEPT ![t].awaited = FALSE]
  /\ UNCHANGED <<ledger, generation, cache, queue, holder, closed, shutdown, acked, unannounced>>

\* Mutant: only the handler invalidates.
NobodyInvalidatesBefore(kind) == FALSE

\* runWrite invalidates before its body; a projection's write does not, nor do
\* reads and recoveries.
InvalidatesBefore(kind) == kind = "mutation"

FirstStep(kind) ==
  CASE kind = "cached"                    -> "rehit"
    [] kind = "probe"                     -> "read"
    [] kind \in {"mutation", "projection"} -> "mutate"
    [] OTHER                              -> "pull"

\* The queue starts its next task when the one before it has settled.
Enter(t) ==
  /\ holder = None /\ queue # <<>> /\ Head(queue) = t
  /\ holder' = t /\ queue' = Tail(queue)
  /\ task' = [task EXCEPT ![t] = [@ EXCEPT !.st = FirstStep(task[t].kind),
                  !.attempts = 0]]
  /\ IF InvalidatesBefore(task[t].kind) THEN Invalidate({}) ELSE Uninvalidated
  /\ UNCHANGED <<ledger, closed, shutdown, acked>>

\* Mutant: a nested call waits for the lane.
NestedQueues(t) == holder = None

\* The nested calls of a body bypass the queue in the lane that is theirs.
NestedRuns(t) == holder = t

----------------------------------------------------------------------------
\* cachedRead's body.
Rehit(t) ==
  /\ task[t].st = "rehit"
  /\ LET k == TheKey(t) IN
       IF Valid(k)
       THEN holder' = None /\ task' = Answered(t, cache[k].value)
       ELSE /\ task' = [task EXCEPT ![t] = [@ EXCEPT !.st = "read",
                            !.gen = generation, !.attempts = task[t].attempts + 1]]
            /\ UNCHANGED holder
  /\ UNCHANGED <<ledger, generation, cache, queue, closed, shutdown, acked, unannounced>>

\* The loader, a nested read of the lane.
ReadSource(t) ==
  /\ task[t].st = "read" /\ NestedRuns(t)
  /\ task' = [task EXCEPT ![t] = [@ EXCEPT !.st = "publish", !.value = ledger]]
  /\ UNCHANGED <<ledger, generation, cache, queue, holder, closed, shutdown, acked, unannounced>>

LoaderFails(t) ==
  /\ task[t].st = "read" /\ NestedRuns(t)
  /\ holder' = None /\ task' = Rejected(t)
  /\ UNCHANGED <<ledger, generation, cache, queue, closed, shutdown, acked, unannounced>>

\* publishCacheEntry accepts a value whose generation is still current.
Current(t) == task[t].gen = generation

PublishFill(t) ==
  /\ task[t].st = "publish" /\ task[t].kind = "cached"
  /\ Current(t)
  /\ cache' = [cache EXCEPT ![TheKey(t)] = Entry(task[t].gen, task[t].value)]
  /\ holder' = None /\ task' = Answered(t, task[t].value)
  /\ UNCHANGED <<ledger, generation, queue, closed, shutdown, acked, unannounced>>


\* A discarded fill is answered by an entry published meanwhile, or computed
\* again, or given up.
DiscardFill(t) ==
  /\ task[t].st = "publish" /\ task[t].kind = "cached"
  /\ ~Current(t)
  /\ LET k == TheKey(t) IN
       CASE Valid(k) -> holder' = None /\ task' = Answered(t, cache[k].value)
         [] ~Valid(k) /\ task[t].attempts < MaxFillAttempts ->
              /\ task' = [task EXCEPT ![t] = [@ EXCEPT !.st = "read",
                              !.gen = generation, !.attempts = task[t].attempts + 1]]
              /\ UNCHANGED holder
         [] OTHER -> holder' = None /\ task' = Rejected(t)
  /\ UNCHANGED <<ledger, generation, cache, queue, closed, shutdown, acked, unannounced>>

\* The probe's snapshot replaces the whole cache, under the generation its own
\* invalidation made.
PublishProbe(t) ==
  /\ task[t].st = "publish" /\ task[t].kind = "probe"
  /\ generation' = generation + 1 /\ unannounced' = FALSE
  /\ cache' = [k \in Key |-> IF k = ProbeKey THEN Entry(generation + 1, task[t].value) ELSE Absent]
  /\ holder' = None /\ task' = Answered(t, task[t].value)
  /\ UNCHANGED <<ledger, queue, closed, shutdown, acked>>

----------------------------------------------------------------------------
\* Mutant: a write is acknowledged as soon as it is made.
MutateAndAnswer(t) ==
  /\ task[t].st = "mutate"
  /\ \/ /\ ledger' = ledger + 1 /\ acked' = ledger + 1
        /\ task' = [task EXCEPT ![t] = [@ EXCEPT !.st = "written",
                        !.value = ledger + 1]]
     \/ ledger' = ledger /\ task' = [task EXCEPT ![t].st = "thrown"] /\ UNCHANGED acked
  /\ UNCHANGED <<generation, cache, queue, holder, closed, shutdown, unannounced>>

\* The body of a write changes the data, or throws before it does.
Mutate(t) ==
  /\ task[t].st = "mutate"
  /\ \/ ledger' = ledger + 1 /\ task' = [task EXCEPT ![t] = [@ EXCEPT !.st = "written",
                                             !.value = ledger + 1]]
     \/ ledger' = ledger /\ task' = [task EXCEPT ![t].st = "thrown"]
  /\ UNCHANGED <<generation, cache, queue, holder, closed, shutdown, acked, unannounced>>

\* The lane is left after a journaled mutation's write.  If its handler still
\* waits it goes on to syncNow, a second call of the lane.
LeaveMutation(t) ==
  /\ task[t].kind = "mutation" /\ task[t].st \in {"written", "thrown"}
  /\ holder' = None
  /\ IF task[t].st = "written" /\ task[t].awaited /\ ~closed
     THEN /\ task' = [task EXCEPT ![t] = [@ EXCEPT !.st = "queued", !.kind = "sync",
                          !.followUp = TRUE]]
          /\ queue' = Append(queue, t)
     ELSE task' = Rejected(t) /\ UNCHANGED queue
  /\ UNCHANGED <<ledger, generation, cache, closed, shutdown, acked, unannounced>>

Acknowledge(v) == acked' = IF v > acked THEN v ELSE acked

\* runActualProjectionMutation: the write is followed by an invalidation,
\* whether it threw or not, before the lane is left.
LeaveProjection(t) ==
  /\ task[t].kind = "projection" /\ task[t].st \in {"written", "thrown"}
  /\ Invalidate(task[t].keys)
  /\ holder' = None
  /\ IF task[t].st = "written"
     THEN /\ task' = Answered(t, task[t].value)
          /\ IF task[t].awaited THEN Acknowledge(task[t].value) ELSE UNCHANGED acked
     ELSE task' = Rejected(t) /\ UNCHANGED acked
  /\ UNCHANGED <<ledger, queue, closed, shutdown>>

\* syncNow: recovering the sagas and pulling from the server change the data,
\* or find nothing new.
Pull(t) ==
  /\ task[t].st = "pull"
  /\ ledger' \in {ledger, ledger + 1}
  /\ task' = [task EXCEPT ![t].st = "pulled"]
  /\ UNCHANGED <<generation, cache, queue, holder, closed, shutdown, acked, unannounced>>

\* The sync succeeded: invalidated before the lane is left.  A handler that
\* waited for it goes on to invalidate once more.
SyncSucceeds(t) ==
  /\ task[t].st = "pulled"
  /\ Invalidate({})
  /\ holder' = None
  /\ task' = IF task[t].followUp /\ task[t].awaited
             THEN [task EXCEPT ![t].st = "finishing"] ELSE Answered(t, task[t].value)
  /\ UNCHANGED <<ledger, queue, closed, shutdown, acked>>

\* A saga that failed, or the connection, makes syncNow throw after the data
\* may have changed.
SyncFails(t) ==
  /\ task[t].st = "pulled"
  /\ holder' = None /\ task' = Rejected(t)
  /\ unannounced' = TRUE
  /\ UNCHANGED <<ledger, generation, cache, queue, closed, shutdown, acked>>

\* The handler of a mutation: invalidateHttpCache, outside the lane, and its
\* answer.
HandlerEnds(t) ==
  /\ task[t].st = "finishing"
  /\ Invalidate({})
  /\ task' = Answered(t, task[t].value)
  /\ Acknowledge(task[t].value)
  /\ UNCHANGED <<ledger, queue, holder, closed, shutdown>>

----------------------------------------------------------------------------
\* shutdownHandoff: admission stops, and the tasks accepted so far drain.
ShutdownHandoff ==
  /\ shutdown = "no"
  /\ shutdown' = "draining" /\ closed' = TRUE
  /\ UNCHANGED <<ledger, generation, cache, queue, holder, task, acked, unannounced>>

\* Mutant: the drain looks at the waiting tasks only.
QueueDrained == queue = <<>>

LaneDrained == queue = <<>> /\ holder = None

HandoffBegins ==
  /\ shutdown = "draining" /\ LaneDrained
  /\ shutdown' = "running"
  /\ UNCHANGED <<ledger, generation, cache, queue, holder, task, closed, acked, unannounced>>

DrainTimesOut ==
  /\ shutdown = "draining" /\ ~LaneDrained
  /\ shutdown' = "failed"
  /\ UNCHANGED <<ledger, generation, cache, queue, holder, task, closed, acked, unannounced>>

\* The last sync and api.shutdown, which succeed or not.
HandoffEnds ==
  /\ shutdown = "running"
  /\ shutdown' = "finalized"
  /\ ledger' \in {ledger, ledger + 1}
  /\ unannounced' = TRUE
  /\ UNCHANGED <<generation, cache, queue, holder, task, closed, acked>>

Body(t) ==
  \/ Rehit(t) \/ ReadSource(t) \/ LoaderFails(t)
  \/ PublishFill(t) \/ DiscardFill(t) \/ PublishProbe(t)
  \/ Mutate(t) \/ LeaveMutation(t) \/ LeaveProjection(t)
  \/ Pull(t) \/ SyncSucceeds(t) \/ SyncFails(t)

Next ==
  \/ \E t \in Task :
       \/ \E k \in Key : CallHits(t, k)
       \/ \E kind \in Kinds, K \in SUBSET Key : K \in Arguments(kind) /\ Call(t, kind, K)
       \/ Deadline(t) \/ Enter(t) \/ Body(t) \/ HandlerEnds(t)
  \/ ShutdownHandoff \/ HandoffBegins \/ DrainTimesOut \/ HandoffEnds

Spec == Init /\ [][Next]_vars

\* The event loop runs what is ready: queued tasks start, bodies and handlers
\* go on, and the handoff follows its drain.  Calls, deadlines and the decision
\* to shut down are not fair.
Fairness ==
  /\ \A t \in Task : WF_vars(Enter(t) \/ Body(t) \/ HandlerEnds(t))
  /\ WF_vars(HandoffBegins \/ HandoffEnds)

FairSpec == Spec /\ Fairness
----------------------------------------------------------------------------
BodySteps == {"rehit", "read", "publish", "mutate", "written", "thrown", "pull", "pulled"}

TypeOK ==
  /\ ledger \in Nat /\ generation \in Nat /\ acked \in Nat
  /\ cache \in [Key -> [gen : Nat, value : Nat, there : BOOLEAN]]
  /\ queue \in Seq(Task) /\ holder \in Task \cup {None}
  /\ task \in [Task -> [st : BodySteps \cup {"new", "queued", "finishing", "done", "failed"},
                       kind : AllKinds, keys : SUBSET Key, awaited : BOOLEAN,
                       followUp : BOOLEAN, gen : Nat, value : Nat,
                       attempts : 0..MaxFillAttempts, floor : Nat]]
  /\ closed \in BOOLEAN /\ unannounced \in BOOLEAN
  /\ shutdown \in {"no", "draining", "running", "finalized", "failed"}

\* The cache is never stale while the lane is free: what a hit would return was
\* computed from the present data, whoever wrote, timed out or was interrupted,
\* unless a sync failed after it had changed the data (see NeverStaleAfterSync).
FreshWhenFree ==
  holder = None /\ ~unannounced => \A k \in Key : Valid(k) => cache[k].value = ledger

\* A read that begins after a mutation was acknowledged sees it, whether it hits
\* the cache, fills it, or is answered by a fill that began before it.
ReadYourWrites ==
  \A t \in Task : task[t].kind = "cached" /\ task[t].st = "done" => task[t].value >= task[t].floor

\* Actual has one user at a time: the body that holds the lane, although its
\* caller may be long gone at a deadline, or the handoff, from whose beginning
\* on no accepted task waits or runs.
OneUserOfActual ==
  /\ \A t \in Task : task[t].st \in BodySteps <=> holder = t
  /\ shutdown \in {"running", "finalized"} => queue = <<>> /\ holder = None

\* Every queued call comes to an end: nested calls never wait for the lane their
\* own body holds, and a body that throws frees it.  So does the handoff, which
\* runs or times out.
EverythingEnds ==
  <>[](/\ \A t \in Task : task[t].st # "queued"
       /\ shutdown # "draining")
=============================================================================
