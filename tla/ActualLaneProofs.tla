--------------------------- MODULE ActualLaneProofs ---------------------------
(***************************************************************************)
(* Proofs about the lane of Actual and the end of the process: for every   *)
(* number of calls, every set of cache keys and every limit on repeated    *)
(* fills, and for every set of clients and any number of requests.         *)
(***************************************************************************)
EXTENDS MCActualLane, TLAPS

States == BodySteps \cup {"new", "queued", "finishing", "done", "failed"}

CallRecord == [st : States, kind : AllKinds, keys : SUBSET Key, awaited : BOOLEAN,
               followUp : BOOLEAN, gen : Nat, value : Nat,
               attempts : 0..MaxFillAttempts, floor : Nat]

(***************************************************************************)
(* The inductive invariant.  What waits is accepted and waits once         *)
(* (QueueIsAccepted); a body is in a state of its kind (StepsFitKinds);    *)
(* no value is newer than the data, no entry newer than the generation,    *)
(* and no hit older than what was acknowledged (ValuesAreBounded); a value *)
(* about to be published is the present one, the cache is empty under a    *)
(* mutation, and fresh under a read or a probe (LaneIsFresh).  Freshness   *)
(* of the free lane alone is not inductive: it has to survive the bodies   *)
(* of all kinds.                                                           *)
(***************************************************************************)
QueueIsAccepted ==
    /\ \A i \in 1..Len(queue) : task[queue[i]].st = "queued"
    /\ \A i, j \in 1..Len(queue) : queue[i] = queue[j] => i = j

LaneHasOneUser ==
    /\ OneUserOfActual
    /\ shutdown # "no" => closed

StepFitsKind(c) ==
    /\ c.st = "rehit" => c.kind = "cached" /\ c.attempts = 0
    /\ c.st \in {"read", "publish"} => c.kind \in {"cached", "probe"}
    /\ c.st \in {"mutate", "written", "thrown"} => c.kind \in {"mutation", "projection"}
    /\ c.st \in {"pull", "pulled", "finishing"} => c.kind = "sync"
    /\ c.kind = "cached" /\ c.st \in {"queued", "rehit", "read", "publish"}
         => \E k \in Key : c.keys = {k}

StepsFitKinds == \A t \in Task : StepFitsKind(task[t])

ValuesAreBounded ==
    /\ acked <= ledger
    /\ \A t \in Task : task[t].value <= ledger
    /\ \A t \in Task : task[t].kind = "cached" => task[t].floor <= acked
    /\ \A k \in Key : /\ cache[k].value <= ledger
                      /\ cache[k].gen <= generation
                      /\ Valid(k) => acked <= cache[k].value

LaneIsFresh ==
    /\ \A t \in Task : task[t].st = "publish" => task[t].value = ledger
    /\ holder # None /\ task[holder].kind = "mutation" => \A k \in Key : ~Valid(k)
    /\ ~unannounced /\ (holder = None \/ task[holder].kind \in {"cached", "probe"})
         => \A k \in Key : Valid(k) => cache[k].value = ledger

IInv == TypeOK /\ QueueIsAccepted /\ LaneHasOneUser /\ StepsFitKinds
          /\ ValuesAreBounded /\ LaneIsFresh /\ ReadYourWrites

-----------------------------------------------------------------------------
LEMMA CallsAreRecords ==
    ASSUME TypeOK
    PROVE  task \in [Task -> CallRecord]
BY DEF TypeOK, CallRecord, States

LEMMA KeyOfCached ==
    ASSUME NEW t, \E k \in Key : task[t].keys = {k}
    PROVE  TheKey(t) \in Key
BY DEF TheKey

\* What a step of one call leaves of the others.
Only(t) == \A u \in Task \ {t} : task'[u] = task[u]

\* A call that is over.
LEMMA OverShape ==
    ASSUME TypeOK, NEW t \in Task, NEW st \in {"done", "failed"}, NEW v \in Nat,
           task' = Over(t, st, v)
    PROVE  /\ task' \in [Task -> CallRecord]
           /\ Only(t)
           /\ task'[t].st = st
           /\ task'[t].kind = task[t].kind
           /\ task'[t].floor = task[t].floor
           /\ task'[t].value = IF task[t].kind = "cached" THEN v ELSE 0
<1>1. task \in [Task -> CallRecord]
  BY CallsAreRecords
<1>2. task[t] \in CallRecord
  BY <1>1
<1> DEFINE c == task[t]
           w == IF c.kind = "cached" THEN v ELSE 0
           r == [c EXCEPT !.st = st, !.awaited = FALSE, !.followUp = FALSE,
                   !.gen = 0, !.attempts = 0, !.keys = {}, !.value = w]
<1>3. /\ r \in CallRecord /\ r.st = st /\ r.kind = c.kind /\ r.floor = c.floor
      /\ r.value = w
  <2> HIDE DEF c
  <2>1. c \in CallRecord /\ w \in Nat /\ 0 \in 0..MaxFillAttempts /\ st \in States
    BY <1>2, CoordinatorAssumption DEF c, CoordinatorAssumption, States
  <2> HIDE DEF w
  <2> QED BY <2>1 DEF CallRecord
<1>4. task' = [task EXCEPT ![t] = r]
  BY DEF Over
<1> HIDE DEF r
<1> QED BY <1>1, <1>3, <1>4 DEF Only

\* Every step of a body holds the lane.
LEMMA BodyHolds ==
    ASSUME IInv, NEW t \in Task, Body(t)
    PROVE  /\ holder = t /\ t # None /\ shutdown \notin {"running", "finalized"}
           /\ task[t].st \in BodySteps
           /\ \A u \in Task \ {t} : task[u].st \notin BodySteps
<1>1. task[t].st \in BodySteps
  BY DEF Body, Rehit, ReadSource, LoaderFails, PublishFill, DiscardFill, PublishProbe,
         Mutate, LeaveMutation, LeaveProjection, Pull, SyncSucceeds, SyncFails, BodySteps
<1> QED BY <1>1, CoordinatorAssumption
        DEF IInv, LaneHasOneUser, OneUserOfActual, CoordinatorAssumption

\* Nothing that waits has begun or has not been accepted.
LEMMA WaitingIsElsewhere ==
    ASSUME IInv, NEW t \in Task, task[t].st # "queued"
    PROVE  \A i \in 1..Len(queue) : queue[i] \in Task /\ queue[i] # t
<1>1. queue \in Seq(Task)
  BY DEF IInv, TypeOK
<1>2. \A i \in 1..Len(queue) : task[queue[i]].st = "queued"
  BY DEF IInv, QueueIsAccepted
<1> QED BY <1>1, <1>2

\* A body that leaves the lane and is over: what is left to show is about values.
LEMMA LeavingKeepsLane ==
    ASSUME IInv, NEW t \in Task, Body(t), NEW st \in {"done", "failed"}, NEW v \in Nat,
           task' = Over(t, st, v), holder' = None, UNCHANGED <<queue, closed, shutdown>>
    PROVE  QueueIsAccepted' /\ LaneHasOneUser' /\ StepsFitKinds'
<1>1. /\ Only(t) /\ task'[t].st = st /\ st \notin BodySteps /\ st # "queued"
      /\ holder = t /\ t # None /\ task[t].st \in BodySteps
      /\ \A u \in Task \ {t} : task[u].st \notin BodySteps
  BY OverShape, BodyHolds DEF IInv, BodySteps
<1>2. QueueIsAccepted'
  <2>1. \A i \in 1..Len(queue) : queue[i] \in Task /\ queue[i] # t
    BY <1>1, WaitingIsElsewhere DEF BodySteps
  <2> QED BY <1>1, <2>1 DEF IInv, QueueIsAccepted, Only
<1>3. LaneHasOneUser'
  BY <1>1, CoordinatorAssumption DEF IInv, LaneHasOneUser, OneUserOfActual, Only,
     CoordinatorAssumption
<1>4. StepsFitKinds'
  <2> SUFFICES ASSUME NEW u \in Task PROVE StepFitsKind(task'[u])
    BY DEF StepsFitKinds
  <2>1. CASE u = t
    BY <2>1, <1>1 DEF StepFitsKind
  <2>2. CASE u # t
    BY <2>2, <1>1 DEF StepFitsKind, IInv, StepsFitKinds, Only
  <2> QED BY <2>1, <2>2
<1> QED BY <1>2, <1>3, <1>4

\* A body that goes on in the lane.
LEMMA StayingKeepsLane ==
    ASSUME IInv, NEW t \in Task, Body(t), Only(t), task'[t].st \in BodySteps,
           StepFitsKind(task'[t]), UNCHANGED <<queue, holder, closed, shutdown>>
    PROVE  QueueIsAccepted' /\ LaneHasOneUser' /\ StepsFitKinds'
<1>1. holder = t /\ task[t].st \in BodySteps
  BY BodyHolds
<1>2. QueueIsAccepted'
  <2>1. \A i \in 1..Len(queue) : queue[i] \in Task /\ queue[i] # t
    BY <1>1, WaitingIsElsewhere DEF BodySteps
  <2> QED BY <2>1 DEF IInv, QueueIsAccepted, Only
<1>3. LaneHasOneUser'
  BY <1>1 DEF IInv, LaneHasOneUser, OneUserOfActual, Only
<1>4. StepsFitKinds'
  <2> SUFFICES ASSUME NEW u \in Task PROVE StepFitsKind(task'[u])
    BY DEF StepsFitKinds
  <2>1. CASE u # t
    BY <2>1 DEF StepFitsKind, IInv, StepsFitKinds, Only
  <2> QED BY <2>1
<1> QED BY <1>2, <1>3, <1>4

\* The values and hits after a step of call t that leaves data and cache alone.
LEMMA DataKept ==
    ASSUME IInv, NEW t \in Task, Only(t), task'[t].value <= ledger,
           task'[t].kind = "cached" => task'[t].floor <= acked,
           UNCHANGED <<ledger, generation, cache, acked>>
    PROVE  /\ ValuesAreBounded'
           /\ \A k \in Key : Valid(k)' <=> Valid(k)
BY DEF IInv, ValuesAreBounded, Valid, Only

LEMMA AnswersKept ==
    ASSUME IInv, NEW t \in Task, Only(t),
           task'[t].kind = "cached" /\ task'[t].st = "done" => task'[t].value >= task'[t].floor
    PROVE  ReadYourWrites'
BY DEF IInv, ReadYourWrites, Only

\* The cached read's answer from a valid entry is as new as what it must see.
LEMMA HitIsNewEnough ==
    ASSUME IInv, NEW t \in Task, task[t].kind = "cached", NEW k \in Key, Valid(k)
    PROVE  /\ cache[k].value \in Nat /\ cache[k].value <= ledger
           /\ cache[k].value >= task[t].floor
<1>1. /\ cache[k].value \in Nat /\ acked \in Nat /\ task[t].floor \in Nat
  BY CallsAreRecords DEF IInv, TypeOK, CallRecord
<1>2. task[t].floor <= acked /\ acked <= cache[k].value /\ cache[k].value <= ledger
  BY DEF IInv, ValuesAreBounded
<1> QED BY <1>1, <1>2

-----------------------------------------------------------------------------
(***************************************************************************)
(* The bodies, one lemma per action.                                       *)
(***************************************************************************)
LEMMA RehitStep ==
    ASSUME IInv, NEW t \in Task, Rehit(t)
    PROVE  IInv'
<1> DEFINE k == TheKey(t)
<1>1. /\ task[t].st = "rehit" /\ task[t].kind = "cached" /\ task[t].attempts = 0
      /\ k \in Key /\ task[t] \in CallRecord /\ task \in [Task -> CallRecord]
      /\ \E l \in Key : task[t].keys = {l}
  BY KeyOfCached, CallsAreRecords DEF Rehit, IInv, StepsFitKinds, StepFitsKind
<1> HIDE DEF k
<1>2. Body(t) /\ UNCHANGED <<ledger, generation, cache, queue, closed, shutdown, acked, unannounced>>
  BY DEF Body, Rehit
<1>3. holder = t /\ t # None
  BY <1>2, BodyHolds
<1>4. CASE Valid(k)
  <2>1. holder' = None /\ task' = Over(t, "done", cache[k].value)
    BY <1>1, <1>4 DEF Rehit, Answered, k
  <2>2. cache[k].value \in Nat /\ cache[k].value <= ledger /\ cache[k].value >= task[t].floor
    BY <1>1, <1>4, HitIsNewEnough
  <2>3. /\ task' \in [Task -> CallRecord] /\ Only(t) /\ task'[t].st = "done"
        /\ task'[t].kind = "cached" /\ task'[t].floor = task[t].floor
        /\ task'[t].value = cache[k].value
    BY <1>1, <2>1, <2>2, OverShape DEF IInv
  <2>4. QueueIsAccepted' /\ LaneHasOneUser' /\ StepsFitKinds'
    BY <1>2, <2>1, <2>2, LeavingKeepsLane
  <2>5. /\ ValuesAreBounded'
        /\ \A l \in Key : Valid(l)' <=> Valid(l)
    BY <1>1, <1>2, <2>2, <2>3, DataKept DEF IInv, ValuesAreBounded
  <2>6. ReadYourWrites'
    BY <2>2, <2>3, AnswersKept
  <2>7. LaneIsFresh'
    BY <1>1, <1>2, <1>3, <2>1, <2>3, <2>5 DEF IInv, LaneIsFresh, Only
  <2>8. TypeOK'
    BY <1>2, <2>1, <2>3 DEF IInv, TypeOK, CallRecord, States
  <2> QED BY <2>4, <2>5, <2>6, <2>7, <2>8 DEF IInv
<1>5. CASE ~Valid(k)
  <2>1. /\ task' = [task EXCEPT ![t] = [@ EXCEPT !.st = "read", !.gen = generation,
                        !.attempts = task[t].attempts + 1]]
        /\ UNCHANGED holder
    BY <1>5 DEF Rehit, k
  <2>2. 1 \in 0..MaxFillAttempts /\ generation \in Nat
    BY CoordinatorAssumption DEF CoordinatorAssumption, IInv, TypeOK
  <2>3. /\ task' \in [Task -> CallRecord] /\ Only(t)
        /\ task'[t].st = "read" /\ task'[t].kind = "cached" /\ task'[t].keys = task[t].keys
        /\ task'[t].value = task[t].value /\ task'[t].floor = task[t].floor
    <3> DEFINE r == [task[t] EXCEPT !.st = "read", !.gen = generation,
                                    !.attempts = task[t].attempts + 1]
    <3>0. task[t].attempts + 1 \in 0..MaxFillAttempts
      BY <1>1, <2>2
    <3>1. /\ r \in CallRecord /\ r.st = "read" /\ r.kind = "cached" /\ r.keys = task[t].keys
          /\ r.value = task[t].value /\ r.floor = task[t].floor
      BY <1>1, <2>2, <3>0 DEF CallRecord, States, BodySteps
    <3>2. task' = [task EXCEPT ![t] = r]
      BY <2>1
    <3> HIDE DEF r
    <3> QED BY <1>1, <3>1, <3>2 DEF Only
  <2>4. QueueIsAccepted' /\ LaneHasOneUser' /\ StepsFitKinds'
    BY <1>1, <1>2, <2>1, <2>3, StayingKeepsLane DEF StepFitsKind, BodySteps
  <2>5. /\ ValuesAreBounded'
        /\ \A l \in Key : Valid(l)' <=> Valid(l)
    BY <1>1, <1>2, <2>3, DataKept DEF IInv, ValuesAreBounded
  <2>6. ReadYourWrites'
    BY <2>3, AnswersKept
  <2>7. LaneIsFresh'
    BY <1>1, <1>2, <1>3, <2>1, <2>3, <2>5 DEF IInv, LaneIsFresh, Only
  <2>8. TypeOK'
    BY <1>2, <2>1, <2>3 DEF IInv, TypeOK, CallRecord, States
  <2> QED BY <2>4, <2>5, <2>6, <2>7, <2>8 DEF IInv
<1> QED BY <1>4, <1>5

LEMMA ReadSourceStep ==
    ASSUME IInv, NEW t \in Task, ReadSource(t)
    PROVE  IInv'
<1>1. /\ task[t].st = "read" /\ task[t].kind \in {"cached", "probe"}
      /\ task[t] \in CallRecord /\ task \in [Task -> CallRecord] /\ ledger \in Nat
      /\ task[t].kind = "cached" => \E l \in Key : task[t].keys = {l}
  BY CallsAreRecords DEF ReadSource, IInv, TypeOK, StepsFitKinds, StepFitsKind
<1>2. /\ Body(t)
      /\ UNCHANGED <<ledger, generation, cache, queue, holder, closed, shutdown, acked, unannounced>>
      /\ task' = [task EXCEPT ![t] = [@ EXCEPT !.st = "publish", !.value = ledger]]
  BY DEF Body, ReadSource
<1>3. holder = t /\ t # None
  BY <1>2, BodyHolds
<1>4. /\ task' \in [Task -> CallRecord] /\ Only(t)
      /\ task'[t].st = "publish" /\ task'[t].kind = task[t].kind /\ task'[t].keys = task[t].keys
      /\ task'[t].value = ledger /\ task'[t].floor = task[t].floor
  BY <1>1, <1>2 DEF CallRecord, States, BodySteps, Only
<1>5. QueueIsAccepted' /\ LaneHasOneUser' /\ StepsFitKinds'
  BY <1>1, <1>2, <1>4, StayingKeepsLane DEF StepFitsKind, BodySteps
<1>6. /\ ValuesAreBounded'
      /\ \A l \in Key : Valid(l)' <=> Valid(l)
  BY <1>1, <1>2, <1>4, DataKept DEF IInv, ValuesAreBounded
<1>7. ReadYourWrites'
  BY <1>4, AnswersKept
<1>8. LaneIsFresh'
  BY <1>1, <1>2, <1>3, <1>4, <1>6 DEF IInv, LaneIsFresh, Only
<1>9. TypeOK'
  BY <1>2, <1>4 DEF IInv, TypeOK, CallRecord, States
<1> QED BY <1>5, <1>6, <1>7, <1>8, <1>9 DEF IInv

LEMMA LoaderFailsStep ==
    ASSUME IInv, NEW t \in Task, LoaderFails(t)
    PROVE  IInv'
<1>1. /\ task[t].kind \in {"cached", "probe"}
      /\ task[t] \in CallRecord /\ task \in [Task -> CallRecord] /\ ledger \in Nat
  BY CallsAreRecords DEF LoaderFails, IInv, TypeOK, StepsFitKinds, StepFitsKind
<1>2. /\ Body(t) /\ holder' = None /\ task' = Over(t, "failed", 0)
      /\ UNCHANGED <<ledger, generation, cache, queue, closed, shutdown, acked, unannounced>>
  BY DEF Body, LoaderFails, Rejected
<1>3. holder = t /\ t # None
  BY <1>2, BodyHolds
<1>4. /\ task' \in [Task -> CallRecord] /\ Only(t)
      /\ task'[t].st = "failed" /\ task'[t].kind = task[t].kind
      /\ task'[t].value = 0 /\ task'[t].floor = task[t].floor
  BY <1>2, OverShape DEF IInv
<1>5. QueueIsAccepted' /\ LaneHasOneUser' /\ StepsFitKinds'
  BY <1>2, LeavingKeepsLane
<1>6. /\ ValuesAreBounded'
      /\ \A l \in Key : Valid(l)' <=> Valid(l)
  BY <1>1, <1>2, <1>4, DataKept DEF IInv, ValuesAreBounded
<1>7. ReadYourWrites'
  BY <1>4, AnswersKept
<1>8. LaneIsFresh'
  BY <1>1, <1>2, <1>3, <1>4, <1>6 DEF IInv, LaneIsFresh, Only
<1>9. TypeOK'
  BY <1>2, <1>4 DEF IInv, TypeOK, CallRecord, States
<1> QED BY <1>5, <1>6, <1>7, <1>8, <1>9 DEF IInv

LEMMA PublishFillStep ==
    ASSUME IInv, NEW t \in Task, PublishFill(t)
    PROVE  IInv'
<1> DEFINE k == TheKey(t)
           v == task[t].value
<1>1. /\ task[t].st = "publish" /\ task[t].kind = "cached" /\ task[t].gen = generation
      /\ k \in Key /\ task[t] \in CallRecord /\ task \in [Task -> CallRecord]
      /\ ledger \in Nat /\ generation \in Nat /\ acked \in Nat /\ v = ledger
      /\ cache \in [Key -> [gen : Nat, value : Nat, there : BOOLEAN]]
  BY KeyOfCached, CallsAreRecords
     DEF PublishFill, Current, IInv, TypeOK, StepsFitKinds, StepFitsKind, LaneIsFresh
<1>2. /\ Body(t) /\ holder' = None /\ task' = Over(t, "done", v)
      /\ cache' = [cache EXCEPT ![k] = Entry(generation, ledger)]
      /\ UNCHANGED <<ledger, generation, queue, closed, shutdown, acked, unannounced>>
  BY <1>1 DEF Body, PublishFill, Answered
<1>3. holder = t /\ t # None
  BY <1>2, BodyHolds
<1>4. /\ task' \in [Task -> CallRecord] /\ Only(t)
      /\ task'[t].st = "done" /\ task'[t].kind = "cached"
      /\ task'[t].value = ledger /\ task'[t].floor = task[t].floor
  BY <1>1, <1>2, OverShape DEF IInv
<1>5. QueueIsAccepted' /\ LaneHasOneUser' /\ StepsFitKinds'
  BY <1>1, <1>2, LeavingKeepsLane
<1> HIDE DEF k, v
<1>6. /\ cache' \in [Key -> [gen : Nat, value : Nat, there : BOOLEAN]]
      /\ cache'[k].value = ledger /\ cache'[k].gen = generation
      /\ \A l \in Key \ {k} : cache'[l] = cache[l]
  BY <1>1, <1>2 DEF Entry
<1>7. acked <= ledger /\ task[t].floor <= acked
  BY <1>1 DEF IInv, ValuesAreBounded
<1>8. ValuesAreBounded'
  <2>1. \A u \in Task : /\ task'[u].value <= ledger
                        /\ task'[u].kind = "cached" => task'[u].floor <= acked
    BY <1>1, <1>4, <1>7 DEF IInv, ValuesAreBounded, Only
  <2>2. \A l \in Key : /\ cache'[l].value <= ledger /\ cache'[l].gen <= generation
                       /\ Valid(l)' => acked <= cache'[l].value
    BY <1>1, <1>2, <1>6, <1>7 DEF IInv, ValuesAreBounded, Valid
  <2> QED BY <1>2, <1>7, <2>1, <2>2 DEF ValuesAreBounded
<1>9. ReadYourWrites'
  <2>1. task[t].floor \in Nat
    BY <1>1 DEF CallRecord
  <2> QED BY <1>1, <1>4, <1>7, <2>1, AnswersKept
<1>10. LaneIsFresh'
  <2>1. \A u \in Task : task'[u].st = "publish" => task'[u].value = ledger
    BY <1>4 DEF IInv, LaneIsFresh, Only
  <2>2. ~unannounced => \A l \in Key : Valid(l)' => cache'[l].value = ledger
    BY <1>1, <1>2, <1>3, <1>6 DEF IInv, LaneIsFresh, Valid
  <2> QED BY <1>2, <2>1, <2>2 DEF LaneIsFresh
<1>11. TypeOK'
  BY <1>2, <1>4, <1>6 DEF IInv, TypeOK, CallRecord, States
<1> QED BY <1>5, <1>8, <1>9, <1>10, <1>11 DEF IInv

LEMMA DiscardFillStep ==
    ASSUME IInv, NEW t \in Task, DiscardFill(t)
    PROVE  IInv'
<1> DEFINE k == TheKey(t)
<1>1. /\ task[t].st = "publish" /\ task[t].kind = "cached"
      /\ k \in Key /\ task[t] \in CallRecord /\ task \in [Task -> CallRecord]
      /\ \E l \in Key : task[t].keys = {l}
  BY KeyOfCached, CallsAreRecords DEF DiscardFill, IInv, StepsFitKinds, StepFitsKind
<1> HIDE DEF k
<1>2. Body(t) /\ UNCHANGED <<ledger, generation, cache, queue, closed, shutdown, acked, unannounced>>
  BY DEF Body, DiscardFill
<1>3. holder = t /\ t # None
  BY <1>2, BodyHolds
<1>4. ASSUME NEW st \in {"done", "failed"}, NEW v \in Nat, v <= ledger,
             st = "done" => v >= task[t].floor,
             holder' = None, task' = Over(t, st, v)
      PROVE  IInv'
  <2>1. /\ task' \in [Task -> CallRecord] /\ Only(t) /\ task'[t].st = st
        /\ task'[t].kind = "cached" /\ task'[t].floor = task[t].floor
        /\ task'[t].value = v
    BY <1>1, <1>4, OverShape DEF IInv
  <2>2. QueueIsAccepted' /\ LaneHasOneUser' /\ StepsFitKinds'
    BY <1>2, <1>4, LeavingKeepsLane
  <2>3. /\ ValuesAreBounded'
        /\ \A l \in Key : Valid(l)' <=> Valid(l)
    BY <1>1, <1>2, <1>4, <2>1, DataKept DEF IInv, ValuesAreBounded
  <2>4. ReadYourWrites'
    BY <1>4, <2>1, AnswersKept
  <2>5. LaneIsFresh'
    BY <1>1, <1>2, <1>3, <1>4, <2>1, <2>3 DEF IInv, LaneIsFresh, Only
  <2>6. TypeOK'
    BY <1>2, <1>4, <2>1 DEF IInv, TypeOK, CallRecord, States
  <2> QED BY <2>2, <2>3, <2>4, <2>5, <2>6 DEF IInv
<1>5. CASE Valid(k)
  <2>1. holder' = None /\ task' = Over(t, "done", cache[k].value)
    BY <1>5 DEF DiscardFill, Answered, k
  <2>2. cache[k].value \in Nat /\ cache[k].value <= ledger /\ cache[k].value >= task[t].floor
    BY <1>1, <1>5, HitIsNewEnough
  <2> QED BY <2>1, <2>2, <1>4
<1>6. CASE ~Valid(k) /\ task[t].attempts < MaxFillAttempts
  <2>1. /\ task' = [task EXCEPT ![t] = [@ EXCEPT !.st = "read", !.gen = generation,
                        !.attempts = task[t].attempts + 1]]
        /\ UNCHANGED holder
    BY <1>6 DEF DiscardFill, k
  <2>2. task[t].attempts + 1 \in 0..MaxFillAttempts /\ generation \in Nat
    <3>1. task[t].attempts \in 0..MaxFillAttempts /\ generation \in Nat
      BY <1>1 DEF CallRecord, IInv, TypeOK
    <3>2. MaxFillAttempts \in Nat /\ task[t].attempts < MaxFillAttempts
      BY <1>6, CoordinatorAssumption DEF CoordinatorAssumption
    <3> QED BY <3>1, <3>2
  <2>3. /\ task' \in [Task -> CallRecord] /\ Only(t)
        /\ task'[t].st = "read" /\ task'[t].kind = "cached" /\ task'[t].keys = task[t].keys
        /\ task'[t].value = task[t].value /\ task'[t].floor = task[t].floor
    BY <1>1, <2>1, <2>2 DEF CallRecord, States, BodySteps, Only
  <2>4. QueueIsAccepted' /\ LaneHasOneUser' /\ StepsFitKinds'
    BY <1>1, <1>2, <2>1, <2>3, StayingKeepsLane DEF StepFitsKind, BodySteps
  <2>5. /\ ValuesAreBounded'
        /\ \A l \in Key : Valid(l)' <=> Valid(l)
    BY <1>1, <1>2, <2>3, DataKept DEF IInv, ValuesAreBounded
  <2>6. ReadYourWrites'
    BY <2>3, AnswersKept
  <2>7. LaneIsFresh'
    BY <1>1, <1>2, <1>3, <2>1, <2>3, <2>5 DEF IInv, LaneIsFresh, Only
  <2>8. TypeOK'
    BY <1>2, <2>1, <2>3 DEF IInv, TypeOK, CallRecord, States
  <2> QED BY <2>4, <2>5, <2>6, <2>7, <2>8 DEF IInv
<1>7. CASE ~Valid(k) /\ ~(task[t].attempts < MaxFillAttempts)
  <2>1. holder' = None /\ task' = Over(t, "failed", 0)
    BY <1>7 DEF DiscardFill, Rejected, k
  <2>2. 0 <= ledger
    BY DEF IInv, TypeOK
  <2> QED BY <2>1, <2>2, <1>4
<1> QED BY <1>5, <1>6, <1>7

LEMMA PublishProbeStep ==
    ASSUME IInv, NEW t \in Task, PublishProbe(t)
    PROVE  IInv'
<1> DEFINE v == task[t].value
<1>1. /\ task[t].st = "publish" /\ task[t].kind = "probe"
      /\ task[t] \in CallRecord /\ task \in [Task -> CallRecord]
      /\ ledger \in Nat /\ generation \in Nat /\ acked \in Nat /\ v = ledger
  BY CallsAreRecords DEF PublishProbe, IInv, TypeOK, LaneIsFresh
<1>2. /\ Body(t) /\ holder' = None /\ task' = Over(t, "done", v)
      /\ generation' = generation + 1 /\ unannounced' = FALSE
      /\ cache' = [k \in Key |-> IF k = ProbeKey THEN Entry(generation + 1, ledger) ELSE Absent]
      /\ UNCHANGED <<ledger, queue, closed, shutdown, acked>>
  BY <1>1 DEF Body, PublishProbe, Answered
<1>3. /\ task' \in [Task -> CallRecord] /\ Only(t)
      /\ task'[t].st = "done" /\ task'[t].kind = "probe"
      /\ task'[t].value = 0 /\ task'[t].floor = task[t].floor
  BY <1>1, <1>2, OverShape DEF IInv
<1>4. QueueIsAccepted' /\ LaneHasOneUser' /\ StepsFitKinds'
  BY <1>1, <1>2, LeavingKeepsLane
<1>5. /\ cache' \in [Key -> [gen : Nat, value : Nat, there : BOOLEAN]]
      /\ \A k \in Key : /\ cache'[k].value <= ledger /\ cache'[k].gen <= generation + 1
                        /\ cache'[k].there => cache'[k].value = ledger
  BY <1>1, <1>2 DEF Entry, Absent
<1>6. ValuesAreBounded'
  BY <1>1, <1>2, <1>3, <1>5 DEF IInv, ValuesAreBounded, Valid, Only
<1>7. ReadYourWrites'
  BY <1>3, AnswersKept
<1>8. LaneIsFresh'
  BY <1>2, <1>3, <1>5 DEF IInv, LaneIsFresh, Valid, Only
<1>9. TypeOK'
  <2>1. /\ generation' \in Nat /\ unannounced' = FALSE /\ holder' = None
        /\ UNCHANGED <<ledger, queue, closed, shutdown, acked>>
    BY <1>1, <1>2
  <2> QED BY <1>3, <1>5, <2>1 DEF IInv, TypeOK, CallRecord, States
<1> QED BY <1>4, <1>6, <1>7, <1>8, <1>9 DEF IInv

LEMMA MutateStep ==
    ASSUME IInv, NEW t \in Task, Mutate(t)
    PROVE  IInv'
<1>1. /\ task[t].st = "mutate" /\ task[t].kind \in {"mutation", "projection"}
      /\ task[t] \in CallRecord /\ task \in [Task -> CallRecord]
      /\ ledger \in Nat /\ acked \in Nat
  BY CallsAreRecords DEF Mutate, IInv, TypeOK, StepsFitKinds, StepFitsKind
<1>2. /\ Body(t)
      /\ UNCHANGED <<generation, cache, queue, holder, closed, shutdown, acked, unannounced>>
  BY DEF Body, Mutate
<1>3. holder = t /\ t # None /\ \A u \in Task \ {t} : task[u].st \notin BodySteps
  BY <1>2, BodyHolds
<1>4. /\ task' \in [Task -> CallRecord] /\ Only(t)
      /\ task'[t].st \in {"written", "thrown"} /\ task'[t].kind = task[t].kind
      /\ task'[t].value <= ledger' /\ ledger' \in Nat /\ ledger <= ledger'
  <2>1. CASE ledger' = ledger + 1
             /\ task' = [task EXCEPT ![t] = [@ EXCEPT !.st = "written",
                             !.value = ledger + 1]]
    <3> DEFINE r == [task[t] EXCEPT !.st = "written", !.value = ledger + 1]
    <3>1. ledger + 1 \in Nat /\ ledger + 1 <= ledger + 1 /\ ledger <= ledger + 1
      BY <1>1
    <3>2. /\ r \in CallRecord /\ r.st = "written" /\ r.kind = task[t].kind
          /\ r.value = ledger + 1
      BY <1>1, <3>1 DEF CallRecord, States, BodySteps
    <3>3. task' = [task EXCEPT ![t] = r]
      BY <1>1, <2>1
    <3> HIDE DEF r
    <3> QED BY <1>1, <2>1, <3>1, <3>2, <3>3 DEF Only
  <2>2. CASE ledger' = ledger /\ task' = [task EXCEPT ![t].st = "thrown"]
    BY <1>1, <2>2 DEF CallRecord, States, BodySteps, Only, IInv, ValuesAreBounded
  <2> QED BY <2>1, <2>2 DEF Mutate
<1>5. QueueIsAccepted' /\ LaneHasOneUser' /\ StepsFitKinds'
  BY <1>1, <1>2, <1>4, StayingKeepsLane DEF StepFitsKind, BodySteps
<1>6. ValuesAreBounded'
  <2>1. /\ acked <= ledger /\ acked \in Nat
        /\ \A k \in Key : cache[k].value \in Nat /\ cache[k].value <= ledger
        /\ \A u \in Task : task[u].value \in Nat /\ task[u].value <= ledger
    BY <1>1 DEF IInv, ValuesAreBounded, TypeOK, CallRecord
  <2>2. /\ acked <= ledger'
        /\ \A k \in Key : cache[k].value <= ledger'
        /\ \A u \in Task : task[u].value <= ledger'
    BY <1>1, <1>4, <2>1
  <2> QED BY <1>1, <1>2, <1>4, <2>2 DEF IInv, ValuesAreBounded, Valid, Only
<1>7. ReadYourWrites'
  BY <1>4, AnswersKept
<1>8. LaneIsFresh'
  <2>1. \A u \in Task : task'[u].st # "publish"
    BY <1>3, <1>4 DEF Only, BodySteps
  <2>2. \A k \in Key : Valid(k)' <=> Valid(k)
    BY <1>2 DEF Valid
  <2> QED BY <1>1, <1>2, <1>3, <1>4, <2>1, <2>2 DEF IInv, LaneIsFresh
<1>9. TypeOK'
  BY <1>2, <1>4 DEF IInv, TypeOK, CallRecord, States
<1> QED BY <1>5, <1>6, <1>7, <1>8, <1>9 DEF IInv

LEMMA PullStep ==
    ASSUME IInv, NEW t \in Task, Pull(t)
    PROVE  IInv'
<1>1. /\ task[t].st = "pull" /\ task[t].kind = "sync"
      /\ task[t] \in CallRecord /\ task \in [Task -> CallRecord]
      /\ ledger \in Nat /\ acked \in Nat
  BY CallsAreRecords DEF Pull, IInv, TypeOK, StepsFitKinds, StepFitsKind
<1>2. /\ Body(t)
      /\ task' = [task EXCEPT ![t].st = "pulled"] /\ ledger' \in {ledger, ledger + 1}
      /\ UNCHANGED <<generation, cache, queue, holder, closed, shutdown, acked, unannounced>>
  BY DEF Body, Pull
<1>3. holder = t /\ t # None /\ \A u \in Task \ {t} : task[u].st \notin BodySteps
  BY <1>2, BodyHolds
<1>4. /\ task' \in [Task -> CallRecord] /\ Only(t)
      /\ task'[t].st = "pulled" /\ task'[t].kind = "sync" /\ task'[t].value = task[t].value
      /\ ledger' \in Nat /\ ledger <= ledger'
  BY <1>1, <1>2 DEF CallRecord, States, BodySteps, Only
<1>5. QueueIsAccepted' /\ LaneHasOneUser' /\ StepsFitKinds'
  BY <1>1, <1>2, <1>4, StayingKeepsLane DEF StepFitsKind, BodySteps
<1>6. ValuesAreBounded'
  <2>1. /\ acked <= ledger /\ acked \in Nat
        /\ \A k \in Key : cache[k].value \in Nat /\ cache[k].value <= ledger
        /\ \A u \in Task : task[u].value \in Nat /\ task[u].value <= ledger
    BY <1>1 DEF IInv, ValuesAreBounded, TypeOK, CallRecord
  <2>2. /\ acked <= ledger'
        /\ \A k \in Key : cache[k].value <= ledger'
        /\ \A u \in Task : task[u].value <= ledger'
    BY <1>1, <1>4, <2>1
  <2> QED BY <1>1, <1>2, <1>4, <2>2 DEF IInv, ValuesAreBounded, Valid, Only
<1>7. ReadYourWrites'
  BY <1>4, AnswersKept
<1>8. LaneIsFresh'
  <2>1. \A u \in Task : task'[u].st # "publish"
    BY <1>3, <1>4 DEF Only, BodySteps
  <2> QED BY <1>2, <1>3, <1>4, <2>1 DEF LaneIsFresh
<1>9. TypeOK'
  BY <1>2, <1>4 DEF IInv, TypeOK, CallRecord, States
<1> QED BY <1>5, <1>6, <1>7, <1>8, <1>9 DEF IInv

\* An invalidation leaves no hit: named keys are gone, all others of the past.
LEMMA InvalidateShape ==
    ASSUME IInv, NEW K, Invalidate(K)
    PROVE  /\ generation' = generation + 1 /\ generation' \in Nat /\ unannounced' = FALSE
           /\ cache' \in [Key -> [gen : Nat, value : Nat, there : BOOLEAN]]
           /\ \A k \in Key : cache'[k].value <= ledger /\ cache'[k].gen <= generation'
           /\ \A k \in Key : ~Valid(k)'
<1>1. /\ cache \in [Key -> [gen : Nat, value : Nat, there : BOOLEAN]]
      /\ generation \in Nat /\ ledger \in Nat
      /\ \A k \in Key : cache[k].value <= ledger /\ cache[k].gen <= generation
  BY DEF IInv, TypeOK, ValuesAreBounded
<1>2. /\ generation' = generation + 1 /\ unannounced' = FALSE
      /\ \A k \in Key : cache'[k] = Absent \/ cache'[k] = cache[k]
      /\ cache' = [k \in Key |-> IF K = {} \/ k \in K THEN Absent ELSE cache[k]]
  BY DEF Invalidate
<1>3. Absent \in [gen : Nat, value : Nat, there : BOOLEAN] /\ ~Absent.there
      /\ Absent.value = 0 /\ Absent.gen = 0
  BY DEF Absent
<1>4. cache' \in [Key -> [gen : Nat, value : Nat, there : BOOLEAN]]
  BY <1>1, <1>2, <1>3
<1>5. \A k \in Key : cache'[k].value <= ledger /\ cache'[k].gen <= generation'
  BY <1>1, <1>2, <1>3
<1>6. \A k \in Key : ~Valid(k)'
  BY <1>1, <1>2, <1>3 DEF Valid
<1> QED BY <1>1, <1>2, <1>4, <1>5, <1>6

\* With no hit left there is nothing stale, whoever holds the lane.
LEMMA EmptyIsFresh ==
    ASSUME IInv, NEW t \in Task, Only(t), task'[t].value <= ledger,
           task'[t].st # "publish",
           task'[t].kind = "cached" => task'[t].floor <= acked',
           acked \in Nat, acked' \in Nat, acked <= acked', acked' <= ledger, UNCHANGED ledger,
           \A k \in Key : cache'[k].value <= ledger /\ cache'[k].gen <= generation',
           \A k \in Key : ~Valid(k)'
    PROVE  ValuesAreBounded' /\ LaneIsFresh'
<1>1. \A u \in Task : task'[u].kind = "cached" => task'[u].floor <= acked'
  <2> SUFFICES ASSUME NEW u \in Task, u # t, task[u].kind = "cached"
               PROVE  task[u].floor <= acked'
    BY DEF Only
  <2>1. task[u].floor \in Nat /\ task[u].floor <= acked
    BY CallsAreRecords DEF IInv, ValuesAreBounded, CallRecord
  <2> QED BY <2>1
<1>2. \A u \in Task : task'[u].value <= ledger
  BY DEF IInv, ValuesAreBounded, Only
<1>3. \A u \in Task : task'[u].st = "publish" => task'[u].value = ledger
  BY DEF IInv, LaneIsFresh, Only
<1> QED BY <1>1, <1>2, <1>3 DEF ValuesAreBounded, LaneIsFresh

LEMMA LeaveProjectionStep ==
    ASSUME IInv, NEW t \in Task, LeaveProjection(t)
    PROVE  IInv'
<1>1. /\ task[t].st \in {"written", "thrown"} /\ task[t].kind = "projection"
      /\ task[t] \in CallRecord /\ task \in [Task -> CallRecord]
      /\ task[t].value \in Nat /\ ledger \in Nat /\ acked \in Nat
      /\ task[t].value <= ledger /\ acked <= ledger
  BY CallsAreRecords DEF LeaveProjection, IInv, TypeOK, CallRecord, ValuesAreBounded
<1>2. /\ Body(t) /\ holder' = None /\ Invalidate(task[t].keys)
      /\ UNCHANGED <<ledger, queue, closed, shutdown>>
      /\ \E st \in {"done", "failed"}, v \in Nat : task' = Over(t, st, v)
      /\ acked' = acked \/ (acked' = task[t].value /\ acked < acked')
  BY <1>1 DEF Body, LeaveProjection, Answered, Rejected, Acknowledge
<1>3. holder = t /\ t # None
  BY <1>2, BodyHolds
<1>4. /\ generation' \in Nat /\ unannounced' = FALSE
      /\ cache' \in [Key -> [gen : Nat, value : Nat, there : BOOLEAN]]
      /\ \A k \in Key : cache'[k].value <= ledger /\ cache'[k].gen <= generation'
      /\ \A k \in Key : ~Valid(k)'
  BY <1>2, InvalidateShape
<1>5. /\ task' \in [Task -> CallRecord] /\ Only(t)
      /\ task'[t].st \in {"done", "failed"} /\ task'[t].kind = "projection"
      /\ task'[t].value = 0
  BY <1>1, <1>2, OverShape DEF IInv
<1>6. QueueIsAccepted' /\ LaneHasOneUser' /\ StepsFitKinds'
  BY <1>2, LeavingKeepsLane
<1>7. acked' \in Nat /\ acked <= acked' /\ acked' <= ledger
  BY <1>1, <1>2
<1>8. ValuesAreBounded' /\ LaneIsFresh'
  BY <1>1, <1>2, <1>4, <1>5, <1>7, EmptyIsFresh
<1>9. ReadYourWrites'
  BY <1>5, AnswersKept
<1>10. TypeOK'
  <2>1. UNCHANGED <<ledger, queue, closed, shutdown>> /\ holder' = None
    BY <1>2
  <2> QED BY <1>4, <1>5, <1>7, <2>1 DEF IInv, TypeOK, CallRecord, States
<1> QED BY <1>6, <1>8, <1>9, <1>10 DEF IInv

LEMMA SyncFailsStep ==
    ASSUME IInv, NEW t \in Task, SyncFails(t)
    PROVE  IInv'
<1>1. /\ task[t].kind = "sync" /\ task[t] \in CallRecord /\ task \in [Task -> CallRecord]
      /\ ledger \in Nat
  BY CallsAreRecords DEF SyncFails, IInv, TypeOK, StepsFitKinds, StepFitsKind
<1>2. /\ Body(t) /\ holder' = None /\ task' = Over(t, "failed", 0) /\ unannounced' = TRUE
      /\ UNCHANGED <<ledger, generation, cache, queue, closed, shutdown, acked>>
  BY DEF Body, SyncFails, Rejected
<1>3. /\ task' \in [Task -> CallRecord] /\ Only(t)
      /\ task'[t].st = "failed" /\ task'[t].kind = "sync" /\ task'[t].value = 0
  BY <1>1, <1>2, OverShape DEF IInv
<1>4. QueueIsAccepted' /\ LaneHasOneUser' /\ StepsFitKinds'
  BY <1>2, LeavingKeepsLane
<1>5. ValuesAreBounded'
  BY <1>1, <1>2, <1>3, DataKept
<1>6. ReadYourWrites'
  BY <1>3, AnswersKept
<1>7. LaneIsFresh'
  BY <1>2, <1>3 DEF IInv, LaneIsFresh, Only
<1>8. TypeOK'
  BY <1>2, <1>3 DEF IInv, TypeOK, CallRecord, States
<1> QED BY <1>4, <1>5, <1>6, <1>7, <1>8 DEF IInv

LEMMA LeaveMutationStep ==
    ASSUME IInv, NEW t \in Task, LeaveMutation(t)
    PROVE  IInv'
<1>1. /\ task[t].kind = "mutation" /\ task[t].st \in {"written", "thrown"}
      /\ task[t] \in CallRecord /\ task \in [Task -> CallRecord] /\ ledger \in Nat
      /\ queue \in Seq(Task) /\ task[t].value <= ledger
  BY CallsAreRecords DEF LeaveMutation, IInv, TypeOK, ValuesAreBounded
<1>2. /\ Body(t) /\ holder' = None
      /\ UNCHANGED <<ledger, generation, cache, closed, shutdown, acked, unannounced>>
  BY DEF Body, LeaveMutation
<1>3. /\ holder = t /\ t # None /\ task[t].st \in BodySteps
      /\ \A u \in Task \ {t} : task[u].st \notin BodySteps
  BY <1>2, BodyHolds
<1>4. \A k \in Key : ~Valid(k)
  BY <1>1, <1>3 DEF IInv, LaneIsFresh
<1>5. ASSUME task' = Over(t, "failed", 0), UNCHANGED queue
      PROVE  IInv'
  <2>1. /\ task' \in [Task -> CallRecord] /\ Only(t)
        /\ task'[t].st = "failed" /\ task'[t].kind = "mutation" /\ task'[t].value = 0
    BY <1>1, <1>5, OverShape DEF IInv
  <2>2. QueueIsAccepted' /\ LaneHasOneUser' /\ StepsFitKinds'
    BY <1>2, <1>5, LeavingKeepsLane
  <2>3. /\ ValuesAreBounded'
        /\ \A l \in Key : Valid(l)' <=> Valid(l)
    BY <1>1, <1>2, <2>1, DataKept
  <2>4. ReadYourWrites'
    BY <2>1, AnswersKept
  <2>5. LaneIsFresh'
    BY <1>2, <1>4, <2>1, <2>3 DEF IInv, LaneIsFresh, Only
  <2>6. TypeOK'
    BY <1>2, <1>5, <2>1 DEF IInv, TypeOK, CallRecord, States
  <2> QED BY <2>2, <2>3, <2>4, <2>5, <2>6 DEF IInv
<1>6. ASSUME task' = [task EXCEPT ![t] = [@ EXCEPT !.st = "queued", !.kind = "sync",
                          !.followUp = TRUE]],
             queue' = Append(queue, t), ~closed
      PROVE  IInv'
  <2>1. /\ task' \in [Task -> CallRecord] /\ Only(t) /\ task'[t].st = "queued"
        /\ task'[t].kind = "sync" /\ task'[t].value = task[t].value
    BY <1>1, <1>6 DEF CallRecord, States, AllKinds, Only
  <2>2. /\ queue' \in Seq(Task) /\ Len(queue') = Len(queue) + 1 /\ queue'[Len(queue) + 1] = t
        /\ \A i \in 1..Len(queue) : queue'[i] = queue[i]
    BY <1>1, <1>6
  <2>3. \A i \in 1..Len(queue) : queue[i] \in Task /\ queue[i] # t /\ task[queue[i]].st = "queued"
    BY <1>1 DEF IInv, QueueIsAccepted
  <2>4. QueueIsAccepted'
    <3>1. \A i \in 1..Len(queue) + 1 : i \in 1..Len(queue) \/ i = Len(queue) + 1
      BY <1>1
    <3>2. \A i \in 1..Len(queue) + 1 : task'[queue'[i]].st = "queued"
      BY <2>1, <2>2, <2>3, <3>1 DEF Only
    <3>3. \A i, j \in 1..Len(queue) + 1 : queue'[i] = queue'[j] => i = j
      BY <2>2, <2>3, <3>1 DEF IInv, QueueIsAccepted
    <3> QED BY <2>2, <3>2, <3>3 DEF QueueIsAccepted
  <2>5. LaneHasOneUser'
    <3>1. shutdown = "no"
      BY <1>6 DEF IInv, LaneHasOneUser, TypeOK
    <3>2. \A u \in Task : task'[u].st \notin BodySteps /\ u # None
      BY <1>3, <2>1, CoordinatorAssumption DEF Only, BodySteps, CoordinatorAssumption
    <3> QED BY <1>2, <3>1, <3>2 DEF LaneHasOneUser, OneUserOfActual
  <2>6. StepsFitKinds'
    <3> SUFFICES ASSUME NEW u \in Task PROVE StepFitsKind(task'[u])
      BY DEF StepsFitKinds
    <3>1. CASE u = t
      BY <2>1, <3>1 DEF StepFitsKind
    <3>2. CASE u # t
      BY <2>1, <3>2 DEF StepFitsKind, IInv, StepsFitKinds, Only
    <3> QED BY <3>1, <3>2
  <2>7. /\ ValuesAreBounded'
        /\ \A l \in Key : Valid(l)' <=> Valid(l)
    BY <1>1, <1>2, <2>1, DataKept
  <2>8. ReadYourWrites'
    BY <2>1, AnswersKept
  <2>9. LaneIsFresh'
    BY <1>2, <1>4, <2>1, <2>7 DEF IInv, LaneIsFresh, Only
  <2>10. TypeOK'
    BY <1>2, <2>1, <2>2 DEF IInv, TypeOK, CallRecord, States
  <2> QED BY <2>4, <2>5, <2>6, <2>7, <2>8, <2>9, <2>10 DEF IInv
<1> QED BY <1>5, <1>6 DEF LeaveMutation, Rejected, IInv, TypeOK

LEMMA SyncSucceedsStep ==
    ASSUME IInv, NEW t \in Task, SyncSucceeds(t)
    PROVE  IInv'
<1>1. /\ task[t].st = "pulled" /\ task[t].kind = "sync"
      /\ task[t] \in CallRecord /\ task \in [Task -> CallRecord]
      /\ task[t].value \in Nat /\ ledger \in Nat /\ acked \in Nat
      /\ task[t].value <= ledger /\ acked <= ledger
  BY CallsAreRecords DEF SyncSucceeds, IInv, TypeOK, CallRecord, ValuesAreBounded,
     StepsFitKinds, StepFitsKind
<1>2. /\ Body(t) /\ holder' = None /\ Invalidate({})
      /\ UNCHANGED <<ledger, queue, closed, shutdown, acked>>
      /\ \/ task' = [task EXCEPT ![t].st = "finishing"]
         \/ task' = Over(t, "done", task[t].value)
  BY DEF Body, SyncSucceeds, Answered
<1>3. /\ holder = t /\ t # None /\ task[t].st \in BodySteps
      /\ \A u \in Task \ {t} : task[u].st \notin BodySteps
  BY <1>2, BodyHolds
<1>4. /\ generation' \in Nat /\ unannounced' = FALSE
      /\ cache' \in [Key -> [gen : Nat, value : Nat, there : BOOLEAN]]
      /\ \A k \in Key : cache'[k].value <= ledger /\ cache'[k].gen <= generation'
      /\ \A k \in Key : ~Valid(k)'
  BY <1>2, InvalidateShape
<1>5. /\ task' \in [Task -> CallRecord] /\ Only(t) /\ task'[t].st \in {"done", "finishing"}
      /\ task'[t].kind = "sync" /\ task'[t].value \in {0, task[t].value}
  <2>1. CASE task' = [task EXCEPT ![t].st = "finishing"]
    BY <1>1, <2>1 DEF CallRecord, States, Only
  <2>2. CASE task' = Over(t, "done", task[t].value)
    BY <1>1, <2>2, OverShape DEF IInv
  <2> QED BY <1>2, <2>1, <2>2
<1>6. QueueIsAccepted'
  <2>1. \A i \in 1..Len(queue) : queue[i] \in Task /\ queue[i] # t
    BY <1>1, WaitingIsElsewhere
  <2> QED BY <1>2, <1>5, <2>1 DEF IInv, QueueIsAccepted, Only
<1>7. LaneHasOneUser'
  <2>1. \A u \in Task : task'[u].st \notin BodySteps /\ u # None
    BY <1>3, <1>5, CoordinatorAssumption DEF Only, BodySteps, CoordinatorAssumption
  <2> QED BY <1>2, <2>1 DEF IInv, LaneHasOneUser, OneUserOfActual
<1>8. StepsFitKinds'
  <2> SUFFICES ASSUME NEW u \in Task PROVE StepFitsKind(task'[u])
    BY DEF StepsFitKinds
  <2>1. CASE u = t
    BY <1>5, <2>1 DEF StepFitsKind
  <2>2. CASE u # t
    BY <1>5, <2>2 DEF StepFitsKind, IInv, StepsFitKinds, Only
  <2> QED BY <2>1, <2>2
<1>9. ValuesAreBounded' /\ LaneIsFresh'
  <2>1. task'[t].value <= ledger
    BY <1>1, <1>5
  <2> QED BY <1>1, <1>2, <1>4, <1>5, <2>1, EmptyIsFresh
<1>10. ReadYourWrites'
  BY <1>5, AnswersKept
<1>11. TypeOK'
  <2>1. UNCHANGED <<ledger, queue, closed, shutdown, acked>> /\ holder' = None
    BY <1>2
  <2> QED BY <1>4, <1>5, <2>1 DEF IInv, TypeOK, CallRecord, States
<1> QED BY <1>6, <1>7, <1>8, <1>9, <1>10, <1>11 DEF IInv

LEMMA HandlerEndsStep ==
    ASSUME IInv, NEW t \in Task, HandlerEnds(t)
    PROVE  IInv'
<1>1. /\ task[t].st = "finishing"
      /\ task[t] \in CallRecord /\ task \in [Task -> CallRecord]
      /\ task[t].value \in Nat /\ ledger \in Nat /\ acked \in Nat
      /\ task[t].value <= ledger /\ acked <= ledger
  BY CallsAreRecords DEF HandlerEnds, IInv, TypeOK, CallRecord, ValuesAreBounded
<1>2. /\ Invalidate({}) /\ task' = Over(t, "done", task[t].value)
      /\ UNCHANGED <<ledger, queue, holder, closed, shutdown>>
      /\ acked' = IF task[t].value > acked THEN task[t].value ELSE acked
  BY DEF HandlerEnds, Answered, Acknowledge
<1>3. /\ generation' \in Nat /\ unannounced' = FALSE
      /\ cache' \in [Key -> [gen : Nat, value : Nat, there : BOOLEAN]]
      /\ \A k \in Key : cache'[k].value <= ledger /\ cache'[k].gen <= generation'
      /\ \A k \in Key : ~Valid(k)'
  BY <1>2, InvalidateShape
<1>4. /\ task' \in [Task -> CallRecord] /\ Only(t) /\ task'[t].st = "done"
      /\ task'[t].kind = task[t].kind /\ task'[t].floor = task[t].floor
      /\ task'[t].value = IF task[t].kind = "cached" THEN task[t].value ELSE 0
  BY <1>1, <1>2, OverShape DEF IInv
<1>5. acked' \in Nat /\ acked <= acked' /\ acked' <= ledger
  BY <1>1, <1>2
<1>6. task[t].kind # "cached"
  BY <1>1 DEF IInv, StepsFitKinds, StepFitsKind
<1>7. QueueIsAccepted'
  <2>1. \A i \in 1..Len(queue) : queue[i] \in Task /\ queue[i] # t
    BY <1>1, WaitingIsElsewhere
  <2> QED BY <1>2, <1>4, <2>1 DEF IInv, QueueIsAccepted, Only
<1>8. LaneHasOneUser'
  <2>1. task[t].st \notin BodySteps /\ task'[t].st \notin BodySteps
    BY <1>1, <1>4 DEF BodySteps
  <2> QED BY <1>2, <1>4, <2>1 DEF IInv, LaneHasOneUser, OneUserOfActual, Only
<1>9. StepsFitKinds'
  <2> SUFFICES ASSUME NEW u \in Task PROVE StepFitsKind(task'[u])
    BY DEF StepsFitKinds
  <2>1. CASE u = t
    BY <1>4, <2>1 DEF StepFitsKind
  <2>2. CASE u # t
    BY <1>4, <2>2 DEF StepFitsKind, IInv, StepsFitKinds, Only
  <2> QED BY <2>1, <2>2
<1>10. ValuesAreBounded' /\ LaneIsFresh'
  <2>1. task'[t].value <= ledger
    BY <1>1, <1>4
  <2> QED BY <1>1, <1>2, <1>3, <1>4, <1>5, <1>6, <2>1, EmptyIsFresh
<1>11. ReadYourWrites'
  BY <1>4, <1>6, AnswersKept
<1>12. TypeOK'
  <2>1. UNCHANGED <<ledger, queue, holder, closed, shutdown>>
    BY <1>2
  <2> QED BY <1>3, <1>4, <1>5, <2>1 DEF IInv, TypeOK, CallRecord, States
<1> QED BY <1>7, <1>8, <1>9, <1>10, <1>11, <1>12 DEF IInv

-----------------------------------------------------------------------------
(***************************************************************************)
(* The calls, the queue and the shutdown, one lemma per action.            *)
(***************************************************************************)
LEMMA EnterStep ==
    ASSUME IInv, NEW t \in Task, Enter(t)
    PROVE  IInv'
<1>1. /\ task \in [Task -> CallRecord] /\ task[t] \in CallRecord
      /\ ledger \in Nat /\ acked \in Nat /\ generation \in Nat
      /\ queue \in Seq(Task) /\ 1 \in 1..Len(queue) /\ queue[1] = t
      /\ t # None /\ holder = None
  <2>1. /\ task \in [Task -> CallRecord]
        /\ ledger \in Nat /\ acked \in Nat /\ generation \in Nat /\ queue \in Seq(Task)
    BY CallsAreRecords DEF IInv, TypeOK
  <2>2. holder = None /\ queue # <<>> /\ Head(queue) = t
    BY DEF Enter
  <2>3. 1 \in 1..Len(queue) /\ queue[1] = t
    BY <2>1, <2>2
  <2> QED BY <2>1, <2>2, <2>3, CoordinatorAssumption DEF CoordinatorAssumption
<1>2. /\ holder' = t /\ queue' = Tail(queue)
      /\ task' = [task EXCEPT ![t] = [@ EXCEPT !.st = FirstStep(task[t].kind),
                      !.attempts = 0]]
      /\ UNCHANGED <<ledger, closed, shutdown, acked>>
      /\ IF task[t].kind = "mutation" THEN Invalidate({}) ELSE Uninvalidated
  BY DEF Enter, InvalidatesBefore
<1>3. task[t].st = "queued"
  BY <1>1 DEF IInv, QueueIsAccepted
<1>4. /\ FirstStep(task[t].kind) \in {"rehit", "read", "mutate", "pull"}
      /\ task[t].kind = "cached" => FirstStep(task[t].kind) = "rehit"
      /\ task[t].kind = "probe" => FirstStep(task[t].kind) = "read"
      /\ task[t].kind \in {"mutation", "projection"} => FirstStep(task[t].kind) = "mutate"
      /\ task[t].kind = "sync" => FirstStep(task[t].kind) = "pull"
      /\ task[t].kind \in AllKinds
  BY <1>1 DEF FirstStep, AllKinds, CallRecord
<1>5. /\ task' \in [Task -> CallRecord] /\ Only(t)
      /\ task'[t].st = FirstStep(task[t].kind) /\ task'[t].kind = task[t].kind
      /\ task'[t].keys = task[t].keys /\ task'[t].attempts = 0
      /\ task'[t].value = task[t].value /\ task'[t].floor = task[t].floor
  <2> DEFINE f == FirstStep(task[t].kind)
             r == [task[t] EXCEPT !.st = f, !.attempts = 0]
  <2>1. f \in States /\ 0 \in 0..MaxFillAttempts
    BY <1>4, CoordinatorAssumption DEF States, BodySteps, CoordinatorAssumption
  <2>2. task' = [task EXCEPT ![t] = r]
    BY <1>1, <1>2
  <2> HIDE DEF f
  <2>3. /\ r \in CallRecord /\ r.st = f /\ r.kind = task[t].kind /\ r.keys = task[t].keys
        /\ r.attempts = 0 /\ r.value = task[t].value /\ r.floor = task[t].floor
    BY <1>1, <2>1 DEF CallRecord
  <2> HIDE DEF r
  <2>4. task'[t].st = f
    BY <1>1, <2>2, <2>3
  <2>5. task'[t].st = FirstStep(task[t].kind)
    BY <2>4 DEF f
  <2> QED BY <1>1, <2>2, <2>3, <2>5 DEF Only
<1>6. /\ queue' \in Seq(Task) /\ Len(queue') = Len(queue) - 1
      /\ \A i \in 1..Len(queue') : queue'[i] = queue[i + 1] /\ i + 1 \in 1..Len(queue) /\ i + 1 # 1
  BY <1>1, <1>2
<1>7. QueueIsAccepted'
  <2>1. \A i \in 1..Len(queue') : queue'[i] \in Task /\ queue'[i] # t
    BY <1>1, <1>6 DEF IInv, QueueIsAccepted
  <2>2. \A i \in 1..Len(queue') : task'[queue'[i]].st = "queued"
    BY <1>5, <1>6, <2>1 DEF IInv, QueueIsAccepted, Only
  <2>3. \A i, j \in 1..Len(queue') : queue'[i] = queue'[j] => i = j
    <3> SUFFICES ASSUME NEW i \in 1..Len(queue'), NEW j \in 1..Len(queue'),
                        queue'[i] = queue'[j]
                 PROVE  i = j
      OBVIOUS
    <3>1. i + 1 = j + 1
      BY <1>6 DEF IInv, QueueIsAccepted
    <3> QED BY <3>1
  <2> QED BY <2>2, <2>3 DEF QueueIsAccepted
<1>8. LaneHasOneUser'
  <2>1. shutdown \notin {"running", "finalized"}
    BY <1>1 DEF IInv, LaneHasOneUser, OneUserOfActual
  <2>2. \A u \in Task \ {t} : task[u].st \notin BodySteps
    BY <1>1, CoordinatorAssumption
       DEF IInv, LaneHasOneUser, OneUserOfActual, CoordinatorAssumption
  <2>3. task'[t].st \in BodySteps
    BY <1>4, <1>5 DEF BodySteps
  <2> QED BY <1>2, <1>5, <2>1, <2>2, <2>3 DEF IInv, LaneHasOneUser, OneUserOfActual, Only
<1>9. StepsFitKinds'
  <2> SUFFICES ASSUME NEW u \in Task PROVE StepFitsKind(task'[u])
    BY DEF StepsFitKinds
  <2>1. CASE u = t
    <3>1. task[t].kind = "cached" => \E k \in Key : task[t].keys = {k}
      BY <1>3 DEF IInv, StepsFitKinds, StepFitsKind
    <3>2. CASE task[t].kind = "cached"
      BY <1>4, <1>5, <2>1, <3>1, <3>2 DEF StepFitsKind
    <3>3. CASE task[t].kind = "probe"
      BY <1>4, <1>5, <2>1, <3>3 DEF StepFitsKind
    <3>4. CASE task[t].kind \in {"mutation", "projection"}
      BY <1>4, <1>5, <2>1, <3>4 DEF StepFitsKind
    <3>5. CASE task[t].kind = "sync"
      BY <1>4, <1>5, <2>1, <3>5 DEF StepFitsKind
    <3> QED BY <1>4, <3>2, <3>3, <3>4, <3>5 DEF AllKinds
  <2>2. CASE u # t
    BY <1>5, <2>2 DEF StepFitsKind, IInv, StepsFitKinds, Only
  <2> QED BY <2>1, <2>2
<1>10. ValuesAreBounded' /\ LaneIsFresh' /\ unannounced' \in BOOLEAN /\ generation' \in Nat
       /\ cache' \in [Key -> [gen : Nat, value : Nat, there : BOOLEAN]]
  <2>1. /\ task'[t].st # "publish" /\ task'[t].value <= ledger
        /\ task'[t].kind = "cached" => task'[t].floor <= acked
        /\ acked <= ledger
    BY <1>4, <1>5 DEF IInv, ValuesAreBounded, AllKinds
  <2>2. CASE task[t].kind = "mutation"
    <3>1. Invalidate({})
      BY <1>2, <2>2
    <3>2. /\ generation' \in Nat /\ unannounced' = FALSE
          /\ cache' \in [Key -> [gen : Nat, value : Nat, there : BOOLEAN]]
          /\ \A k \in Key : cache'[k].value <= ledger /\ cache'[k].gen <= generation'
          /\ \A k \in Key : ~Valid(k)'
      BY <3>1, InvalidateShape
    <3>3. acked' = acked /\ acked <= acked' /\ UNCHANGED ledger
      BY <1>1, <1>2
    <3>4. ValuesAreBounded' /\ LaneIsFresh'
      BY <1>1, <1>5, <2>1, <3>2, <3>3, EmptyIsFresh
    <3> QED BY <3>2, <3>4
  <2>3. CASE task[t].kind # "mutation"
    <3>1. UNCHANGED <<generation, cache, unannounced>>
      BY <1>2, <2>3 DEF Uninvalidated
    <3>2. /\ ValuesAreBounded'
          /\ \A k \in Key : Valid(k)' <=> Valid(k)
      BY <1>2, <1>5, <2>1, <3>1, DataKept
    <3>3. LaneIsFresh'
      BY <1>1, <1>2, <1>5, <2>1, <2>3, <3>1, <3>2 DEF IInv, LaneIsFresh, Only
    <3> QED BY <3>1, <3>2, <3>3 DEF IInv, TypeOK
  <2> QED BY <2>2, <2>3
<1>11. ReadYourWrites'
  BY <1>4, <1>5, AnswersKept DEF AllKinds
<1>12. TypeOK'
  <2>1. UNCHANGED <<ledger, closed, shutdown, acked>> /\ holder' \in Task
    BY <1>2
  <2> QED BY <1>5, <1>6, <1>10, <2>1 DEF IInv, TypeOK, CallRecord, States
<1> QED BY <1>7, <1>8, <1>9, <1>10, <1>11, <1>12 DEF IInv

\* A call that is new and made, answered or refused at once or queued: the lane
\* and what it works on do not notice.
LEMMA NewCallKeeps ==
    ASSUME IInv, NEW t \in Task, task[t].st = "new",
           task' \in [Task -> CallRecord], Only(t),
           task'[t].st \in {"queued", "done", "failed"},
           task'[t].kind = "cached" /\ task'[t].st = "queued" => \E k \in Key : task'[t].keys = {k},
           task'[t].value <= ledger,
           task'[t].kind = "cached" => task'[t].floor <= acked,
           task'[t].kind = "cached" /\ task'[t].st = "done" => task'[t].value >= task'[t].floor,
           \/ queue' = queue
           \/ queue' = Append(queue, t) /\ task'[t].st = "queued" /\ ~closed,
           UNCHANGED <<ledger, generation, cache, holder, closed, shutdown, acked, unannounced>>
    PROVE  IInv'
<1>1. queue \in Seq(Task) /\ \A i \in 1..Len(queue) : queue[i] \in Task /\ queue[i] # t
  BY WaitingIsElsewhere DEF IInv, TypeOK
<1>2. QueueIsAccepted' /\ queue' \in Seq(Task)
  <2>1. CASE queue' = queue
    BY <1>1, <2>1 DEF IInv, QueueIsAccepted, Only
  <2>2. CASE queue' = Append(queue, t) /\ task'[t].st = "queued"
    <3>1. /\ queue' \in Seq(Task) /\ Len(queue') = Len(queue) + 1 /\ queue'[Len(queue) + 1] = t
          /\ \A i \in 1..Len(queue) : queue'[i] = queue[i]
          /\ \A i \in 1..Len(queue) + 1 : i \in 1..Len(queue) \/ i = Len(queue) + 1
      BY <1>1, <2>2
    <3>2. \A i \in 1..Len(queue) + 1 : task'[queue'[i]].st = "queued"
      BY <1>1, <2>2, <3>1 DEF IInv, QueueIsAccepted, Only
    <3>3. \A i, j \in 1..Len(queue) + 1 : queue'[i] = queue'[j] => i = j
      BY <1>1, <3>1 DEF IInv, QueueIsAccepted
    <3> QED BY <3>1, <3>2, <3>3 DEF QueueIsAccepted
  <2> QED BY <2>1, <2>2
<1>3. LaneHasOneUser'
  <2>1. task[t].st \notin BodySteps /\ task'[t].st \notin BodySteps
    BY DEF BodySteps
  <2>2. \A u \in Task : task'[u].st \in BodySteps <=> holder' = u
    BY <2>1 DEF IInv, LaneHasOneUser, OneUserOfActual, Only
  <2>3. shutdown # "no" => closed /\ queue' = queue
    BY DEF IInv, LaneHasOneUser
  <2> QED BY <2>2, <2>3 DEF IInv, LaneHasOneUser, OneUserOfActual
<1>4. StepsFitKinds'
  <2> SUFFICES ASSUME NEW u \in Task PROVE StepFitsKind(task'[u])
    BY DEF StepsFitKinds
  <2>1. CASE u = t
    BY <2>1 DEF StepFitsKind
  <2>2. CASE u # t
    BY <2>2 DEF StepFitsKind, IInv, StepsFitKinds, Only
  <2> QED BY <2>1, <2>2
<1>5. /\ ValuesAreBounded'
      /\ \A k \in Key : Valid(k)' <=> Valid(k)
  BY DataKept
<1>6. LaneIsFresh'
  <2>1. holder # t
    BY DEF IInv, LaneHasOneUser, OneUserOfActual, BodySteps
  <2>2. holder = None \/ holder \in Task
    BY DEF IInv, TypeOK
  <2> QED BY <1>5, <2>1, <2>2 DEF IInv, LaneIsFresh, Only
<1>7. ReadYourWrites'
  BY AnswersKept
<1>8. TypeOK'
  BY <1>2 DEF IInv, TypeOK, CallRecord, States
<1> QED BY <1>2, <1>3, <1>4, <1>5, <1>6, <1>7, <1>8 DEF IInv

LEMMA CallHitsStep ==
    ASSUME IInv, NEW t \in Task, NEW k \in Key, CallHits(t, k)
    PROVE  IInv'
<1>1. /\ task[t].st = "new" /\ task[t] \in CallRecord /\ task \in [Task -> CallRecord]
      /\ ledger \in Nat /\ acked \in Nat /\ acked <= cache[k].value /\ cache[k].value <= ledger
      /\ cache[k].value \in Nat
  BY CallsAreRecords DEF CallHits, IsNextCall, IInv, TypeOK, ValuesAreBounded
<1> DEFINE v == cache[k].value
           r == [task[t] EXCEPT !.kind = "cached", !.keys = {}, !.awaited = FALSE,
                                !.floor = acked, !.st = "done", !.value = v]
<1>2. /\ UNCHANGED <<ledger, generation, cache, queue, holder, closed, shutdown, acked, unannounced>>
      /\ task' = [task EXCEPT ![t] = r]
  BY <1>1 DEF CallHits, Calls, CallRecord
<1>3. /\ r \in CallRecord /\ r.st = "done" /\ r.kind = "cached" /\ r.value = v /\ r.floor = acked
  <2> HIDE DEF v
  <2>1. v \in Nat
    BY <1>1 DEF v
  <2> QED BY <1>1, <2>1 DEF CallRecord, States, AllKinds
<1> HIDE DEF r
<1>4. /\ task' \in [Task -> CallRecord] /\ Only(t) /\ task'[t].st = "done"
      /\ task'[t].value = v /\ task'[t].floor = acked
  BY <1>1, <1>2, <1>3 DEF Only
<1> QED BY <1>1, <1>2, <1>4, NewCallKeeps

LEMMA CallStep ==
    ASSUME IInv, NEW t \in Task, NEW kind \in Kinds, NEW K \in SUBSET Key,
           K \in Arguments(kind), Call(t, kind, K)
    PROVE  IInv'
<1>1. /\ task[t].st = "new" /\ task[t] \in CallRecord /\ task \in [Task -> CallRecord]
      /\ ledger \in Nat /\ acked \in Nat /\ kind \in AllKinds
      /\ task[t].value \in Nat /\ task[t].value <= ledger
  BY CallsAreRecords, CoordinatorAssumption
     DEF Call, IsNextCall, IInv, TypeOK, ValuesAreBounded, CallRecord, CoordinatorAssumption
<1>2. kind = "cached" => \E k \in Key : K = {k}
  BY DEF Arguments
<1>3. UNCHANGED <<ledger, generation, cache, holder, closed, shutdown, acked, unannounced>>
  BY DEF Call
<1> DEFINE fl == IF kind = "cached" THEN acked ELSE 0
<1>4. fl \in Nat /\ (kind = "cached" => fl = acked)
  BY <1>1
<1> HIDE DEF fl
<1>5. ASSUME NEW st \in {"queued", "failed"}, NEW L \in SUBSET Key, NEW w \in BOOLEAN,
             task' = [task EXCEPT ![t] = [task[t] EXCEPT !.kind = kind, !.keys = L,
                                             !.awaited = w, !.floor = fl, !.st = st]]
      PROVE  /\ task' \in [Task -> CallRecord] /\ Only(t) /\ task'[t].st = st
             /\ task'[t].kind = kind /\ task'[t].keys = L
             /\ task'[t].value = task[t].value /\ task'[t].floor = fl
  <2> DEFINE r == [task[t] EXCEPT !.kind = kind, !.keys = L, !.awaited = w, !.floor = fl, !.st = st]
  <2>1. /\ r \in CallRecord /\ r.st = st /\ r.kind = kind /\ r.keys = L
        /\ r.value = task[t].value /\ r.floor = fl
    BY <1>1, <1>4 DEF CallRecord, States
  <2>2. task' = [task EXCEPT ![t] = r]
    BY <1>5
  <2> HIDE DEF r
  <2> QED BY <1>1, <2>1, <2>2 DEF Only
<1>6. CASE closed
  <2>1. /\ UNCHANGED queue
        /\ task' = [task EXCEPT ![t] = [task[t] EXCEPT !.kind = kind, !.keys = {},
                                          !.awaited = FALSE, !.floor = fl, !.st = "failed"]]
    BY <1>1, <1>6 DEF Call, Calls, CallRecord, fl
  <2>2. /\ task' \in [Task -> CallRecord] /\ Only(t) /\ task'[t].st = "failed"
        /\ task'[t].kind = kind /\ task'[t].value = task[t].value /\ task'[t].floor = fl
    BY <1>5, <2>1
  <2> QED BY <1>1, <1>3, <1>4, <2>1, <2>2, NewCallKeeps
<1>7. CASE ~closed
  <2>1. /\ queue' = Append(queue, t)
        /\ task' = [task EXCEPT ![t] = [task[t] EXCEPT !.kind = kind, !.keys = K,
                                          !.awaited = TRUE, !.floor = fl, !.st = "queued"]]
    BY <1>1, <1>7 DEF Call, Calls, CallRecord, fl
  <2>2. /\ task' \in [Task -> CallRecord] /\ Only(t) /\ task'[t].st = "queued"
        /\ task'[t].kind = kind /\ task'[t].keys = K
        /\ task'[t].value = task[t].value /\ task'[t].floor = fl
    BY <1>5, <2>1
  <2> QED BY <1>1, <1>2, <1>3, <1>4, <1>7, <2>1, <2>2, NewCallKeeps
<1> QED BY <1>6, <1>7

\* A step that moves the caller, the queue's flag and the shutdown only.
LEMMA DeadlineStep ==
    ASSUME IInv, NEW t \in Task, Deadline(t)
    PROVE  IInv'
<1>1. /\ task[t] \in CallRecord /\ task \in [Task -> CallRecord]
      /\ task' = [task EXCEPT ![t].awaited = FALSE]
      /\ UNCHANGED <<ledger, generation, cache, queue, holder, closed, shutdown, acked, unannounced>>
  BY CallsAreRecords DEF Deadline, IInv
<1>2. /\ task' \in [Task -> CallRecord]
      /\ \A u \in Task : /\ task'[u].st = task[u].st /\ task'[u].kind = task[u].kind
                         /\ task'[u].keys = task[u].keys /\ task'[u].attempts = task[u].attempts
                         /\ task'[u].value = task[u].value /\ task'[u].floor = task[u].floor
  BY <1>1 DEF CallRecord
<1>3. queue \in Seq(Task) /\ \A i \in 1..Len(queue) : queue[i] \in Task
  <2>1. queue \in Seq(Task)
    BY DEF IInv, TypeOK
  <2> QED BY <2>1
<1>4. QueueIsAccepted'
  BY <1>1, <1>2, <1>3 DEF IInv, QueueIsAccepted
<1>5. LaneHasOneUser'
  BY <1>1, <1>2 DEF IInv, LaneHasOneUser, OneUserOfActual
<1>6. StepsFitKinds'
  BY <1>2 DEF IInv, StepsFitKinds, StepFitsKind
<1>7. ValuesAreBounded'
  BY <1>1, <1>2 DEF IInv, ValuesAreBounded, Valid
<1>8. LaneIsFresh'
  <2>1. holder = None \/ holder \in Task
    BY DEF IInv, TypeOK
  <2> QED BY <1>1, <1>2, <2>1 DEF IInv, LaneIsFresh, Valid
<1>9. ReadYourWrites'
  BY <1>2 DEF IInv, ReadYourWrites
<1>10. TypeOK'
  BY <1>1, <1>2 DEF IInv, TypeOK, CallRecord, States
<1> QED BY <1>4, <1>5, <1>6, <1>7, <1>8, <1>9, <1>10 DEF IInv

LEMMA ShutdownSteps ==
    ASSUME IInv, ShutdownHandoff \/ HandoffBegins \/ DrainTimesOut
    PROVE  IInv'
<1>1. /\ UNCHANGED <<ledger, generation, cache, queue, holder, task, acked, unannounced>>
      /\ closed' \in BOOLEAN /\ (shutdown' # "no" => closed')
      /\ shutdown' \in {"running", "finalized"} => queue = <<>> /\ holder = None
      /\ shutdown' \in {"no", "draining", "running", "finalized", "failed"}
  BY DEF ShutdownHandoff, HandoffBegins, DrainTimesOut, LaneDrained, IInv, LaneHasOneUser, TypeOK
<1>2. QueueIsAccepted' /\ StepsFitKinds' /\ ReadYourWrites'
  BY <1>1 DEF IInv, QueueIsAccepted, StepsFitKinds, StepFitsKind, ReadYourWrites
<1>3. LaneHasOneUser'
  BY <1>1 DEF IInv, LaneHasOneUser, OneUserOfActual
<1>4. ValuesAreBounded' /\ LaneIsFresh'
  BY <1>1 DEF IInv, ValuesAreBounded, LaneIsFresh, Valid
<1>5. TypeOK'
  BY <1>1 DEF IInv, TypeOK
<1> QED BY <1>2, <1>3, <1>4, <1>5 DEF IInv

LEMMA HandoffEndsStep ==
    ASSUME IInv, HandoffEnds
    PROVE  IInv'
<1>1. /\ UNCHANGED <<generation, cache, queue, holder, task, closed, acked>>
      /\ shutdown = "running" /\ shutdown' = "finalized" /\ unannounced' = TRUE
      /\ ledger \in Nat /\ ledger' \in Nat /\ ledger <= ledger'
      /\ holder = None /\ queue = <<>>
  BY DEF HandoffEnds, IInv, TypeOK, LaneHasOneUser, OneUserOfActual
<1>2. QueueIsAccepted' /\ StepsFitKinds' /\ ReadYourWrites'
  BY <1>1 DEF IInv, QueueIsAccepted, StepsFitKinds, StepFitsKind, ReadYourWrites
<1>3. LaneHasOneUser'
  BY <1>1 DEF IInv, LaneHasOneUser, OneUserOfActual
<1>4. ValuesAreBounded'
  <2>1. /\ acked <= ledger /\ acked \in Nat
        /\ \A k \in Key : cache[k].value \in Nat /\ cache[k].value <= ledger
        /\ \A u \in Task : task[u].value \in Nat /\ task[u].value <= ledger
    BY CallsAreRecords DEF IInv, ValuesAreBounded, TypeOK, CallRecord
  <2>2. /\ acked <= ledger'
        /\ \A k \in Key : cache[k].value <= ledger'
        /\ \A u \in Task : task[u].value <= ledger'
    BY <1>1, <2>1
  <2> QED BY <1>1, <2>2 DEF IInv, ValuesAreBounded, Valid
<1>5. LaneIsFresh'
  <2>1. \A u \in Task : task[u].st # "publish"
    BY <1>1, CoordinatorAssumption
       DEF IInv, LaneHasOneUser, OneUserOfActual, BodySteps, CoordinatorAssumption
  <2> QED BY <1>1, <2>1 DEF LaneIsFresh
<1>6. TypeOK'
  BY <1>1 DEF IInv, TypeOK
<1> QED BY <1>2, <1>3, <1>4, <1>5, <1>6 DEF IInv

-----------------------------------------------------------------------------
LEMMA InitHolds == Init => IInv
<1> SUFFICES ASSUME Init PROVE IInv
  OBVIOUS
<1>1. /\ ledger = 0 /\ generation = 0 /\ acked = 0 /\ queue = <<>> /\ holder = None
      /\ closed = FALSE /\ shutdown = "no" /\ unannounced = FALSE
      /\ \A t \in Task : /\ task[t].st = "new" /\ task[t].kind = "sync" /\ task[t].value = 0
                         /\ task[t] \in CallRecord
      /\ \A k \in Key : cache[k].value = 0 /\ cache[k].gen = 0 /\ ~cache[k].there
  BY CoordinatorAssumption
     DEF Init, Absent, CallRecord, States, AllKinds, CoordinatorAssumption
<1>2. /\ task \in [Task -> CallRecord]
      /\ cache \in [Key -> [gen : Nat, value : Nat, there : BOOLEAN]]
  BY CoordinatorAssumption
     DEF Init, Absent, CallRecord, States, AllKinds, CoordinatorAssumption
<1>3. TypeOK
  <2>1. queue \in Seq(Task) /\ ledger \in Nat /\ generation \in Nat /\ acked \in Nat
    BY <1>1
  <2> QED BY <1>1, <1>2, <2>1 DEF TypeOK, CallRecord, States
<1>4. QueueIsAccepted /\ LaneHasOneUser /\ StepsFitKinds
  BY <1>1, CoordinatorAssumption DEF QueueIsAccepted, LaneHasOneUser, OneUserOfActual,
     StepsFitKinds, StepFitsKind, BodySteps, CoordinatorAssumption
<1>5. ValuesAreBounded /\ LaneIsFresh /\ ReadYourWrites
  BY <1>1 DEF ValuesAreBounded, LaneIsFresh, ReadYourWrites, Valid
<1> QED BY <1>3, <1>4, <1>5 DEF IInv

LEMMA NextKeepsInv == IInv /\ [Next]_vars => IInv'
<1> SUFFICES ASSUME IInv, [Next]_vars PROVE IInv'
  OBVIOUS
<1>1. ASSUME NEW t \in Task, NEW k \in Key, CallHits(t, k) PROVE IInv'
  BY <1>1, CallHitsStep
<1>2. ASSUME NEW t \in Task, NEW kind \in Kinds, NEW K \in SUBSET Key,
             K \in Arguments(kind), Call(t, kind, K)
      PROVE  IInv'
  BY <1>2, CallStep
<1>3. ASSUME NEW t \in Task, Body(t) PROVE IInv'
  BY <1>3, RehitStep, ReadSourceStep, LoaderFailsStep, PublishFillStep, DiscardFillStep,
     PublishProbeStep, MutateStep, LeaveMutationStep, LeaveProjectionStep, PullStep,
     SyncSucceedsStep, SyncFailsStep DEF Body
<1>4. ASSUME NEW t \in Task, Deadline(t) \/ Enter(t) \/ HandlerEnds(t) PROVE IInv'
  BY <1>4, DeadlineStep, EnterStep, HandlerEndsStep
<1>5. CASE ShutdownHandoff \/ HandoffBegins \/ DrainTimesOut \/ HandoffEnds
  BY <1>5, ShutdownSteps, HandoffEndsStep
<1>6. CASE UNCHANGED vars
  <2>1. UNCHANGED <<ledger, generation, cache, queue, holder, task, closed, shutdown, acked,
                    unannounced>>
    BY <1>6 DEF vars
  <2>2. QueueIsAccepted' /\ StepsFitKinds' /\ ReadYourWrites'
    BY <2>1 DEF IInv, QueueIsAccepted, StepsFitKinds, StepFitsKind, ReadYourWrites
  <2>3. LaneHasOneUser'
    BY <2>1 DEF IInv, LaneHasOneUser, OneUserOfActual
  <2>4. ValuesAreBounded' /\ LaneIsFresh'
    BY <2>1 DEF IInv, ValuesAreBounded, LaneIsFresh, Valid
  <2>5. TypeOK'
    BY <2>1 DEF IInv, TypeOK
  <2> QED BY <2>2, <2>3, <2>4, <2>5 DEF IInv
<1> QED BY <1>1, <1>2, <1>3, <1>4, <1>5, <1>6 DEF Next

THEOREM Inductive == Spec => []IInv
<1>1. Init => IInv
  BY InitHolds
<1>2. IInv /\ [Next]_vars => IInv'
  BY NextKeepsInv
<1> QED BY <1>1, <1>2, PTL DEF Spec

(***************************************************************************)
(* The calls, the queue, the cache and the lane keep their shapes, and a   *)
(* fill is never tried more often than the limit.                          *)
(***************************************************************************)
THEOREM TypeCorrect == Spec => []TypeOK
<1>1. IInv => TypeOK
  BY DEF IInv
<1> QED BY <1>1, Inductive, PTL

(***************************************************************************)
(* Actual has one user at a time: the body that holds the lane, though its *)
(* caller may have been rejected long ago, or the shutdown's handoff, from *)
(* whose beginning on no accepted call waits or runs.                      *)
(***************************************************************************)
THEOREM OneUser == Spec => []OneUserOfActual
<1>1. IInv => OneUserOfActual
  BY DEF IInv, LaneHasOneUser
<1> QED BY <1>1, Inductive, PTL

(***************************************************************************)
(* While no body holds the lane, what a hit of the cache would return was  *)
(* computed from the present data, unless a sync that failed had changed   *)
(* the data before it did.                                                 *)
(***************************************************************************)
THEOREM Fresh == Spec => []FreshWhenFree
<1>1. IInv => FreshWhenFree
  BY DEF IInv, LaneIsFresh, FreshWhenFree
<1> QED BY <1>1, Inductive, PTL

(***************************************************************************)
(* A cached read made after a mutation was acknowledged is answered by     *)
(* data that has it, whether it hits, fills, fills again or is answered by *)
(* what another fill published.                                            *)
(***************************************************************************)
THEOREM AcknowledgedIsRead == Spec => []ReadYourWrites
<1>1. IInv => ReadYourWrites
  BY DEF IInv
<1> QED BY <1>1, Inductive, PTL

-----------------------------------------------------------------------------
(***************************************************************************)
(* GracefulShutdown.  Since the signal nothing is accepted, neither a      *)
(* connection nor a task; past the close of the server no connection is    *)
(* open, so that exit finds none to cut; and only an exit cuts any.        *)
(***************************************************************************)
ShutdownInv ==
    /\ mutations \in Seq(Clients \cup {Sync}) /\ busy \in BOOLEAN
    /\ conn \in [Clients -> {"none", "open", "closed"}]
    /\ busy => mutations # <<>>
    /\ step # "up" => mutationsClosed /\ ~listening
    /\ step \in {"drain", "actual"} => \A c \in Clients : conn[c] # "open"
    /\ step # "exited" => cut = {}
    /\ Shutdown!ActualAlone /\ Shutdown!CleanExit

LEMMA ShutdownInit == Shutdown!Init => ShutdownInv
<1> SUFFICES ASSUME Shutdown!Init PROVE ShutdownInv
    OBVIOUS
<1>1. conn \in [Clients -> {"none", "open", "closed"}] /\ mutations \in Seq(Clients \cup {Sync})
      BY DEF Shutdown!Init
<1> QED
    BY <1>1 DEF Shutdown!Init, ShutdownInv, Shutdown!ActualAlone, Shutdown!CleanExit

\* A task is appended while the queue is not closed, which it is since the signal.
LEMMA TasksKeep ==
    ASSUME ShutdownInv, UNCHANGED <<listening, mutationsClosed, step, code, conn, cut>>,
           step # "exited",
           \/ /\ ~mutationsClosed /\ busy' = busy
              /\ \E t \in Clients \cup {Sync} : mutations' = Append(mutations, t)
           \/ busy' = busy /\ mutations' = mutations
           \/ busy' = TRUE /\ mutations' = mutations /\ mutations # <<>>
           \/ busy' = FALSE /\ mutations' = Tail(mutations) /\ mutations # <<>>
    PROVE  ShutdownInv'
<1>1. /\ mutations' \in Seq(Clients \cup {Sync}) /\ busy' \in BOOLEAN
      /\ busy' => mutations' # <<>>
  <2>1. \A t \in Clients \cup {Sync} :
           /\ Append(mutations, t) \in Seq(Clients \cup {Sync})
           /\ Len(Append(mutations, t)) = Len(mutations) + 1 /\ Len(mutations) \in Nat
        BY DEF ShutdownInv
  <2>2. \A t \in Clients \cup {Sync} : Append(mutations, t) # <<>>
        BY <2>1
  <2>3. mutations # <<>> => Tail(mutations) \in Seq(Clients \cup {Sync})
        BY DEF ShutdownInv
  <2>4. /\ mutations \in Seq(Clients \cup {Sync}) /\ busy \in BOOLEAN
        /\ busy => mutations # <<>>
        BY DEF ShutdownInv
  <2>5. mutations' \in Seq(Clients \cup {Sync})
        BY <2>1, <2>3, <2>4
  <2>6. busy' \in {busy, TRUE, FALSE}
        OBVIOUS
  <2>7. busy' = FALSE \/ mutations' # <<>> \/ (busy' = busy /\ mutations' = mutations)
        BY <2>2
  <2>8. busy' => mutations' # <<>>
        BY <2>4, <2>7, Zenon
  <2> QED
      BY <2>4, <2>5, <2>6, <2>8
<1>2. step = "actual" => mutations' = <<>>
      BY DEF ShutdownInv, Shutdown!ActualAlone
<1> QED
    BY <1>1, <1>2 DEF ShutdownInv, Shutdown!ActualAlone, Shutdown!CleanExit

\* What a client does to its connection.
LEMMA ConnectionsKeep ==
    ASSUME ShutdownInv, step # "exited", NEW c \in Clients,
           UNCHANGED <<listening, mutationsClosed, step, code, mutations, busy, cut>>,
           \/ conn' = [conn EXCEPT ![c] = "closed"]
           \/ conn' = [conn EXCEPT ![c] = "open"] /\ (conn[c] = "open" \/ listening)
    PROVE  ShutdownInv'
<1>1. conn' \in [Clients -> {"none", "open", "closed"}]
      BY DEF ShutdownInv
<1>2. step \in {"drain", "actual"} => \A d \in Clients : conn'[d] # "open"
      BY DEF ShutdownInv
<1> QED
    BY <1>1, <1>2 DEF ShutdownInv, Shutdown!ActualAlone, Shutdown!CleanExit

\* The course of the shutdown, which leaves the tasks alone.
LEMMA CourseKeeps == ASSUME ShutdownInv, Shutdown!Course PROVE ShutdownInv'
<1>1. step # "exited" /\ UNCHANGED <<mutations, busy>>
      BY DEF Shutdown!Course, Shutdown!Signal, Shutdown!Expire, Shutdown!HttpClosed,
         Shutdown!HttpTimesOut, Shutdown!Drained, Shutdown!DrainTimesOut, Shutdown!ActualEnds,
         Shutdown!HardCap, Shutdown!lane
<1>2. CASE Shutdown!Signal
      BY <1>2 DEF Shutdown!Signal, Shutdown!web, Shutdown!lane, ShutdownInv,
         Shutdown!ActualAlone, Shutdown!CleanExit
<1>3. CASE Shutdown!Expire
      BY <1>3 DEF Shutdown!Expire, Shutdown!web, Shutdown!lane, Shutdown!gates, ShutdownInv,
         Shutdown!ActualAlone, Shutdown!CleanExit
<1>4. CASE Shutdown!HttpClosed \/ Shutdown!Drained
      BY <1>4 DEF Shutdown!HttpClosed, Shutdown!Drained, Shutdown!Exit, Shutdown!web,
         Shutdown!lane, Shutdown!gates, ShutdownInv, Shutdown!ActualAlone, Shutdown!CleanExit
<1>5. CASE \/ Shutdown!HttpTimesOut \/ Shutdown!DrainTimesOut \/ Shutdown!ActualEnds
           \/ Shutdown!HardCap
  <2>1. /\ step' = "exited" /\ UNCHANGED <<listening, mutationsClosed>> /\ Shutdown!CutAll
        /\ code' = 1 \/ step = "actual"
        BY <1>5 DEF Shutdown!HttpTimesOut, Shutdown!DrainTimesOut, Shutdown!ActualEnds,
           Shutdown!HardCap, Shutdown!Exit, Shutdown!gates
  <2>2. conn' \in [Clients -> {"none", "open", "closed"}]
        BY <2>1 DEF Shutdown!CutAll, ShutdownInv
  <2>3. step = "actual" => mutations = <<>> /\ cut' = {}
        BY <2>1 DEF Shutdown!CutAll, ShutdownInv, Shutdown!ActualAlone
  <2>4. step # "up"
        BY <1>5 DEF Shutdown!HttpTimesOut, Shutdown!DrainTimesOut, Shutdown!ActualEnds,
           Shutdown!HardCap
  <2> QED
      BY <1>1, <2>1, <2>2, <2>3, <2>4 DEF ShutdownInv, Shutdown!ActualAlone, Shutdown!CleanExit
<1> QED
    BY <1>2, <1>3, <1>4, <1>5 DEF Shutdown!Course

LEMMA ClientKeeps ==
    ASSUME ShutdownInv, NEW c \in Clients, Shutdown!Client(c) PROVE ShutdownInv'
<1>1. CASE Shutdown!Arrive(c) \/ Shutdown!Leave(c) \/ Shutdown!SweepIdle(c)
      BY <1>1, ConnectionsKeep DEF Shutdown!Arrive, Shutdown!Leave, Shutdown!SweepIdle,
         Shutdown!Running, Shutdown!lane, Shutdown!gates, Shutdown!course
<1>2. CASE Shutdown!Admit(c) \/ Shutdown!Answer(c) \/ Shutdown!Enqueue(c)
      BY <1>2, TasksKeep DEF Shutdown!Admit, Shutdown!Answer, Shutdown!Enqueue,
         Shutdown!Running, Shutdown!lane, Shutdown!gates, Shutdown!course
<1> QED
    BY <1>1, <1>2 DEF Shutdown!Client

LEMMA ShutdownStep == ShutdownInv /\ [Shutdown!Next]_Shutdown!vars => ShutdownInv'
<1> SUFFICES ASSUME ShutdownInv, [Shutdown!Next]_Shutdown!vars PROVE ShutdownInv'
    OBVIOUS
<1>1. CASE Shutdown!StartTask \/ Shutdown!EndTask \/ Shutdown!StartupEnds \/ Shutdown!Tick
  <2>1. busy => mutations # <<>>
        BY DEF ShutdownInv
  <2> QED
      BY <1>1, <2>1, TasksKeep DEF Shutdown!StartTask, Shutdown!EndTask, Shutdown!StartupEnds,
         Shutdown!Tick, Shutdown!Running, Shutdown!web, Shutdown!lane, Shutdown!gates,
         Shutdown!course
<1>2. CASE UNCHANGED Shutdown!vars
      BY <1>2 DEF Shutdown!vars, ShutdownInv, Shutdown!ActualAlone, Shutdown!CleanExit
<1> QED
    BY <1>1, <1>2, ClientKeeps, CourseKeeps DEF Shutdown!Next

\* For any clients, requests and ticks of the sync timer: while shutdownApi runs no
\* task waits or runs, and exit 0 has ended every accepted task and cut no client
\* that had a request under way.
THEOREM ShutsDownInOrder == Shutdown!Spec => [](Shutdown!ActualAlone /\ Shutdown!CleanExit)
<1>1. ShutdownInv => Shutdown!ActualAlone /\ Shutdown!CleanExit
      BY DEF ShutdownInv
<1> QED
    BY <1>1, ShutdownInit, ShutdownStep, PTL DEF Shutdown!Spec

\* The same for the composition, in which the coordinator may run instead.
THEOREM ShutdownStaysOrderly == MCSpec => []OrderlyShutdown
<1>1. MCInit => ShutdownInv
      BY ShutdownInit DEF MCInit
<1>2. ShutdownInv /\ [MCNext]_allVars => ShutdownInv'
  <2>1. [MCNext]_allVars => [Shutdown!Next]_Shutdown!vars
        BY DEF MCNext, allVars, ofShutdown, Shutdown!vars
  <2> QED
      BY <2>1, ShutdownStep
<1>3. ShutdownInv => OrderlyShutdown
      BY DEF ShutdownInv, OrderlyShutdown
<1> QED
    BY <1>1, <1>2, <1>3, PTL DEF MCSpec
=============================================================================
