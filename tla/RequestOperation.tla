--------------------------- MODULE RequestOperation ---------------------------
(***************************************************************************)
(* The app's end of the idempotency protocol                               *)
(* (finance-app/src/lib/request-operation-state.js), with the mutation     *)
(* hook that calls it.                                                     *)
(*                                                                         *)
(* A request is known by its digest.  The snapshot in MMKV (`store`) keeps *)
(* one record per digest and survives the app; promises and sweeps do not.  *)
(* All of it runs on one thread, so a step is what happens between two     *)
(* awaits.  The server is the specification that OperationJournal          *)
(* implements: OperationOutcome, in which a key is an execution of its     *)
(* own.  A status read sees an outcome until the server forgets it.        *)
(***************************************************************************)
EXTENDS Naturals, Sequences, FiniteSets, SequencesExt

CONSTANTS
    Digests,       \* requests of one profile
    MaxKeys,       \* bound: keys the snapshot's generation counter gives out
    MaxTrouble     \* bound: failing writes and deaths of the app

ASSUME RequestAssumption ==
    MaxKeys \in Nat /\ MaxTrouble \in Nat

Keys  == 1 .. MaxKeys
NoKey == 0

VARIABLES
    store,       \* the record of each digest
    generation,  \* the number of the last key
    call,        \* inFlight: the promise of execute() for each digest
    asked,       \* statusInFlight: the key whose status is awaited
    sweep,       \* what reconcileProfile has left of its list
    net,         \* keys whose request may still reach the server
    holder, fate, acted,   \* the server
    overtaken,   \* history: an answer met the record of another key
    trouble

app    == <<call, asked, sweep>>
server == <<holder, fate, acted>>
vars   == <<store, generation, call, asked, sweep, net,
            holder, fate, acted, overtaken, trouble>>

Server == INSTANCE OperationOutcome WITH Execs <- Keys, None <- NoKey

States == {"prepared", "dispatching", "outcome_unknown"}
Absent == [key |-> NoKey, state |-> "absent"]
Record(k, s) == [key |-> k, state |-> s]

NoCall == [at |-> "none", key |-> NoKey]
Sent(k) == [at |-> "sent", key |-> k]
Asking(k) == [at |-> "asking", key |-> k]

TypeOK ==
    /\ store \in [Digests -> [key : Keys, state : States] \cup {Absent}]
    /\ generation \in 0 .. MaxKeys
    /\ call \in [Digests -> [at : {"sent", "asking"}, key : Keys] \cup {NoCall}]
    /\ asked \in [Digests -> Keys \cup {NoKey}]
    /\ \A i \in DOMAIN sweep : sweep[i] \in Digests \X Keys
    /\ net \subseteq Keys /\ overtaken \in BOOLEAN /\ trouble \in 0 .. MaxTrouble

Init ==
    /\ store = [d \in Digests |-> Absent]
    /\ generation = 0
    /\ call = [d \in Digests |-> NoCall]
    /\ asked = [d \in Digests |-> NoKey]
    /\ sweep = <<>>
    /\ net = {}
    /\ Server!Init
    /\ overtaken = FALSE
    /\ trouble = 0

----------------------------------------------------------------------------
(***************************************************************************)
(* The store.                                                              *)
(***************************************************************************)
\* One synchronous write of the snapshot, which may throw and leave it as it
\* was; `through` says which.
Write(d, rec, through) ==
    \/ through /\ store' = [store EXCEPT ![d] = rec] /\ UNCHANGED trouble
    \/ /\ ~through /\ trouble < MaxTrouble
       /\ trouble' = trouble + 1
       /\ UNCHANGED store

----------------------------------------------------------------------------
(***************************************************************************)
(* A mutation: the hook prepares it and executes it.                       *)
(***************************************************************************)
\* prepare makes a record with a new key, and the promise in flight is joined
\* all the same.
JoinUnderNewKey(d) ==
    /\ call[d] # NoCall
    /\ store[d] = Absent /\ generation < MaxKeys
    /\ generation' = generation + 1
    /\ store' = [store EXCEPT ![d] = Record(generation', "prepared")]
    /\ UNCHANGED <<call, asked, sweep, net, server, overtaken, trouble>>

\* A record that was not dispatched, or none: the key is sent once the record
\* says so.  A write that throws before it means that nothing is sent.
Dispatch(d) ==
    LET known == store[d].state = "prepared"
        k == IF known THEN store[d].key ELSE generation + 1
    IN  /\ call[d] = NoCall
        /\ known \/ store[d] = Absent
        /\ k \in Keys
        /\ generation' = IF known THEN generation ELSE k
        /\ store' = [store EXCEPT ![d] = Record(k, "dispatching")]
        /\ call' = [call EXCEPT ![d] = Sent(k)]
        /\ net' = net \cup {k}
        /\ UNCHANGED <<asked, sweep, server, overtaken, trouble>>

\* The record is written, and the second write throws.
NotDispatched(d) ==
    /\ call[d] = NoCall
    /\ store[d] = Absent /\ generation < MaxKeys
    /\ trouble < MaxTrouble
    /\ trouble' = trouble + 1
    /\ generation' = generation + 1
    /\ store' = [store EXCEPT ![d] = Record(generation', "prepared")]
    /\ UNCHANGED <<call, asked, sweep, net, server, overtaken>>

\* Mutant: a record of unknown outcome is sent again, under a new key.
InquireAnew(d) ==
    /\ call[d] = NoCall
    /\ store[d].state \in {"dispatching", "outcome_unknown"}
    /\ generation < MaxKeys
    /\ generation' = generation + 1
    /\ store' = [store EXCEPT ![d] = Record(generation', "dispatching")]
    /\ call' = [call EXCEPT ![d] = Sent(generation')]
    /\ net' = net \cup {generation'}
    /\ UNCHANGED <<asked, sweep, server, overtaken, trouble>>

\* A record that may have been sent is asked about, never sent again; a status
\* read of the same digest that is under way is shared, whatever key it asks
\* about (queryStatusOnce).
Inquire(d) ==
    /\ call[d] = NoCall
    /\ store[d].state \in {"dispatching", "outcome_unknown"}
    /\ call' = [call EXCEPT ![d] = Asking(store[d].key)]
    /\ asked' = [asked EXCEPT ![d] = IF @ = NoKey THEN store[d].key ELSE @]
    /\ UNCHANGED <<store, generation, sweep, net, server,
                   overtaken, trouble>>

\* The direct answer is final: completed, or failed with a 4xx; the record
\* goes, and when its removal throws the caller gets that error instead.
DirectAnswer(d) ==
    \E through \in BOOLEAN :
        /\ Write(d, Absent, through)
        /\ call' = [call EXCEPT ![d] = NoCall]
        /\ UNCHANGED <<generation, asked, sweep, overtaken>>

AnsweredCompleted(d) ==
    /\ call[d].at = "sent" /\ fate[call[d].key] = "completed"
    /\ DirectAnswer(d)
    /\ UNCHANGED <<net, server>>

AnsweredFailed(d) ==
    /\ call[d].at = "sent" /\ fate[call[d].key] = "failed"
    /\ DirectAnswer(d)
    /\ UNCHANGED <<net, server>>

\* The server rejects the request before it touches its journal.
AnsweredRejected(d) ==
    /\ call[d].at = "sent" /\ call[d].key \in net
    /\ net' = net \ {call[d].key}
    /\ DirectAnswer(d)
    /\ UNCHANGED server

\* 429, 503 or requiresIdempotencyKeyReuse: it was not admitted, and the key
\* may be sent again (markPrepared).
AnsweredBusy(d) ==
    /\ call[d].at = "sent" /\ call[d].key \in net
    /\ net' = net \ {call[d].key}
    /\ \E through \in BOOLEAN :
           Write(d, IF store[d] = Absent THEN Absent
                    ELSE Record(store[d].key, "prepared"), through)
    /\ call' = [call EXCEPT ![d] = NoCall]
    /\ UNCHANGED <<generation, asked, sweep, server, overtaken>>

\* A timeout, an abort, a broken answer or OUTCOME_UNKNOWN: the record says so
\* and the status of its key is asked for.  A record that has gone, or was
\* never dispatched, is a local error.
Unanswered(d) ==
    /\ call[d].at = "sent"
    /\ \/ /\ store[d].state \in {"dispatching", "outcome_unknown"}
          /\ Write(d, Record(store[d].key, "outcome_unknown"), TRUE)
          /\ call' = [call EXCEPT ![d] = Asking(store[d].key)]
          /\ asked' = [asked EXCEPT ![d] = IF @ = NoKey THEN store[d].key ELSE @]
       \/ /\ Write(d, store[d], store[d].state \in {"absent", "prepared"})
          /\ call' = [call EXCEPT ![d] = NoCall]
          /\ UNCHANGED asked
    /\ UNCHANGED <<generation, sweep, net, server, overtaken>>

----------------------------------------------------------------------------
(***************************************************************************)
(* Status reads, for a mutation and for the sweep of reconcileProfile.     *)
(***************************************************************************)
\* What is left of the sweep when its next status read has begun: digests in
\* flight are passed over.
Remaining(list, c) ==
    LET todo == {i \in DOMAIN list : c[list[i][1]] = NoCall}
    IN  IF todo = {} THEN <<>>
        ELSE SubSeq(list, CHOOSE i \in todo : \A j \in todo : i <= j, Len(list))

AskFor(list, a) ==
    IF list = <<>> THEN a
    ELSE [a EXCEPT ![Head(list)[1]] = IF @ = NoKey THEN Head(list)[2] ELSE @]

\* The list is taken here, in the order the records were made, and used after
\* the awaits.
SweepBegins ==
    LET dispatched == {d \in Digests : store[d].state \in States \ {"prepared"}}
        list == [i \in 1 .. Cardinality(dispatched) |->
                   CHOOSE p \in {<<d, store[d].key>> : d \in dispatched} :
                      Cardinality({d \in dispatched : store[d].key <= p[2]}) = i]
    IN  /\ sweep = <<>>
        /\ sweep' = Remaining(list, call)
        /\ sweep' # <<>>
        /\ asked' = AskFor(sweep', asked)
        /\ UNCHANGED <<store, generation, call, net, server,
                       overtaken, trouble>>

\* What the answer makes of the record of its digest: final outcomes clear
\* it, all others mark it, and a prepared one is a local error.
Settled(d, final) ==
    IF final THEN Absent
    ELSE IF store[d].state \in {"absent", "prepared"} THEN store[d]
    ELSE Record(store[d].key, "outcome_unknown")

\* The answer to a status read, for everyone who shares the read.
StatusAnswer(d) ==
    LET k      == asked[d]
        seen   == IF holder[k] = k THEN fate[k] ELSE "unborn"
        waits  == call[d].at = "asking"
        sweeps == sweep # <<>> /\ Head(sweep)[1] = d
        c      == IF waits THEN [call EXCEPT ![d] = NoCall] ELSE call
    IN  /\ k # NoKey
        /\ \E read, through \in BOOLEAN :
              LET final == read /\ seen \in Server!Final
                  throws == ~through \/ (~final /\ store[d].state = "prepared")
              IN  /\ Write(d, Settled(d, final), through)
                  /\ sweep' = IF ~sweeps THEN sweep
                              ELSE IF throws THEN <<>>
                              ELSE Remaining(Tail(sweep), c)
        /\ call' = c
        /\ asked' = IF sweeps THEN AskFor(sweep', [asked EXCEPT ![d] = NoKey])
                    ELSE [asked EXCEPT ![d] = NoKey]
        /\ overtaken' = (overtaken \/ store[d].key \notin {NoKey, k})
        /\ UNCHANGED <<generation, net, server>>

----------------------------------------------------------------------------
(***************************************************************************)
(* The profile, the app's process, and the server.                         *)
(***************************************************************************)
\* purgeFinanceProfile: refused while a record may have been dispatched.
Purge ==
    /\ \E d \in Digests : store[d] # Absent
    /\ \A d \in Digests : store[d].state \in {"absent", "prepared"}
    /\ store' = [d \in Digests |-> Absent]
    /\ UNCHANGED <<generation, call, asked, sweep, net, server, overtaken,
                   trouble>>

Dies ==
    /\ trouble < MaxTrouble
    /\ trouble' = trouble + 1
    /\ call' = [d \in Digests |-> NoCall]
    /\ asked' = [d \in Digests |-> NoKey]
    /\ sweep' = <<>>
    /\ UNCHANGED <<store, generation, net, server, overtaken>>

\* A request that waits for nobody any more is lost.
Lost(k) ==
    /\ k \in net
    /\ net' = net \ {k}
    /\ UNCHANGED <<store, generation, app, server, overtaken, trouble>>

Arrives(k) ==
    /\ k \in net
    /\ net' = net \ {k}
    /\ Server!Begin(k, k)
    /\ UNCHANGED <<store, generation, app, overtaken, trouble>>

Acts(k) ==
    /\ Server!Act(k) /\ ~acted[k]
    /\ UNCHANGED <<store, generation, app, net, overtaken, trouble>>

Resolves(k) ==
    /\ \E f \in Server!Final : Server!Resolve(k, f)
    /\ UNCHANGED <<store, generation, app, net, overtaken, trouble>>

Next ==
    \/ \E d \in Digests :
          \/ JoinUnderNewKey(d) \/ Dispatch(d) \/ NotDispatched(d)
          \/ Inquire(d) \/ AnsweredCompleted(d) \/ AnsweredFailed(d)
          \/ AnsweredRejected(d) \/ AnsweredBusy(d) \/ Unanswered(d)
          \/ StatusAnswer(d)
    \/ SweepBegins \/ Purge \/ Dies
    \/ \E k \in Keys : Lost(k) \/ Arrives(k) \/ Acts(k) \/ Resolves(k)

Spec == Init /\ [][Next]_vars

----------------------------------------------------------------------------
(***************************************************************************)
(* Properties.                                                             *)
(***************************************************************************)
\* "Only after one of those terminal outcomes ... may a later intentional
\* mutation receive a new key": a key that may still have an effect is the
\* one its request has on record.
Unsettled == {k \in Keys : k \in net \/ fate[k] = "open"}
OnRecord  == {store[d].key : d \in {e \in Digests : store[e].state \in States \ {"prepared"}}}

UnsettledIsOnRecord == Unsettled \subseteq OnRecord

\* It holds as long as no answer about one key meets the record of another,
\* which the sweep's old list makes possible: through deaths, failing writes,
\* refusals, purges and answers that are lost.
UnsettledIsOnRecordUntilOvertaken == ~overtaken => UnsettledIsOnRecord
=============================================================================
