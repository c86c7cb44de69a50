--------------------------- MODULE OperationJournal ---------------------------
(***************************************************************************)
(* The idempotency journal of finance-dashboard and the executor above it. *)
(* A versioned mutation carries an Idempotency-Key; it and every status    *)
(* read run one at a time on `mutationQueue`.  The journal file is read    *)
(* from disk on every call and replaced on every write, so the variable    *)
(* `journal` IS the file and survives a crash; `queue`, `op` and `reply`   *)
(* are the process and its clients, and do not.                            *)
(*                                                                         *)
(* An execution is one admission of one key.  `effect[e]` is what became   *)
(* of the financial effect of execution e, which the journal never sees:   *)
(* the domain call may still be running after its caller was rejected by   *)
(* the coordinator's deadline, or may be finished by a saga after a crash. *)
(***************************************************************************)
EXTENDS Integers, Sequences, FiniteSets

CONSTANTS
    Clients,         \* HTTP requests in flight, one per client
    Keys,            \* idempotency keys; numbers, so that < is compareStrings
    Bodies,          \* requests, up to equality of their fingerprint
    Execs,           \* identities for admissions: bounds how many there are
    NoBody, NoExec,
    LocalBodies,     \* sidecar-only mutations: no sync after the local write
    BankBodies,      \* no domain write: the effect is made by the sync itself
    SagaBodies,      \* mutations driven by a saga that can prove completion
    LegacyKeys,      \* keys that start with a record of the previous server
    LegacyBodies,    \* the requests those records are about
    MaxNonterminal, MaxTerminal, MaxPending,
    MaxSubmits       \* bound on requests sent

ASSUME JournalAssumption ==
    /\ Keys \subseteq Nat \ {0}
    /\ IsFiniteSet(Keys)
    /\ NoBody \notin Bodies
    /\ Execs \subseteq Nat
    /\ NoExec \notin Execs
    /\ LocalBodies \subseteq Bodies
    /\ BankBodies \subseteq Bodies
    /\ SagaBodies \subseteq Bodies
    /\ LocalBodies \cap BankBodies = {}
    /\ LegacyKeys \subseteq Keys
    /\ LegacyBodies \subseteq Bodies
    /\ MaxNonterminal \in Nat \ {0}
    /\ MaxTerminal \in Nat \ {0}
    /\ MaxPending \in Nat \ {0}
    /\ MaxSubmits \in Nat

VARIABLES
    journal,   \* the operations of the journal file, by key
    clock,     \* now(): timestamps of terminal records
    queue,     \* mutationQueue: requests whose task has not started
    op,        \* the task at its head, with the OperationContext
    reply,     \* what each client was last told
    submits,
    effect,    \* what became of each execution outside the journal
    admitted   \* history: key, body and recorded fate of each execution

vars == <<journal, clock, queue, op, reply, submits, effect, admitted>>

OpenPhases  == {"started", "local_applied", "sync_unknown"}
FinalPhases == {"completed", "failed"}

Record == [phase : OpenPhases \cup FinalPhases \cup {"absent"},
           versioned : BOOLEAN, body : Bodies \cup {NoBody},
           exec : Execs \cup {NoExec}, at : Nat]

Absent == [phase |-> "absent", versioned |-> TRUE,
           body |-> NoBody, exec |-> NoExec, at |-> 0]

\* A record of the previous server: its `started` and `failed` both mean
\* outcome unknown, and show the phase `started`.
Legacy(p, b) == [phase |-> p, versioned |-> FALSE,
                 body |-> b, exec |-> NoExec, at |-> 0]

StartedUnderUnknownPhase(b, e) == [phase |-> "admitted", versioned |-> TRUE,
                                   body |-> b, exec |-> e, at |-> 0]

Started(b, e) == [phase |-> "started", versioned |-> TRUE,
                  body |-> b, exec |-> e, at |-> 0]

NonterminalKeys(j) == {k \in Keys : j[k].phase \in OpenPhases}
TerminalKeys(j)    == {k \in Keys : j[k].phase \in FinalPhases}

Older(j, k, l) == \/ j[k].at < j[l].at
                  \/ j[k].at = j[l].at /\ k < l

PrunedWhateverPhase(j) ==
    LET kept == TerminalKeys(j) \cup NonterminalKeys(j)
    IN  {k \in kept : Cardinality({l \in kept : Older(j, k, l)}) >= MaxTerminal}

\* writePruned keeps the MaxTerminal youngest terminal records.
Pruned(j) ==
    {k \in TerminalKeys(j) :
        Cardinality({l \in TerminalKeys(j) : Older(j, k, l)}) >= MaxTerminal}

WritePruned(j) == [k \in Keys |-> IF k \in Pruned(j) THEN Absent ELSE j[k]]

(***************************************************************************)
(* A file write has three results: it returns; it throws with the old file *)
(* in place; or it throws after the rename (the chmod fails), with the new *)
(* file in place.                                                          *)
(***************************************************************************)
WriteResults == {"ok", "kept", "replaced"}
Durable(res) == res # "kept"

Put(k, r, res) ==
    journal' = IF Durable(res) THEN WritePruned([journal EXCEPT ![k] = r])
                               ELSE journal

-----------------------------------------------------------------------------
Request == [kind : {"mutate"}, client : Clients, key : Keys, body : Bodies]
           \cup [kind : {"status"}, client : Clients, key : Keys, body : {NoBody}]

Idle == [pc |-> "idle"]
Running(q, pc, e) == [pc |-> pc, req |-> q, exec |-> e, crossed |-> FALSE]

OpPcs == {"resolving", "handler", "applying", "returned", "syncing"}
Op == [pc : OpPcs, req : Request, exec : Execs \cup {NoExec}, crossed : BOOLEAN]

Refusals == {"reused", "full", "overloaded", "notfound"}
Answers  == FinalPhases \cup Refusals \cup {"unknown", "error"}

NoReply == [told |-> "nothing"]
Waiting == [told |-> "waiting"]
Lost    == [told |-> "lost"]
Replies == {NoReply, Waiting, Lost} \cup
           [told : Answers, exec : Execs \cup {NoExec}]
Reply(t, e) == [told |-> t, exec |-> IF t \in FinalPhases THEN e ELSE NoExec]

\* The task of request q settles: the client is answered, the queue moves on.
Settle(q, t, e) == /\ reply' = [reply EXCEPT ![q.client] = Reply(t, e)]
                   /\ op' = Idle

\* What a record says to the client of its key.
View(r) == CASE r.phase \in FinalPhases -> r.phase
             [] r.phase = "absent"      -> "notfound"
             [] OTHER                   -> "unknown"

Init ==
    /\ journal \in [Keys -> {Absent} \cup
                            {Legacy(p, b) : p \in {"started", "completed"},
                                            b \in LegacyBodies}]
    /\ \A k \in LegacyKeys : journal[k] # Absent
    /\ \A k \in Keys \ LegacyKeys : journal[k] = Absent
    /\ Cardinality(NonterminalKeys(journal)) <= MaxNonterminal
    /\ clock = 1
    /\ queue = <<>>
    /\ op = Idle
    /\ reply = [c \in Clients |-> NoReply]
    /\ submits = 0
    /\ effect = [e \in Execs |-> "none"]
    /\ admitted = [e \in Execs |-> [key |-> 0, body |-> NoBody, fate |-> "unborn"]]

-----------------------------------------------------------------------------
\* A client sends a request, or sends one again: retries are not special.
\* The queue refuses it at its capacity (the running task counts).
Submit(c) ==
    /\ reply[c] # Waiting
    /\ submits < MaxSubmits
    /\ submits' = submits + 1
    /\ \E q \in Request :
        /\ q.client = c
        /\ IF Len(queue) + (IF op = Idle THEN 0 ELSE 1) >= MaxPending
           THEN /\ reply' = [reply EXCEPT ![c] = Reply("overloaded", NoExec)]
                /\ UNCHANGED queue
           ELSE /\ queue' = Append(queue, q)
                /\ reply' = [reply EXCEPT ![c] = Waiting]
    /\ UNCHANGED <<journal, clock, op, effect, admitted>>

\* The head task starts.
Dequeue(q) == op = Idle /\ queue # <<>> /\ q = Head(queue) /\ queue' = Tail(queue)

\* journal.start / journal.get found a record that settles the request, or
\* refuses it: the fingerprint is compared before anything else.
AnswerFromRecord(q) ==
    LET r == journal[q.key] IN
    /\ Dequeue(q)
    /\ \/ q.kind = "mutate" /\ r.phase # "absent" /\ r.body # q.body
          /\ Settle(q, "reused", NoExec)
       \/ q.kind = "mutate" /\ r.phase \in FinalPhases /\ r.body = q.body
          /\ Settle(q, r.phase, r.exec)
       \/ q.kind = "status" /\ r.phase \notin OpenPhases
          /\ Settle(q, View(r), r.exec)
    /\ UNCHANGED <<journal, clock, submits, effect, admitted>>

\* The record is unresolved: ask the terminal-proof resolver.
BeginReconcile(q) ==
    LET r == journal[q.key] IN
    /\ Dequeue(q)
    /\ r.phase \in OpenPhases
    /\ q.kind = "mutate" => r.body = q.body
    /\ op' = Running(q, "resolving", NoExec)
    /\ UNCHANGED <<journal, clock, reply, submits, effect, admitted>>

IsNew(k) == journal[k].phase = "absent"

HasRoom == Cardinality(NonterminalKeys(journal)) < MaxNonterminal

\* A genuinely new key at the nonterminal capacity.
RefuseFull(q) ==
    /\ Dequeue(q)
    /\ q.kind = "mutate"
    /\ IsNew(q.key)
    /\ ~HasRoom
    /\ Settle(q, "full", NoExec)
    /\ UNCHANGED <<journal, clock, submits, effect, admitted>>

\* Executions are numbered in the order they are admitted.
IsNextExec(e) ==
    /\ admitted[e].fate = "unborn"
    /\ \A d \in Execs : d < e => admitted[d].fate # "unborn"

\* A genuinely new key: the started record is written before the handler
\* runs, and a write that throws keeps the handler from running.
Admit(q, e, res) ==
    /\ Dequeue(q)
    /\ q.kind = "mutate"
    /\ IsNew(q.key)
    /\ HasRoom
    /\ IsNextExec(e)
    /\ Put(q.key, Started(q.body, e), res)
    /\ admitted' = IF Durable(res)
                   THEN [admitted EXCEPT ![e] = [key |-> q.key, body |-> q.body,
                                                 fate |-> "open"]]
                   ELSE admitted
    /\ IF res = "ok"
       THEN op' = Running(q, "handler", e) /\ UNCHANGED reply
       ELSE Settle(q, "error", NoExec)
    /\ UNCHANGED <<clock, submits, effect>>

-----------------------------------------------------------------------------
\* The record of key k advances to phase p, which `from` phases allow.
Advance(k, p, from, res) ==
    LET r == journal[k]
        final == p \in FinalPhases
    IN  /\ r.versioned
        /\ r.phase \in from
        /\ Put(k, [r EXCEPT !.phase = p, !.at = IF final THEN clock ELSE @], res)
        /\ clock' = IF final THEN clock + 1 ELSE clock
        /\ admitted' = IF final /\ Durable(res)
                       THEN [admitted EXCEPT ![r.exec].fate = p]
                       ELSE admitted

\* A saga bound to this key and fingerprint has finished, remote sync included.
Proved(k) ==
    /\ journal[k].versioned
    /\ journal[k].body \in SagaBodies
    /\ \E e \in Execs : /\ admitted[e].key = k
                        /\ admitted[e].body = journal[k].body
                        /\ effect[e] = "settled"

\* The resolver proves completion and the record becomes terminal.  A retry is
\* told what the write did; a status read re-reads the file.
Reconcile(res) ==
    LET q == op.req IN
    /\ op.pc = "resolving"
    /\ Proved(q.key)
    /\ Advance(q.key, "completed", OpenPhases, res)
    /\ Settle(q, IF res = "ok" \/ (q.kind = "status" /\ Durable(res))
                 THEN "completed" ELSE "unknown", journal[q.key].exec)
    /\ UNCHANGED <<queue, submits, effect>>

\* The resolver has no proof (none exists, or it fails): still unknown.
StayUnknown ==
    /\ op.pc = "resolving"
    /\ Settle(op.req, "unknown", journal[op.req.key].exec)
    /\ UNCHANGED <<journal, clock, queue, submits, effect, admitted>>

-----------------------------------------------------------------------------
FailEvenAfterApply(res) ==
    /\ op.pc # "idle" /\ op.pc # "resolving"
    /\ Advance(op.req.key, "failed", {"started"}, res)
    /\ Settle(op.req, IF res = "ok" THEN "failed" ELSE "unknown", op.exec)
    /\ UNCHANGED <<queue, submits, effect>>

\* preApplyValidate or the handler throws a KnownPreApplyError: terminal, but
\* only before the effect boundary.
FailBeforeApply(res) ==
    /\ op.pc # "idle" /\ op.pc # "resolving"
    /\ ~op.crossed
    /\ Advance(op.req.key, "failed", {"started"}, res)
    /\ Settle(op.req, IF res = "ok" THEN "failed" ELSE "unknown", op.exec)
    /\ UNCHANGED <<queue, submits, effect>>

ThrowIsFailure ==
    /\ op.pc # "idle" /\ op.pc # "resolving"
    /\ Settle(op.req, "failed", op.exec)
    /\ UNCHANGED <<journal, clock, queue, submits, effect, admitted>>

\* The handler throws anything else, or anything at all past the boundary (a
\* domain error, a saga left unfinished, the coordinator's deadline).
HandlerThrows ==
    /\ op.pc # "idle" /\ op.pc # "resolving"
    /\ Settle(op.req, "unknown", op.exec)
    /\ UNCHANGED <<journal, clock, queue, submits, effect, admitted>>

\* The saga of another body already owns this key (its journal record was
\* pruned): the refusal is rethrown as it is and the record stays started.
SagaOwnsKey ==
    /\ op.pc = "handler"
    /\ \E e \in Execs : /\ admitted[e].key = op.req.key
                        /\ admitted[e].body \in SagaBodies \ {op.req.body}
                        /\ effect[e] # "none"
    /\ Settle(op.req, "reused", op.exec)
    /\ UNCHANGED <<journal, clock, queue, submits, effect, admitted>>

ApplyLocalThenCross ==
    /\ op.pc = "handler"
    /\ op.req.body \notin BankBodies
    /\ op' = [op EXCEPT !.pc = "applying"]
    /\ effect' = [effect EXCEPT ![op.exec] = "running"]
    /\ UNCHANGED <<journal, clock, queue, reply, submits, admitted>>

\* operation.applyLocal: the boundary is crossed, then the domain call begins.
ApplyLocal ==
    /\ op.pc = "handler"
    /\ op.req.body \notin BankBodies
    /\ op' = [op EXCEPT !.pc = "applying", !.crossed = TRUE]
    /\ effect' = [effect EXCEPT ![op.exec] = "running"]
    /\ UNCHANGED <<journal, clock, queue, reply, submits, admitted>>

\* The domain call returned (or there is none): the local checkpoint.
LocalApplied(res) ==
    LET e == op.exec IN
    /\ \/ op.pc = "applying" /\ effect[e] \in {"applied", "settled"}
       \/ op.pc = "handler" /\ op.req.body \in BankBodies
    /\ Advance(op.req.key, "local_applied", {"started"}, res)
    /\ IF res = "ok"
       THEN op' = [op EXCEPT !.pc = "returned", !.crossed = TRUE] /\ UNCHANGED reply
       ELSE Settle(op.req, "unknown", e)
    /\ UNCHANGED <<queue, submits, effect>>

\* A sync follows the local write unless the route has none, or its saga
\* has already synced.
NeedsSync(b, e) == b \notin LocalBodies /\ effect[e] # "settled"

\* operation.sync: the checkpoint, then the call.
SyncUnknown(res) ==
    LET e == op.exec IN
    /\ op.pc = "returned"
    /\ NeedsSync(op.req.body, e)
    /\ Advance(op.req.key, "sync_unknown", {"local_applied"}, res)
    /\ IF res = "ok"
       THEN op' = [op EXCEPT !.pc = "syncing"] /\ UNCHANGED reply
       ELSE Settle(op.req, "unknown", e)
    /\ effect' = IF res = "ok" /\ op.req.body \in BankBodies
                 THEN [effect EXCEPT ![e] = "running"] ELSE effect
    /\ UNCHANGED <<queue, submits>>

\* The handler returned; its last checkpoint makes the result replayable.
Complete(res) ==
    LET e == op.exec IN
    /\ \/ op.pc = "returned" /\ ~NeedsSync(op.req.body, e)
       \/ op.pc = "syncing" /\ effect[e] = "settled"
    /\ Advance(op.req.key, "completed", {"local_applied", "sync_unknown"}, res)
    /\ Settle(op.req, IF res = "ok" THEN "completed" ELSE "unknown", e)
    /\ UNCHANGED <<queue, submits, effect>>

-----------------------------------------------------------------------------
\* A domain call ends, perhaps long after its caller was rejected or the
\* process restarted: its effect is in the budget, or it never will be.
DomainEnds(e) ==
    /\ effect[e] = "running"
    /\ \E r \in {"applied", "void"} : effect' = [effect EXCEPT ![e] = r]
    /\ UNCHANGED <<journal, clock, queue, op, reply, submits, admitted>>

\* Some sync (this operation's, a later one's or the periodic one) uploads it,
\* and its saga, if it has one, finishes.
DomainSettles(e) ==
    /\ effect[e] = "applied"
    /\ effect' = [effect EXCEPT ![e] = "settled"]
    /\ UNCHANGED <<journal, clock, queue, op, reply, submits, admitted>>

\* The process dies and restarts: the file stays, the rest is gone.
Crash ==
    /\ op # Idle \/ queue # <<>>
    /\ queue' = <<>>
    /\ op' = Idle
    /\ reply' = [c \in Clients |-> IF reply[c] = Waiting
                                   THEN Lost ELSE reply[c]]
    /\ UNCHANGED <<journal, clock, submits, effect, admitted>>

-----------------------------------------------------------------------------
StartTask ==
    \E q \in Request :
        \/ AnswerFromRecord(q) \/ BeginReconcile(q) \/ RefuseFull(q)
        \/ \E e \in Execs, res \in WriteResults : Admit(q, e, res)

ContinueTask ==
    \/ StayUnknown \/ HandlerThrows \/ SagaOwnsKey \/ ApplyLocal
    \/ \E res \in WriteResults :
        \/ Reconcile(res) \/ FailBeforeApply(res) \/ LocalApplied(res)
        \/ SyncUnknown(res) \/ Complete(res)

Next ==
    \/ \E c \in Clients : Submit(c)
    \/ StartTask
    \/ ContinueTask
    \/ \E e \in Execs : DomainEnds(e) \/ DomainSettles(e)
    \/ Crash

Spec == Init /\ [][Next]_vars

-----------------------------------------------------------------------------
TypeOK ==
    /\ journal \in [Keys -> Record]
    /\ clock \in Nat
    /\ queue \in Seq(Request)
    /\ op \in {Idle} \cup Op
    /\ reply \in [Clients -> Replies]
    /\ submits \in Nat
    /\ effect \in [Execs -> {"none", "running", "applied", "settled", "void"}]
    /\ admitted \in [Execs -> [key : Nat, body : Bodies \cup {NoBody},
                               fate : {"unborn", "open"} \cup FinalPhases]]

\* An execution whose outcome no durable record settles still holds its key:
\* it was not pruned or overwritten, so its key cannot be admitted again.
UnresolvedHoldsKey ==
    \A e \in Execs : admitted[e].fate = "open" =>
        LET r == journal[admitted[e].key]
        IN  r.exec = e /\ r.phase \in OpenPhases

\* An execution recorded as failed had no effect, and has none under way.
FailedHadNoEffect ==
    \A e \in Execs : admitted[e].fate = "failed" => effect[e] = "none"

\* The work of request b under key k was done by some execution.
Done(k, b) ==
    \E e \in Execs :
        /\ admitted[e].key = k
        /\ admitted[e].body = b
        /\ effect[e] \in IF b \in LocalBodies THEN {"applied", "settled"}
                                              ELSE {"settled"}

\* An execution recorded as completed was applied, and uploaded if its route
\* syncs, by itself or by an earlier run of the same saga.
CompletedWasDone ==
    \A e \in Execs : admitted[e].fate = "completed" =>
        Done(admitted[e].key, admitted[e].body)

\* What a client was told about its own request is true of the domain: success
\* means done, failure means nothing happened.
RepliesAreTrue ==
    \A c \in Clients :
        /\ reply[c].told = "completed" /\ reply[c].exec # NoExec
             => Done(admitted[reply[c].exec].key, admitted[reply[c].exec].body)
        /\ reply[c].told = "failed" => effect[reply[c].exec] = "none"

\* A completed record stands for work that was done, and no reply tells a client
\* what is not so.
RecordsAndRepliesAreTrue == CompletedWasDone /\ RepliesAreTrue

\* An unresolved record of the previous server, which might have had effects,
\* is never settled, retried, overwritten or pruned: only an operator may.
LegacyUnresolvedIsKept ==
    [][\A k \in Keys : ~journal[k].versioned /\ journal[k].phase \in OpenPhases
         => journal'[k] = journal[k]]_vars

\* A recorded outcome is final: a terminal record is never reopened, changed to
\* the other outcome or given to another execution; it can only be pruned.
TerminalIsFinal ==
    [][\A k \in Keys : journal[k].phase \in FinalPhases =>
         \/ journal'[k] = journal[k]
         \/ journal'[k] = Absent]_vars

\* The record of the running operation is the one its handler is writing: no
\* other task, retry or prune moved it while the handler was awaiting.
HandlerOwnsRecord ==
    op.pc \in OpPcs \ {"resolving"} =>
        LET r == journal[op.req.key]
        IN  /\ r.exec = op.exec
            /\ r.phase \in CASE op.pc \in {"handler", "applying"} -> {"started"}
                             [] op.pc = "returned" -> {"local_applied"}
                             [] OTHER -> {"sync_unknown"}

-----------------------------------------------------------------------------
Outcome == INSTANCE OperationOutcome WITH
    None   <- NoExec,
    holder <- [k \in Keys |-> journal[k].exec],
    fate   <- [e \in Execs |-> admitted[e].fate],
    acted  <- [e \in Execs |-> effect[e] # "none"]

\* The journal, its executor, crashes and pruning implement the abstract
\* promise: one execution per key until its outcome is known.
ImplementsOutcome == Outcome!Spec
=============================================================================
