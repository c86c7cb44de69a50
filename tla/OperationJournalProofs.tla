------------------------ MODULE OperationJournalProofs ------------------------
(***************************************************************************)
(* Proofs about OperationJournal for every number of clients, keys, bodies *)
(* and admissions and every capacity: its invariants, that what its        *)
(* records and replies say of the domain is true, and that it implements   *)
(* OperationOutcome.                                                       *)
(***************************************************************************)
EXTENDS OperationJournal, FiniteSetTheorems, TLAPS

(***************************************************************************)
(* The inductive invariant.  UnresolvedHoldsKey alone is not inductive: to *)
(* know that a step which makes a record terminal settles the execution it *)
(* names, record and execution must agree (RecordsAgree), and to know that *)
(* a handler fails only what it owns and has not yet applied, the running  *)
(* operation must agree with its record and its effect (OpAgrees).         *)
(***************************************************************************)
RecordsAgree ==
    \A k \in Keys :
        LET r == journal[k] IN
        /\ r.phase = "absent" => r.exec = NoExec
        /\ ~r.versioned => r.exec = NoExec /\ r.phase \in {"started", "completed"}
        /\ r.versioned /\ r.phase # "absent" =>
             /\ r.exec \in Execs
             /\ admitted[r.exec].key = k
             /\ admitted[r.exec].body = r.body
             /\ admitted[r.exec].fate = IF r.phase \in OpenPhases THEN "open"
                                                                 ELSE r.phase

OpAgrees ==
    /\ op.pc = "resolving" => journal[op.req.key].phase \in OpenPhases
    /\ op.pc \in OpPcs \ {"resolving"} =>
         /\ op.exec \in Execs
         /\ journal[op.req.key].versioned
         /\ op.pc = "handler" => ~op.crossed /\ effect[op.exec] = "none"
         /\ op.pc # "handler" => op.crossed

\* Only an admitted execution acts, and none acts once recorded as failed.
EffectsAdmitted ==
    \A e \in Execs : effect[e] # "none" => admitted[e].fate \in {"open", "completed"}

AdmittedUnderKey ==
    \A e \in Execs : admitted[e].fate # "unborn" => admitted[e].key \in Keys

IInv == /\ TypeOK
        /\ AdmittedUnderKey
        /\ RecordsAgree
        /\ UnresolvedHoldsKey
        /\ HandlerOwnsRecord
        /\ OpAgrees
        /\ EffectsAdmitted

-----------------------------------------------------------------------------
\* Pruning only ever removes terminal records.
LEMMA PrunedAreTerminal ==
    ASSUME NEW j, NEW k \in Keys
    PROVE  \/ WritePruned(j)[k] = j[k]
           \/ WritePruned(j)[k] = Absent /\ j[k].phase \in FinalPhases
BY DEF WritePruned, Pruned, TerminalKeys

\* A write replaces the record of one key, and may forget terminal records.
LEMMA PutShape ==
    ASSUME journal \in [Keys -> Record],
           NEW k \in Keys, NEW r \in Record, NEW res, Put(k, r, res)
    PROVE  /\ journal' \in [Keys -> Record]
           /\ \A l \in Keys :
                LET old == IF Durable(res) /\ l = k THEN r ELSE journal[l]
                IN  \/ journal'[l] = old
                    \/ journal'[l] = Absent /\ old.phase \in FinalPhases
<1> DEFINE j == [journal EXCEPT ![k] = r]
<1>1. j \in [Keys -> Record]
  OBVIOUS
<1>2. Absent \in Record
  BY DEF Absent, Record
<1>3. CASE Durable(res)
  <2>1. journal' = WritePruned(j)
    BY <1>3 DEF Put
  <2>2. \A l \in Keys : \/ journal'[l] = j[l]
                        \/ journal'[l] = Absent /\ j[l].phase \in FinalPhases
    BY <2>1, PrunedAreTerminal
  <2>3. journal' \in [Keys -> Record]
    <3>1. journal' = [l \in Keys |-> IF l \in Pruned(j) THEN Absent ELSE j[l]]
      BY <2>1 DEF WritePruned
    <3> HIDE DEF j
    <3> QED BY <3>1, <1>1, <1>2
  <2> QED BY <1>3, <2>2, <2>3
<1>4. CASE ~Durable(res)
  BY <1>4 DEF Put
<1> QED BY <1>3, <1>4

\* What an advance of the record under k does to the journal and the history.
LEMMA AdvanceShape ==
    ASSUME IInv,
           NEW k \in Keys, NEW p \in OpenPhases \cup FinalPhases,
           NEW from \in SUBSET OpenPhases, NEW res, Advance(k, p, from, res)
    PROVE  /\ journal' \in [Keys -> Record]
           /\ clock' \in Nat
           /\ admitted' \in [Execs -> [key : Nat, body : Bodies \cup {NoBody},
                                 fate : {"unborn", "open"} \cup FinalPhases]]
           /\ journal[k].exec \in Execs
           /\ \A l \in Keys \ {k} :
                \/ journal'[l] = journal[l]
                \/ journal'[l] = Absent /\ journal[l].phase \in FinalPhases
           /\ \/ ~Durable(res) /\ journal'[k] = journal[k]
              \/ /\ Durable(res)
                 /\ journal'[k].phase = p
                 /\ journal'[k].versioned
                 /\ journal'[k].exec = journal[k].exec
                 /\ journal'[k].body = journal[k].body
              \/ Durable(res) /\ journal'[k] = Absent /\ p \in FinalPhases
           /\ \A e \in Execs :
                /\ admitted'[e].key = admitted[e].key
                /\ admitted'[e].body = admitted[e].body
                /\ admitted'[e].fate = IF /\ e = journal[k].exec
                                          /\ Durable(res) /\ p \in FinalPhases
                                       THEN p ELSE admitted[e].fate
<1> DEFINE r == [journal[k] EXCEPT !.phase = p,
                                   !.at = IF p \in FinalPhases THEN clock ELSE @]
<1>1. /\ journal[k] \in Record /\ clock \in Nat
      /\ journal \in [Keys -> Record]
  BY DEF IInv, TypeOK
<1>2. r \in Record
  BY <1>1 DEF Record, OpenPhases, FinalPhases
<1>3. Put(k, r, res)
  BY DEF Advance
<1>4. /\ r.phase = p /\ r.versioned = journal[k].versioned
      /\ r.exec = journal[k].exec /\ r.body = journal[k].body
  BY <1>1 DEF Record
<1>5. journal[k].versioned /\ journal[k].phase \in OpenPhases
  BY DEF Advance
<1>6. journal[k].exec \in Execs
  BY <1>5 DEF IInv, RecordsAgree, OpenPhases
<1> HIDE DEF r
<1>7. /\ journal' \in [Keys -> Record]
      /\ \A l \in Keys :
           LET old == IF Durable(res) /\ l = k THEN r ELSE journal[l]
           IN  \/ journal'[l] = old
               \/ journal'[l] = Absent /\ old.phase \in FinalPhases
  BY <1>1, <1>2, <1>3, PutShape
<1>8. ~Durable(res) => journal'[k] = journal[k]
  BY <1>3 DEF Put
<1>9. clock' \in Nat
  BY <1>1 DEF Advance
<1>10. /\ admitted' \in [Execs -> [key : Nat, body : Bodies \cup {NoBody},
                                 fate : {"unborn", "open"} \cup FinalPhases]]
       /\ \A e \in Execs :
            /\ admitted'[e].key = admitted[e].key
            /\ admitted'[e].body = admitted[e].body
            /\ admitted'[e].fate = IF /\ e = journal[k].exec
                                      /\ Durable(res) /\ p \in FinalPhases
                                   THEN p ELSE admitted[e].fate
  BY <1>6 DEF IInv, TypeOK, Advance
<1>11. \A l \in Keys \ {k} :
         \/ journal'[l] = journal[l]
         \/ journal'[l] = Absent /\ journal[l].phase \in FinalPhases
  BY <1>7
<1>12. Durable(res) => \/ journal'[k] = r
                       \/ journal'[k] = Absent /\ r.phase \in FinalPhases
  BY <1>7
<1> QED BY <1>4, <1>5, <1>6, <1>7, <1>8, <1>9, <1>10, <1>11, <1>12

\* Advancing a record keeps records and executions in agreement.
LEMMA AdvanceAgrees ==
    ASSUME IInv,
           NEW k \in Keys, NEW p \in OpenPhases \cup FinalPhases,
           NEW from \in SUBSET OpenPhases, NEW res, Advance(k, p, from, res)
    PROVE  RecordsAgree' /\ UnresolvedHoldsKey' /\ AdmittedUnderKey'
<1> DEFINE x == journal[k].exec
<1>1. /\ x \in Execs /\ journal[k].versioned /\ journal[k].phase \in OpenPhases
      /\ admitted[x].key = k /\ admitted[x].body = journal[k].body
      /\ admitted[x].fate = "open"
  BY DEF Advance, IInv, RecordsAgree, OpenPhases
<1>2. \A l \in Keys \ {k} : journal[l].versioned /\ journal[l].phase # "absent"
                              => journal[l].exec # x
  BY <1>1 DEF IInv, RecordsAgree
<1> HIDE DEF x
<1>3. \A e \in Execs : /\ admitted'[e].key = admitted[e].key
                       /\ admitted'[e].body = admitted[e].body
                       /\ admitted'[e].fate = IF e = x /\ Durable(res) /\ p \in FinalPhases
                                              THEN p ELSE admitted[e].fate
  BY AdvanceShape DEF x
<1>4. \A l \in Keys \ {k} :
         \/ journal'[l] = journal[l]
         \/ journal'[l] = Absent /\ journal[l].phase \in FinalPhases
  BY AdvanceShape
<1>5. \/ ~Durable(res) /\ journal'[k] = journal[k]
      \/ /\ Durable(res)
         /\ journal'[k].phase = p
         /\ journal'[k].versioned
         /\ journal'[k].exec = x
         /\ journal'[k].body = journal[k].body
      \/ Durable(res) /\ journal'[k] = Absent /\ p \in FinalPhases
  BY AdvanceShape DEF x
<1>6. Absent.phase = "absent" /\ Absent.exec = NoExec /\ Absent.versioned
  BY DEF Absent
<1>7. /\ "absent" \notin OpenPhases /\ "absent" \notin FinalPhases
      /\ \A q \in FinalPhases : q \notin OpenPhases /\ q # "open"
  BY DEF OpenPhases, FinalPhases
<1>8. x = journal[k].exec
  BY DEF x
<1>9. RecordsAgree'
  <2> SUFFICES ASSUME NEW l \in Keys
               PROVE  LET r == journal'[l] IN
                      /\ r.phase = "absent" => r.exec = NoExec
                      /\ ~r.versioned => r.exec = NoExec /\ r.phase \in {"started", "completed"}
                      /\ r.versioned /\ r.phase # "absent" =>
                           /\ r.exec \in Execs
                           /\ admitted'[r.exec].key = l
                           /\ admitted'[r.exec].body = r.body
                           /\ admitted'[r.exec].fate =
                                IF r.phase \in OpenPhases THEN "open" ELSE r.phase
    BY DEF RecordsAgree
  <2>1. CASE l = k
    <3>1. CASE ~Durable(res)
      BY <2>1, <3>1, <1>1, <1>3, <1>5, <1>7, <1>8
    <3>2. CASE journal'[k] = Absent
      BY <2>1, <3>2, <1>6
    <3>3. CASE Durable(res) /\ journal'[k] # Absent
      BY <2>1, <3>3, <1>1, <1>3, <1>5, <1>7
    <3> QED BY <3>1, <3>2, <3>3
  <2>2. CASE l # k /\ journal'[l] = Absent
    BY <2>2, <1>6
  <2>3. CASE l # k /\ journal'[l] = journal[l]
    BY <2>3, <1>2, <1>3 DEF IInv, RecordsAgree
  <2> QED BY <2>1, <2>2, <2>3, <1>4
<1>10. UnresolvedHoldsKey'
  <2> SUFFICES ASSUME NEW e \in Execs, admitted'[e].fate = "open"
               PROVE  /\ journal'[admitted'[e].key].exec = e
                      /\ journal'[admitted'[e].key].phase \in OpenPhases
    BY DEF UnresolvedHoldsKey
  <2>1. admitted[e].fate = "open" /\ admitted'[e].key = admitted[e].key
    BY <1>1, <1>3
  <2>2. /\ admitted[e].key \in Keys
        /\ journal[admitted[e].key].exec = e
        /\ journal[admitted[e].key].phase \in OpenPhases
    BY <2>1 DEF IInv, UnresolvedHoldsKey, AdmittedUnderKey
  <2>3. CASE e = x
    <3>1. admitted[e].key = k /\ ~(Durable(res) /\ p \in FinalPhases)
      BY <2>3, <1>1, <1>3, <1>7
    <3> QED BY <3>1, <2>1, <2>2, <2>3, <1>5
  <2>4. CASE e # x
    <3>1. admitted[e].key # k
      BY <2>2, <2>4, <1>8
    <3> QED BY <3>1, <2>1, <2>2, <1>4, <1>7
  <2> QED BY <2>3, <2>4
<1>11. AdmittedUnderKey'
  BY <1>1, <1>3 DEF IInv, AdmittedUnderKey
<1> QED BY <1>9, <1>10, <1>11

-----------------------------------------------------------------------------
\* Settling a request answers its client and leaves no running operation.
LEMMA SettleShape ==
    ASSUME TypeOK, NEW q \in Request, NEW t \in Answers,
           NEW e \in Execs \cup {NoExec}, Settle(q, t, e)
    PROVE  /\ reply' \in [Clients -> Replies]
           /\ op' = Idle
           /\ HandlerOwnsRecord' /\ OpAgrees'
<1>1. Reply(t, e) \in Replies
  BY DEF Reply, Replies, Request
<1>2. reply' \in [Clients -> Replies]
  BY <1>1 DEF TypeOK, Settle
<1>3. op' = Idle
  BY DEF Settle
<1>4. HandlerOwnsRecord' /\ OpAgrees'
  BY <1>3 DEF Idle, HandlerOwnsRecord, OpAgrees, OpPcs
<1> QED BY <1>2, <1>3, <1>4

\* The head of the queue is a request, and taking it leaves a queue.
LEMMA DequeueShape ==
    ASSUME TypeOK, NEW q, Dequeue(q)
    PROVE  q \in Request /\ queue' \in Seq(Request) /\ op = Idle
BY DEF TypeOK, Dequeue

\* The running operation past its first read, and the record it owns.
LEMMA RunningShape ==
    ASSUME IInv, op.pc # "idle"
    PROVE  /\ op \in Op
           /\ op.req \in Request /\ op.req.key \in Keys
           /\ op.pc \in OpPcs
           /\ op.pc # "resolving" =>
                /\ op.exec \in Execs
                /\ journal[op.req.key].exec = op.exec
                /\ journal[op.req.key].versioned
                /\ admitted[op.exec].key = op.req.key
                /\ admitted[op.exec].fate = "open"
<1>1. op \in Op
  BY DEF IInv, TypeOK, Idle
<1>2. op.req \in Request /\ op.req.key \in Keys /\ op.pc \in OpPcs
  BY <1>1 DEF Op, Request
<1>3. ASSUME op.pc # "resolving"
      PROVE  /\ op.exec \in Execs
             /\ journal[op.req.key].exec = op.exec
             /\ journal[op.req.key].versioned
             /\ journal[op.req.key].phase \in OpenPhases
  BY <1>2, <1>3 DEF IInv, OpAgrees, HandlerOwnsRecord, OpPcs, OpenPhases
<1>4. ASSUME op.pc # "resolving"
      PROVE  /\ admitted[op.exec].key = op.req.key
             /\ admitted[op.exec].fate = "open"
  BY <1>2, <1>3, <1>4 DEF IInv, RecordsAgree, OpenPhases
<1> QED BY <1>1, <1>2, <1>3, <1>4

\* The conjuncts about the journal alone survive a step that leaves it alone.
LEMMA JournalUntouched ==
    ASSUME IInv, UNCHANGED <<journal, admitted>>
    PROVE  RecordsAgree' /\ UnresolvedHoldsKey' /\ AdmittedUnderKey'
BY DEF IInv, RecordsAgree, UnresolvedHoldsKey, AdmittedUnderKey

-----------------------------------------------------------------------------
LEMMA InitHolds ==
    ASSUME Init
    PROVE  IInv
<1>1. TypeOK
  <2>1. journal \in [Keys -> Record]
    <3>1. Absent \in Record
      BY DEF Record, Absent
    <3>2. \A p \in {"started", "completed"}, b \in LegacyBodies : Legacy(p, b) \in Record
      BY JournalAssumption DEF Record, Legacy, OpenPhases, FinalPhases
    <3> QED BY <3>1, <3>2 DEF Init
  <2>2. queue \in Seq(Request) /\ op \in {Idle} \cup Op /\ clock \in Nat /\ submits \in Nat
    BY DEF Init
  <2>3. reply \in [Clients -> Replies]
    BY DEF Init, Replies
  <2>4. /\ effect \in [Execs -> {"none", "running", "applied", "settled", "void"}]
        /\ admitted \in [Execs -> [key : Nat, body : Bodies \cup {NoBody},
                               fate : {"unborn", "open"} \cup FinalPhases]]
    BY DEF Init
  <2> QED BY <2>1, <2>2, <2>3, <2>4 DEF TypeOK
<1>2. RecordsAgree
  BY DEF Init, RecordsAgree, Absent, Legacy
<1>3. UnresolvedHoldsKey /\ AdmittedUnderKey /\ EffectsAdmitted
  BY DEF Init, UnresolvedHoldsKey, AdmittedUnderKey, EffectsAdmitted
<1>4. HandlerOwnsRecord /\ OpAgrees
  BY DEF Init, Idle, HandlerOwnsRecord, OpAgrees, OpPcs
<1> QED BY <1>1, <1>2, <1>3, <1>4 DEF IInv

-----------------------------------------------------------------------------
(***************************************************************************)
(* One lemma per group of actions: tasks that only answer, the admission,  *)
(* and the handler's checkpoints.                                          *)
(***************************************************************************)
\* A task that answers from what it read writes nothing.
LEMMA AnswerStep ==
    ASSUME IInv, NEW q, NEW t \in Answers, NEW e \in Execs \cup {NoExec},
           q \in Request, queue' \in Seq(Request), Settle(q, t, e),
           UNCHANGED <<journal, clock, submits, effect, admitted>>
    PROVE  IInv'
<1>1. HandlerOwnsRecord' /\ OpAgrees' /\ op' = Idle /\ reply' \in [Clients -> Replies]
  BY SettleShape DEF IInv
<1>2. TypeOK'
  BY <1>1 DEF IInv, TypeOK
<1>3. RecordsAgree' /\ UnresolvedHoldsKey' /\ AdmittedUnderKey'
  BY JournalUntouched
<1>4. EffectsAdmitted'
  BY DEF IInv, EffectsAdmitted
<1> QED BY <1>1, <1>2, <1>3, <1>4 DEF IInv

LEMMA AnswerFromRecordStep ==
    ASSUME IInv, NEW q, AnswerFromRecord(q)
    PROVE  IInv'
<1>1. q \in Request /\ queue' \in Seq(Request)
  BY DequeueShape DEF IInv, AnswerFromRecord
<1>2. q.key \in Keys /\ journal[q.key] \in Record
  BY <1>1 DEF IInv, TypeOK, Request
<1>3. journal[q.key].exec \in Execs \cup {NoExec}
  BY <1>2 DEF Record
<1>4. \E t \in Answers, e \in Execs \cup {NoExec} : Settle(q, t, e)
  <2>1. CASE q.kind = "mutate" /\ Settle(q, "reused", NoExec)
    BY <2>1 DEF Answers, Refusals
  <2>2. CASE journal[q.key].phase \in FinalPhases
             /\ Settle(q, journal[q.key].phase, journal[q.key].exec)
    BY <2>2, <1>3 DEF Answers
  <2>3. CASE journal[q.key].phase \notin OpenPhases
             /\ Settle(q, View(journal[q.key]), journal[q.key].exec)
    <3>1. View(journal[q.key]) \in Answers
      BY <2>3, <1>2 DEF View, Answers, Refusals, Record
    <3> QED BY <2>3, <3>1, <1>3
  <2> QED BY <2>1, <2>2, <2>3 DEF AnswerFromRecord
<1>5. UNCHANGED <<journal, clock, submits, effect, admitted>>
  BY DEF AnswerFromRecord
<1> QED BY <1>1, <1>4, <1>5, AnswerStep

LEMMA BeginReconcileStep ==
    ASSUME IInv, NEW q, BeginReconcile(q)
    PROVE  IInv'
<1>1. q \in Request /\ queue' \in Seq(Request)
  BY DequeueShape DEF IInv, BeginReconcile
<1>2. op' = [pc |-> "resolving", req |-> q, exec |-> NoExec, crossed |-> FALSE]
  BY DEF BeginReconcile, Running
<1>3. op' \in Op
  BY <1>1, <1>2 DEF Op, OpPcs
<1>4. UNCHANGED <<journal, clock, reply, submits, effect, admitted>>
  BY DEF BeginReconcile
<1>5. TypeOK'
  BY <1>1, <1>3, <1>4 DEF IInv, TypeOK
<1>6. RecordsAgree' /\ UnresolvedHoldsKey' /\ AdmittedUnderKey'
  BY <1>4, JournalUntouched
<1>7. journal[q.key].phase \in OpenPhases
  BY DEF BeginReconcile
<1>8. OpAgrees' /\ HandlerOwnsRecord'
  BY <1>2, <1>4, <1>7 DEF OpAgrees, HandlerOwnsRecord
<1>9. EffectsAdmitted'
  BY <1>4 DEF IInv, EffectsAdmitted
<1> QED BY <1>5, <1>6, <1>8, <1>9 DEF IInv

LEMMA AdmitStep ==
    ASSUME IInv, NEW q, NEW e \in Execs,
           NEW res \in WriteResults, Admit(q, e, res)
    PROVE  IInv'
<1> DEFINE k == q.key
<1>1. q \in Request /\ queue' \in Seq(Request)
  BY DequeueShape DEF IInv, Admit
<1>2. k \in Keys /\ q.body \in Bodies
  BY <1>1 DEF Request, Admit
<1>3. Started(q.body, e) \in Record
  BY <1>2 DEF Record, Started, OpenPhases
<1>4. journal[k].phase = "absent" /\ journal[k].exec = NoExec
  BY <1>2 DEF Admit, IsNew, IInv, RecordsAgree
<1>5. admitted[e].fate = "unborn" /\ effect[e] = "none"
  BY DEF Admit, IsNextExec, IInv, EffectsAdmitted
<1>6. /\ journal' \in [Keys -> Record]
      /\ \A l \in Keys :
           LET old == IF Durable(res) /\ l = k THEN Started(q.body, e) ELSE journal[l]
           IN  \/ journal'[l] = old
               \/ journal'[l] = Absent /\ old.phase \in FinalPhases
  BY <1>2, <1>3, PutShape DEF Admit, IInv, TypeOK
<1>7. /\ Started(q.body, e).phase = "started" /\ Started(q.body, e).versioned
      /\ Started(q.body, e).exec = e /\ Started(q.body, e).body = q.body
  BY DEF Started
<1>8. /\ Absent.phase = "absent" /\ Absent.exec = NoExec /\ Absent.versioned
      /\ "started" \notin FinalPhases /\ "started" \in OpenPhases
      /\ "absent" \notin OpenPhases /\ "absent" \notin FinalPhases
      /\ \A p \in FinalPhases : p \notin OpenPhases
      /\ NoExec \notin Execs
  BY JournalAssumption DEF Absent, OpenPhases, FinalPhases, JournalAssumption
<1>9. /\ Durable(res) => journal'[k] = Started(q.body, e)
      /\ ~Durable(res) => journal'[k] = journal[k]
      /\ \A l \in Keys \ {k} :
           \/ journal'[l] = journal[l]
           \/ journal'[l] = Absent /\ journal[l].phase \in FinalPhases
  BY <1>2, <1>4, <1>6, <1>7, <1>8
<1>10. /\ admitted' \in [Execs -> [key : Nat, body : Bodies \cup {NoBody},
                              fate : {"unborn", "open"} \cup FinalPhases]]
       /\ Durable(res) => /\ admitted'[e].key = k
                          /\ admitted'[e].body = q.body
                          /\ admitted'[e].fate = "open"
       /\ ~Durable(res) => admitted' = admitted
       /\ \A x \in Execs \ {e} : admitted'[x] = admitted[x]
  BY <1>2, JournalAssumption DEF Admit, IInv, TypeOK, JournalAssumption
<1> HIDE DEF k
<1>11. \A l \in Keys : journal[l].exec # e
  <2> SUFFICES ASSUME NEW l \in Keys, journal[l].exec = e PROVE FALSE
    OBVIOUS
  <2>1. journal[l].phase \in OpenPhases \cup FinalPhases \cup {"absent"}
    BY DEF IInv, TypeOK, Record
  <2>2. journal[l].versioned /\ journal[l].phase # "absent"
    BY <1>8 DEF IInv, RecordsAgree
  <2>3. admitted[e].fate \in {"open"} \cup FinalPhases
    BY <2>1, <2>2 DEF IInv, RecordsAgree
  <2> QED BY <2>3, <1>5 DEF FinalPhases
<1>12. RecordsAgree'
  <2> SUFFICES ASSUME NEW l \in Keys
               PROVE  LET r == journal'[l] IN
                      /\ r.phase = "absent" => r.exec = NoExec
                      /\ ~r.versioned => r.exec = NoExec /\ r.phase \in {"started", "completed"}
                      /\ r.versioned /\ r.phase # "absent" =>
                           /\ r.exec \in Execs
                           /\ admitted'[r.exec].key = l
                           /\ admitted'[r.exec].body = r.body
                           /\ admitted'[r.exec].fate =
                                IF r.phase \in OpenPhases THEN "open" ELSE r.phase
    BY DEF RecordsAgree
  <2>1. CASE l = k /\ Durable(res)
    BY <2>1, <1>7, <1>8, <1>9, <1>10
  <2>2. CASE journal'[l] = Absent
    BY <2>2, <1>8
  <2>3. CASE journal'[l] = journal[l]
    BY <2>3, <1>10, <1>11 DEF IInv, RecordsAgree
  <2> QED BY <2>1, <2>2, <2>3, <1>9
<1>13. UnresolvedHoldsKey' /\ AdmittedUnderKey'
  <2>1. AdmittedUnderKey'
    BY <1>2, <1>10 DEF k, IInv, AdmittedUnderKey
  <2>2. ASSUME NEW x \in Execs, admitted'[x].fate = "open"
        PROVE  /\ journal'[admitted'[x].key].exec = x
               /\ journal'[admitted'[x].key].phase \in OpenPhases
    <3>1. CASE x = e /\ Durable(res)
      BY <3>1, <1>7, <1>8, <1>9, <1>10
    <3>2. CASE x # e \/ ~Durable(res)
      <4>1. admitted'[x] = admitted[x]
        BY <3>2, <1>10
      <4>2. /\ admitted[x].key \in Keys
            /\ journal[admitted[x].key].exec = x
            /\ journal[admitted[x].key].phase \in OpenPhases
        BY <2>2, <4>1 DEF IInv, UnresolvedHoldsKey, AdmittedUnderKey
      <4>3. admitted[x].key # k
        BY <4>2, <1>4, <1>8 DEF k
      <4> QED BY <4>1, <4>2, <4>3, <1>8, <1>9
    <3> QED BY <3>1, <3>2
  <2> QED BY <2>1, <2>2 DEF UnresolvedHoldsKey
<1>14. EffectsAdmitted'
  BY <1>5, <1>10 DEF IInv, EffectsAdmitted, Admit
<1>15. CASE res = "ok"
  <2>1. op' = [pc |-> "handler", req |-> q, exec |-> e, crossed |-> FALSE]
    BY <1>15 DEF Admit, Running
  <2>2. op' \in Op
    BY <2>1, <1>1 DEF Op, OpPcs
  <2>3. UNCHANGED <<reply, clock, submits, effect>>
    BY <1>15 DEF Admit
  <2>4. TypeOK'
    BY <2>2, <2>3, <1>1, <1>6, <1>10 DEF IInv, TypeOK
  <2>5. journal'[q.key] = Started(q.body, e)
    BY <1>9, <1>15 DEF Durable, k
  <2>6. HandlerOwnsRecord' /\ OpAgrees'
    BY <2>1, <2>3, <2>5, <1>5, <1>7 DEF HandlerOwnsRecord, OpAgrees
  <2> QED BY <2>4, <2>6, <1>12, <1>13, <1>14 DEF IInv
<1>16. CASE res # "ok"
  <2>1. Settle(q, "error", NoExec)
    BY <1>16 DEF Admit
  <2>2. HandlerOwnsRecord' /\ OpAgrees' /\ op' = Idle /\ reply' \in [Clients -> Replies]
    BY <2>1, <1>1, SettleShape DEF IInv, Answers
  <2>3. TypeOK'
    BY <2>2, <1>1, <1>6, <1>10 DEF IInv, TypeOK, Admit
  <2> QED BY <2>2, <2>3, <1>12, <1>13, <1>14 DEF IInv
<1> QED BY <1>15, <1>16

\* A checkpoint leaves everything but its record and the operation alone.  The
\* operation either settles, or goes on to a state that matches its new record.
LEMMA CheckpointStep ==
    ASSUME IInv, NEW k \in Keys,
           NEW p \in OpenPhases \cup FinalPhases, NEW from \in SUBSET OpenPhases,
           NEW res \in WriteResults, Advance(k, p, from, res),
           UNCHANGED <<queue, submits>>,
           op' \in {Idle} \cup Op, reply' \in [Clients -> Replies],
           HandlerOwnsRecord', OpAgrees',
           effect' \in [Execs -> {"none", "running", "applied", "settled", "void"}],
           \A e \in Execs \ {journal[k].exec} : effect'[e] = effect[e],
           p = "failed" => effect'[journal[k].exec] = "none"
    PROVE  IInv'
<1>1. RecordsAgree' /\ UnresolvedHoldsKey' /\ AdmittedUnderKey'
  BY AdvanceAgrees
<1>2. TypeOK'
  BY AdvanceShape DEF IInv, TypeOK
<1>3. EffectsAdmitted'
  <2>1. admitted[journal[k].exec].fate = "open"
    BY DEF Advance, IInv, RecordsAgree, OpenPhases
  <2>2. \A e \in Execs : admitted'[e].fate = IF /\ e = journal[k].exec
                                               /\ Durable(res) /\ p \in FinalPhases
                                            THEN p ELSE admitted[e].fate
    BY AdvanceShape
  <2> QED BY <2>1, <2>2 DEF IInv, EffectsAdmitted, FinalPhases
<1> QED BY <1>1, <1>2, <1>3 DEF IInv

\* The checkpoint after which its task settles.
LEMMA LastCheckpointStep ==
    ASSUME IInv, op.pc # "idle",
           NEW p \in FinalPhases \cup OpenPhases, NEW from \in SUBSET OpenPhases,
           NEW res \in WriteResults, NEW t \in Answers, NEW e \in Execs \cup {NoExec},
           Advance(op.req.key, p, from, res), Settle(op.req, t, e),
           UNCHANGED <<queue, submits, effect>>,
           p = "failed" => effect[journal[op.req.key].exec] = "none"
    PROVE  IInv'
<1>1. op.req \in Request /\ op.req.key \in Keys
  BY RunningShape
<1>2. /\ HandlerOwnsRecord' /\ OpAgrees' /\ op' \in {Idle} \cup Op
      /\ reply' \in [Clients -> Replies]
  BY <1>1, SettleShape DEF IInv
<1>3. effect' \in [Execs -> {"none", "running", "applied", "settled", "void"}]
  BY DEF IInv, TypeOK
<1> QED BY <1>1, <1>2, <1>3, CheckpointStep

\* The checkpoint after which the handler goes on, past the effect boundary.
LEMMA NextCheckpointStep ==
    ASSUME IInv, op.pc # "idle", op.pc # "resolving",
           NEW p \in {"local_applied", "sync_unknown"},
           NEW from \in SUBSET OpenPhases,
           Advance(op.req.key, p, from, "ok"),
           op' \in Op, op'.req = op.req, op'.exec = op.exec, op'.crossed,
           op'.pc = IF p = "local_applied" THEN "returned" ELSE "syncing",
           effect' \in [Execs -> {"none", "running", "applied", "settled", "void"}],
           \A e \in Execs \ {op.exec} : effect'[e] = effect[e],
           UNCHANGED <<queue, submits, reply>>
    PROVE  IInv'
<1>1. /\ op.req.key \in Keys /\ op.exec \in Execs
      /\ journal[op.req.key].exec = op.exec
  BY RunningShape
<1>2. p \in OpenPhases /\ p \notin FinalPhases
  BY DEF OpenPhases, FinalPhases
<1>3. /\ journal'[op.req.key].phase = p
      /\ journal'[op.req.key].versioned
      /\ journal'[op.req.key].exec = op.exec
  <2> DEFINE k == op.req.key
  <2>1. k \in Keys /\ p \in OpenPhases \cup FinalPhases /\ Advance(k, p, from, "ok")
    BY <1>1, <1>2
  <2>2. Durable("ok")
    BY DEF Durable
  <2>3. journal[k].exec = op.exec
    BY <1>1
  <2> HIDE DEF k
  <2>4. \/ /\ journal'[k].phase = p
           /\ journal'[k].versioned
           /\ journal'[k].exec = journal[k].exec
        \/ p \in FinalPhases
    BY <2>1, <2>2, AdvanceShape
  <2> QED BY <2>3, <2>4, <1>2 DEF k
<1>4. HandlerOwnsRecord' /\ OpAgrees'
  <2>1. CASE p = "local_applied"
    BY <2>1, <1>1, <1>3 DEF HandlerOwnsRecord, OpAgrees
  <2>2. CASE p = "sync_unknown"
    BY <2>2, <1>1, <1>3 DEF HandlerOwnsRecord, OpAgrees
  <2> QED BY <2>1, <2>2
<1>5. reply' \in [Clients -> Replies]
  BY DEF IInv, TypeOK
<1> QED BY <1>1, <1>2, <1>4, <1>5, CheckpointStep DEF WriteResults

-----------------------------------------------------------------------------
\* The invariant is inductive.
LEMMA NextKeepsInv ==
    ASSUME IInv, [Next]_vars
    PROVE  IInv'
<1> USE DEF WriteResults
<1>1. ASSUME NEW c \in Clients, Submit(c) PROVE IInv'
  <2>1. UNCHANGED <<journal, clock, op, effect, admitted>>
    BY <1>1 DEF Submit
  <2>2. submits' \in Nat
    BY <1>1 DEF Submit, IInv, TypeOK
  <2>3. PICK q \in Request :
            \/ /\ reply' = [reply EXCEPT ![c] = Reply("overloaded", NoExec)]
               /\ UNCHANGED queue
            \/ /\ queue' = Append(queue, q)
               /\ reply' = [reply EXCEPT ![c] = Waiting]
    BY <1>1 DEF Submit
  <2>4. Reply("overloaded", NoExec) \in Replies /\ Waiting \in Replies
    BY DEF Reply, Replies, Request, Answers, Refusals
  <2>5. queue' \in Seq(Request) /\ reply' \in [Clients -> Replies]
    <3>1. queue \in Seq(Request) /\ reply \in [Clients -> Replies]
      BY DEF IInv, TypeOK
    <3>2. Append(queue, q) \in Seq(Request)
      BY <3>1
    <3> QED BY <2>3, <2>4, <3>1, <3>2
  <2>6. TypeOK'
    BY <2>1, <2>2, <2>5 DEF IInv, TypeOK
  <2>7. RecordsAgree' /\ UnresolvedHoldsKey' /\ AdmittedUnderKey'
    BY <2>1, JournalUntouched
  <2>8. HandlerOwnsRecord' /\ OpAgrees' /\ EffectsAdmitted'
    BY <2>1 DEF IInv, HandlerOwnsRecord, OpAgrees, EffectsAdmitted
  <2> QED BY <2>6, <2>7, <2>8 DEF IInv
<1>2. ASSUME NEW q \in Request, AnswerFromRecord(q) PROVE IInv'
  BY <1>2, AnswerFromRecordStep
<1>3. ASSUME NEW q \in Request, BeginReconcile(q) PROVE IInv'
  BY <1>3, BeginReconcileStep
<1>4. ASSUME NEW q \in Request, RefuseFull(q) PROVE IInv'
  <2>1. queue' \in Seq(Request)
    BY <1>4, DequeueShape DEF IInv, RefuseFull
  <2>2. "full" \in Answers
    BY DEF Answers, Refusals
  <2> QED BY <1>4, <2>1, <2>2, AnswerStep DEF RefuseFull
<1>5. ASSUME NEW q \in Request, NEW e \in Execs, NEW res \in WriteResults,
             Admit(q, e, res)
      PROVE  IInv'
  BY <1>5, AdmitStep
<1>6. ASSUME NEW res \in WriteResults, Reconcile(res) PROVE IInv'
  <2>1. op.pc # "idle" /\ op.req.key \in Keys
    BY <1>6, RunningShape DEF Reconcile
  <2>2. journal[op.req.key].exec \in Execs \cup {NoExec}
    BY <2>1 DEF IInv, TypeOK, Record
  <2>3. PICK t \in {"completed", "unknown"} : Settle(op.req, t, journal[op.req.key].exec)
    BY <1>6 DEF Reconcile
  <2>4. t \in Answers /\ "completed" \in FinalPhases
    BY DEF Answers, FinalPhases
  <2> QED BY <1>6, <2>1, <2>2, <2>3, <2>4, LastCheckpointStep DEF Reconcile
<1>7. ASSUME StayUnknown PROVE IInv'
  <2>1. op.pc # "idle" /\ op.req \in Request /\ op.req.key \in Keys
    BY <1>7, RunningShape DEF StayUnknown
  <2>2. journal[op.req.key].exec \in Execs \cup {NoExec}
    BY <2>1 DEF IInv, TypeOK, Record
  <2>3. "unknown" \in Answers /\ queue' \in Seq(Request)
    BY <1>7 DEF StayUnknown, Answers, IInv, TypeOK
  <2> QED BY <1>7, <2>1, <2>2, <2>3, AnswerStep DEF StayUnknown
<1>8. ASSUME NEW res \in WriteResults, FailBeforeApply(res) PROVE IInv'
  <2>1. /\ op.pc # "idle" /\ op.pc # "resolving" /\ ~op.crossed
        /\ Advance(op.req.key, "failed", {"started"}, res)
        /\ UNCHANGED <<queue, submits, effect>>
    BY <1>8 DEF FailBeforeApply
  <2>2. /\ op.exec \in Execs /\ journal[op.req.key].exec = op.exec
        /\ op.pc \in OpPcs
    BY <2>1, RunningShape
  <2>3. effect[op.exec] = "none"
    BY <2>1, <2>2 DEF IInv, OpAgrees
  <2>4. PICK t \in {"failed", "unknown"} : Settle(op.req, t, op.exec)
    BY <1>8 DEF FailBeforeApply
  <2>5. t \in Answers /\ "failed" \in FinalPhases /\ {"started"} \in SUBSET OpenPhases
    BY DEF Answers, FinalPhases, OpenPhases
  <2> QED BY <2>1, <2>2, <2>3, <2>4, <2>5, LastCheckpointStep
<1>9. ASSUME HandlerThrows \/ SagaOwnsKey PROVE IInv'
  <2>1. PICK t \in {"unknown", "reused"} : Settle(op.req, t, op.exec)
    BY <1>9 DEF HandlerThrows, SagaOwnsKey
  <2>2. /\ op.pc # "idle"
        /\ UNCHANGED <<journal, clock, queue, submits, effect, admitted>>
    BY <1>9 DEF HandlerThrows, SagaOwnsKey
  <2>3. op.req \in Request /\ op.exec \in Execs \cup {NoExec}
    BY <2>2, RunningShape DEF Op
  <2>4. t \in Answers /\ queue' \in Seq(Request)
    BY <2>2 DEF Answers, Refusals, IInv, TypeOK
  <2> QED BY <2>1, <2>2, <2>3, <2>4, AnswerStep
<1>10. ASSUME ApplyLocal PROVE IInv'
  <2>1. /\ op.pc = "handler" /\ op \in Op /\ op.exec \in Execs
        /\ journal[op.req.key].exec = op.exec
        /\ admitted[op.exec].fate = "open"
    BY <1>10, RunningShape DEF ApplyLocal
  <2>2. /\ op' \in Op /\ op'.pc = "applying" /\ op'.crossed
        /\ op'.req = op.req /\ op'.exec = op.exec
    BY <1>10, <2>1 DEF ApplyLocal, Op, OpPcs
  <2>3. /\ effect' \in [Execs -> {"none", "running", "applied", "settled", "void"}]
        /\ \A e \in Execs \ {op.exec} : effect'[e] = effect[e]
        /\ UNCHANGED <<journal, clock, queue, reply, submits, admitted>>
    BY <1>10 DEF ApplyLocal, IInv, TypeOK
  <2>4. TypeOK'
    BY <2>2, <2>3 DEF IInv, TypeOK
  <2>5. RecordsAgree' /\ UnresolvedHoldsKey' /\ AdmittedUnderKey'
    BY <2>3, JournalUntouched
  <2>6. HandlerOwnsRecord' /\ OpAgrees'
    BY <2>1, <2>2, <2>3 DEF IInv, HandlerOwnsRecord, OpAgrees, OpPcs
  <2>7. EffectsAdmitted'
    BY <2>1, <2>3 DEF IInv, EffectsAdmitted
  <2> QED BY <2>4, <2>5, <2>6, <2>7 DEF IInv
<1>11. ASSUME NEW res \in WriteResults, LocalApplied(res) PROVE IInv'
  <2>1. /\ op.pc # "idle" /\ op.pc # "resolving"
        /\ Advance(op.req.key, "local_applied", {"started"}, res)
        /\ UNCHANGED <<queue, submits, effect>>
    BY <1>11 DEF LocalApplied
  <2>2. op \in Op /\ op.exec \in Execs
    BY <2>1, RunningShape
  <2>3. "unknown" \in Answers /\ {"started"} \in SUBSET OpenPhases
        /\ "local_applied" \in OpenPhases
    BY DEF Answers, OpenPhases
  <2>4. CASE res = "ok"
    <3>1. /\ op' \in Op /\ op'.req = op.req /\ op'.exec = op.exec
          /\ op'.crossed /\ op'.pc = "returned" /\ UNCHANGED reply
      BY <1>11, <2>2, <2>4 DEF LocalApplied, Op, OpPcs
    <3>2. effect' \in [Execs -> {"none", "running", "applied", "settled", "void"}]
      BY <2>1 DEF IInv, TypeOK
    <3> QED BY <2>1, <2>3, <2>4, <3>1, <3>2, NextCheckpointStep
  <2>5. CASE res # "ok"
    <3>1. Settle(op.req, "unknown", op.exec)
      BY <1>11, <2>5 DEF LocalApplied
    <3> QED BY <2>1, <2>2, <2>3, <3>1, LastCheckpointStep
  <2> QED BY <2>4, <2>5
<1>12. ASSUME NEW res \in WriteResults, SyncUnknown(res) PROVE IInv'
  <2>1. /\ op.pc = "returned"
        /\ Advance(op.req.key, "sync_unknown", {"local_applied"}, res)
        /\ UNCHANGED <<queue, submits>>
    BY <1>12 DEF SyncUnknown
  <2>2. op \in Op /\ op.exec \in Execs /\ op.crossed
    BY <2>1, RunningShape DEF IInv, OpAgrees
  <2>3. "unknown" \in Answers /\ {"local_applied"} \in SUBSET OpenPhases
        /\ "sync_unknown" \in OpenPhases
    BY DEF Answers, OpenPhases
  <2>4. CASE res = "ok"
    <3>1. /\ op' \in Op /\ op'.req = op.req /\ op'.exec = op.exec
          /\ op'.crossed /\ op'.pc = "syncing" /\ UNCHANGED reply
      BY <1>12, <2>2, <2>4 DEF SyncUnknown, Op, OpPcs
    <3>2. /\ effect' \in [Execs -> {"none", "running", "applied", "settled", "void"}]
          /\ \A e \in Execs \ {op.exec} : effect'[e] = effect[e]
      BY <1>12 DEF SyncUnknown, IInv, TypeOK
    <3> QED BY <2>1, <2>3, <2>4, <3>1, <3>2, NextCheckpointStep
  <2>5. CASE res # "ok"
    <3>1. Settle(op.req, "unknown", op.exec) /\ UNCHANGED effect
      BY <1>12, <2>5 DEF SyncUnknown
    <3> QED BY <2>1, <2>2, <2>3, <3>1, LastCheckpointStep
  <2> QED BY <2>4, <2>5
<1>13. ASSUME NEW res \in WriteResults, Complete(res) PROVE IInv'
  <2>1. /\ op.pc # "idle" /\ op.pc # "resolving"
        /\ Advance(op.req.key, "completed", {"local_applied", "sync_unknown"}, res)
        /\ UNCHANGED <<queue, submits, effect>>
    BY <1>13 DEF Complete
  <2>2. op.exec \in Execs
    BY <2>1, RunningShape
  <2>3. PICK t \in {"completed", "unknown"} : Settle(op.req, t, op.exec)
    BY <1>13 DEF Complete
  <2>4. t \in Answers /\ {"local_applied", "sync_unknown"} \in SUBSET OpenPhases
        /\ "completed" \in FinalPhases
    BY DEF Answers, FinalPhases, OpenPhases
  <2> QED BY <2>1, <2>2, <2>3, <2>4, LastCheckpointStep
<1>14. ASSUME NEW e \in Execs, DomainEnds(e) \/ DomainSettles(e) PROVE IInv'
  <2>1. /\ UNCHANGED <<journal, clock, queue, op, reply, submits, admitted>>
        /\ effect[e] \in {"running", "applied"}
        /\ \E r \in {"applied", "void", "settled"} : effect' = [effect EXCEPT ![e] = r]
    BY <1>14 DEF DomainEnds, DomainSettles
  <2>2. /\ effect' \in [Execs -> {"none", "running", "applied", "settled", "void"}]
        /\ \A x \in Execs \ {e} : effect'[x] = effect[x]
    BY <2>1 DEF IInv, TypeOK
  <2>3. TypeOK'
    BY <2>1, <2>2 DEF IInv, TypeOK
  <2>4. RecordsAgree' /\ UnresolvedHoldsKey' /\ AdmittedUnderKey'
    BY <2>1, JournalUntouched
  <2>5. HandlerOwnsRecord'
    BY <2>1 DEF IInv, HandlerOwnsRecord
  <2>6. OpAgrees'
    BY <2>1, <2>2 DEF IInv, OpAgrees
  <2>7. EffectsAdmitted'
    BY <2>1, <2>2 DEF IInv, EffectsAdmitted
  <2> QED BY <2>3, <2>4, <2>5, <2>6, <2>7 DEF IInv
<1>15. ASSUME Crash PROVE IInv'
  <2>1. /\ queue' = <<>> /\ op' = Idle
        /\ UNCHANGED <<journal, clock, submits, effect, admitted>>
    BY <1>15 DEF Crash
  <2>2. reply' \in [Clients -> Replies]
    BY <1>15 DEF Crash, IInv, TypeOK, Replies
  <2>3. TypeOK'
    BY <2>1, <2>2 DEF IInv, TypeOK
  <2>4. RecordsAgree' /\ UnresolvedHoldsKey' /\ AdmittedUnderKey'
    BY <2>1, JournalUntouched
  <2>5. HandlerOwnsRecord' /\ OpAgrees'
    BY <2>1 DEF Idle, HandlerOwnsRecord, OpAgrees, OpPcs
  <2>6. EffectsAdmitted'
    BY <2>1 DEF IInv, EffectsAdmitted
  <2> QED BY <2>3, <2>4, <2>5, <2>6 DEF IInv
<1>16. ASSUME UNCHANGED vars PROVE IInv'
  <2>1. RecordsAgree' /\ UnresolvedHoldsKey' /\ AdmittedUnderKey'
    BY <1>16, JournalUntouched DEF vars
  <2>2. TypeOK' /\ HandlerOwnsRecord' /\ OpAgrees' /\ EffectsAdmitted'
    BY <1>16 DEF vars, IInv, TypeOK, HandlerOwnsRecord, OpAgrees, EffectsAdmitted
  <2> QED BY <2>1, <2>2 DEF IInv
<1> QED BY <1>1, <1>2, <1>3, <1>4, <1>5, <1>6, <1>7, <1>8, <1>9, <1>10, <1>11,
           <1>12, <1>13, <1>14, <1>15, <1>16 DEF Next, StartTask, ContinueTask

THEOREM Invariance == Spec => []IInv
<1>1. Init => IInv
  BY InitHolds
<1>2. IInv /\ [Next]_vars => IInv'
  BY NextKeepsInv
<1> QED BY <1>1, <1>2, PTL DEF Spec

-----------------------------------------------------------------------------
\* Every reachable state of every instance is well-typed.
THEOREM TypeCorrect == Spec => []TypeOK
<1>1. IInv => TypeOK
  BY DEF IInv
<1> QED BY <1>1, Invariance, PTL

\* At most one execution per key until its outcome is known: whatever crashes,
\* write failures, retries and pruning do, an unresolved execution keeps its key.
THEOREM UnresolvedNeverForgotten == Spec => []UnresolvedHoldsKey
<1>1. IInv => UnresolvedHoldsKey
  BY DEF IInv
<1> QED BY <1>1, Invariance, PTL

\* A recorded failure is a promise that nothing happened, and stays one even
\* though domain calls go on after their callers were rejected.
THEOREM FailureMeansNoEffect == Spec => []FailedHadNoEffect
<1>1. IInv => FailedHadNoEffect
  BY DEF IInv, FailedHadNoEffect, EffectsAdmitted
<1> QED BY <1>1, Invariance, PTL

\* The mutation queue gives a handler exclusive ownership of its record.
THEOREM HandlerOwnership == Spec => []HandlerOwnsRecord
<1>1. IInv => HandlerOwnsRecord
  BY DEF IInv
<1> QED BY <1>1, Invariance, PTL

-----------------------------------------------------------------------------
\* What one step can do to a record that no handler owns.
LEMMA SettledRecordsStay ==
    ASSUME IInv, [Next]_vars, NEW k \in Keys
    PROVE  /\ journal[k].phase \in FinalPhases =>
                journal'[k] = journal[k] \/ journal'[k] = Absent
           /\ ~journal[k].versioned /\ journal[k].phase \in OpenPhases =>
                journal'[k] = journal[k]
<1> DEFINE Stays == /\ journal[k].phase \in FinalPhases =>
                         journal'[k] = journal[k] \/ journal'[k] = Absent
                    /\ ~journal[k].versioned /\ journal[k].phase \in OpenPhases =>
                         journal'[k] = journal[k]
<1>1. \A p \in FinalPhases : p \notin OpenPhases /\ p # "absent"
  BY DEF FinalPhases, OpenPhases
<1>2. ASSUME NEW a \in Keys, NEW p \in OpenPhases \cup FinalPhases,
             NEW from \in SUBSET OpenPhases, NEW res, Advance(a, p, from, res)
      PROVE  Stays
  <2>1. journal[a].versioned /\ journal[a].phase \in OpenPhases
    BY <1>2 DEF Advance
  <2>2. k # a => \/ journal'[k] = journal[k]
                 \/ journal'[k] = Absent /\ journal[k].phase \in FinalPhases
    BY <1>2, AdvanceShape
  <2> QED BY <2>1, <2>2, <1>1
<1>3. ASSUME NEW q \in Request, NEW e \in Execs, NEW res \in WriteResults,
             Admit(q, e, res)
      PROVE  Stays
  <2>1. q.key \in Keys /\ journal[q.key].phase = "absent"
    BY <1>3 DEF Request, Admit, IsNew
  <2>2. Started(q.body, e) \in Record /\ journal \in [Keys -> Record]
    BY DEF Started, Record, Request, OpenPhases, IInv, TypeOK
  <2>3. Put(q.key, Started(q.body, e), res)
    BY <1>3 DEF Admit
  <2>4. k # q.key => \/ journal'[k] = journal[k]
                     \/ journal'[k] = Absent /\ journal[k].phase \in FinalPhases
    BY <2>1, <2>2, <2>3, PutShape
  <2> QED BY <2>1, <2>4, <1>1 DEF OpenPhases
<1>4. ASSUME UNCHANGED journal PROVE Stays
  BY <1>4
<1>5. ASSUME NEW res \in WriteResults,
             Reconcile(res) \/ FailBeforeApply(res) \/ LocalApplied(res)
               \/ SyncUnknown(res) \/ Complete(res)
      PROVE  Stays
  <2>1. op.pc # "idle"
    BY <1>5 DEF Reconcile, FailBeforeApply, LocalApplied, SyncUnknown, Complete
  <2>2. op.req.key \in Keys
    BY <2>1, RunningShape
  <2>3. \E p \in OpenPhases \cup FinalPhases, from \in SUBSET OpenPhases :
            Advance(op.req.key, p, from, res)
    BY <1>5 DEF Reconcile, FailBeforeApply, LocalApplied, SyncUnknown, Complete,
                OpenPhases, FinalPhases
  <2> QED BY <2>2, <2>3, <1>2
<1> HIDE DEF Stays
<1>6. Stays
  BY <1>3, <1>4, <1>5 DEF Next, StartTask, ContinueTask, vars, Submit,
     AnswerFromRecord, BeginReconcile, RefuseFull, StayUnknown, HandlerThrows,
     SagaOwnsKey, ApplyLocal, DomainEnds, DomainSettles, Crash
<1> QED BY <1>6 DEF Stays

\* A recorded outcome never changes; it can only be pruned.
THEOREM OutcomesAreFinal == Spec => TerminalIsFinal
<1>1. IInv /\ [Next]_vars =>
        [\A k \in Keys : journal[k].phase \in FinalPhases =>
           \/ journal'[k] = journal[k]
           \/ journal'[k] = Absent]_vars
  BY SettledRecordsStay
<1> QED BY <1>1, Invariance, PTL DEF Spec, TerminalIsFinal

\* Unresolved records of the previous server are left to the operator.
THEOREM LegacyIsLeftAlone == Spec => LegacyUnresolvedIsKept
<1>1. IInv /\ [Next]_vars =>
        [\A k \in Keys : ~journal[k].versioned /\ journal[k].phase \in OpenPhases
           => journal'[k] = journal[k]]_vars
  BY SettledRecordsStay
<1> QED BY <1>1, Invariance, PTL DEF Spec, LegacyUnresolvedIsKept

-----------------------------------------------------------------------------
(***************************************************************************)
(* What the records and the replies say of the domain is true.             *)
(***************************************************************************)

(***************************************************************************)
(* The strengthening of IInv.  A handler that has returned has done its    *)
(* domain call, or is one whose effect the sync makes and has not made     *)
(* (OpWorks); and a reply with an outcome names the execution it is the    *)
(* outcome of, or comes from a record of the previous server               *)
(* (RepliesMatchFate).                                                     *)
(***************************************************************************)
OpWorks ==
    op.pc \in OpPcs \ {"resolving"} =>
        /\ journal[op.req.key].body = op.req.body
        /\ op.pc = "applying" => op.req.body \notin BankBodies
        /\ op.pc = "returned" =>
             IF op.req.body \in BankBodies
             THEN effect[op.exec] = "none"
             ELSE effect[op.exec] \in {"applied", "settled"}

RepliesMatchFate ==
    \A c \in Clients : reply[c].told \in FinalPhases =>
        \/ reply[c].told = "completed" /\ reply[c].exec = NoExec
        \/ /\ reply[c].exec \in Execs
           /\ admitted[reply[c].exec].fate = reply[c].told

DoneInv == IInv /\ OpWorks /\ CompletedWasDone /\ RepliesMatchFate

\* The actions that move a record on, and those that leave journal and history.
Checkpoints == \E res \in WriteResults :
    Reconcile(res) \/ FailBeforeApply(res) \/ LocalApplied(res)
      \/ SyncUnknown(res) \/ Complete(res)

Admissions == \E q \in Request, e \in Execs, res \in WriteResults : Admit(q, e, res)

-----------------------------------------------------------------------------
LEMMA StepKinds ==
    ASSUME [Next]_vars
    PROVE  UNCHANGED <<journal, admitted>> \/ Admissions \/ Checkpoints
BY DEF Next, StartTask, ContinueTask, vars, Submit, AnswerFromRecord, BeginReconcile,
       RefuseFull, StayUnknown, HandlerThrows, SagaOwnsKey, ApplyLocal, DomainEnds,
       DomainSettles, Crash, Admissions, Checkpoints

\* Every checkpoint is an advance of the running operation's record.
LEMMA CheckpointAdvances ==
    ASSUME IInv, Checkpoints
    PROVE  /\ op.pc # "idle" /\ op.req \in Request /\ op.req.key \in Keys
           /\ \E res \in WriteResults, p \in OpenPhases \cup FinalPhases,
                 from \in SUBSET OpenPhases :
                 /\ Advance(op.req.key, p, from, res)
                 /\ p = "completed" => Reconcile(res) \/ Complete(res)
<1>1. op.pc # "idle"
  BY DEF Checkpoints, Reconcile, FailBeforeApply, LocalApplied, SyncUnknown, Complete
<1>2. op.req \in Request /\ op.req.key \in Keys
  BY <1>1, RunningShape
<1>3. \E res \in WriteResults, p \in OpenPhases \cup FinalPhases,
         from \in SUBSET OpenPhases :
         /\ Advance(op.req.key, p, from, res)
         /\ p = "completed" => Reconcile(res) \/ Complete(res)
  <2>1. PICK res \in WriteResults :
               Reconcile(res) \/ FailBeforeApply(res) \/ LocalApplied(res)
                 \/ SyncUnknown(res) \/ Complete(res)
    BY DEF Checkpoints
  <2>2. CASE Reconcile(res)
    BY <2>2 DEF Reconcile, OpenPhases, FinalPhases
  <2>3. CASE FailBeforeApply(res)
    BY <2>3 DEF FailBeforeApply, OpenPhases, FinalPhases
  <2>4. CASE LocalApplied(res)
    BY <2>4 DEF LocalApplied, OpenPhases, FinalPhases
  <2>5. CASE SyncUnknown(res)
    BY <2>5 DEF SyncUnknown, OpenPhases, FinalPhases
  <2>6. CASE Complete(res)
    BY <2>6 DEF Complete, OpenPhases, FinalPhases
  <2> QED BY <2>1, <2>2, <2>3, <2>4, <2>5, <2>6
<1> QED BY <1>1, <1>2, <1>3

-----------------------------------------------------------------------------
\* An admitted execution keeps its key and body, and its fate once recorded.
LEMMA HistoryGrows ==
    ASSUME IInv, [Next]_vars, NEW e \in Execs, admitted[e].fate # "unborn"
    PROVE  /\ admitted'[e].key = admitted[e].key
           /\ admitted'[e].body = admitted[e].body
           /\ admitted[e].fate \in FinalPhases => admitted'[e].fate = admitted[e].fate
<1>1. CASE UNCHANGED <<journal, admitted>>
  BY <1>1
<1>2. CASE Admissions
  <2>1. PICK q \in Request, x \in Execs, res \in WriteResults : Admit(q, x, res)
    BY <1>2 DEF Admissions
  <2>2. admitted[x].fate = "unborn"
    BY <2>1 DEF Admit, IsNextExec
  <2>3. admitted'[e] = admitted[e]
    BY <2>1, <2>2 DEF Admit, IInv, TypeOK
  <2> QED BY <2>3
<1>3. CASE Checkpoints
  <2>1. PICK res \in WriteResults, p \in OpenPhases \cup FinalPhases,
             from \in SUBSET OpenPhases : Advance(op.req.key, p, from, res)
    BY <1>3, CheckpointAdvances
  <2>2. op.req.key \in Keys
    BY <1>3, CheckpointAdvances
  <2> DEFINE k == op.req.key
  <2>3. admitted[journal[k].exec].fate = "open"
    BY <2>1, <2>2 DEF Advance, IInv, RecordsAgree, OpenPhases
  <2> HIDE DEF k
  <2>4. Advance(k, p, from, res) /\ k \in Keys
    BY <2>1, <2>2 DEF k
  <2>5. /\ admitted'[e].key = admitted[e].key
        /\ admitted'[e].body = admitted[e].body
        /\ admitted'[e].fate = IF /\ e = journal[k].exec
                                  /\ Durable(res) /\ p \in FinalPhases
                               THEN p ELSE admitted[e].fate
    BY <2>4, AdvanceShape
  <2> QED BY <2>3, <2>5 DEF FinalPhases
<1> QED BY <1>1, <1>2, <1>3, StepKinds

\* What was applied stays applied, and what was uploaded stays uploaded.
LEMMA EffectsStay ==
    ASSUME DoneInv, [Next]_vars, NEW e \in Execs
    PROVE  /\ effect[e] = "settled" => effect'[e] = "settled"
           /\ effect[e] = "applied" => effect'[e] \in {"applied", "settled"}
<1> DEFINE Stays == /\ effect[e] = "settled" => effect'[e] = "settled"
                    /\ effect[e] = "applied" => effect'[e] \in {"applied", "settled"}
<1>0. effect \in [Execs -> {"none", "running", "applied", "settled", "void"}]
  BY DEF DoneInv, IInv, TypeOK
<1>1. CASE UNCHANGED effect
  BY <1>1
<1>2. CASE ApplyLocal
  <2>1. op.exec \in Execs /\ effect[op.exec] = "none"
    BY <1>2, RunningShape DEF ApplyLocal, DoneInv, IInv, OpAgrees, OpPcs
  <2>2. effect' = [effect EXCEPT ![op.exec] = "running"]
    BY <1>2 DEF ApplyLocal
  <2> QED BY <1>0, <2>1, <2>2
<1>3. ASSUME NEW res \in WriteResults, SyncUnknown(res) PROVE Stays
  <2>1. CASE op.req.body \in BankBodies
    <3>1. effect[op.exec] = "none" /\ op.exec \in Execs
      BY <1>3, <2>1, RunningShape DEF SyncUnknown, DoneInv, OpWorks, OpPcs
    <3>2. UNCHANGED effect \/ effect' = [effect EXCEPT ![op.exec] = "running"]
      BY <1>3 DEF SyncUnknown
    <3> QED BY <1>0, <3>1, <3>2
  <2>2. CASE op.req.body \notin BankBodies
    BY <1>3, <2>2 DEF SyncUnknown
  <2> QED BY <2>1, <2>2
<1>4. ASSUME NEW d \in Execs, DomainEnds(d) \/ DomainSettles(d) PROVE Stays
  BY <1>0, <1>4 DEF DomainEnds, DomainSettles
<1> HIDE DEF Stays
<1>5. UNCHANGED effect \/ ApplyLocal \/ (\E res \in WriteResults : SyncUnknown(res))
      \/ (\E d \in Execs : DomainEnds(d) \/ DomainSettles(d))
  BY DEF Next, StartTask, ContinueTask, vars, Submit, AnswerFromRecord, BeginReconcile,
         RefuseFull, Admit, StayUnknown, HandlerThrows, SagaOwnsKey, Crash, Reconcile,
         FailBeforeApply, LocalApplied, Complete
<1>6. Stays
  BY <1>1, <1>2, <1>3, <1>4, <1>5 DEF Stays
<1> QED BY <1>6 DEF Stays

\* Work that was done stays done.
LEMMA DoneStays ==
    ASSUME DoneInv, [Next]_vars, NEW k, NEW b, Done(k, b)
    PROVE  Done(k, b)'
<1>1. PICK e \in Execs : /\ admitted[e].key = k
                         /\ admitted[e].body = b
                         /\ effect[e] \in IF b \in LocalBodies THEN {"applied", "settled"}
                                                               ELSE {"settled"}
  BY DEF Done
<1>2. admitted[e].fate # "unborn"
  BY <1>1 DEF DoneInv, IInv, EffectsAdmitted
<1>3. admitted'[e].key = k /\ admitted'[e].body = b
  BY <1>1, <1>2, HistoryGrows DEF DoneInv
<1>4. effect'[e] \in IF b \in LocalBodies THEN {"applied", "settled"} ELSE {"settled"}
  BY <1>1, EffectsStay
<1> QED BY <1>3, <1>4 DEF Done

\* A record becomes completed only over work that was done.
LEMMA CompletionIsEarned ==
    ASSUME DoneInv, NEW res \in WriteResults, Reconcile(res) \/ Complete(res)
    PROVE  LET x == journal[op.req.key].exec
           IN  x \in Execs /\ Done(admitted[x].key, admitted[x].body)
<1> DEFINE k == op.req.key
           x == journal[k].exec
<1>1. op.pc # "idle" /\ k \in Keys
  BY RunningShape DEF DoneInv, Reconcile, Complete
<1>2. /\ x \in Execs /\ admitted[x].key = k
      /\ admitted[x].body = journal[k].body
  BY <1>1 DEF Reconcile, Complete, Advance, DoneInv, IInv, RecordsAgree, OpenPhases
<1>3. CASE Reconcile(res)
  <2>1. Proved(k)
    BY <1>3 DEF Reconcile
  <2> HIDE DEF k, x
  <2>2. Done(k, journal[k].body)
    BY <2>1 DEF Proved, Done
  <2> QED BY <1>2, <2>2 DEF k, x
<1>4. CASE Complete(res)
  <2>1. /\ op.pc \in OpPcs \ {"resolving"}
        /\ op.exec = x
        /\ journal[k].body = op.req.body
    BY <1>4, <1>1, RunningShape DEF Complete, DoneInv, OpWorks, OpPcs
  <2>2. effect[x] \in IF op.req.body \in LocalBodies THEN {"applied", "settled"}
                                                     ELSE {"settled"}
    <3>1. CASE op.pc = "syncing" /\ effect[x] = "settled"
      BY <3>1
    <3>2. CASE op.pc = "returned" /\ ~NeedsSync(op.req.body, x)
      <4>1. CASE op.req.body \notin LocalBodies
        BY <3>2, <4>1 DEF NeedsSync
      <4>2. CASE op.req.body \in LocalBodies
        <5>1. op.req.body \notin BankBodies
          BY <4>2, JournalAssumption DEF JournalAssumption
        <5> QED BY <2>1, <3>2, <4>2, <5>1 DEF DoneInv, OpWorks
      <4> QED BY <4>1, <4>2
    <3> QED BY <1>4, <2>1, <3>1, <3>2 DEF Complete
  <2> HIDE DEF k, x
  <2>3. Done(k, journal[k].body)
    BY <1>2, <2>1, <2>2 DEF Done
  <2> QED BY <1>2, <2>3 DEF k, x
<1> QED BY <1>3, <1>4

LEMMA CompletedStays ==
    ASSUME DoneInv, [Next]_vars
    PROVE  CompletedWasDone'
<1> SUFFICES ASSUME NEW e \in Execs, admitted'[e].fate = "completed"
             PROVE  Done(admitted[e].key, admitted[e].body)'
  BY DEF CompletedWasDone
<1>1. /\ admitted[e].fate # "unborn"
      /\ Done(admitted[e].key, admitted[e].body)
  <2>1. CASE admitted[e].fate = "completed"
    BY <2>1 DEF DoneInv, CompletedWasDone
  <2>2. CASE admitted[e].fate # "completed"
    <3>1. CASE UNCHANGED <<journal, admitted>>
      BY <2>2, <3>1
    <3>2. CASE Admissions
      <4>1. PICK q \in Request, x \in Execs, res \in WriteResults : Admit(q, x, res)
        BY <3>2 DEF Admissions
      <4> QED BY <4>1, <2>2 DEF Admit, DoneInv, IInv, TypeOK
    <3>3. CASE Checkpoints
      <4>1. PICK res \in WriteResults, p \in OpenPhases \cup FinalPhases,
                 from \in SUBSET OpenPhases :
                 /\ Advance(op.req.key, p, from, res)
                 /\ p = "completed" => Reconcile(res) \/ Complete(res)
        BY <3>3, CheckpointAdvances DEF DoneInv
      <4> DEFINE k == op.req.key
      <4>2. k \in Keys
        BY <3>3, CheckpointAdvances DEF DoneInv
      <4> HIDE DEF k
      <4>3. Advance(k, p, from, res)
        BY <4>1 DEF k
      <4>4. /\ journal[k].exec \in Execs
            /\ admitted'[e].fate = IF /\ e = journal[k].exec
                                      /\ Durable(res) /\ p \in FinalPhases
                                   THEN p ELSE admitted[e].fate
        BY <4>2, <4>3, AdvanceShape DEF DoneInv
      <4>5. e = journal[k].exec /\ p = "completed"
        BY <4>4, <2>2
      <4>6. Done(admitted[e].key, admitted[e].body)
        BY <4>1, <4>5, CompletionIsEarned DEF k
      <4>7. admitted[e].fate # "unborn"
        BY <4>2, <4>3, <4>5 DEF Advance, DoneInv, IInv, RecordsAgree, OpenPhases
      <4> QED BY <4>6, <4>7
    <3> QED BY <3>1, <3>2, <3>3, StepKinds
  <2> QED BY <2>1, <2>2
<1>2. admitted'[e].key = admitted[e].key /\ admitted'[e].body = admitted[e].body
  BY <1>1, HistoryGrows DEF DoneInv
<1>3. ASSUME NEW k, NEW b, Done(k, b) PROVE Done(k, b)'
  BY <1>3, DoneStays
<1>4. ASSUME NEW k, NEW b, k = admitted[e].key, b = admitted[e].body
      PROVE  Done(admitted[e].key, admitted[e].body)'
  <2>1. Done(k, b)
    BY <1>1, <1>4
  <2>2. Done(k, b)'
    BY <2>1, <1>3
  <2> QED BY <2>2, <1>2, <1>4 DEF Done
<1> QED BY <1>4

-----------------------------------------------------------------------------
\* A reply is either kept, lost, or new and not an outcome, or the outcome of an
\* execution that is on record as just that.
LEMMA RepliesStayMatched ==
    ASSUME DoneInv, [Next]_vars
    PROVE  RepliesMatchFate'
<1> DEFINE Matched(r) == r.told \in FinalPhases =>
                           \/ r.told = "completed" /\ r.exec = NoExec
                           \/ r.exec \in Execs /\ admitted'[r.exec].fate = r.told
<1>1. \A c \in Clients : Matched(reply[c])
  <2> SUFFICES ASSUME NEW c \in Clients, reply[c].told \in FinalPhases,
                      reply[c].exec \in Execs,
                      admitted[reply[c].exec].fate = reply[c].told
               PROVE  admitted'[reply[c].exec].fate = reply[c].told
    BY DEF DoneInv, RepliesMatchFate
  <2>1. admitted[reply[c].exec].fate # "unborn"
    BY DEF FinalPhases
  <2> QED BY <2>1, HistoryGrows DEF DoneInv
<1>2. ASSUME NEW q \in Request, NEW t, NEW e, Settle(q, t, e),
             t \in FinalPhases => \/ t = "completed" /\ e = NoExec
                                  \/ e \in Execs /\ admitted'[e].fate = t
      PROVE  \A c \in Clients : Matched(reply'[c])
  <2>1. Matched(Reply(t, e))
    BY <1>2 DEF Reply
  <2>2. \A c \in Clients : reply'[c] = reply[c] \/ reply'[c] = Reply(t, e)
    BY <1>2 DEF Settle, DoneInv, IInv, TypeOK
  <2> HIDE DEF Matched
  <2> QED BY <2>1, <2>2, <1>1
<1>3. \A p \in Refusals \cup {"unknown", "error"} : p \notin FinalPhases
  BY DEF Refusals, FinalPhases
<1>4. ASSUME NEW c \in Clients, Submit(c) PROVE \A d \in Clients : Matched(reply'[d])
  <2>1. Matched(Reply("overloaded", NoExec)) /\ Matched(Waiting)
    BY DEF Reply, Waiting, FinalPhases
  <2>2. \A d \in Clients : reply'[d] \in {reply[d], Reply("overloaded", NoExec), Waiting}
    BY <1>4 DEF Submit, DoneInv, IInv, TypeOK
  <2> HIDE DEF Matched
  <2> QED BY <2>1, <2>2, <1>1
<1>5. ASSUME NEW q \in Request, NEW t \in Refusals \cup {"unknown", "error"}, NEW e,
             Settle(q, t, e)
      PROVE  \A d \in Clients : Matched(reply'[d])
  <2> HIDE DEF Matched
  <2> QED BY <1>2, <1>3, <1>5
<1>6. ASSUME NEW q \in Request, AnswerFromRecord(q)
      PROVE  \A d \in Clients : Matched(reply'[d])
  <2> DEFINE r == journal[q.key]
  <2>1. /\ r \in Record
        /\ r.phase \in FinalPhases =>
             \/ r.phase = "completed" /\ r.exec = NoExec
             \/ r.exec \in Execs /\ admitted[r.exec].fate = r.phase
    BY DEF Request, DoneInv, IInv, TypeOK, RecordsAgree, OpenPhases, FinalPhases, Record
  <2> HIDE DEF r
  <2>2. UNCHANGED admitted
    BY <1>6 DEF AnswerFromRecord
  <2>3. \/ Settle(q, "reused", NoExec)
        \/ r.phase \in FinalPhases /\ Settle(q, r.phase, r.exec)
        \/ r.phase \notin OpenPhases /\ Settle(q, View(r), r.exec)
    BY <1>6 DEF AnswerFromRecord, r
  <2>4. r.phase \notin OpenPhases =>
          View(r) = IF r.phase \in FinalPhases THEN r.phase ELSE "notfound"
    BY <2>1 DEF View, Record, FinalPhases
  <2> HIDE DEF Matched
  <2>5. CASE Settle(q, "reused", NoExec)
    BY <2>5, <1>2, <1>3 DEF Refusals
  <2>6. CASE r.phase \in FinalPhases /\ Settle(q, r.phase, r.exec)
    <3>1. ASSUME NEW t, NEW e, t = r.phase, e = r.exec
          PROVE  \A d \in Clients : Matched(reply'[d])
      <4>1. Settle(q, t, e)
        BY <2>6, <3>1
      <4>2. \/ t = "completed" /\ e = NoExec
            \/ e \in Execs /\ admitted'[e].fate = t
        BY <2>1, <2>2, <2>6, <3>1
      <4> QED BY <4>1, <4>2, <1>2
    <3> QED BY <3>1
  <2>7. CASE r.phase \notin OpenPhases /\ Settle(q, View(r), r.exec)
    <3>1. CASE r.phase \in FinalPhases
      BY <2>6, <2>7, <2>4, <3>1
    <3>2. CASE r.phase \notin FinalPhases
      BY <2>7, <2>4, <3>2, <1>5 DEF Refusals
    <3> QED BY <3>1, <3>2
  <2> QED BY <2>3, <2>5, <2>6, <2>7
<1>7. ASSUME NEW q \in Request, NEW e \in Execs, NEW res \in WriteResults,
             Admit(q, e, res)
      PROVE  \A d \in Clients : Matched(reply'[d])
  <2> HIDE DEF Matched
  <2> QED BY <1>1, <1>5, <1>7 DEF Admit
<1>8. ASSUME Checkpoints PROVE \A d \in Clients : Matched(reply'[d])
  <2> DEFINE k == op.req.key
  <2>1. op.pc # "idle" /\ op.req \in Request /\ k \in Keys
    BY <1>8, CheckpointAdvances DEF DoneInv
  <2>2. ASSUME NEW res \in WriteResults, NEW p \in FinalPhases,
               NEW from \in SUBSET OpenPhases, Advance(k, p, from, res), Durable(res)
        PROVE  journal[k].exec \in Execs /\ admitted'[journal[k].exec].fate = p
    <3> HIDE DEF k
    <3> QED BY <2>1, <2>2, AdvanceShape DEF DoneInv
  <2> HIDE DEF Matched
  <2>3. ASSUME NEW res \in WriteResults, Reconcile(res)
        PROVE  \A d \in Clients : Matched(reply'[d])
    <3>1. CASE Settle(op.req, "unknown", journal[k].exec)
      BY <3>1, <2>1, <1>5
    <3>2. CASE Durable(res) /\ Settle(op.req, "completed", journal[k].exec)
      <4>1. journal[k].exec \in Execs /\ admitted'[journal[k].exec].fate = "completed"
        BY <2>2, <2>3, <3>2 DEF Reconcile, FinalPhases
      <4> QED BY <4>1, <3>2, <2>1, <1>2
    <3> QED BY <2>3, <3>1, <3>2 DEF Reconcile, Durable
  <2>4. ASSUME NEW res \in WriteResults, FailBeforeApply(res)
        PROVE  \A d \in Clients : Matched(reply'[d])
    <3>1. CASE Settle(op.req, "unknown", op.exec)
      BY <3>1, <2>1, <1>5
    <3>2. CASE Durable(res) /\ Settle(op.req, "failed", op.exec)
      <4>1. journal[k].exec \in Execs /\ admitted'[journal[k].exec].fate = "failed"
        BY <2>2, <2>4, <3>2 DEF FailBeforeApply, FinalPhases, OpenPhases
      <4>2. op.exec = journal[k].exec
        BY <2>4, RunningShape DEF FailBeforeApply, DoneInv
      <4> QED BY <4>1, <4>2, <3>2, <2>1, <1>2
    <3> QED BY <2>4, <3>1, <3>2 DEF FailBeforeApply, Durable
  <2>5. ASSUME NEW res \in WriteResults, LocalApplied(res) \/ SyncUnknown(res)
        PROVE  \A d \in Clients : Matched(reply'[d])
    <3>1. UNCHANGED reply \/ Settle(op.req, "unknown", op.exec)
      BY <2>5 DEF LocalApplied, SyncUnknown
    <3>2. CASE UNCHANGED reply
      BY <3>2, <1>1
    <3>3. CASE Settle(op.req, "unknown", op.exec)
      BY <3>3, <2>1, <1>5
    <3> QED BY <3>1, <3>2, <3>3
  <2>6. ASSUME NEW res \in WriteResults, Complete(res)
        PROVE  \A d \in Clients : Matched(reply'[d])
    <3>1. CASE Settle(op.req, "unknown", op.exec)
      BY <3>1, <2>1, <1>5
    <3>2. CASE Durable(res) /\ Settle(op.req, "completed", op.exec)
      <4>1. journal[k].exec \in Execs /\ admitted'[journal[k].exec].fate = "completed"
        BY <2>2, <2>6, <3>2 DEF Complete, FinalPhases, OpenPhases
      <4>2. op.exec = journal[k].exec
        BY <2>6, RunningShape DEF Complete, DoneInv
      <4> QED BY <4>1, <4>2, <3>2, <2>1, <1>2
    <3> QED BY <2>6, <3>1, <3>2 DEF Complete, Durable
  <2> QED BY <1>8, <2>3, <2>4, <2>5, <2>6 DEF Checkpoints
<1>9. ASSUME StayUnknown \/ HandlerThrows \/ SagaOwnsKey
      PROVE  \A d \in Clients : Matched(reply'[d])
  <2>1. op.req \in Request
    BY <1>9, RunningShape DEF StayUnknown, HandlerThrows, SagaOwnsKey, DoneInv
  <2>2. \E t \in {"unknown", "reused"} : \E e : Settle(op.req, t, e)
    BY <1>9 DEF StayUnknown, HandlerThrows, SagaOwnsKey
  <2> HIDE DEF Matched
  <2> QED BY <2>1, <2>2, <1>5 DEF Refusals
<1>10. ASSUME Crash PROVE \A d \in Clients : Matched(reply'[d])
  <2>1. \A d \in Clients : reply'[d] = reply[d] \/ reply'[d] = Lost
    BY <1>10 DEF Crash
  <2>2. Matched(Lost)
    BY DEF Lost, FinalPhases
  <2> HIDE DEF Matched
  <2> QED BY <2>1, <2>2, <1>1
<1>11. ASSUME UNCHANGED reply PROVE \A d \in Clients : Matched(reply'[d])
  BY <1>11, <1>1
<1>12. ASSUME NEW q \in Request, RefuseFull(q) PROVE \A d \in Clients : Matched(reply'[d])
  <2> HIDE DEF Matched
  <2> QED BY <1>12, <1>5 DEF RefuseFull, Refusals
<1>13. \A d \in Clients : Matched(reply'[d])
  <2> HIDE DEF Matched
  <2> QED BY <1>4, <1>6, <1>7, <1>8, <1>9, <1>10, <1>11, <1>12 DEF Next, StartTask,
         ContinueTask, vars, BeginReconcile, ApplyLocal, DomainEnds, DomainSettles,
         Checkpoints
<1> QED BY <1>13 DEF RepliesMatchFate

-----------------------------------------------------------------------------
\* An operation that goes on after a checkpoint keeps its record's body.
LEMMA CheckpointKeepsBody ==
    ASSUME IInv, op.pc # "idle", NEW p \in OpenPhases, NEW from \in SUBSET OpenPhases,
           Advance(op.req.key, p, from, "ok")
    PROVE  journal'[op.req.key].body = journal[op.req.key].body
<1> DEFINE k == op.req.key
<1>1. k \in Keys
  BY RunningShape
<1> HIDE DEF k
<1>2. Advance(k, p, from, "ok") /\ p \notin FinalPhases /\ Durable("ok")
  BY DEF k, OpenPhases, FinalPhases, Durable
<1>3. journal'[k].body = journal[k].body
  BY <1>1, <1>2, AdvanceShape
<1> QED BY <1>3 DEF k

LEMMA OpWorksOn ==
    ASSUME DoneInv, [Next]_vars
    PROVE  OpWorks'
<1>1. CASE op' = Idle
  BY <1>1 DEF OpWorks, Idle, OpPcs
<1>2. ASSUME NEW q \in Request, NEW e \in Execs, Admit(q, e, "ok") PROVE OpWorks'
  <2> DEFINE k == q.key
  <2>1. /\ Started(q.body, e) \in Record /\ k \in Keys
        /\ Started(q.body, e).body = q.body
        /\ Started(q.body, e).phase \notin FinalPhases
    BY <1>2 DEF Started, Record, Request, OpenPhases, FinalPhases
  <2>2. Put(k, Started(q.body, e), "ok") /\ Durable("ok")
    BY <1>2 DEF Admit, Durable
  <2> HIDE DEF k
  <2>3. journal'[k] = Started(q.body, e)
    BY <2>1, <2>2, PutShape DEF DoneInv, IInv, TypeOK
  <2>4. op' = [pc |-> "handler", req |-> q, exec |-> e, crossed |-> FALSE]
    BY <1>2 DEF Admit, Running
  <2> QED BY <2>1, <2>3, <2>4 DEF OpWorks, k
<1>3. ASSUME NEW q \in Request, BeginReconcile(q) PROVE OpWorks'
  BY <1>3 DEF BeginReconcile, Running, OpWorks
<1>4. CASE ApplyLocal
  <2>1. op \in Op /\ op.pc = "handler" /\ op.req.body \notin BankBodies
    BY <1>4, RunningShape DEF ApplyLocal, DoneInv
  <2>2. op'.req = op.req /\ op'.pc = "applying" /\ UNCHANGED journal
    BY <1>4, <2>1 DEF ApplyLocal, Op
  <2> QED BY <2>1, <2>2 DEF DoneInv, OpWorks, OpPcs
<1>5. CASE LocalApplied("ok")
  <2>1. /\ op \in Op /\ op.pc \in OpPcs \ {"resolving"}
        /\ Advance(op.req.key, "local_applied", {"started"}, "ok")
        /\ UNCHANGED effect
    BY <1>5, RunningShape DEF LocalApplied, DoneInv, OpPcs
  <2>2. op'.req = op.req /\ op'.exec = op.exec /\ op'.pc = "returned"
    BY <1>5, <2>1 DEF LocalApplied, Op
  <2>3. journal'[op.req.key].body = op.req.body
    BY <2>1, CheckpointKeepsBody DEF DoneInv, OpWorks, OpPcs, OpenPhases
  <2>4. IF op.req.body \in BankBodies
        THEN effect[op.exec] = "none"
        ELSE effect[op.exec] \in {"applied", "settled"}
    BY <1>5, <2>1 DEF LocalApplied, DoneInv, OpWorks, IInv, OpAgrees
  <2> QED BY <2>1, <2>2, <2>3, <2>4 DEF OpWorks
<1>6. CASE SyncUnknown("ok")
  <2>1. /\ op \in Op /\ op.pc \in OpPcs \ {"resolving"}
        /\ Advance(op.req.key, "sync_unknown", {"local_applied"}, "ok")
    BY <1>6, RunningShape DEF SyncUnknown, DoneInv, OpPcs
  <2>2. op'.req = op.req /\ op'.exec = op.exec /\ op'.pc = "syncing"
    BY <1>6, <2>1 DEF SyncUnknown, Op
  <2>3. journal'[op.req.key].body = op.req.body
    BY <2>1, CheckpointKeepsBody DEF DoneInv, OpWorks, OpPcs, OpenPhases
  <2> QED BY <2>2, <2>3 DEF OpWorks
<1>7. ASSUME UNCHANGED <<journal, op>>,
             UNCHANGED effect \/ \E e \in Execs : DomainEnds(e) \/ DomainSettles(e)
      PROVE  OpWorks'
  <2>1. SUFFICES ASSUME op.pc \in OpPcs \ {"resolving"}, op.pc = "returned"
                 PROVE  IF op.req.body \in BankBodies
                        THEN effect'[op.exec] = "none"
                        ELSE effect'[op.exec] \in {"applied", "settled"}
    BY <1>7 DEF DoneInv, OpWorks
  <2>2. op.exec \in Execs
    BY <2>1, RunningShape DEF DoneInv
  <2>3. effect[op.exec] = "none" => effect'[op.exec] = "none"
    BY <1>7, <2>2 DEF DomainEnds, DomainSettles, DoneInv, IInv, TypeOK
  <2> QED BY <2>1, <2>2, <2>3, EffectsStay DEF DoneInv, OpWorks
<1>8. \/ op' = Idle \/ ApplyLocal
      \/ (\E q \in Request, e \in Execs : Admit(q, e, "ok"))
      \/ (\E q \in Request : BeginReconcile(q))
      \/ LocalApplied("ok") \/ SyncUnknown("ok")
      \/ /\ UNCHANGED <<journal, op>>
         /\ UNCHANGED effect \/ \E e \in Execs : DomainEnds(e) \/ DomainSettles(e)
  <2>1. CASE StartTask
    BY <2>1 DEF StartTask, AnswerFromRecord, RefuseFull, Admit, Settle
  <2>2. CASE ContinueTask
    BY <2>2 DEF ContinueTask, StayUnknown, HandlerThrows, SagaOwnsKey, Reconcile,
       FailBeforeApply, LocalApplied, SyncUnknown, Complete, Settle
  <2>3. CASE Crash \/ (\E c \in Clients : Submit(c)) \/ UNCHANGED vars
    BY <2>3 DEF Crash, Submit, vars
  <2>4. CASE \E e \in Execs : DomainEnds(e) \/ DomainSettles(e)
    BY <2>4 DEF DomainEnds, DomainSettles
  <2> QED BY <2>1, <2>2, <2>3, <2>4 DEF Next
<1> QED BY <1>1, <1>2, <1>3, <1>4, <1>5, <1>6, <1>7, <1>8

-----------------------------------------------------------------------------
LEMMA InitIsDone ==
    ASSUME Init
    PROVE  DoneInv
<1>1. IInv
  BY InitHolds
<1>2. OpWorks /\ CompletedWasDone /\ RepliesMatchFate
  BY DEF Init, Idle, NoReply, OpWorks, OpPcs, CompletedWasDone, RepliesMatchFate,
         FinalPhases
<1> QED BY <1>1, <1>2 DEF DoneInv

\* What the journal and its replies say of the domain is true in every instance:
\* a completed execution was applied, and uploaded if its route syncs; a client
\* told of success or failure was told the fate of its own execution; and no
\* later crash, retry, prune or late domain call makes it untrue.
THEOREM TellsTheTruth == Spec => []RecordsAndRepliesAreTrue
<1>1. Init => DoneInv
  BY InitIsDone
<1>2. DoneInv /\ [Next]_vars => DoneInv'
  <2> SUFFICES ASSUME DoneInv, [Next]_vars PROVE DoneInv'
    OBVIOUS
  <2>1. IInv'
    BY NextKeepsInv DEF DoneInv
  <2> QED BY <2>1, OpWorksOn, CompletedStays, RepliesStayMatched DEF DoneInv
<1>3. DoneInv => RecordsAndRepliesAreTrue
  <2> SUFFICES ASSUME DoneInv, NEW c \in Clients
               PROVE  /\ reply[c].told = "completed" /\ reply[c].exec # NoExec
                           => Done(admitted[reply[c].exec].key, admitted[reply[c].exec].body)
                      /\ reply[c].told = "failed" => effect[reply[c].exec] = "none"
    BY DEF DoneInv, RecordsAndRepliesAreTrue, RepliesAreTrue
  <2>1. reply[c].told = "completed" /\ reply[c].exec # NoExec
          => Done(admitted[reply[c].exec].key, admitted[reply[c].exec].body)
    BY DEF DoneInv, RepliesMatchFate, CompletedWasDone, FinalPhases
  <2>2. reply[c].told = "failed" => effect[reply[c].exec] = "none"
    BY DEF DoneInv, RepliesMatchFate, IInv, EffectsAdmitted, FinalPhases
  <2> QED BY <2>1, <2>2
<1> QED BY <1>1, <1>2, <1>3, PTL DEF Spec

-----------------------------------------------------------------------------
(***************************************************************************)
(* OperationJournal implements OperationOutcome.                           *)
(***************************************************************************)

(***************************************************************************)
(* A checkpoint that settles nothing must forget no key either, for no     *)
(* step of OperationOutcome only forgets: once a write has pruned the      *)
(* records of the previous server, a file never holds one record too many. *)
(***************************************************************************)
PrunedAlready ==
    (\E k \in Keys : journal[k].versioned /\ journal[k].phase # "absent")
      => Pruned(journal) = {}

OutcomeInv == IInv /\ PrunedAlready

-----------------------------------------------------------------------------
\* Pruning leaves nothing to prune.
LEMMA PrunedOnce ==
    ASSUME NEW j \in [Keys -> Record]
    PROVE  Pruned(WritePruned(j)) = {}
<1> DEFINE w == WritePruned(j)
           YoungerIn(i, k) == {l \in TerminalKeys(i) : Older(i, k, l)}
<1>1. \A k \in TerminalKeys(w) : w[k] = j[k] /\ k \in TerminalKeys(j) /\ k \notin Pruned(j)
  BY DEF WritePruned, TerminalKeys, Pruned, Absent, FinalPhases
<1> HIDE DEF w
<1> SUFFICES ASSUME NEW k \in TerminalKeys(w), Cardinality(YoungerIn(w, k)) >= MaxTerminal
             PROVE  FALSE
  BY DEF Pruned, w
<1>2. k \in Keys /\ w[k] = j[k] /\ k \in TerminalKeys(j) /\ k \notin Pruned(j)
  BY <1>1 DEF TerminalKeys
<1>3. ~(Cardinality(YoungerIn(j, k)) >= MaxTerminal)
  BY <1>2 DEF Pruned
<1>4. YoungerIn(w, k) \subseteq YoungerIn(j, k)
  BY <1>1, <1>2 DEF Older
<1>5. IsFiniteSet(YoungerIn(j, k))
  <2>1. YoungerIn(j, k) \subseteq Keys
    BY DEF TerminalKeys
  <2> HIDE DEF YoungerIn
  <2> QED BY <2>1, JournalAssumption, FS_Subset DEF JournalAssumption
<1> HIDE DEF YoungerIn
<1>6. /\ Cardinality(YoungerIn(w, k)) \in Nat /\ Cardinality(YoungerIn(j, k)) \in Nat
      /\ Cardinality(YoungerIn(w, k)) <= Cardinality(YoungerIn(j, k))
  BY <1>4, <1>5, FS_Subset, FS_CardinalityType
<1> QED BY <1>3, <1>6, JournalAssumption DEF JournalAssumption

\* Nor does an advance to an open phase give a write more to prune.
LEMMA OpenAdvanceKeepsHolders ==
    ASSUME OutcomeInv, NEW k \in Keys, NEW p \in OpenPhases,
           NEW from \in SUBSET OpenPhases, NEW res, Advance(k, p, from, res)
    PROVE  \A l \in Keys : journal'[l].exec = journal[l].exec
<1> DEFINE r == [journal[k] EXCEPT !.phase = p,
                                   !.at = IF p \in FinalPhases THEN clock ELSE @]
           j == [journal EXCEPT ![k] = r]
<1>1. journal \in [Keys -> Record] /\ journal[k] \in Record
  BY DEF OutcomeInv, IInv, TypeOK
<1>2. \A q \in OpenPhases : q \notin FinalPhases /\ q # "absent"
  BY DEF OpenPhases, FinalPhases
<1>3. journal[k].phase \in OpenPhases /\ journal[k].versioned
  BY DEF Advance
<1>4. Pruned(journal) = {}
  BY <1>2, <1>3 DEF OutcomeInv, PrunedAlready
<1>5. r.phase = p /\ r.exec = journal[k].exec
  BY <1>1 DEF Record
<1> HIDE DEF r
<1>6. \A l \in Keys : j[l] = IF l = k THEN r ELSE journal[l]
  BY <1>1
<1> HIDE DEF j
<1>7. TerminalKeys(j) = TerminalKeys(journal) /\ k \notin TerminalKeys(j)
  BY <1>2, <1>3, <1>5, <1>6 DEF TerminalKeys
<1>8. \A a, b \in TerminalKeys(j) : Older(j, a, b) = Older(journal, a, b)
  BY <1>6, <1>7 DEF TerminalKeys, Older
<1>9. \A a \in TerminalKeys(j) : {l \in TerminalKeys(j) : Older(j, a, l)}
                                   = {l \in TerminalKeys(journal) : Older(journal, a, l)}
  BY <1>7, <1>8
<1>10. Pruned(j) = {}
  BY <1>4, <1>7, <1>9 DEF Pruned
<1>11. journal' = journal \/ journal' = WritePruned(j)
  BY DEF Advance, Put, j, r
<1>12. \A l \in Keys : WritePruned(j)[l] = j[l]
  BY <1>10 DEF WritePruned
<1> QED BY <1>5, <1>6, <1>11, <1>12

LEMMA PrunedStays ==
    ASSUME OutcomeInv, [Next]_vars
    PROVE  PrunedAlready'
<1>1. ASSUME NEW k \in Keys, NEW r \in Record, NEW res \in WriteResults, Put(k, r, res),
             Durable(res)
      PROVE  PrunedAlready'
  <2>1. [journal EXCEPT ![k] = r] \in [Keys -> Record]
    BY DEF OutcomeInv, IInv, TypeOK
  <2> QED BY <1>1, <2>1, PrunedOnce DEF Put, PrunedAlready
<1>2. ASSUME UNCHANGED journal PROVE PrunedAlready'
  BY <1>2 DEF OutcomeInv, PrunedAlready, Pruned, TerminalKeys, Older
<1>3. ASSUME NEW k \in Keys, NEW p \in OpenPhases \cup FinalPhases, NEW from, NEW res \in WriteResults,
             Advance(k, p, from, res)
      PROVE  PrunedAlready'
  <2>1. PICK r \in Record : Put(k, r, res)
    <3>1. journal[k] \in Record /\ clock \in Nat
      BY DEF OutcomeInv, IInv, TypeOK
    <3>2. [journal[k] EXCEPT !.phase = p,
                             !.at = IF p \in FinalPhases THEN clock ELSE @] \in Record
      BY <3>1 DEF Record
    <3> QED BY <1>3, <3>2 DEF Advance
  <2> QED BY <2>1, <1>1, <1>2 DEF Put
<1>4. ASSUME NEW q \in Request, NEW e \in Execs, NEW res \in WriteResults, Admit(q, e, res)
      PROVE  PrunedAlready'
  <2>1. Started(q.body, e) \in Record /\ q.key \in Keys
    BY <1>4 DEF Started, Record, Request, Admit, OpenPhases
  <2>2. Put(q.key, Started(q.body, e), res)
    BY <1>4 DEF Admit
  <2> QED BY <2>1, <2>2, <1>1, <1>2 DEF Put
<1>5. ASSUME NEW res \in WriteResults,
             Reconcile(res) \/ FailBeforeApply(res) \/ LocalApplied(res)
               \/ SyncUnknown(res) \/ Complete(res)
      PROVE  PrunedAlready'
  <2>1. op.pc # "idle"
    BY <1>5 DEF Reconcile, FailBeforeApply, LocalApplied, SyncUnknown, Complete
  <2>2. op.req.key \in Keys
    BY <2>1, RunningShape DEF OutcomeInv
  <2>3. \E p \in OpenPhases \cup FinalPhases : \E from : Advance(op.req.key, p, from, res)
    BY <1>5 DEF Reconcile, FailBeforeApply, LocalApplied, SyncUnknown, Complete,
                OpenPhases, FinalPhases
  <2> QED BY <2>2, <2>3, <1>3
<1>6. \/ UNCHANGED journal
      \/ \E q \in Request, e \in Execs, res \in WriteResults : Admit(q, e, res)
      \/ \E res \in WriteResults :
           Reconcile(res) \/ FailBeforeApply(res) \/ LocalApplied(res)
             \/ SyncUnknown(res) \/ Complete(res)
  BY DEF Next, StartTask, ContinueTask, vars, Submit, AnswerFromRecord, BeginReconcile,
         RefuseFull, StayUnknown, HandlerThrows, SagaOwnsKey, ApplyLocal, DomainEnds,
         DomainSettles, Crash
<1> QED BY <1>2, <1>4, <1>5, <1>6

-----------------------------------------------------------------------------
(***************************************************************************)
(* The steps.  Admission begins an execution, crossing the boundary or the *)
(* upload of a bank sync acts, a final checkpoint resolves; everything     *)
(* else stutters.                                                          *)
(***************************************************************************)
Stutters == UNCHANGED Outcome!vars

\* The first effect of an execution, seen from the abstract specification.
LEMMA EffectActs ==
    ASSUME OutcomeInv, NEW e \in Execs, admitted[e].fate = "open",
           effect' = [effect EXCEPT ![e] = "running"],
           \A k \in Keys : journal'[k].exec = journal[k].exec,
           \A x \in Execs : admitted'[x].fate = admitted[x].fate
    PROVE  Outcome!Act(e)
<1>1. effect \in [Execs -> {"none", "running", "applied", "settled", "void"}]
  BY DEF OutcomeInv, IInv, TypeOK
<1>2. [x \in Execs |-> effect'[x] # "none"]
        = [[x \in Execs |-> effect[x] # "none"] EXCEPT ![e] = TRUE]
  BY <1>1
<1> QED BY <1>2 DEF Outcome!Act

LEMMA AdmissionBegins ==
    ASSUME OutcomeInv, NEW q \in Request, NEW e \in Execs, NEW res \in WriteResults,
           Admit(q, e, res)
    PROVE  Outcome!Begin(q.key, e) \/ Stutters
<1> DEFINE k == q.key
           s == Started(q.body, e)
<1>1. /\ s \in Record /\ k \in Keys
      /\ s.phase \notin FinalPhases /\ s.exec = e
  BY DEF Started, Record, Request, Admit, OpenPhases, FinalPhases
<1>2. Put(k, s, res) /\ UNCHANGED effect
  BY DEF Admit
<1>3. journal[k].exec = NoExec /\ admitted[e].fate = "unborn"
  BY DEF Admit, IsNew, IsNextExec, OutcomeInv, IInv, RecordsAgree, Request
<1>4. CASE ~Durable(res)
  <2>1. UNCHANGED <<journal, admitted, effect>>
    BY <1>2, <1>4 DEF Admit, Put
  <2> QED BY <2>1 DEF Stutters, Outcome!vars
<1>5. CASE Durable(res)
  <2> HIDE DEF k, s
  <2>1. /\ journal'[k] = s
        /\ \A l \in Keys \ {k} : \/ journal'[l] = journal[l]
                                 \/ journal'[l] = Absent /\ journal[l].phase \in FinalPhases
    BY <1>1, <1>2, <1>5, PutShape DEF OutcomeInv, IInv, TypeOK
  <2> DEFINE S == {l \in Keys \ {k} : journal'[l].exec # journal[l].exec}
             h == [l \in Keys |-> journal[l].exec]
             f == [x \in Execs |-> admitted[x].fate]
  <2>2. \A l \in S : journal'[l].exec = NoExec /\ journal[l].phase \in FinalPhases
    BY <2>1 DEF Absent
  <2>3. S \subseteq Outcome!Freeable(f) \ {k}
    BY <2>2, <1>1 DEF Outcome!Freeable, Outcome!Final, FinalPhases, OutcomeInv, IInv,
           RecordsAgree, OpenPhases
  <2>4. [l \in Keys |-> journal'[l].exec] = Outcome!Free(S, [h EXCEPT ![k] = e])
    BY <2>1, <2>2, <1>1 DEF Outcome!Free
  <2>5. [x \in Execs |-> admitted'[x].fate] = [f EXCEPT ![e] = "open"]
    BY <1>5 DEF Admit, OutcomeInv, IInv, TypeOK
  <2>6. h[k] = NoExec /\ f[e] = "unborn"
    BY <1>1, <1>3 DEF k
  <2>7. Outcome!Begin(k, e)
    BY <2>3, <2>4, <2>5, <2>6, <1>2 DEF Outcome!Begin
  <2> QED BY <2>7 DEF k
<1> QED BY <1>4, <1>5

LEMMA FinalCheckpointResolves ==
    ASSUME OutcomeInv, NEW k \in Keys, NEW p \in FinalPhases,
           NEW from \in SUBSET OpenPhases, NEW res \in WriteResults,
           Advance(k, p, from, res), UNCHANGED effect,
           p = "failed" => effect[journal[k].exec] = "none"
    PROVE  (\E e \in Execs : Outcome!Resolve(e, p)) \/ Stutters
<1>1. CASE ~Durable(res)
  <2>1. UNCHANGED <<journal, admitted, effect>>
    BY <1>1 DEF Advance, Put
  <2> QED BY <2>1 DEF Stutters, Outcome!vars
<1>2. CASE Durable(res)
  <2> DEFINE e == journal[k].exec
             h == [l \in Keys |-> journal[l].exec]
             f == [x \in Execs |-> admitted[x].fate]
             g == [x \in Execs |-> admitted'[x].fate]
             S == {l \in Keys : journal'[l].exec # journal[l].exec}
  <2>1. e \in Execs /\ admitted[e].fate = "open"
    BY DEF Advance, OutcomeInv, IInv, RecordsAgree, OpenPhases
  <2> HIDE DEF e
  <2>2. \A x \in Execs : admitted'[x].fate = IF x = e THEN p ELSE admitted[x].fate
    BY <1>2, AdvanceShape DEF OutcomeInv, e
  <2>3. /\ \A l \in Keys \ {k} :
             \/ journal'[l] = journal[l]
             \/ journal'[l] = Absent /\ journal[l].phase \in FinalPhases
        /\ journal'[k].exec = e \/ journal'[k] = Absent
    BY <1>2, AdvanceShape DEF OutcomeInv, e
  <2>4. g = [f EXCEPT ![e] = p]
    BY <2>1, <2>2
  <2>5. \A l \in S : journal'[l].exec = NoExec
    BY <2>3 DEF Absent, e
  <2>6. S \subseteq Outcome!Freeable(g)
    <3>1. SUFFICES ASSUME NEW l \in S
                   PROVE  h[l] = NoExec \/ g[h[l]] \in Outcome!Final
      BY DEF Outcome!Freeable
    <3>2. CASE l = k
      BY <3>2, <2>1, <2>2 DEF e, Outcome!Final, FinalPhases
    <3>3. CASE l # k
      <4>1. journal[l].phase \in FinalPhases
        BY <2>3, <3>3
      <4>2. \/ journal[l].exec = NoExec
            \/ /\ journal[l].exec \in Execs
               /\ admitted[journal[l].exec].fate \in FinalPhases
        BY <4>1 DEF OutcomeInv, IInv, RecordsAgree, OpenPhases, FinalPhases
      <4> QED BY <4>2, <2>2 DEF Outcome!Final, FinalPhases
    <3> QED BY <3>2, <3>3
  <2>7. [l \in Keys |-> journal'[l].exec] = Outcome!Free(S, h)
    BY <2>5 DEF Outcome!Free
  <2>8. f[e] = "open" /\ (p = "failed" => ~([x \in Execs |-> effect[x] # "none"][e]))
    BY <2>1 DEF e
  <2>9. Outcome!Resolve(e, p)
    BY <2>4, <2>6, <2>7, <2>8 DEF Outcome!Resolve
  <2> QED BY <2>1, <2>9
<1> QED BY <1>1, <1>2

\* An advance to an open phase changes nothing the abstract specification sees.
LEMMA OpenCheckpointIsUnseen ==
    ASSUME OutcomeInv, NEW k \in Keys, NEW p \in OpenPhases,
           NEW from \in SUBSET OpenPhases, NEW res, Advance(k, p, from, res)
    PROVE  /\ \A l \in Keys : journal'[l].exec = journal[l].exec
           /\ \A x \in Execs : admitted'[x].fate = admitted[x].fate
<1>1. p \notin FinalPhases
  BY DEF OpenPhases, FinalPhases
<1>2. \A x \in Execs : admitted'[x].fate = admitted[x].fate
  BY <1>1, AdvanceShape DEF OutcomeInv
<1> QED BY <1>2, OpenAdvanceKeepsHolders

LEMMA StepImplements ==
    ASSUME OutcomeInv, [Next]_vars
    PROVE  [Outcome!Next]_(Outcome!vars)
<1> DEFINE Implements == Outcome!Next \/ Stutters
<1>1. ASSUME UNCHANGED <<journal, admitted, effect>> PROVE Implements
  BY <1>1 DEF Stutters, Outcome!vars
<1>2. ASSUME NEW q \in Request, NEW e \in Execs, NEW res \in WriteResults, Admit(q, e, res)
      PROVE  Implements
  <2>1. q.key \in Keys
    BY DEF Request
  <2>2. Outcome!Begin(q.key, e) \/ Stutters
    BY <1>2, AdmissionBegins
  <2> QED BY <2>1, <2>2 DEF Outcome!Next
<1>3. ASSUME ApplyLocal PROVE Implements
  <2>1. op.exec \in Execs /\ admitted[op.exec].fate = "open"
    BY <1>3, RunningShape DEF ApplyLocal, OutcomeInv
  <2>2. /\ effect' = [effect EXCEPT ![op.exec] = "running"]
        /\ UNCHANGED <<journal, admitted>>
    BY <1>3 DEF ApplyLocal
  <2>3. \E e \in Execs : Outcome!Act(e)
    BY <2>1, <2>2, EffectActs
  <2> QED BY <2>3 DEF Outcome!Next
<1>4. ASSUME NEW e \in Execs, DomainEnds(e) \/ DomainSettles(e) PROVE Stutters
  <2>1. UNCHANGED <<journal, admitted>>
    BY <1>4 DEF DomainEnds, DomainSettles
  <2>2. \A x \in Execs : (effect'[x] # "none") <=> (effect[x] # "none")
    BY <1>4 DEF DomainEnds, DomainSettles, OutcomeInv, IInv, TypeOK
  <2> QED BY <2>1, <2>2 DEF Stutters, Outcome!vars
<1>5. ASSUME NEW res \in WriteResults, Reconcile(res) \/ Complete(res) PROVE Implements
  <2>1. op.pc # "idle" /\ UNCHANGED effect
    BY <1>5 DEF Reconcile, Complete
  <2>2. op.req.key \in Keys
    BY <2>1, RunningShape DEF OutcomeInv
  <2>3. PICK from \in SUBSET OpenPhases : Advance(op.req.key, "completed", from, res)
    BY <1>5 DEF Reconcile, Complete, OpenPhases
  <2>4. (\E e \in Execs : Outcome!Resolve(e, "completed")) \/ Stutters
    BY <2>1, <2>2, <2>3, FinalCheckpointResolves DEF FinalPhases
  <2> QED BY <2>4 DEF Outcome!Next, Outcome!Final
<1>6. ASSUME NEW res \in WriteResults, FailBeforeApply(res) PROVE Implements
  <2>1. op.pc # "idle" /\ op.pc # "resolving" /\ UNCHANGED effect /\ ~op.crossed
    BY <1>6 DEF FailBeforeApply
  <2>2. op.req.key \in Keys /\ journal[op.req.key].exec = op.exec /\ op.pc \in OpPcs
    BY <2>1, RunningShape DEF OutcomeInv
  <2>3. effect[journal[op.req.key].exec] = "none"
    BY <2>1, <2>2 DEF OutcomeInv, IInv, OpAgrees
  <2>4. Advance(op.req.key, "failed", {"started"}, res)
        /\ {"started"} \in SUBSET OpenPhases /\ "failed" \in FinalPhases
    BY <1>6 DEF FailBeforeApply, OpenPhases, FinalPhases
  <2>5. (\E e \in Execs : Outcome!Resolve(e, "failed")) \/ Stutters
    BY <2>1, <2>2, <2>3, <2>4, FinalCheckpointResolves
  <2> QED BY <2>5 DEF Outcome!Next, Outcome!Final
<1>7. ASSUME NEW res \in WriteResults, LocalApplied(res) \/ SyncUnknown(res)
      PROVE  Implements
  <2>1. op.pc # "idle" /\ op.pc # "resolving"
    BY <1>7 DEF LocalApplied, SyncUnknown
  <2>2. op.req.key \in Keys /\ op.exec \in Execs /\ admitted[op.exec].fate = "open"
    BY <2>1, RunningShape DEF OutcomeInv
  <2>3. PICK p \in OpenPhases, from \in SUBSET OpenPhases :
            Advance(op.req.key, p, from, res)
    BY <1>7 DEF LocalApplied, SyncUnknown, OpenPhases
  <2>4. /\ \A l \in Keys : journal'[l].exec = journal[l].exec
        /\ \A x \in Execs : admitted'[x].fate = admitted[x].fate
    BY <2>2, <2>3, OpenCheckpointIsUnseen
  <2>5. UNCHANGED effect \/ effect' = [effect EXCEPT ![op.exec] = "running"]
    BY <1>7 DEF LocalApplied, SyncUnknown
  <2>6. CASE UNCHANGED effect
    BY <2>4, <2>6 DEF Stutters, Outcome!vars
  <2>7. CASE effect' = [effect EXCEPT ![op.exec] = "running"]
    <3>1. \E e \in Execs : Outcome!Act(e)
      BY <2>2, <2>4, <2>7, EffectActs
    <3> QED BY <3>1 DEF Outcome!Next
  <2> QED BY <2>5, <2>6, <2>7
<1> HIDE DEF Implements
<1>8. \/ UNCHANGED <<journal, admitted, effect>> \/ ApplyLocal
      \/ \E e \in Execs : DomainEnds(e) \/ DomainSettles(e)
      \/ \E q \in Request, e \in Execs, res \in WriteResults : Admit(q, e, res)
      \/ \E res \in WriteResults :
           Reconcile(res) \/ FailBeforeApply(res) \/ LocalApplied(res)
             \/ SyncUnknown(res) \/ Complete(res)
  BY DEF Next, StartTask, ContinueTask, vars, Submit, AnswerFromRecord, BeginReconcile,
         RefuseFull, StayUnknown, HandlerThrows, SagaOwnsKey, Crash
<1>9. Stutters => Implements
  BY DEF Implements
<1>10. Implements
  BY <1>1, <1>2, <1>3, <1>4, <1>5, <1>6, <1>7, <1>8, <1>9
<1> QED BY <1>10 DEF Implements, Stutters

LEMMA InitImplements ==
    ASSUME Init
    PROVE  Outcome!Init /\ OutcomeInv
<1>1. \A k \in Keys : journal[k].exec = NoExec /\ (journal[k].versioned => journal[k].phase = "absent")
  BY DEF Init, Absent, Legacy
<1>2. Outcome!Init
  BY <1>1 DEF Init, Outcome!Init
<1>3. PrunedAlready
  BY <1>1 DEF PrunedAlready
<1> QED BY <1>2, <1>3, InitHolds DEF OutcomeInv

-----------------------------------------------------------------------------
\* The journal file, its executor, pruning, crashes, throwing writes and domain
\* calls that outlive their callers implement, for every number of clients, keys,
\* bodies and admissions, the promise of OperationOutcome: a key names one
\* execution until the outcome is known, and what failed never acts.
THEOREM JournalImplementsOutcome == Spec => ImplementsOutcome
<1>1. Init => Outcome!Init /\ OutcomeInv
  BY InitImplements
<1>2. OutcomeInv /\ [Next]_vars => OutcomeInv'
  BY NextKeepsInv, PrunedStays DEF OutcomeInv
<1>3. OutcomeInv /\ [Next]_vars => [Outcome!Next]_(Outcome!vars)
  BY StepImplements
<1> QED BY <1>1, <1>2, <1>3, PTL DEF Spec, ImplementsOutcome, Outcome!Spec
=============================================================================
