------------------------------ MODULE AppProofs ------------------------------
(***************************************************************************)
(* Proofs about the app's components, for any requests, bills, sessions,   *)
(* profiles and bounds: a request that may have an effect stays on record, *)
(* so does a scheduled notification, an alert is shown at most once, and a *)
(* refresh that is due comes.                                              *)
(***************************************************************************)
EXTENDS MCApp, FiniteSetTheorems, TLAPS
-----------------------------------------------------------------------------
(***************************************************************************)
(* NotificationAlerts.                                                     *)
(***************************************************************************)
AlertSession == [pc : {"idle", "permission", "check", "present"}, gen : Nat, sid : Nat,
                 things : SUBSET Things, key : SUBSET Things]

AlertTypes ==
    /\ baseline \in [seen : BOOLEAN, things : SUBSET Things]
    /\ markers \subseteq SUBSET Things /\ present \subseteq Things
    /\ gen \in Nat /\ sid \in Nat
    /\ ses \in [Slots -> AlertSession]
    /\ shown \in [SUBSET Things -> Nat]
    /\ overtaken \in BOOLEAN /\ suspended \in BOOLEAN /\ purging \in BOOLEAN

\* While a purge runs, the sessions that run are of a former generation.
AlertGenerations ==
    /\ \A s \in Slots : ses[s].gen <= gen
    /\ purging => suspended /\ \A s \in Slots : ses[s].pc = "idle" \/ ses[s].gen < gen

\* The session waits for an alert that the user will see.
Presenting(s) == ses[s].pc = "present" /\ ses[s].gen = gen

\* An alert that is asked for, or was shown, has its marker, and is asked for by
\* one session and not shown yet, or shown once.
AlertsAreMarked ==
    ~overtaken =>
        /\ \A s \in Slots : Presenting(s) => ses[s].key \in markers /\ shown[ses[s].key] = 0
        /\ \A s, t \in Slots :
              Presenting(s) /\ Presenting(t) /\ ses[s].key = ses[t].key => s = t
        /\ \A k \in SUBSET Things : shown[k] = 0 \/ (shown[k] = 1 /\ k \in markers)

AlertInv == AlertTypes /\ AlertGenerations /\ AlertsAreMarked

\* The instance's copy of Cardinality is Cardinality.
LEMMA AlertsCardinality == \A S : Alerts!Cardinality(S) = Cardinality(S)
  BY DEF Alerts!Cardinality, Cardinality

LEMMA AlertInit == Alerts!Init => AlertInv
<1> SUFFICES ASSUME Alerts!Init PROVE AlertInv
    OBVIOUS
<1>1. AlertTypes
      BY DEF Alerts!Init, AlertTypes, AlertSession, Alerts!Idle, Alerts!NoBaseline
<1>2. AlertGenerations /\ AlertsAreMarked
      BY DEF Alerts!Init, AlertGenerations, AlertsAreMarked, Presenting, Alerts!Idle
<1> QED
    BY <1>1, <1>2 DEF AlertInv

\* What the end of a session leaves of the lane.
LEMMA EndShape ==
    ASSUME AlertTypes, NEW s \in Slots, Alerts!End(s)
    PROVE  /\ ses' \in [Slots -> AlertSession] /\ gen' = gen /\ sid' = sid
           /\ ses'[s].pc = "idle" /\ ses'[s].gen = 0
           /\ \A t \in Slots : t # s => ses'[t] = ses[t]
  BY DEF Alerts!End, Alerts!Idle, AlertTypes, AlertSession

LEMMA BeginKeeps ==
    ASSUME AlertInv, NEW s \in Slots, Alerts!Begin(s) PROVE AlertInv'
<1>1. /\ ses' \in [Slots -> AlertSession] /\ ses'[s].pc = "permission" /\ ses'[s].gen = gen
      /\ \A t \in Slots : t # s => ses'[t] = ses[t]
      BY DEF AlertInv, Alerts!Begin, AlertTypes, AlertSession
<1>2. AlertTypes'
      BY <1>1 DEF AlertInv, Alerts!Begin, AlertTypes, Alerts!kv, Alerts!history
<1>3. AlertGenerations' /\ AlertsAreMarked'
      BY <1>1 DEF AlertInv, Alerts!Begin, AlertTypes, AlertGenerations, AlertsAreMarked,
         Presenting, Alerts!kv, Alerts!history
<1> QED
    BY <1>2, <1>3 DEF AlertInv

LEMMA PermissionKeeps ==
    ASSUME AlertInv, NEW s \in Slots, Alerts!ReadPermission(s) PROVE AlertInv'
<1>1. /\ ses' \in [Slots -> AlertSession] /\ gen' = gen /\ sid' = sid
      /\ ses'[s].pc \in {"idle", "check"} /\ ses'[s].gen \in {0, ses[s].gen}
      /\ ses[s].pc = "permission"
      /\ \A t \in Slots : t # s => ses'[t] = ses[t]
  <2>1. CASE Alerts!End(s)
        BY <2>1, EndShape DEF AlertInv, Alerts!ReadPermission
  <2>2. CASE ses' = [ses EXCEPT ![s].pc = "check"] /\ UNCHANGED Alerts!memory
        BY <2>2 DEF AlertInv, AlertTypes, AlertSession, Alerts!memory, Alerts!ReadPermission
  <2> QED
      BY <2>1, <2>2 DEF Alerts!ReadPermission
<1>2. AlertTypes'
      BY <1>1 DEF AlertInv, Alerts!ReadPermission, AlertTypes, Alerts!kv, Alerts!history
<1>3. AlertGenerations' /\ AlertsAreMarked'
      BY <1>1 DEF AlertInv, Alerts!ReadPermission, AlertTypes, AlertGenerations, AlertSession,
         AlertsAreMarked, Presenting, Alerts!kv, Alerts!history
<1> QED
    BY <1>2, <1>3 DEF AlertInv

LEMMA CheckKeeps ==
    ASSUME AlertInv, NEW s \in Slots, Alerts!Check(s) PROVE AlertInv'
<1>1. /\ Alerts!NewBaseline(s) \in [seen : BOOLEAN, things : SUBSET Things]
      /\ Alerts!Fresh(s) \subseteq Things /\ ses[s].pc = "check"
      BY DEF AlertInv, AlertTypes, AlertSession, Alerts!NewBaseline, Alerts!Fresh, Alerts!Check
<1>2. CASE /\ Alerts!End(s) /\ UNCHANGED markers
           /\ baseline' \in [seen : BOOLEAN, things : SUBSET Things]
  <2>1. AlertTypes'
        BY <1>2, EndShape DEF AlertInv, Alerts!Check, AlertTypes, Alerts!history
  <2>2. AlertGenerations' /\ AlertsAreMarked'
        BY <1>1, <1>2, EndShape DEF AlertInv, Alerts!Check, AlertTypes, AlertGenerations,
           AlertsAreMarked, Presenting, Alerts!history, AlertSession
  <2> QED
      BY <2>1, <2>2 DEF AlertInv
<1>3. CASE /\ markers' = markers \cup {Alerts!Fresh(s)} /\ Alerts!Fresh(s) \notin markers
           /\ ses' = [ses EXCEPT ![s] = [@ EXCEPT !.pc = "present", !.key = Alerts!Fresh(s)]]
           /\ UNCHANGED <<baseline, Alerts!memory>>
  <2>1. /\ ses' \in [Slots -> AlertSession] /\ gen' = gen /\ sid' = sid
        /\ ses'[s].key = Alerts!Fresh(s) /\ ses'[s].pc = "present" /\ ses'[s].gen = ses[s].gen
        /\ \A t \in Slots : t # s => ses'[t] = ses[t]
    <3>0. ses[s] \in AlertSession
          BY DEF AlertInv, AlertTypes
    <3> DEFINE marked == [ses[s] EXCEPT !.pc = "present", !.key = Alerts!Fresh(s)]
    <3>1. ses' = [ses EXCEPT ![s] = marked]
          BY <1>3
    <3>2. /\ marked \in AlertSession /\ marked.key = Alerts!Fresh(s)
          /\ marked.pc = "present" /\ marked.gen = ses[s].gen
          BY <1>1, <3>0 DEF AlertSession
    <3> HIDE DEF marked
    <3> QED
        BY <1>3, <3>1, <3>2 DEF AlertInv, AlertTypes, Alerts!memory
  <2>2. AlertTypes'
        BY <1>1, <1>3, <2>1 DEF AlertInv, Alerts!Check, AlertTypes, Alerts!history
  <2>3. AlertGenerations'
        BY <1>1, <2>1 DEF AlertInv, Alerts!Check, AlertGenerations, Alerts!history
  <2>4. AlertsAreMarked'
        BY <1>1, <1>3, <2>1 DEF AlertInv, Alerts!Check, AlertTypes, AlertsAreMarked, Presenting,
           Alerts!history, AlertSession
  <2> QED
      BY <2>2, <2>3, <2>4 DEF AlertInv
<1> QED
    BY <1>1, <1>2, <1>3 DEF Alerts!Check, AlertInv, AlertTypes

LEMMA PresentedKeeps ==
    ASSUME AlertInv, NEW s \in Slots, Alerts!Presented(s) PROVE AlertInv'
<1>1. /\ baseline' \in [seen : BOOLEAN, things : SUBSET Things]
      /\ ses[s] \in AlertSession /\ ses[s].key \in SUBSET Things
      BY DEF AlertInv, AlertTypes, AlertSession, Alerts!NewBaseline, Alerts!Presented
<1>2. /\ ses' \in [Slots -> AlertSession] /\ gen' = gen /\ sid' = sid
      /\ ses'[s].pc = "idle" /\ ses'[s].gen = 0
      /\ \A t \in Slots : t # s => ses'[t] = ses[t]
      BY EndShape DEF AlertInv, Alerts!Presented
<1>3. /\ shown' \in [SUBSET Things -> Nat]
      /\ IF Presenting(s)
         THEN /\ shown'[ses[s].key] = shown[ses[s].key] + 1
              /\ \A k \in SUBSET Things : k # ses[s].key => shown'[k] = shown[k]
         ELSE shown' = shown
      BY <1>1 DEF AlertInv, Alerts!Presented, Alerts!Show, AlertTypes, Presenting
<1>4. AlertTypes' /\ AlertGenerations'
      BY <1>1, <1>2, <1>3 DEF AlertInv, Alerts!Presented, AlertTypes, AlertGenerations
<1>5. AlertsAreMarked'
  <2> SUFFICES ASSUME ~overtaken PROVE AlertsAreMarked'
      BY DEF AlertsAreMarked, Alerts!Presented
  <2>1. \A t \in Slots : Presenting(t)' => t # s /\ Presenting(t) /\ ses'[t] = ses[t]
        BY <1>2 DEF Presenting
  <2>2. markers' = markers
        BY DEF Alerts!Presented
  <2> QED
      BY <1>1, <1>2, <1>3, <2>1, <2>2 DEF AlertInv, AlertsAreMarked, AlertTypes, AlertSession
<1> QED
    BY <1>4, <1>5 DEF AlertInv

\* A call that is rejected takes back no marker but its own, unless it is of a
\* session from before a purge.
LEMMA RejectedKeeps ==
    ASSUME AlertInv, NEW s \in Slots, Alerts!Rejected(s) PROVE AlertInv'
<1>1. /\ ses' \in [Slots -> AlertSession] /\ gen' = gen /\ sid' = sid
      /\ ses'[s].pc = "idle" /\ ses'[s].gen = 0
      /\ \A t \in Slots : t # s => ses'[t] = ses[t]
      BY EndShape DEF AlertInv, Alerts!Rejected
<1>2. AlertTypes' /\ AlertGenerations'
      BY <1>1 DEF AlertInv, Alerts!Rejected, Alerts!TakeBack, AlertTypes, AlertGenerations
<1>3. AlertsAreMarked'
  <2> SUFFICES ASSUME ~overtaken' PROVE AlertsAreMarked'
      BY DEF AlertsAreMarked
  <2>1. ~overtaken /\ ~Alerts!MarkedAgain(s) /\ shown' = shown
        /\ markers' = markers \ {ses[s].key} /\ ses[s].pc = "present"
        BY DEF Alerts!Rejected, Alerts!TakeBack
  <2>2. \A t \in Slots : Presenting(t)' => t # s /\ Presenting(t) /\ ses'[t] = ses[t]
        BY <1>1 DEF Presenting
  <2>3. ses[s].key \in SUBSET Things /\ shown \in [SUBSET Things -> Nat]
        BY DEF AlertInv, AlertTypes, AlertSession
  <2>4. shown[ses[s].key] = 0
        BY <2>1, <2>3 DEF AlertInv, AlertsAreMarked, Presenting, Alerts!MarkedAgain
  <2>5. \A t \in Slots : Presenting(t) /\ t # s => ses[t].key # ses[s].key
        BY <2>1 DEF AlertInv, AlertsAreMarked, Presenting, Alerts!MarkedAgain
  <2> QED
      BY <2>1, <2>2, <2>3, <2>4, <2>5 DEF AlertInv, AlertsAreMarked
<1> QED
    BY <1>2, <1>3 DEF AlertInv

LEMMA ScopeKeeps ==
    ASSUME AlertInv, Alerts!Purge \/ Alerts!ClearBaselines \/ Alerts!Reactivate
    PROVE  AlertInv'
<1>1. CASE Alerts!Purge
  <2>1. AlertTypes' /\ AlertGenerations'
        BY <1>1 DEF AlertInv, AlertTypes, AlertSession, AlertGenerations, Alerts!Purge,
           Alerts!history
  <2>2. \A s \in Slots : ~Presenting(s)'
        BY <1>1 DEF AlertInv, AlertTypes, AlertSession, AlertGenerations, Alerts!Purge,
           Presenting
  <2>3. AlertsAreMarked'
        BY <1>1, <2>2 DEF AlertInv, AlertsAreMarked, Alerts!Purge, Alerts!history
  <2> QED
      BY <2>1, <2>3 DEF AlertInv
<1>2. CASE Alerts!ClearBaselines
  <2>1. AlertTypes'
        BY <1>2 DEF AlertInv, AlertTypes, Alerts!ClearBaselines, Alerts!NoBaseline,
           Alerts!memory
  <2>2. AlertGenerations'
        BY <1>2 DEF AlertInv, AlertGenerations, Alerts!ClearBaselines, Alerts!memory
  <2>3. \A s \in Slots : ~Presenting(s)'
        BY <1>2 DEF AlertInv, AlertTypes, AlertSession, AlertGenerations,
           Alerts!ClearBaselines, Alerts!memory, Presenting
  <2>4. AlertsAreMarked'
        BY <1>2, <2>3 DEF AlertsAreMarked, Alerts!ClearBaselines
  <2> QED
      BY <2>1, <2>2, <2>4 DEF AlertInv
<1>3. CASE Alerts!Reactivate
      BY <1>3 DEF AlertInv, AlertTypes, AlertGenerations, AlertsAreMarked, Presenting,
         Alerts!Reactivate, Alerts!memory, Alerts!history
<1> QED
    BY <1>1, <1>2, <1>3

\* A kill presents each alert that is asked for once more at most.
LEMMA KillKeeps == ASSUME AlertInv, Alerts!Kill PROVE AlertInv'
<1>0. PICK out \in SUBSET Alerts!InFlight : Alerts!ShowAll(out)
      BY DEF Alerts!Kill
<1>1. shown' = [k \in SUBSET Things |-> shown[k] + Cardinality(Alerts!About(out, k))]
      BY <1>0, AlertsCardinality DEF Alerts!ShowAll
<1>2. /\ ses' = [s \in Slots |-> Alerts!Idle] /\ gen' = 0 /\ sid' = 0 /\ purging' = FALSE
      /\ UNCHANGED <<baseline, markers, suspended, present, overtaken>>
      BY DEF Alerts!Kill, Alerts!kv
<1>3. \A s \in Slots : ~Presenting(s)'
      BY <1>2 DEF Presenting, Alerts!Idle
<1>4. ASSUME NEW k \in SUBSET Things
      PROVE  Cardinality(Alerts!About(out, k)) \in Nat
  <2>1. Alerts!About(out, k) \subseteq Slots
        BY DEF Alerts!About, Alerts!InFlight
  <2> QED
      BY <2>1, AppAssumption, FS_Subset, FS_CardinalityType
<1>5. AlertTypes'
  <2>1. shown' \in [SUBSET Things -> Nat]
        BY <1>1, <1>4 DEF AlertInv, AlertTypes
  <2>2. ses' \in [Slots -> AlertSession]
        BY <1>2 DEF AlertSession, Alerts!Idle
  <2> QED
      BY <1>2, <2>1, <2>2 DEF AlertInv, AlertTypes
<1>6. AlertGenerations'
      BY <1>2 DEF AlertGenerations, Alerts!Idle
<1>7. ASSUME ~overtaken, NEW k \in SUBSET Things
      PROVE  shown'[k] = 0 \/ (shown'[k] = 1 /\ k \in markers')
  <2> DEFINE asking == Alerts!About(out, k)
  <2>1. shown'[k] = shown[k] + Cardinality(asking) /\ shown[k] \in Nat
        BY <1>1 DEF AlertInv, AlertTypes
  <2>2. \A s \in asking : s \in Slots /\ Presenting(s) /\ ses[s].key = k
        BY DEF Presenting, Alerts!About, Alerts!InFlight
  <2> HIDE DEF asking
  <2>3. CASE asking = {}
    <3>1. Cardinality(asking) = 0
          BY <2>3, FS_EmptySet
    <3> QED
        BY <1>2, <1>7, <2>1, <3>1 DEF AlertInv, AlertsAreMarked
  <2>4. CASE asking # {}
    <3>1. PICK s \in asking : TRUE
          BY <2>4
    <3>2. asking = {s}
          BY <1>7, <2>2, <3>1 DEF AlertInv, AlertsAreMarked
    <3>3. Cardinality(asking) = 1
          BY <3>2, FS_Singleton
    <3>4. shown[k] = 0 /\ k \in markers
          BY <1>7, <2>2, <3>1 DEF AlertInv, AlertsAreMarked
    <3> QED
        BY <1>2, <2>1, <3>3, <3>4
  <2> QED
      BY <2>3, <2>4
<1>8. AlertsAreMarked'
      BY <1>2, <1>3, <1>7 DEF AlertsAreMarked
<1> QED
    BY <1>5, <1>6, <1>8 DEF AlertInv

LEMMA AlertStep == AlertInv /\ [Alerts!Next]_Alerts!vars => AlertInv'
<1> SUFFICES ASSUME AlertInv, [Alerts!Next]_Alerts!vars PROVE AlertInv'
    OBVIOUS
<1>1. ASSUME NEW s \in Slots, Alerts!Session(s) PROVE AlertInv'
      BY <1>1, BeginKeeps, PermissionKeeps, CheckKeeps, PresentedKeeps, RejectedKeeps
         DEF Alerts!Session
<1>2. CASE UNCHANGED Alerts!vars
      BY <1>2 DEF Alerts!vars, Alerts!kv, Alerts!memory, Alerts!history, AlertInv, AlertTypes,
         AlertGenerations, AlertsAreMarked, Presenting
<1> QED
    BY <1>1, <1>2, ScopeKeeps, KillKeeps DEF Alerts!Next

\* An alert is shown at most once, through any number of sessions, purges, kills and
\* rejected calls, until a rejected call takes back the marker of a later session.
THEOREM AlertShownOnce == Alerts!Spec => []Alerts!AtMostOnce
<1>1. AlertInv => Alerts!AtMostOnce
      BY DEF AlertInv, AlertsAreMarked, Alerts!AtMostOnce
<1> QED
    BY <1>1, AlertInit, AlertStep, PTL DEF Alerts!Spec

-----------------------------------------------------------------------------
(***************************************************************************)
(* RequestOperation.                                                       *)
(***************************************************************************)
Sendable == {"dispatching", "outcome_unknown"}
Records == [key : Keys, state : States] \cup {Absent}
Calls == [at : {"sent", "asking"}, key : Keys] \cup {NoCall}
Fates == {"unborn", "open"} \cup Server!Final

RequestTypes ==
    /\ store \in [Digests -> Records] /\ call \in [Digests -> Calls]
    /\ generation \in 0 .. MaxKeys /\ net \subseteq Keys
    /\ fate \in [Keys -> Fates] /\ overtaken \in BOOLEAN

Unsent(k) == k \notin net /\ fate[k] = "unborn"

\* A key that was not given out, or not sent, is neither on its way nor known to
\* the server; one that is on its way has not arrived; no two records share one.
KeysAreFresh ==
    /\ \A k \in Keys : k > generation => Unsent(k)
    /\ \A k \in net : fate[k] = "unborn"
    /\ \A d \in Digests : store[d].key <= generation
    /\ \A d \in Digests : store[d].state = "prepared" => Unsent(store[d].key)
    /\ \A d, e \in Digests : store[d].key = store[e].key /\ store[d].key # NoKey => d = e

\* A record that says it was dispatched, while a request waits for its direct
\* answer, is the record of that request.
CallsFit ==
    \A d \in Digests :
        call[d].at = "sent" /\ store[d].state \in Sendable => store[d].key = call[d].key

KeysAreOnRecord ==
    \A k \in Keys : k \in net \/ fate[k] = "open" =>
        \E d \in Digests : store[d].key = k /\ store[d].state \in Sendable

RequestInv == RequestTypes /\ (~overtaken => KeysAreFresh /\ CallsFit /\ KeysAreOnRecord)

LEMMA NoCallIsTyped == NoCall \in Calls /\ Absent \in Records /\ NoCall.at = "none"
                       /\ Absent.state = "absent" /\ Absent.key = NoKey
  BY DEF Calls, Records, NoCall, Absent

LEMMA RequestInit == Init => RequestInv
<1> SUFFICES ASSUME Init PROVE RequestInv
    OBVIOUS
<1>1. fate = [k \in Keys |-> "unborn"] /\ net = {} /\ generation = 0 /\ ~overtaken
      BY DEF Init, Server!Init
<1>2. \A d \in Digests : /\ store[d] = Absent /\ Absent.key = 0 /\ Absent.state = "absent"
                         /\ call[d] = NoCall /\ NoCall.at = "none"
      BY DEF Init, Absent, NoCall, NoKey
<1>3. RequestTypes
  <2>1. store \in [Digests -> Records] /\ call \in [Digests -> Calls]
        BY NoCallIsTyped DEF Init
  <2>2. fate \in [Keys -> Fates]
        BY <1>1 DEF Fates
  <2>3. generation \in 0 .. MaxKeys /\ net \subseteq Keys
        BY <1>1, RequestAssumption
  <2>4. overtaken \in BOOLEAN
        BY DEF Init
  <2> QED
      BY <2>1, <2>2, <2>3, <2>4 DEF RequestTypes
<1>4. KeysAreFresh /\ CallsFit /\ KeysAreOnRecord
      BY <1>1, <1>2 DEF KeysAreFresh, CallsFit, KeysAreOnRecord, Unsent, Sendable, Keys, NoKey
<1> QED
    BY <1>3, <1>4 DEF RequestInv

\* What a step may do to the record and the call of one digest: the key stays, goes,
\* or is the next one; a record that was dispatched is kept while its key is unsettled.
LEMMA OneDigestKeeps ==
    ASSUME RequestInv, NEW d \in Digests, NEW rec \in Records, NEW c \in Calls,
           store' = [store EXCEPT ![d] = rec], call' = [call EXCEPT ![d] = c],
           generation' \in generation .. MaxKeys, net' \subseteq Keys, fate' = fate,
           overtaken' \in BOOLEAN, overtaken => overtaken',
           rec.key \in {NoKey, store[d].key} \/ (rec.key = generation' /\ generation' > generation),
           ~overtaken' =>
               /\ rec.state = "prepared" => rec.key \notin net' /\ fate[rec.key] = "unborn"
               /\ c.at = "sent" /\ rec.state \in Sendable => rec.key = c.key
               /\ \A k \in net' \ net :
                     k <= generation' /\ fate[k] = "unborn" /\ rec.key = k /\ rec.state \in Sendable
               /\ store[d].state \in Sendable
                  /\ (store[d].key \in net' \/ fate[store[d].key] = "open")
                  => rec.key = store[d].key /\ rec.state \in Sendable
    PROVE  RequestInv'
<1>1. /\ store'[d] = rec /\ call'[d] = c
      /\ \A e \in Digests \ {d} : store'[e] = store[e] /\ call'[e] = call[e]
      /\ \A e \in Digests : store[e] \in Records
      BY DEF RequestInv, RequestTypes
<1>2. RequestTypes'
      BY DEF RequestInv, RequestTypes, Keys
<1>3. \A r \in Records : r.key \in Keys \cup {NoKey} /\ (r.state # "absent" => r.key \in Keys)
      BY DEF Records, Absent, States
<1>4. generation \in Nat /\ generation' \in Nat /\ generation <= generation' /\ Keys \subseteq Nat
      BY DEF RequestInv, RequestTypes, Keys
<1>5. ASSUME ~overtaken' PROVE KeysAreFresh'
  <2>1. KeysAreFresh
        BY <1>5 DEF RequestInv
  <2>2. \A k \in Keys : k > generation' => k \notin net' /\ fate'[k] = "unborn"
        BY <1>4, <1>5, <2>1 DEF KeysAreFresh, Unsent
  <2>3. \A k \in net' : fate'[k] = "unborn"
        BY <1>5, <2>1 DEF KeysAreFresh
  <2>4. \A e \in Digests : store'[e].key <= generation'
        BY <1>1, <1>3, <1>4, <2>1 DEF KeysAreFresh, NoKey, Keys
  <2>5. ASSUME NEW e \in Digests, e # d, store'[e].state = "prepared"
        PROVE  store'[e].key \notin net' /\ fate'[store'[e].key] = "unborn"
    <3>1. store[e].key \in Keys /\ Unsent(store[e].key) /\ store'[e] = store[e]
          BY <1>1, <1>3, <2>1, <2>5 DEF KeysAreFresh
    <3>2. rec.key # store[e].key
          BY <1>1, <1>3, <1>4, <2>1, <2>5, <3>1 DEF KeysAreFresh, NoKey, Keys
    <3> QED
        BY <1>5, <3>1, <3>2 DEF Unsent
  <2>6. \A e \in Digests : store'[e].state = "prepared"
                           => store'[e].key \notin net' /\ fate'[store'[e].key] = "unborn"
        BY <1>1, <1>5, <2>5
  <2>7. ASSUME NEW a \in Digests, NEW b \in Digests, store'[a].key = store'[b].key,
               store'[a].key # NoKey
        PROVE  a = b
        BY <1>1, <1>3, <1>4, <2>1, <2>7 DEF KeysAreFresh, NoKey, Keys
  <2> QED
      BY <2>2, <2>3, <2>4, <2>6, <2>7 DEF KeysAreFresh, Unsent
<1>6. ASSUME ~overtaken' PROVE CallsFit'
      BY <1>1, <1>6 DEF RequestInv, CallsFit
<1>7. ASSUME ~overtaken' PROVE KeysAreOnRecord'
  <2> SUFFICES ASSUME NEW k \in Keys, k \in net' \/ fate[k] = "open"
               PROVE  \E e \in Digests : store'[e].key = k /\ store'[e].state \in Sendable
      BY DEF KeysAreOnRecord
  <2>1. CASE k \in net' \ net
        BY <1>1, <1>7, <2>1
  <2>2. CASE k \in net \/ fate[k] = "open"
    <3>1. PICK e \in Digests : store[e].key = k /\ store[e].state \in Sendable
          BY <1>7, <2>2 DEF RequestInv, KeysAreOnRecord
    <3> QED
        BY <1>1, <1>7, <3>1
  <2> QED
      BY <2>1, <2>2
<1> QED
    BY <1>2, <1>5, <1>6, <1>7 DEF RequestInv

\* A write that throws leaves the record.
LEMMA WriteShape ==
    ASSUME RequestTypes, NEW d \in Digests, NEW rec, NEW through \in BOOLEAN, Write(d, rec, through)
    PROVE  \/ store' = [store EXCEPT ![d] = rec] /\ through
           \/ store' = [store EXCEPT ![d] = store[d]] /\ ~through
  BY DEF Write, RequestTypes

\* The steps that concern one digest.
LEMMA NewRecordKeeps ==
    ASSUME RequestInv, NEW d \in Digests, JoinUnderNewKey(d) \/ NotDispatched(d)
    PROVE  RequestInv'
<1> DEFINE rec == Record(generation + 1, "prepared")
<1>1. /\ generation \in Nat /\ generation < MaxKeys /\ generation' = generation + 1
      /\ store[d] = Absent /\ MaxKeys \in Nat /\ call[d] \in Calls
      BY RequestAssumption DEF RequestInv, RequestTypes, JoinUnderNewKey, NotDispatched
<1>2. /\ rec \in Records /\ rec.key = generation + 1 /\ rec.state = "prepared"
      /\ generation + 1 \in Keys /\ generation' \in generation .. MaxKeys
      BY <1>1 DEF Records, Record, Keys, States
<1>3. /\ store' = [store EXCEPT ![d] = rec] /\ call' = [call EXCEPT ![d] = call[d]]
      /\ net' = net /\ fate' = fate /\ overtaken' = overtaken
      BY <1>1 DEF RequestInv, RequestTypes, JoinUnderNewKey, NotDispatched, server
<1>4. ~overtaken => generation + 1 \notin net /\ fate[generation + 1] = "unborn"
      BY <1>1, <1>2 DEF RequestInv, KeysAreFresh, Unsent
<1>5. net \subseteq Keys /\ overtaken \in BOOLEAN
      BY DEF RequestInv, RequestTypes
<1>6. rec.state \notin Sendable /\ store[d].state \notin Sendable
      BY <1>1, <1>2, NoCallIsTyped DEF Sendable
<1>7. rec.key = generation' /\ generation' > generation
      BY <1>1, <1>2
<1> HIDE DEF rec
<1> QED
    BY <1>1, <1>2, <1>3, <1>4, <1>5, <1>6, <1>7, OneDigestKeeps

LEMMA DispatchKeeps == ASSUME RequestInv, NEW d \in Digests, Dispatch(d) PROVE RequestInv'
<1> DEFINE known == store[d].state = "prepared"
           k == IF known THEN store[d].key ELSE generation + 1
           rec == Record(k, "dispatching")
<1>1. /\ generation \in Nat /\ MaxKeys \in Nat /\ store[d] \in Records
      /\ net \subseteq Keys /\ overtaken \in BOOLEAN /\ generation <= MaxKeys
      BY RequestAssumption DEF RequestInv, RequestTypes
<1>2. /\ k \in Keys /\ (known \/ store[d] = Absent)
      /\ generation' = IF known THEN generation ELSE k
      /\ store' = [store EXCEPT ![d] = rec] /\ call' = [call EXCEPT ![d] = Sent(k)]
      /\ net' = net \cup {k} /\ fate' = fate /\ overtaken' = overtaken
      BY DEF Dispatch, server
<1>3. /\ rec \in Records /\ rec.key = k /\ rec.state = "dispatching"
      /\ Sent(k) \in Calls /\ Sent(k).key = k
      BY <1>2 DEF Records, Record, States, Calls, Sent
<1>4. generation' \in generation .. MaxKeys /\ (known \/ (k = generation' /\ k > generation))
      BY <1>1, <1>2 DEF Keys
<1>5. ~overtaken => fate[k] = "unborn" /\ k <= generation'
      BY <1>1, <1>2, <1>4 DEF RequestInv, KeysAreFresh, Unsent, Keys
<1>6. store[d].state \notin Sendable
      BY <1>2, NoCallIsTyped DEF Sendable
<1>7. rec.key \in {NoKey, store[d].key} \/ (rec.key = generation' /\ generation' > generation)
      BY <1>3, <1>4
<1>8. net' \subseteq Keys /\ "dispatching" \in Sendable /\ "dispatching" # "prepared"
      BY <1>1, <1>2 DEF Sendable
<1> HIDE DEF rec, k, known
<1> QED
    BY <1>1, <1>2, <1>3, <1>4, <1>5, <1>6, <1>7, <1>8, OneDigestKeeps

LEMMA InquireKeeps ==
    ASSUME RequestInv, NEW d \in Digests, Inquire(d) PROVE RequestInv'
<1>1. /\ store[d] \in Records /\ store[d].key \in Keys
      /\ store' = [store EXCEPT ![d] = store[d]]
      BY DEF RequestInv, RequestTypes, Inquire, Records, Absent
<1>2. /\ Asking(store[d].key) \in Calls /\ Asking(store[d].key).at = "asking"
      /\ call' = [call EXCEPT ![d] = Asking(store[d].key)]
      BY <1>1 DEF Asking, Calls, Inquire
<1>3. /\ generation' \in generation .. MaxKeys /\ net' \subseteq Keys /\ overtaken' \in BOOLEAN
      /\ net' = net /\ fate' = fate /\ overtaken' = overtaken
      BY RequestAssumption DEF RequestInv, RequestTypes, Inquire, server
<1>4. store[d].state # "prepared"
      BY DEF Inquire
<1> QED
    BY <1>1, <1>2, <1>3, <1>4, OneDigestKeeps

\* A direct answer ends the call; the record goes, or stays when its removal throws.
LEMMA AnswerKeeps ==
    ASSUME RequestInv, NEW d \in Digests,
           AnsweredCompleted(d) \/ AnsweredFailed(d) \/ AnsweredRejected(d)
    PROVE  RequestInv'
<1>1. PICK through \in BOOLEAN : Write(d, Absent, through)
      BY DEF AnsweredCompleted, AnsweredFailed, AnsweredRejected, DirectAnswer
<1>2. PICK rec \in {Absent, store[d]} : store' = [store EXCEPT ![d] = rec]
      BY <1>1, WriteShape DEF RequestInv
<1>3. /\ call[d].at = "sent" /\ call' = [call EXCEPT ![d] = NoCall]
      /\ generation' = generation /\ fate' = fate /\ overtaken' = overtaken
      /\ net' \subseteq net
      BY DEF AnsweredCompleted, AnsweredFailed, AnsweredRejected, DirectAnswer, server
<1>4. \/ fate[call[d].key] \in Server!Final /\ net' = net
      \/ call[d].key \in net /\ net' = net \ {call[d].key}
      BY DEF AnsweredCompleted, AnsweredFailed, AnsweredRejected, Server!Final
<1>5. ~overtaken => call[d].key \notin net' /\ fate[call[d].key] # "open"
      BY <1>4 DEF RequestInv, KeysAreFresh, Server!Final
<1>6. /\ store[d] \in Records /\ generation' \in generation .. MaxKeys /\ net' \subseteq Keys
      /\ overtaken' \in BOOLEAN
      BY <1>3, RequestAssumption DEF RequestInv, RequestTypes
<1>7. ~overtaken /\ store[d].state \in Sendable => store[d].key = call[d].key
      BY <1>3 DEF RequestInv, CallsFit
<1>8. ~overtaken /\ rec.state = "prepared" => rec.key \notin net' /\ fate[rec.key] = "unborn"
      BY <1>2, <1>3, NoCallIsTyped DEF RequestInv, KeysAreFresh, Unsent
<1> QED
    BY <1>2, <1>3, <1>5, <1>6, <1>7, <1>8, NoCallIsTyped, OneDigestKeeps

LEMMA BusyKeeps == ASSUME RequestInv, NEW d \in Digests, AnsweredBusy(d) PROVE RequestInv'
<1> DEFINE new == IF store[d] = Absent THEN Absent ELSE Record(store[d].key, "prepared")
<1>1. PICK through \in BOOLEAN : Write(d, new, through)
      BY DEF AnsweredBusy
<1>2. store[d] \in Records /\ new \in Records /\ new.state \notin Sendable
      /\ new.key \in {NoKey, store[d].key} /\ (new.state = "prepared" => new.key = store[d].key)
      BY NoCallIsTyped DEF RequestInv, RequestTypes, Records, Record, States, Sendable
<1>3. PICK rec \in {new, store[d]} : store' = [store EXCEPT ![d] = rec]
      BY <1>1, WriteShape DEF RequestInv
<1>4. /\ call[d].at = "sent" /\ call' = [call EXCEPT ![d] = NoCall]
      /\ generation' = generation /\ fate' = fate /\ overtaken' = overtaken
      /\ call[d].key \in net /\ net' = net \ {call[d].key}
      BY DEF AnsweredBusy, server
<1>5. ~overtaken => fate[call[d].key] = "unborn"
      BY <1>4 DEF RequestInv, KeysAreFresh
<1>6. /\ generation' \in generation .. MaxKeys /\ net' \subseteq Keys /\ overtaken' \in BOOLEAN
      BY <1>4, RequestAssumption DEF RequestInv, RequestTypes
<1>7. ~overtaken /\ store[d].state \in Sendable => store[d].key = call[d].key
      BY <1>4 DEF RequestInv, CallsFit
<1>8. ~overtaken /\ store[d].state = "prepared" => Unsent(store[d].key)
      BY DEF RequestInv, KeysAreFresh
<1>9. store[d].state \in Sendable \cup {"prepared"} \/ store[d] = Absent
      BY <1>2 DEF Records, States, Sendable
<1>10. ~overtaken /\ rec.state = "prepared" => rec.key \notin net' /\ fate[rec.key] = "unborn"
  <2> HIDE DEF new
  <2> SUFFICES ASSUME ~overtaken, rec.state = "prepared"
               PROVE  rec.key \notin net' /\ fate[rec.key] = "unborn"
      OBVIOUS
  <2>1. rec.key = store[d].key /\ store[d] # Absent
        BY <1>2, <1>3, NoCallIsTyped DEF new
  <2> QED
      BY <2>1, <1>4, <1>5, <1>7, <1>8, <1>9 DEF Unsent
<1> HIDE DEF new
<1> QED
    BY <1>2, <1>3, <1>4, <1>5, <1>6, <1>7, <1>10, NoCallIsTyped, OneDigestKeeps

\* A request without an answer is asked about; nothing is known of its key.
LEMMA UnansweredKeeps == ASSUME RequestInv, NEW d \in Digests, Unanswered(d) PROVE RequestInv'
<1>1. /\ generation' = generation /\ fate' = fate /\ overtaken' = overtaken /\ net' = net
      /\ generation' \in generation .. MaxKeys /\ net' \subseteq Keys /\ overtaken' \in BOOLEAN
      /\ store[d] \in Records
      BY RequestAssumption DEF RequestInv, RequestTypes, Unanswered, server
<1>2. ~overtaken /\ store[d].state = "prepared" => Unsent(store[d].key)
      BY DEF RequestInv, KeysAreFresh
<1>3. CASE /\ store[d].state \in Sendable
           /\ Write(d, Record(store[d].key, "outcome_unknown"), TRUE)
           /\ call' = [call EXCEPT ![d] = Asking(store[d].key)]
  <2> DEFINE rec == Record(store[d].key, "outcome_unknown")
  <2>1. store[d].key \in Keys
        BY <1>1, <1>3 DEF Records, Absent, Sendable
  <2>2. /\ rec \in Records /\ rec.key = store[d].key /\ rec.state = "outcome_unknown"
        /\ "outcome_unknown" \in Sendable /\ "outcome_unknown" # "prepared"
        /\ Asking(store[d].key) \in Calls /\ Asking(store[d].key).at = "asking"
        BY <2>1 DEF Records, Record, States, Calls, Asking, Sendable
  <2>3. store' = [store EXCEPT ![d] = rec]
        BY <1>3, WriteShape DEF RequestInv
  <2> HIDE DEF rec
  <2> QED
      BY <1>1, <1>3, <2>2, <2>3, OneDigestKeeps
<1>4. CASE /\ call' = [call EXCEPT ![d] = NoCall]
           /\ Write(d, store[d], store[d].state \in {"absent", "prepared"})
  <2>1. store' = [store EXCEPT ![d] = store[d]]
        BY <1>4 DEF RequestInv, RequestTypes, Write
  <2> QED
      BY <1>1, <1>2, <1>4, <2>1, NoCallIsTyped, OneDigestKeeps DEF Unsent
<1> QED
    BY <1>3, <1>4 DEF Unanswered, Sendable

\* An answer to a status read clears the record only if it is of the key that was
\* read, or the answer has overtaken.
LEMMA StatusKeeps == ASSUME RequestInv, NEW d \in Digests, StatusAnswer(d) PROVE RequestInv'
<1> DEFINE k == asked[d]
           seen == IF holder[k] = k THEN fate[k] ELSE "unborn"
<1>1. PICK read \in BOOLEAN, through \in BOOLEAN :
         Write(d, Settled(d, read /\ seen \in Server!Final), through)
      BY DEF StatusAnswer
<1> DEFINE final == read /\ seen \in Server!Final
<1>2. /\ generation' = generation /\ fate' = fate /\ net' = net
      /\ overtaken' = (overtaken \/ store[d].key \notin {NoKey, k})
      /\ (call' = [call EXCEPT ![d] = NoCall] \/ call' = call)
      BY DEF StatusAnswer, server
<1>3. /\ store[d] \in Records /\ generation' \in generation .. MaxKeys /\ net' \subseteq Keys
      /\ overtaken' \in BOOLEAN /\ call[d] \in Calls
      BY <1>2, RequestAssumption DEF RequestInv, RequestTypes
<1>4. PICK c \in {NoCall, call[d]} : call' = [call EXCEPT ![d] = c]
      BY <1>2 DEF RequestInv, RequestTypes
<1>5. /\ Settled(d, final) \in Records
      /\ final => Settled(d, final) = Absent
      /\ ~final => /\ Settled(d, final).key = store[d].key
                   /\ store[d].state \in Sendable => Settled(d, final).state \in Sendable
                   /\ Settled(d, final).state = "prepared" => store[d].state = "prepared"
                   /\ Settled(d, final).state \in Sendable => store[d].state \in Sendable
      BY <1>3, NoCallIsTyped DEF Settled, Records, Record, Absent, States, Sendable
<1>6. PICK rec \in {Settled(d, final), store[d]} : store' = [store EXCEPT ![d] = rec]
      BY <1>1, WriteShape DEF RequestInv
<1>7. ~overtaken /\ store[d].state = "prepared" => Unsent(store[d].key)
      BY DEF RequestInv, KeysAreFresh
<1>8. ~overtaken' /\ store[d].state \in Sendable /\ final
      => store[d].key \notin net' /\ fate[store[d].key] # "open"
  <2> SUFFICES ASSUME ~overtaken', store[d].state \in Sendable, final
               PROVE  store[d].key \notin net' /\ fate[store[d].key] # "open"
      OBVIOUS
  <2>0. store[d].key \in Keys
        BY <1>3 DEF Records, Absent, Sendable
  <2>1. store[d].key \in {NoKey, k} /\ ~overtaken
        BY <1>2
  <2>2. store[d].key = k
        BY <2>0, <2>1 DEF Keys, NoKey
  <2>3. fate[k] \in Server!Final
        BY DEF Server!Final
  <2> QED
      BY <1>2, <2>1, <2>2, <2>3 DEF RequestInv, KeysAreFresh, Server!Final
<1>9. ~overtaken /\ call[d].at = "sent" /\ store[d].state \in Sendable => store[d].key = call[d].key
      BY DEF RequestInv, CallsFit
<1> HIDE DEF final
<1> QED
    BY <1>2, <1>3, <1>4, <1>5, <1>6, <1>7, <1>8, <1>9, NoCallIsTyped, OneDigestKeeps
       DEF Unsent, Sendable

\* The steps of the app that concern no call, and those of the net and the server.
LEMMA RestKeeps ==
    ASSUME RequestInv, SweepBegins \/ Purge \/ Dies PROVE RequestInv'
<1>1. CASE SweepBegins
      BY <1>1 DEF SweepBegins, server, RequestInv, RequestTypes, KeysAreFresh, CallsFit,
         KeysAreOnRecord, Unsent
<1>2. CASE Purge
  <2>1. /\ \A d \in Digests : store[d].state \notin Sendable /\ store'[d] = Absent
        /\ store' \in [Digests -> Records]
        /\ UNCHANGED <<generation, call, net, fate, overtaken>>
        BY <1>2, NoCallIsTyped DEF Purge, server, Sendable
  <2>2. generation \in Nat
        BY DEF RequestInv, RequestTypes
  <2> QED
      BY <2>1, <2>2, NoCallIsTyped DEF RequestInv, RequestTypes, KeysAreFresh, CallsFit,
         KeysAreOnRecord, Unsent, Sendable, NoKey
<1>3. CASE Dies
  <2>1. /\ \A d \in Digests : call'[d] = NoCall
        /\ call' \in [Digests -> Calls]
        /\ UNCHANGED <<generation, store, net, fate, overtaken>>
        BY <1>3, NoCallIsTyped DEF Dies, server
  <2> QED
      BY <2>1, NoCallIsTyped DEF RequestInv, RequestTypes, KeysAreFresh, CallsFit,
         KeysAreOnRecord, Unsent
<1> QED
    BY <1>1, <1>2, <1>3

LEMMA ServerKeeps ==
    ASSUME RequestInv, NEW k \in Keys, Lost(k) \/ Arrives(k) \/ Acts(k) \/ Resolves(k)
    PROVE  RequestInv'
<1>1. UNCHANGED <<store, generation, call, overtaken>> /\ net' \subseteq net
      BY DEF Lost, Arrives, Acts, Resolves, app
<1>2. \/ fate' = fate
      \/ /\ fate[k] = "unborn" /\ k \in net /\ net' = net \ {k}
         /\ fate' = [fate EXCEPT ![k] = "open"]
      \/ /\ fate[k] = "open" /\ net' = net
         /\ \E f \in Server!Final : fate' = [fate EXCEPT ![k] = f]
      BY DEF Lost, Arrives, Acts, Resolves, server, Server!Begin, Server!Act, Server!Resolve
<1>3. fate \in [Keys -> Fates]
      BY DEF RequestInv, RequestTypes
<1>4. \A j \in Keys : j # k => fate'[j] = fate[j]
      BY <1>2, <1>3
<1>5. fate' \in [Keys -> Fates]
      BY <1>2, <1>3 DEF Fates
<1>6. ~overtaken /\ k \in net' => fate'[k] = fate[k]
      BY <1>1, <1>2 DEF RequestInv, KeysAreFresh
<1>7. fate'[k] = "open" => k \in net \/ fate[k] = "open"
      BY <1>2, <1>3 DEF Server!Final
<1>8. ~overtaken /\ k > generation => fate'[k] = fate[k]
      BY <1>2 DEF RequestInv, KeysAreFresh, Unsent
<1>9. ~overtaken /\ Unsent(k) => fate'[k] = "unborn"
      BY <1>2 DEF Unsent
<1>10. RequestTypes'
      BY <1>1, <1>5 DEF RequestInv, RequestTypes
<1>11. ASSUME ~overtaken PROVE KeysAreFresh'
  <2>1. /\ \A j \in Keys : j > generation => Unsent(j)'
        /\ \A j \in Keys : Unsent(j) => Unsent(j)'
        /\ \A j \in net' : fate'[j] = "unborn"
        BY <1>1, <1>4, <1>6, <1>8, <1>9, <1>11 DEF RequestInv, RequestTypes, KeysAreFresh, Unsent
  <2>2. \A d \in Digests : store[d].state = "prepared" => store[d].key \in Keys
        BY DEF RequestInv, RequestTypes, Records, Absent
  <2> QED
      BY <1>1, <1>11, <2>1, <2>2 DEF RequestInv, KeysAreFresh
<1>12. ASSUME ~overtaken PROVE CallsFit' /\ KeysAreOnRecord'
      BY <1>1, <1>4, <1>7, <1>12 DEF RequestInv, CallsFit, KeysAreOnRecord
<1> QED
    BY <1>1, <1>10, <1>11, <1>12 DEF RequestInv

LEMMA RequestStep == RequestInv /\ [Next]_vars => RequestInv'
<1> SUFFICES ASSUME RequestInv, [Next]_vars PROVE RequestInv'
    OBVIOUS
<1>1. CASE UNCHANGED vars
      BY <1>1 DEF vars, RequestInv, RequestTypes, KeysAreFresh, CallsFit, KeysAreOnRecord, Unsent
<1>2. CASE Next
      BY <1>2, NewRecordKeeps, DispatchKeeps, InquireKeeps, AnswerKeeps, BusyKeeps,
         UnansweredKeeps, StatusKeeps, RestKeeps, ServerKeeps DEF Next
<1> QED
    BY <1>1, <1>2

\* A request that the server may still carry out has its record on the phone, through
\* deaths of the app, failing writes, refusals, purges and lost answers, until an
\* answer about one key meets the record of another.
THEOREM UnsettledStaysOnRecord == Spec => []UnsettledIsOnRecordUntilOvertaken
<1>1. RequestInv => UnsettledIsOnRecordUntilOvertaken
      BY DEF RequestInv, KeysAreOnRecord, UnsettledIsOnRecordUntilOvertaken,
         UnsettledIsOnRecord, Unsettled, OnRecord, Sendable, States
<1> QED
    BY <1>1, RequestInit, RequestStep, PTL DEF Spec


-----------------------------------------------------------------------------
(***************************************************************************)
(* ReconnectRefresh.                                                       *)
(***************************************************************************)
RefreshRun == [scope : Scopes, gen : Int, stage : {"fetch", "reconcile", "refetch"},
               current : BOOLEAN, born : Int]

RefreshTypes ==
    /\ phase \in {"unknown", "offline", "online"}
    /\ gen \in Int /\ active \in BOOLEAN /\ switching \in BOOLEAN
    /\ profile \in [scope : Scopes \cup {Demo, Nobody}, gen : Int]
    /\ runs \subseteq RefreshRun
    /\ pending \in BOOLEAN /\ debounce \in BOOLEAN /\ settle \in BOOLEAN
    /\ retry \in BOOLEAN /\ owed \in BOOLEAN
    /\ backoff \in {"none", "cooling", "over"}
    /\ confirmed \in [Scopes -> Int] /\ purgedAt \in [Scopes -> Int]
    /\ warned \in [Scopes -> {"none", "here", "old"}]

\* A run in flight is the owner's: of its scope and generation, begun since the
\* last purge of its scope, and alone.
RunsAreCurrent ==
    /\ \A r \in runs : r.current => /\ active /\ r.scope = scope /\ r.gen = gen
                                    /\ r.born >= purgedAt[r.scope]
    /\ \A q, r \in runs : q.current /\ r.current => q = r

\* An owner that is not active has nothing to do, one that is has a scope, and
\* while it cools down its retry is set.
OwnerIsConsistent ==
    /\ active => scope \in Scopes
    /\ active /\ backoff = "cooling" => retry
    /\ ~active => ~pending /\ ~debounce /\ ~settle /\ ~retry /\ ~owed
    /\ owed => phase = "online"

\* The owner learns of a generation after the app, and while a change of settings
\* is under way its scope is the profile's if it knows the generation.
ProfileIsAhead ==
    /\ gen <= profile.gen
    /\ \A s \in Scopes : purgedAt[s] <= profile.gen
    /\ switching /\ gen = profile.gen => scope = profile.scope

RefreshInv ==
    /\ RefreshTypes /\ RunsAreCurrent /\ OwnerIsConsistent /\ ProfileIsAhead
    /\ Reconnect!RefreshIsNotForgotten /\ Reconnect!RetryIsComing
    /\ Reconnect!ConfirmedSinceThePurge

LEMMA RefreshInit == Reconnect!Init => RefreshInv
<1> SUFFICES ASSUME Reconnect!Init PROVE RefreshInv
    OBVIOUS
<1>1. RefreshTypes
  <2>1. Reconnect!Never \in Int /\ 0 \in Int
        BY DEF Reconnect!Never
  <2>2. PICK s \in Scopes : scope = s /\ profile = [scope |-> s, gen |-> 0]
        BY DEF Reconnect!Init
  <2>3. profile \in [scope : Scopes \cup {Demo, Nobody}, gen : Int]
        BY <2>2
  <2>4. /\ confirmed \in [Scopes -> Int] /\ purgedAt \in [Scopes -> Int]
        /\ warned \in [Scopes -> {"none", "here", "old"}]
        BY <2>1 DEF Reconnect!Init
  <2> QED
      BY <2>3, <2>4 DEF Reconnect!Init, RefreshTypes
<1>2. RunsAreCurrent /\ OwnerIsConsistent /\ ProfileIsAhead
      BY DEF Reconnect!Init, RunsAreCurrent, OwnerIsConsistent, ProfileIsAhead
<1>3. /\ Reconnect!RefreshIsNotForgotten /\ Reconnect!RetryIsComing
      /\ Reconnect!ConfirmedSinceThePurge
      BY DEF Reconnect!Init, Reconnect!RefreshIsNotForgotten, Reconnect!RetryIsComing,
         Reconnect!ConfirmedSinceThePurge, Reconnect!Never
<1> QED
    BY <1>1, <1>2, <1>3 DEF RefreshInv

\* What a start leaves: a run of the owner, or something that will start one.
LEMMA StartShape ==
    ASSUME RefreshInv, NEW timer \in BOOLEAN, Reconnect!Start(timer),
           timer = FALSE \/ timer = debounce
    PROVE  /\ runs' \subseteq RefreshRun /\ pending' \in BOOLEAN /\ debounce' = timer
           /\ owed' \in BOOLEAN /\ (owed' => owed) /\ (pending => pending')
           /\ ~active => runs' = runs /\ ~pending' /\ ~owed'
           /\ active => \/ Reconnect!InFlight'
                        \/ pending' /\ backoff = "cooling"
           /\ active => pending' \/ ~owed'
           /\ \A r \in runs' : r \in runs \/ /\ active /\ r.scope = scope /\ r.gen = gen
                                             /\ r.born = profile.gen /\ ~Reconnect!InFlight
           /\ \A q, r \in runs' : q \notin runs /\ r \notin runs => q = r
           /\ Reconnect!InFlight => Reconnect!InFlight'
<1>1. CASE ~active
      BY <1>1 DEF Reconnect!Start, RefreshInv, RefreshTypes, OwnerIsConsistent,
         Reconnect!InFlight
<1>2. CASE active /\ (Reconnect!InFlight \/ backoff = "cooling")
      BY <1>2 DEF Reconnect!Start, RefreshInv, RefreshTypes, Reconnect!InFlight
<1>3. CASE active /\ ~Reconnect!InFlight /\ backoff # "cooling"
  <2> DEFINE new == [scope |-> scope, gen |-> gen, stage |-> "fetch",
                     current |-> TRUE, born |-> profile.gen]
  <2>1. /\ runs' = runs \cup {new} /\ owed' = FALSE /\ pending' = pending /\ debounce' = timer
        BY <1>3 DEF Reconnect!Start
  <2>2. new \in RefreshRun
        BY <1>3 DEF RefreshInv, RefreshTypes, RefreshRun, OwnerIsConsistent
  <2>3. /\ new.current /\ new.scope = scope /\ new.gen = gen /\ new.born = profile.gen
        OBVIOUS
  <2>4. /\ runs \subseteq RefreshRun /\ pending \in BOOLEAN /\ owed' \in BOOLEAN
        BY <2>1 DEF RefreshInv, RefreshTypes
  <2> HIDE DEF new
  <2>5. Reconnect!InFlight'
        BY <2>1, <2>3 DEF Reconnect!InFlight
  <2> QED
      BY <1>3, <2>1, <2>2, <2>3, <2>4, <2>5
<1> QED
    BY <1>1, <1>2, <1>3 DEF RefreshInv, RefreshTypes

LEMMA SnapshotKeeps == ASSUME RefreshInv, Reconnect!Snapshot PROVE RefreshInv'
<1>1. RefreshTypes'
      BY DEF RefreshInv, RefreshTypes, Reconnect!Snapshot, Reconnect!ofOwner, Reconnect!ofApp
<1>2. RunsAreCurrent' /\ OwnerIsConsistent' /\ ProfileIsAhead'
      BY DEF RefreshInv, RefreshTypes, Reconnect!Snapshot, Reconnect!ofOwner, Reconnect!ofApp,
         RunsAreCurrent, OwnerIsConsistent, ProfileIsAhead
<1>3. /\ Reconnect!RefreshIsNotForgotten' /\ Reconnect!RetryIsComing'
      /\ Reconnect!ConfirmedSinceThePurge'
      BY DEF RefreshInv, RefreshTypes, Reconnect!Snapshot, Reconnect!ofOwner, Reconnect!ofApp,
         OwnerIsConsistent, Reconnect!RefreshIsNotForgotten, Reconnect!RetryIsComing,
         Reconnect!ConfirmedSinceThePurge, Reconnect!InFlight
<1> QED
    BY <1>1, <1>2, <1>3 DEF RefreshInv

\* The timers, and a screen that comes to the front.
LEMMA TimerKeeps ==
    ASSUME RefreshInv,
           Reconnect!Settle \/ Reconnect!Retry \/ Reconnect!CoolDown \/ Reconnect!Foreground
    PROVE  RefreshInv'
<1> USE DEF RefreshInv, RefreshTypes, Reconnect!Settle, Reconnect!Retry, Reconnect!CoolDown,
        Reconnect!Foreground, Reconnect!ofOwner, Reconnect!ofApp, Reconnect!ofTimers
<1>1. RefreshTypes'
      OBVIOUS
<1>2. RunsAreCurrent' /\ ProfileIsAhead'
      BY DEF RunsAreCurrent, ProfileIsAhead
<1>3. OwnerIsConsistent'
      BY DEF OwnerIsConsistent, Reconnect!InFlight, RunsAreCurrent
<1>4. /\ Reconnect!RefreshIsNotForgotten' /\ Reconnect!RetryIsComing'
      /\ Reconnect!ConfirmedSinceThePurge'
      BY DEF OwnerIsConsistent, Reconnect!RefreshIsNotForgotten, Reconnect!RetryIsComing,
         Reconnect!ConfirmedSinceThePurge, Reconnect!InFlight
<1> QED
    BY <1>1, <1>2, <1>3, <1>4

LEMMA StartKeeps ==
    ASSUME RefreshInv, Reconnect!Debounce \/ Reconnect!AskedFor PROVE RefreshInv'
<1>1. PICK timer \in BOOLEAN : Reconnect!Start(timer) /\ (timer = FALSE \/ timer = debounce)
      BY DEF Reconnect!Debounce, Reconnect!AskedFor, RefreshInv, RefreshTypes
<1>2. UNCHANGED <<phase, scope, gen, active, settle, retry, backoff, confirmed, warned,
                  profile, switching, purgedAt>>
      BY DEF Reconnect!Debounce, Reconnect!AskedFor, Reconnect!ofOwner, Reconnect!ofApp
<1>3. /\ runs' \subseteq RefreshRun /\ pending' \in BOOLEAN /\ debounce' = timer
      /\ owed' \in BOOLEAN /\ (owed' => owed) /\ (pending => pending')
      /\ ~active => runs' = runs /\ ~pending' /\ ~owed'
      /\ active => \/ Reconnect!InFlight'
                   \/ pending' /\ backoff = "cooling"
      /\ active => pending' \/ ~owed'
      /\ \A r \in runs' : r \in runs \/ /\ active /\ r.scope = scope /\ r.gen = gen
                                        /\ r.born = profile.gen /\ ~Reconnect!InFlight
      /\ \A q, r \in runs' : q \notin runs /\ r \notin runs => q = r
      /\ Reconnect!InFlight => Reconnect!InFlight'
      BY <1>1, StartShape
<1>4. RefreshTypes'
      BY <1>2, <1>3 DEF RefreshInv, RefreshTypes
<1>5. RunsAreCurrent'
  <2>1. ASSUME NEW r \in runs', r.current
        PROVE  /\ active' /\ r.scope = scope' /\ r.gen = gen' /\ r.born >= purgedAt'[r.scope]
    <3>1. CASE r \in runs
          BY <1>2, <2>1, <3>1 DEF RefreshInv, RunsAreCurrent
    <3>2. CASE r \notin runs
          BY <1>2, <1>3, <2>1, <3>2 DEF RefreshInv, RefreshTypes, OwnerIsConsistent, ProfileIsAhead
    <3> QED
        BY <3>1, <3>2
  <2>2. ASSUME NEW q \in runs', NEW r \in runs', q.current, r.current PROVE q = r
        BY <1>3, <2>2 DEF RefreshInv, RunsAreCurrent, Reconnect!InFlight
  <2> QED
      BY <2>1, <2>2 DEF RunsAreCurrent
<1>6. OwnerIsConsistent' /\ ProfileIsAhead'
      BY <1>1, <1>2, <1>3 DEF RefreshInv, OwnerIsConsistent, ProfileIsAhead
<1>7. Reconnect!RefreshIsNotForgotten'
      BY <1>2, <1>3 DEF RefreshInv, RefreshTypes, OwnerIsConsistent,
         Reconnect!RefreshIsNotForgotten
<1>8. Reconnect!RetryIsComing' /\ Reconnect!ConfirmedSinceThePurge'
      BY <1>2, <1>3 DEF RefreshInv, RefreshTypes, OwnerIsConsistent,
         Reconnect!RetryIsComing, Reconnect!ConfirmedSinceThePurge
<1> QED
    BY <1>4, <1>5, <1>6, <1>7, <1>8 DEF RefreshInv

\* The end of a run leaves what it found, and a pending reason its timer.
LEMMA RunEndShape ==
    ASSUME RefreshInv, NEW r \in runs, Reconnect!End(r)
    PROVE  /\ runs' = runs \ {r} /\ pending' \in BOOLEAN /\ debounce' \in BOOLEAN
           /\ (debounce => debounce') /\ (pending => pending' \/ debounce')
           /\ (pending' => pending) /\ (debounce' => debounce \/ pending)
           /\ pending' => Reconnect!InFlight'
           /\ Reconnect!InFlight /\ ~r.current => Reconnect!InFlight'
  BY DEF Reconnect!End, RefreshInv, RefreshTypes, Reconnect!InFlight

LEMMA ReturnKeeps == ASSUME RefreshInv, Reconnect!Returns PROVE RefreshInv'
<1>1. PICK r \in runs :
        /\ IF Reconnect!Current(r) /\ r.stage # "refetch"
           THEN /\ runs' = (runs \ {r}) \cup
                      {[r EXCEPT !.stage = IF r.stage = "fetch" THEN "reconcile" ELSE "refetch"]}
                /\ UNCHANGED <<pending, debounce>>
           ELSE Reconnect!End(r)
        /\ IF Reconnect!Current(r) /\ r.stage = "refetch"
           THEN /\ confirmed' = [confirmed EXCEPT ![r.scope] = r.born]
                /\ warned' = [warned EXCEPT ![r.scope] = "none"]
                /\ backoff' = "none"
           ELSE UNCHANGED <<confirmed, warned, backoff>>
        /\ UNCHANGED <<phase, scope, gen, active, settle, retry, profile, switching, purgedAt, owed>>
      BY DEF Reconnect!Returns, Reconnect!ofOwner, Reconnect!ofApp
<1>2. r \in RefreshRun /\ (r.current => Reconnect!Current(r))
      BY DEF RefreshInv, RefreshTypes, RunsAreCurrent, Reconnect!Current
<1>3. CASE Reconnect!Current(r) /\ r.stage # "refetch"
  <2> DEFINE next == [r EXCEPT !.stage = IF r.stage = "fetch" THEN "reconcile" ELSE "refetch"]
  <2>1. /\ next \in RefreshRun /\ next.current /\ next.scope = r.scope
        /\ next.gen = r.gen /\ next.born = r.born
        BY <1>2, <1>3 DEF RefreshRun, Reconnect!Current
  <2>2. /\ runs' = (runs \ {r}) \cup {next}
        /\ UNCHANGED <<pending, debounce, confirmed, warned, backoff, phase, scope, gen, active,
                       settle, retry, profile, switching, purgedAt, owed>>
        BY <1>1, <1>3
  <2>3. r.current /\ Reconnect!InFlight'
        BY <1>3, <2>1, <2>2 DEF Reconnect!Current, Reconnect!InFlight
  <2> HIDE DEF next
  <2>4. RefreshTypes'
        BY <2>1, <2>2 DEF RefreshInv, RefreshTypes
  <2>5. RunsAreCurrent'
        BY <2>1, <2>2, <2>3 DEF RefreshInv, RunsAreCurrent
  <2>6. OwnerIsConsistent' /\ ProfileIsAhead'
        BY <2>2 DEF RefreshInv, OwnerIsConsistent, ProfileIsAhead
  <2>7. /\ Reconnect!RefreshIsNotForgotten' /\ Reconnect!RetryIsComing'
        /\ Reconnect!ConfirmedSinceThePurge'
        BY <2>2, <2>3 DEF RefreshInv, Reconnect!RefreshIsNotForgotten, Reconnect!RetryIsComing,
           Reconnect!ConfirmedSinceThePurge
  <2> QED
      BY <2>4, <2>5, <2>6, <2>7 DEF RefreshInv
<1>4. CASE ~(Reconnect!Current(r) /\ r.stage # "refetch")
  <2>1. Reconnect!End(r)
        BY <1>1, <1>4
  <2>2. /\ runs' = runs \ {r} /\ pending' \in BOOLEAN /\ debounce' \in BOOLEAN
        /\ (debounce => debounce') /\ (pending => pending' \/ debounce')
        /\ (pending' => pending) /\ (debounce' => debounce \/ pending)
        /\ pending' => Reconnect!InFlight'
        /\ Reconnect!InFlight /\ ~r.current => Reconnect!InFlight'
        BY <2>1, RunEndShape
  <2>3. /\ backoff' \in {"none", backoff}
        /\ UNCHANGED <<phase, scope, gen, active, settle, retry, profile, switching, purgedAt, owed>>
        BY <1>1
  <2>4. \/ UNCHANGED <<confirmed, warned>> /\ ~r.current
        \/ /\ Reconnect!Current(r)
           /\ confirmed' = [confirmed EXCEPT ![r.scope] = r.born]
           /\ warned' = [warned EXCEPT ![r.scope] = "none"]
        BY <1>1, <1>2, <1>4
  <2>5. RefreshTypes'
        BY <1>2, <2>2, <2>3, <2>4 DEF RefreshInv, RefreshTypes, RefreshRun
  <2>6. RunsAreCurrent' /\ OwnerIsConsistent' /\ ProfileIsAhead'
        BY <2>2, <2>3 DEF RefreshInv, RefreshTypes, RunsAreCurrent, OwnerIsConsistent,
           ProfileIsAhead
  <2>7. Reconnect!RefreshIsNotForgotten'
        BY <2>2, <2>3 DEF RefreshInv, Reconnect!RefreshIsNotForgotten
  <2>8. Reconnect!RetryIsComing'
        BY <1>2, <2>2, <2>3, <2>4 DEF RefreshInv, RefreshTypes, Reconnect!RetryIsComing,
           Reconnect!Current
  <2>9. Reconnect!ConfirmedSinceThePurge'
        BY <1>2, <2>3, <2>4 DEF RefreshInv, RefreshTypes, RunsAreCurrent,
           Reconnect!ConfirmedSinceThePurge, Reconnect!Current
  <2> QED
      BY <2>5, <2>6, <2>7, <2>8, <2>9 DEF RefreshInv
<1> QED
    BY <1>3, <1>4

LEMMA FailKeeps == ASSUME RefreshInv, Reconnect!Fails PROVE RefreshInv'
<1>1. PICK r \in runs :
        /\ Reconnect!End(r)
        /\ warned' = [warned EXCEPT ![r.scope] = IF r.scope = scope THEN "here" ELSE "old"]
        /\ backoff' = "cooling" /\ retry' = active
        /\ UNCHANGED <<phase, scope, gen, active, settle, confirmed, profile, switching, purgedAt,
                       owed>>
      BY DEF Reconnect!Fails, Reconnect!ofOwner, Reconnect!ofApp
<1>2. /\ runs' = runs \ {r} /\ pending' \in BOOLEAN /\ debounce' \in BOOLEAN
      /\ (debounce => debounce') /\ (pending => pending' \/ debounce')
      /\ (pending' => pending) /\ (debounce' => debounce \/ pending)
      /\ pending' => Reconnect!InFlight'
      BY <1>1, RunEndShape
<1>3. RefreshTypes'
      BY <1>1, <1>2 DEF RefreshInv, RefreshTypes
<1>4. RunsAreCurrent' /\ OwnerIsConsistent' /\ ProfileIsAhead'
      BY <1>1, <1>2 DEF RefreshInv, RefreshTypes, RunsAreCurrent, OwnerIsConsistent, ProfileIsAhead
<1>5. /\ Reconnect!RefreshIsNotForgotten' /\ Reconnect!RetryIsComing'
      /\ Reconnect!ConfirmedSinceThePurge'
      BY <1>1, <1>2 DEF RefreshInv, Reconnect!RefreshIsNotForgotten, Reconnect!RetryIsComing,
         Reconnect!ConfirmedSinceThePurge
<1> QED
    BY <1>3, <1>4, <1>5 DEF RefreshInv

\* After the owner's state is cleared nothing is in flight.
LEMMA ClearedShape ==
    ASSUME RefreshInv, Reconnect!Cleared
    PROVE  /\ ~debounce' /\ ~settle' /\ ~retry' /\ ~pending' /\ ~owed'
           /\ debounce' \in BOOLEAN /\ settle' \in BOOLEAN /\ retry' \in BOOLEAN
           /\ pending' \in BOOLEAN /\ owed' \in BOOLEAN
           /\ runs' \subseteq RefreshRun /\ \A r \in runs' : ~r.current
<1>1. \A r \in RefreshRun : Reconnect!Aborted(r) \in RefreshRun /\ ~Reconnect!Aborted(r).current
  <2> TAKE r \in RefreshRun
  <2>1. Reconnect!Never \in Int
        BY DEF Reconnect!Never
  <2> QED
      BY <2>1 DEF Reconnect!Aborted, RefreshRun
<1>2. runs' = {Reconnect!Aborted(r) : r \in runs} /\ runs \subseteq RefreshRun
      BY DEF Reconnect!Cleared, RefreshInv, RefreshTypes
<1>3. runs' \subseteq RefreshRun /\ \A r \in runs' : ~r.current
      BY <1>1, <1>2
<1> QED
    BY <1>3 DEF Reconnect!Cleared

LEMMA PurgeKeeps == ASSUME RefreshInv, Reconnect!Purge PROVE RefreshInv'
<1>1. /\ ~debounce' /\ ~settle' /\ ~retry' /\ ~pending' /\ ~owed'
      /\ debounce' \in BOOLEAN /\ settle' \in BOOLEAN /\ retry' \in BOOLEAN
      /\ pending' \in BOOLEAN /\ owed' \in BOOLEAN
      /\ runs' \subseteq RefreshRun /\ \A r \in runs' : ~r.current
      BY ClearedShape DEF Reconnect!Purge
<1>2. /\ switching' = TRUE /\ backoff' = "none" /\ UNCHANGED <<phase, scope, gen, active>>
      /\ profile' \in [scope : Scopes \cup {Demo, Nobody}, gen : Int]
      /\ profile'.scope = profile.scope /\ profile'.gen = profile.gen + 1
      BY DEF Reconnect!Purge, Reconnect!ofOwner, RefreshInv, RefreshTypes
<1>3. \/ UNCHANGED <<confirmed, warned, purgedAt>>
      \/ /\ confirmed' = [confirmed EXCEPT ![profile.scope] = Reconnect!Never]
         /\ warned' = [warned EXCEPT ![profile.scope] = "none"]
         /\ purgedAt' = [purgedAt EXCEPT ![profile.scope] = profile'.gen]
      BY DEF Reconnect!Purge
<1>4. RefreshTypes'
      BY <1>1, <1>2, <1>3 DEF RefreshInv, RefreshTypes, Reconnect!Never
<1>5. RunsAreCurrent' /\ OwnerIsConsistent'
      BY <1>1, <1>2 DEF RefreshInv, RunsAreCurrent, OwnerIsConsistent
<1>6. ProfileIsAhead'
      BY <1>2, <1>3 DEF RefreshInv, RefreshTypes, ProfileIsAhead
<1>7. Reconnect!RefreshIsNotForgotten' /\ Reconnect!RetryIsComing'
      BY <1>1, <1>2 DEF RefreshInv, RefreshTypes, ProfileIsAhead,
         Reconnect!RefreshIsNotForgotten, Reconnect!RetryIsComing
<1>8. Reconnect!ConfirmedSinceThePurge'
      BY <1>3 DEF RefreshInv, RefreshTypes, Reconnect!ConfirmedSinceThePurge, Reconnect!Never
<1> QED
    BY <1>4, <1>5, <1>6, <1>7, <1>8 DEF RefreshInv

LEMMA CommitKeeps == ASSUME RefreshInv, Reconnect!Commit PROVE RefreshInv'
<1>1. /\ switching /\ switching' = FALSE
      /\ profile' \in [scope : Scopes \cup {Demo, Nobody}, gen : Int]
      /\ profile'.gen = profile.gen
      /\ UNCHANGED <<phase, scope, gen, active, runs, pending, debounce, settle, retry, backoff,
                     confirmed, warned, purgedAt, owed>>
      BY DEF Reconnect!Commit, Reconnect!ofOwner, Reconnect!ofTimers, RefreshInv, RefreshTypes
<1>2. RefreshTypes' /\ RunsAreCurrent' /\ OwnerIsConsistent' /\ ProfileIsAhead'
      BY <1>1 DEF RefreshInv, RefreshTypes, RunsAreCurrent, OwnerIsConsistent, ProfileIsAhead
<1>3. /\ Reconnect!RefreshIsNotForgotten' /\ Reconnect!RetryIsComing'
      /\ Reconnect!ConfirmedSinceThePurge'
      BY <1>1 DEF RefreshInv, ProfileIsAhead, Reconnect!RefreshIsNotForgotten,
         Reconnect!RetryIsComing, Reconnect!ConfirmedSinceThePurge, Reconnect!InFlight
<1> QED
    BY <1>2, <1>3 DEF RefreshInv

LEMMA ConfigureKeeps == ASSUME RefreshInv, Reconnect!Configure PROVE RefreshInv'
<1>1. /\ ~debounce' /\ ~settle' /\ ~retry' /\ ~pending' /\ ~owed'
      /\ debounce' \in BOOLEAN /\ settle' \in BOOLEAN /\ retry' \in BOOLEAN
      /\ pending' \in BOOLEAN /\ owed' \in BOOLEAN
      /\ runs' \subseteq RefreshRun /\ \A r \in runs' : ~r.current
      BY ClearedShape DEF Reconnect!Configure
<1>2. /\ profile.scope # Nobody /\ scope' = profile.scope /\ gen' = profile.gen
      /\ active' = (profile.scope # Demo) /\ backoff' = "none"
      /\ warned' = [s \in Scopes |-> IF warned[s] = "none" THEN "none" ELSE "old"]
      /\ UNCHANGED <<phase, confirmed, profile, switching, purgedAt>>
      BY DEF Reconnect!Configure, Reconnect!Mounted, Reconnect!ofApp
<1>3. RefreshTypes'
      BY <1>1, <1>2 DEF RefreshInv, RefreshTypes
<1>4. RunsAreCurrent' /\ OwnerIsConsistent' /\ ProfileIsAhead'
      BY <1>1, <1>2 DEF RefreshInv, RefreshTypes, RunsAreCurrent, OwnerIsConsistent, ProfileIsAhead
<1>5. /\ Reconnect!RefreshIsNotForgotten' /\ Reconnect!RetryIsComing'
      /\ Reconnect!ConfirmedSinceThePurge'
      BY <1>1, <1>2 DEF RefreshInv, RefreshTypes, Reconnect!RefreshIsNotForgotten,
         Reconnect!RetryIsComing, Reconnect!ConfirmedSinceThePurge
<1> QED
    BY <1>3, <1>4, <1>5 DEF RefreshInv

LEMMA RefreshStep == RefreshInv /\ [Reconnect!Next]_Reconnect!vars => RefreshInv'
<1> SUFFICES ASSUME RefreshInv, [Reconnect!Next]_Reconnect!vars PROVE RefreshInv'
    OBVIOUS
<1>1. CASE UNCHANGED Reconnect!vars
      BY <1>1 DEF RefreshInv, RefreshTypes, RunsAreCurrent, OwnerIsConsistent, ProfileIsAhead,
         Reconnect!RefreshIsNotForgotten, Reconnect!RetryIsComing,
         Reconnect!ConfirmedSinceThePurge, Reconnect!InFlight, Reconnect!vars,
         Reconnect!ofOwner, Reconnect!ofApp, Reconnect!ofTimers
<1> QED
    BY <1>1, SnapshotKeeps, TimerKeeps, StartKeeps, ReturnKeeps, FailKeeps, PurgeKeeps,
       CommitKeeps, ConfigureKeeps DEF Reconnect!Next

\* A connection that came back and a refresh that was asked for are not forgotten,
\* a standing warning has its retry, and what is confirmed of a profile was found
\* after its last purge, for any profiles and any number of purges, runs and
\* failures.
THEOREM RefreshesAccountedFor ==
    Reconnect!Spec => [](/\ Reconnect!RefreshIsNotForgotten /\ Reconnect!RetryIsComing
                         /\ Reconnect!ConfirmedSinceThePurge)
<1>1. RefreshInv => /\ Reconnect!RefreshIsNotForgotten /\ Reconnect!RetryIsComing
                    /\ Reconnect!ConfirmedSinceThePurge
      BY DEF RefreshInv
<1> QED
    BY <1>1, RefreshInit, RefreshStep, PTL DEF Reconnect!Spec

-----------------------------------------------------------------------------
(***************************************************************************)
(* NotificationSchedules, until a session is overtaken or a second thing   *)
(* goes wrong.                                                             *)
(***************************************************************************)
ScheduleId == Schedules!Items \X Nat
ScheduleLane == [gen : Nat, sid : Nat]
ScheduleRecord ==
    [canonical : SUBSET ScheduleId, pending : SUBSET ScheduleId, retiring : SUBSET ScheduleId,
     cleanup : SUBSET ScheduleId, lane : ScheduleLane, tomb : BOOLEAN]
ScheduleSession ==
    [pc : {"idle", "migrate", "permission", "category", "converge", "open", "build", "call",
           "retire", "retiring", "abort", "disable"},
     tok : ScheduleLane, cat : 1 .. 3, may : BOOLEAN, snap : [Schedules!Cat -> ScheduleRecord],
     todo : SUBSET ScheduleId, kept : SUBSET ScheduleId, new : SUBSET ScheduleId,
     prev : SUBSET ScheduleId, left : SUBSET Schedules!Items]
SchedulePurge ==
    [pc : {"idle", "read", "cancel"}, cat : {1}, snap : [Schedules!Cat -> ScheduleRecord],
     todo : SUBSET ScheduleId, kept : SUBSET ScheduleId]

ScheduleTypes ==
    /\ tracked \in [Schedules!Cat -> ScheduleRecord]
    /\ ses \in [Slots -> ScheduleSession] /\ purge \in SchedulePurge
    /\ made \in [Schedules!Items -> Nat] /\ due \subseteq Bills
    /\ gen \in Nat /\ sid \in Nat /\ active \in ScheduleLane
    /\ suspended \in BOOLEAN

\* A session runs alone, is current, and while it works on a category has one.
RunsAlone(s) ==
    ses[s].pc # "idle" =>
        /\ Schedules!Current(s)
        /\ \A t \in Slots : t # s => ses[t].pc = "idle"
        /\ ses[s].pc \notin {"migrate", "permission", "category"} => ses[s].cat \in 1 .. 2

\* What could not be cancelled is of the step that cancels, what is scheduled of
\* the stage.
KeepsNothing(s) ==
    /\ ses[s].pc \in {"migrate", "permission", "category", "open", "build", "call"} =>
           ses[s].kept = {}
    /\ ses[s].pc \in {"migrate", "permission", "category", "converge", "open"} =>
           ses[s].new = {}

\* Which notifications of the category that s works on the system may still hold.
ConvergeFits(s) ==
    ses[s].pc = "converge" =>
        /\ ses[s].snap = tracked /\ ses[s].kept = {} /\ (trouble = 0 => ses[s].todo = {})
        /\ \A id \in os : id \in Schedules!Evidence(Schedules!State(s)) => id \in ses[s].todo
OpenFits(s) ==
    ses[s].pc = "open" =>
        Schedules!Evidence(Schedules!State(s)) = {} /\ Schedules!State(s).lane = Schedules!NoLane
BuildFits(s) ==
    ses[s].pc \in {"build", "call"} =>
        /\ Schedules!State(s).lane = ses[s].tok
        /\ Schedules!State(s).canonical = ses[s].prev /\ Schedules!State(s).pending = ses[s].new
        /\ Schedules!State(s).retiring = {} /\ Schedules!State(s).cleanup = {}
        /\ ses[s].pc = "call" => ses[s].left # {}
RetireFits(s) ==
    ses[s].pc \in {"retire", "retiring"} =>
        /\ Schedules!State(s).lane = ses[s].tok
        /\ Schedules!State(s).canonical = ses[s].new
        /\ Schedules!State(s).pending = {} /\ Schedules!State(s).cleanup = {}
        /\ trouble = 0 => Schedules!State(s).retiring = ses[s].todo /\ ses[s].kept = {}
        /\ ses[s].pc = "retiring" => ses[s].todo # {}
AbortFits(s) ==
    ses[s].pc = "abort" =>
        /\ trouble = 1 /\ ses[s].kept = {}
        /\ Schedules!State(s).lane = ses[s].tok
        /\ Schedules!State(s).canonical = ses[s].prev
        /\ Schedules!State(s).retiring = {} /\ Schedules!State(s).cleanup = {}
        /\ \A id \in os : id \in Schedules!State(s).pending => id \in ses[s].todo
DisableFits(s) ==
    ses[s].pc = "disable" =>
        /\ ses[s].snap = tracked /\ (trouble = 0 => ses[s].kept = {})
        /\ \A id \in os : id \in Schedules!AllTracked(Schedules!State(s))
                => id \in ses[s].todo \/ id \in ses[s].kept
SessionFits(s) ==
    /\ RunsAlone(s) /\ KeepsNothing(s) /\ ConvergeFits(s) /\ OpenFits(s) /\ BuildFits(s) /\ RetireFits(s)
    /\ AbortFits(s) /\ DisableFits(s)

\* A purge finds everything as it read it.
PurgeFits ==
    /\ purge.pc # "idle" => suspended
    /\ purge.pc = "read" => purge.kept = {}
    /\ purge.pc = "cancel" =>
          /\ purge.snap = tracked /\ (trouble = 0 => purge.kept = {})
          /\ \A c \in Schedules!Cat, id \in os :
                id \in Schedules!AllTracked(tracked[c]) => id \in purge.todo \/ id \in purge.kept

\* Every notification the system holds is on record.
SchedulesCovered ==
    migrated /\ ~lostCall =>
        \A id \in os : \E c \in Schedules!Cat : id \in Schedules!AllTracked(tracked[c])

\* As long as nothing went wrong only a stage that is open leaves evidence.
Staging(s) == ses[s].pc \in {"build", "call", "retire", "retiring"}
StagesAreClean ==
    trouble = 0 =>
        \A c \in Schedules!Cat :
            \/ \E s \in Slots : Staging(s) /\ Schedules!C(s) = c
            \/ Schedules!Evidence(tracked[c]) = {} /\ tracked[c].lane = Schedules!NoLane

\* No session was overtaken and at most one thing went wrong.
Undisturbed == ~overtaken /\ trouble <= 1

ScheduleState ==
    /\ ScheduleTypes /\ (\A s \in Slots : SessionFits(s)) /\ PurgeFits /\ SchedulesCovered
    /\ StagesAreClean
ScheduleInv ==
    /\ trouble \in Nat /\ overtaken \in BOOLEAN
    /\ Undisturbed => ScheduleState

LEMMA SchedulesCardinality == \A S : Schedules!Cardinality(S) = Cardinality(S)
  BY DEF Schedules!Cardinality, Cardinality

LEMMA CatsAreTwo ==
    /\ Schedules!Cat = {Schedules!Cats[1], Schedules!Cats[2]}
    /\ \A n \in 1 .. 2 : Schedules!Cats[n] \in Schedules!Cat
    /\ Schedules!Weekly \in Schedules!Items /\ Bills \subseteq Schedules!Items
  BY DEF Schedules!Cat, Schedules!Items

LEMMA NothingIsTyped ==
    /\ Schedules!NoLane \in ScheduleLane
    /\ Schedules!Empty \in ScheduleRecord /\ Schedules!AllTracked(Schedules!Empty) = {}
    /\ Schedules!Idle \in ScheduleSession /\ Schedules!Idle.pc = "idle"
    /\ Schedules!Idle.kept = {} /\ Schedules!Idle.new = {}
    /\ Schedules!NoPurge \in SchedulePurge /\ Schedules!NoPurge.pc = "idle"
    /\ Schedules!NoPurge.kept = {}
<1>1. Schedules!NoLane \in ScheduleLane
      BY DEF Schedules!NoLane, ScheduleLane
<1>2. Schedules!Empty \in ScheduleRecord
      BY <1>1 DEF Schedules!Empty, ScheduleRecord
<1>3. [c \in Schedules!Cat |-> Schedules!Empty] \in [Schedules!Cat -> ScheduleRecord]
      BY <1>2
<1>4. Schedules!Idle \in ScheduleSession
      BY <1>1, <1>3 DEF Schedules!Idle, ScheduleSession
<1>5. Schedules!NoPurge \in SchedulePurge
      BY <1>3 DEF Schedules!NoPurge, SchedulePurge
<1> QED
    BY <1>1, <1>2, <1>4, <1>5 DEF Schedules!AllTracked, Schedules!Empty, Schedules!Idle,
       Schedules!NoPurge

\* The evidence is part of what is tracked.
LEMMA TrackedParts ==
    ASSUME NEW st, NEW id
    PROVE  /\ id \in Schedules!AllTracked(st) <=>
                  id \in st.canonical \/ id \in Schedules!Evidence(st)
           /\ id \in Schedules!Evidence(st) <=>
                  id \in st.pending \/ id \in st.retiring \/ id \in st.cleanup
  BY DEF Schedules!AllTracked, Schedules!Evidence

LEMMA ScheduleInit == Schedules!Init => ScheduleInv
<1> SUFFICES ASSUME Schedules!Init PROVE ScheduleInv
    OBVIOUS
<1>1. ScheduleTypes
  <2>1. made \in [Schedules!Items -> Nat]
        BY DEF Schedules!Init
  <2> QED
      BY <2>1, NothingIsTyped DEF Schedules!Init, ScheduleTypes
<1>2. (\A s \in Slots : SessionFits(s)) /\ PurgeFits
      BY NothingIsTyped DEF Schedules!Init, SessionFits, RunsAlone, KeepsNothing, ConvergeFits, OpenFits,
         BuildFits, RetireFits, AbortFits, DisableFits, PurgeFits
<1>3. SchedulesCovered
      BY DEF Schedules!Init, SchedulesCovered
<1>4. StagesAreClean
      BY DEF Schedules!Init, StagesAreClean, Schedules!Evidence, Schedules!Empty
<1> QED
    BY <1>1, <1>2, <1>3, <1>4 DEF ScheduleInv, ScheduleState, Schedules!Init

\* A session that runs is alone and current.
LEMMA RunningAlone ==
    ASSUME ScheduleState, NEW s \in Slots, ses[s].pc # "idle"
    PROVE  /\ Schedules!Current(s) /\ ~suspended /\ purge.pc = "idle"
           /\ \A t \in Slots : t # s => ses[t].pc = "idle"
           /\ ses[s] \in ScheduleSession /\ SessionFits(s)
           /\ ses[s].pc \notin {"migrate", "permission", "category"} =>
                 /\ ses[s].cat \in 1 .. 2 /\ Schedules!C(s) \in Schedules!Cat
                 /\ Schedules!State(s) \in ScheduleRecord
<1>1. /\ Schedules!Current(s) /\ \A t \in Slots : t # s => ses[t].pc = "idle"
      /\ ses[s] \in ScheduleSession /\ SessionFits(s)
      /\ ses[s].pc \notin {"migrate", "permission", "category"} => ses[s].cat \in 1 .. 2
      BY DEF ScheduleState, ScheduleTypes, SessionFits, RunsAlone
<1>2. ~suspended
      BY <1>1 DEF Schedules!Current
<1>3. purge.pc = "idle"
      BY <1>2 DEF ScheduleState, PurgeFits
<1>4. ses[s].cat \in 1 .. 2 => /\ Schedules!C(s) \in Schedules!Cat
                               /\ Schedules!State(s) \in ScheduleRecord
      BY CatsAreTwo DEF Schedules!C, Schedules!State, ScheduleState, ScheduleTypes
<1> QED
    BY <1>1, <1>2, <1>3, <1>4

\* A step of a session concerns that session alone.
LEMMA OneSessionSteps ==
    ASSUME ScheduleState, NEW s \in Slots, ses[s].pc # "idle",
           NEW r \in ScheduleSession, ses' = [ses EXCEPT ![s] = r],
           UNCHANGED <<gen, sid, suspended, purge>>, due' = due,
           active' \in ScheduleLane, made' \in [Schedules!Items -> Nat],
           tracked' \in [Schedules!Cat -> ScheduleRecord],
           SessionFits(s)', SchedulesCovered', StagesAreClean'
    PROVE  ScheduleState'
<1>1. ses' \in [Slots -> ScheduleSession] /\ \A t \in Slots : t # s => ses'[t] = ses[t]
      BY DEF ScheduleState, ScheduleTypes
<1>2. ScheduleTypes'
      BY <1>1 DEF ScheduleState, ScheduleTypes
<1>3. \A t \in Slots : t # s => ses'[t].pc = "idle"
      BY <1>1, RunningAlone
<1>4. \A t \in Slots : SessionFits(t)'
      BY <1>3 DEF SessionFits, RunsAlone, KeepsNothing, ConvergeFits, OpenFits, BuildFits, RetireFits,
         AbortFits, DisableFits
<1>5. PurgeFits'
      BY RunningAlone DEF PurgeFits
<1> QED
    BY <1>2, <1>4, <1>5 DEF ScheduleState

\* What a session becomes, if it goes on: still alone and current.
LEMMA GoesOnAlone ==
    ASSUME ScheduleState, NEW s \in Slots, ses[s].pc # "idle",
           NEW r \in ScheduleSession, ses' = [ses EXCEPT ![s] = r], r.tok = ses[s].tok,
           UNCHANGED <<gen, sid, active, suspended>>,
           r.pc \notin {"migrate", "permission", "category"} => r.cat \in 1 .. 2
    PROVE  RunsAlone(s)' /\ ses'[s] = r
<1>1. ses'[s] = r /\ \A t \in Slots : t # s => ses'[t] = ses[t]
      BY DEF ScheduleState, ScheduleTypes
<1>2. Schedules!Current(s)'
      BY <1>1, RunningAlone DEF Schedules!Current
<1> QED
    BY <1>1, <1>2, RunningAlone DEF RunsAlone

\* A session that works on one category leaves the others clean.
LEMMA OthersStayClean ==
    ASSUME ScheduleState, NEW s \in Slots, ses[s].pc # "idle", trouble' = 0 => trouble = 0,
           \A c \in Schedules!Cat : c # Schedules!C(s) => tracked'[c] = tracked[c],
           trouble' = 0 => \/ Staging(s)' /\ Schedules!C(s)' = Schedules!C(s)
                           \/ /\ Schedules!Evidence(tracked'[Schedules!C(s)]) = {}
                              /\ tracked'[Schedules!C(s)].lane = Schedules!NoLane
    PROVE  StagesAreClean'
  BY RunningAlone DEF ScheduleState, StagesAreClean, Staging

\* The same when the record stays and the session opens or closes no stage.
LEMMA RecordsStayClean ==
    ASSUME ScheduleState, NEW s \in Slots, ses[s].pc # "idle", trouble' = 0 => trouble = 0,
           tracked' = tracked, Staging(s) => Staging(s)' /\ Schedules!C(s)' = Schedules!C(s)
    PROVE  StagesAreClean'
  BY RunningAlone DEF ScheduleState, StagesAreClean, Staging

\* The end of a session.
LEMMA EndsClean ==
    ASSUME ScheduleState, NEW s \in Slots, ses[s].pc # "idle", Schedules!Stale(s),
           UNCHANGED <<suspended, purge, made>>, due' = due,
           tracked' \in [Schedules!Cat -> ScheduleRecord], SchedulesCovered', StagesAreClean'
    PROVE  ScheduleState'
<1>1. /\ ses' = [ses EXCEPT ![s] = Schedules!Idle] /\ UNCHANGED <<gen, sid>>
      /\ active' \in {Schedules!NoLane, active}
      BY DEF Schedules!Stale, Schedules!Become, Schedules!Ended
<1>2. ses'[s] = Schedules!Idle /\ active' \in ScheduleLane /\ made' \in [Schedules!Items -> Nat]
      BY <1>1, NothingIsTyped DEF ScheduleState, ScheduleTypes
<1>3. SessionFits(s)'
      BY <1>2, NothingIsTyped DEF SessionFits, RunsAlone, KeepsNothing, ConvergeFits, OpenFits, BuildFits,
         RetireFits, AbortFits, DisableFits
<1> QED
    BY <1>1, <1>2, <1>3, OneSessionSteps, NothingIsTyped

-----------------------------------------------------------------------------
(* One lemma per action. *)

LEMMA BeginScheduleKeeps ==
    ASSUME ScheduleState, NEW s \in Slots, Schedules!Begin(s), ~overtaken'
    PROVE  ScheduleState'
<1> DEFINE r == [Schedules!Idle EXCEPT !.pc = "migrate", !.tok = active']
<1>1. /\ ~suspended /\ ses[s].pc = "idle" /\ Schedules!Running = {}
      /\ sid' = sid + 1 /\ active' = [gen |-> gen, sid |-> sid + 1]
      /\ ses' = [ses EXCEPT ![s] = r] /\ due' \subseteq Bills
      /\ UNCHANGED <<trouble, tracked, migrated, suspended, os, made, gen, purge, lostCall>>
      BY DEF Schedules!Begin, Schedules!Overtake, Schedules!Become, Schedules!kv
<1>2. active' \in ScheduleLane /\ sid' \in Nat
      BY <1>1 DEF ScheduleState, ScheduleTypes, ScheduleLane
<1>3. r \in ScheduleSession /\ r.pc = "migrate" /\ r.tok = active' /\ r.kept = {} /\ r.new = {}
      BY <1>2, NothingIsTyped DEF ScheduleSession
<1> HIDE DEF r
<1>4. /\ ses' \in [Slots -> ScheduleSession] /\ ses'[s] = r
      /\ \A t \in Slots : ses[t].pc = "idle" /\ (t # s => ses'[t] = ses[t])
      BY <1>1, <1>3 DEF ScheduleState, ScheduleTypes, Schedules!Running
<1>5. ScheduleTypes'
      BY <1>1, <1>2, <1>4 DEF ScheduleState, ScheduleTypes
<1>6. \A t \in Slots : SessionFits(t)'
  <2>1. Schedules!Current(s)'
        BY <1>1, <1>3, <1>4 DEF Schedules!Current
  <2> QED
      BY <1>3, <1>4, <2>1 DEF SessionFits, RunsAlone, KeepsNothing, ConvergeFits, OpenFits, BuildFits, RetireFits,
         AbortFits, DisableFits
<1>7. PurgeFits' /\ SchedulesCovered'
      BY <1>1 DEF ScheduleState, PurgeFits, SchedulesCovered
<1>8. StagesAreClean'
      BY <1>1, <1>4 DEF ScheduleState, StagesAreClean, Staging
<1> QED
    BY <1>5, <1>6, <1>7, <1>8 DEF ScheduleState

LEMMA MigrateKeeps ==
    ASSUME ScheduleState, trouble \in Nat, NEW s \in Slots, Schedules!Migrate(s)
    PROVE  ScheduleState'
<1>1. /\ ses[s].pc = "migrate" /\ UNCHANGED <<tracked, suspended, made, due, purge>>
      /\ lostCall' = lostCall /\ (trouble' = 0 => trouble = 0)
      /\ UNCHANGED <<migrated, os>> \/ os' = {}
      BY DEF Schedules!Migrate, Schedules!world, Schedules!NoFault, Schedules!Fault,
         Schedules!observed
<1>2. SchedulesCovered' /\ tracked' \in [Schedules!Cat -> ScheduleRecord]
      BY <1>1 DEF ScheduleState, ScheduleTypes, SchedulesCovered
<1>3. StagesAreClean'
      BY <1>1, RecordsStayClean DEF Staging
<1>4. CASE Schedules!Stale(s)
      BY <1>1, <1>2, <1>3, <1>4, EndsClean
<1>5. CASE ~Schedules!Stale(s)
  <2>1. PICK r : /\ r \in {[ses[s] EXCEPT !.pc = "permission", !.may = TRUE],
                           [ses[s] EXCEPT !.pc = "permission"]}
                 /\ ses' = [ses EXCEPT ![s] = r] /\ UNCHANGED <<gen, sid, active>>
        BY <1>5 DEF Schedules!Migrate, Schedules!Become, Schedules!Goto, Schedules!memory
  <2>2. r \in ScheduleSession /\ r.pc = "permission" /\ r.tok = ses[s].tok /\ r.kept = {} /\ r.new = {}
        BY <1>1, <2>1, RunningAlone DEF ScheduleSession, SessionFits, KeepsNothing
  <2>3. RunsAlone(s)' /\ ses'[s] = r
        BY <1>1, <2>1, <2>2, GoesOnAlone
  <2>4. SessionFits(s)'
        BY <2>2, <2>3 DEF SessionFits, KeepsNothing, ConvergeFits, OpenFits, BuildFits, RetireFits, AbortFits,
           DisableFits
  <2>5. active' \in ScheduleLane /\ made' \in [Schedules!Items -> Nat]
        BY <1>1, <2>1 DEF ScheduleState, ScheduleTypes
  <2> QED
      BY <1>1, <1>2, <1>3, <2>1, <2>2, <2>4, <2>5, OneSessionSteps
<1> QED
    BY <1>4, <1>5

LEMMA SchedulePermissionKeeps ==
    ASSUME ScheduleState, NEW s \in Slots, Schedules!ReadPermission(s)
    PROVE  ScheduleState'
<1>1. /\ ses[s].pc = "permission" /\ UNCHANGED <<tracked, suspended, made, due, purge>>
      /\ UNCHANGED <<lostCall, trouble, migrated, os>>
      BY DEF Schedules!ReadPermission, Schedules!world, Schedules!kv, Schedules!observed
<1>2. SchedulesCovered' /\ tracked' \in [Schedules!Cat -> ScheduleRecord]
      BY <1>1 DEF ScheduleState, ScheduleTypes, SchedulesCovered
<1>3. StagesAreClean'
      BY <1>1, RecordsStayClean DEF Staging
<1>4. CASE Schedules!Stale(s)
      BY <1>1, <1>2, <1>3, <1>4, EndsClean
<1>5. CASE ~Schedules!Stale(s)
  <2>1. PICK granted \in BOOLEAN :
            /\ ses' = [ses EXCEPT ![s] = [ses[s] EXCEPT !.pc = "category", !.may = @ /\ granted]]
            /\ UNCHANGED <<gen, sid, active>>
        BY <1>5 DEF Schedules!ReadPermission, Schedules!Become, Schedules!memory
  <2> DEFINE r == [ses[s] EXCEPT !.pc = "category", !.may = @ /\ granted]
  <2>2. ses[s].may \in BOOLEAN /\ (ses[s].may /\ granted) \in BOOLEAN
        BY <1>1, RunningAlone DEF ScheduleSession
  <2>3. r \in ScheduleSession /\ r.pc = "category" /\ r.tok = ses[s].tok /\ r.kept = {} /\ r.new = {}
        BY <1>1, <2>2, RunningAlone DEF ScheduleSession, SessionFits, KeepsNothing
  <2> HIDE DEF r
  <2>4. RunsAlone(s)' /\ ses'[s] = r
        BY <1>1, <2>1, <2>3, GoesOnAlone DEF r
  <2>5. SessionFits(s)'
        BY <2>3, <2>4 DEF SessionFits, KeepsNothing, ConvergeFits, OpenFits, BuildFits, RetireFits, AbortFits,
           DisableFits
  <2>6. active' \in ScheduleLane /\ made' \in [Schedules!Items -> Nat]
        BY <1>1, <2>1 DEF ScheduleState, ScheduleTypes
  <2> QED
      BY <1>1, <1>2, <1>3, <2>1, <2>3, <2>5, <2>6, OneSessionSteps DEF r
<1> QED
    BY <1>4, <1>5

\* A session that is done with a category.
LEMMA NextCategoryShape ==
    ASSUME NEW x \in ScheduleSession, x.cat \in 1 .. 2
    PROVE  /\ Schedules!NextCategory(x) \in ScheduleSession
           /\ Schedules!NextCategory(x).pc = "category" /\ Schedules!NextCategory(x).tok = x.tok
           /\ Schedules!NextCategory(x).kept = {} /\ Schedules!NextCategory(x).new = {}
<1>1. x.cat + 1 \in 1 .. 3
      OBVIOUS
<1> QED
    BY <1>1 DEF Schedules!NextCategory, ScheduleSession

LEMMA CategoryKeeps ==
    ASSUME ScheduleState, NEW s \in Slots, Schedules!Category(s)
    PROVE  ScheduleState'
<1>1. /\ ses[s].pc = "category" /\ UNCHANGED <<tracked, suspended, made, due, purge>>
      /\ UNCHANGED <<lostCall, trouble, migrated, os>>
      BY DEF Schedules!Category, Schedules!world, Schedules!kv, Schedules!observed
<1>2. SchedulesCovered' /\ tracked' \in [Schedules!Cat -> ScheduleRecord]
      BY <1>1 DEF ScheduleState, ScheduleTypes, SchedulesCovered
<1>3. StagesAreClean'
      BY <1>1, RecordsStayClean DEF Staging
<1>4. CASE Schedules!Stale(s)
      BY <1>1, <1>2, <1>3, <1>4, EndsClean
<1>5. CASE ~Schedules!Stale(s)
  <2>1. /\ ses[s].cat \in 1 .. 2 /\ UNCHANGED <<gen, sid, active>>
        /\ ses[s] \in ScheduleSession
        BY <1>1, <1>5, RunningAlone DEF Schedules!Category, Schedules!memory, ScheduleSession
  <2> DEFINE off == Schedules!C(s) \notin wanted
             ids == IF off THEN Schedules!AllTracked(Schedules!State(s))
                    ELSE Schedules!Evidence(Schedules!State(s))
             on == [ses[s] EXCEPT !.pc = IF off THEN "disable" ELSE "converge",
                                  !.snap = tracked, !.todo = ids]
  <2>2. \/ ses' = [ses EXCEPT ![s] = Schedules!NextCategory(ses[s])]
        \/ ses' = [ses EXCEPT ![s] = on]
        BY <1>5 DEF Schedules!Category, Schedules!Become
  <2>3. Schedules!C(s) \in Schedules!Cat /\ Schedules!State(s) \in ScheduleRecord
        BY <2>1, CatsAreTwo DEF Schedules!C, Schedules!State, ScheduleState, ScheduleTypes
  <2>4. active' \in ScheduleLane /\ made' \in [Schedules!Items -> Nat]
        BY <1>1, <2>1 DEF ScheduleState, ScheduleTypes
  <2>5. CASE ses' = [ses EXCEPT ![s] = Schedules!NextCategory(ses[s])]
    <3>1. RunsAlone(s)' /\ ses'[s] = Schedules!NextCategory(ses[s])
          BY <1>1, <2>1, <2>5, NextCategoryShape, GoesOnAlone
    <3>2. SessionFits(s)'
          BY <2>1, <3>1, NextCategoryShape DEF SessionFits, KeepsNothing, ConvergeFits, OpenFits, BuildFits,
             RetireFits, AbortFits, DisableFits
    <3> QED
        BY <1>1, <1>2, <1>3, <2>1, <2>4, <2>5, <3>2, NextCategoryShape, OneSessionSteps
  <2>6. CASE ses' = [ses EXCEPT ![s] = on]
    <3>1. ids \subseteq ScheduleId /\ tracked \in [Schedules!Cat -> ScheduleRecord]
          BY <2>3 DEF Schedules!AllTracked, Schedules!Evidence, ScheduleRecord, ScheduleState,
             ScheduleTypes
    <3> HIDE DEF ids, off
    <3>2. /\ on \in ScheduleSession /\ on.tok = ses[s].tok /\ on.cat = ses[s].cat
          /\ on.pc \in {"converge", "disable"} /\ (on.pc = "converge" <=> ~off)
          /\ on.snap = tracked /\ on.todo = ids /\ on.kept = {} /\ on.new = {}
          BY <1>1, <2>1, <3>1, RunningAlone DEF ScheduleSession, SessionFits, KeepsNothing
    <3> HIDE DEF on
    <3>3. RunsAlone(s)' /\ ses'[s] = on
          BY <1>1, <2>1, <2>6, <3>2, GoesOnAlone
    <3>4. Schedules!State(s)' = Schedules!State(s)
          BY <1>1, <3>2, <3>3 DEF Schedules!State, Schedules!C
    <3>5. on.pc = "converge" => ids = Schedules!Evidence(Schedules!State(s))
          BY <3>2 DEF ids, off
    <3>6. on.pc = "disable" => ids = Schedules!AllTracked(Schedules!State(s))
          BY <3>2 DEF ids, off
    <3>7. trouble = 0 => Schedules!Evidence(Schedules!State(s)) = {}
          BY <1>1, <2>3, RunningAlone DEF ScheduleState, StagesAreClean, Staging, Schedules!State
    <3>8. SessionFits(s)'
          BY <1>1, <3>2, <3>3, <3>4, <3>5, <3>6, <3>7 DEF SessionFits, KeepsNothing, ConvergeFits, OpenFits,
             BuildFits, RetireFits, AbortFits, DisableFits
    <3> QED
        BY <1>1, <1>2, <1>3, <2>1, <2>4, <2>6, <3>2, <3>8, OneSessionSteps
  <2> QED
      BY <2>2, <2>5, <2>6
<1> QED
    BY <1>4, <1>5

\* One call to cancel a notification: it is gone for certain, or kept as evidence.
LEMMA CancelShape ==
    ASSUME NEW x, x.todo # {}, NEW c \in Schedules!CancelOne(x), Schedules!Cancelled(c)
    PROVE  \E id \in x.todo :
              /\ os' \subseteq os /\ UNCHANGED <<overtaken, lostCall>>
              /\ \/ /\ c.run = [x EXCEPT !.todo = @ \ {id}] /\ os' = os \ {id}
                    /\ trouble' = trouble
                 \/ /\ c.run = [x EXCEPT !.todo = @ \ {id}, !.kept = @ \cup {id}]
                    /\ os' \in {os, os \ {id}} /\ trouble' = trouble + 1
<1> DEFINE id == CHOOSE i \in x.todo : TRUE
           kept == [x EXCEPT !.todo = @ \ {id}, !.kept = @ \cup {id}]
<1>1. id \in x.todo
      OBVIOUS
<1>2. \/ c = [os |-> os \ {id}, run |-> [x EXCEPT !.todo = @ \ {id}], sure |-> TRUE]
      \/ c = [os |-> os \ {id}, run |-> kept, sure |-> FALSE]
      \/ c = [os |-> os, run |-> kept, sure |-> FALSE]
      BY DEF Schedules!CancelOne
<1>3. /\ os' = c.os /\ UNCHANGED <<overtaken, lostCall>>
      /\ c.sure => trouble' = trouble
      /\ ~c.sure => trouble' = trouble + 1
      BY DEF Schedules!Cancelled, Schedules!NoFault, Schedules!Fault, Schedules!observed
<1> HIDE DEF id
<1>4. CASE c = [os |-> os \ {id}, run |-> [x EXCEPT !.todo = @ \ {id}], sure |-> TRUE]
  <2>1. c.run = [x EXCEPT !.todo = @ \ {id}] /\ os' = os \ {id} /\ trouble' = trouble
        BY <1>3, <1>4
  <2> QED
      BY <1>1, <1>3, <2>1
<1>5. CASE ~(c = [os |-> os \ {id}, run |-> [x EXCEPT !.todo = @ \ {id}], sure |-> TRUE])
  <2>1. c.run = kept /\ os' \in {os, os \ {id}} /\ trouble' = trouble + 1
        BY <1>2, <1>3, <1>5
  <2>2. os' \subseteq os
        BY <2>1
  <2> QED
      BY <1>1, <1>3, <2>1, <2>2
<1> QED
    BY <1>4, <1>5

\* The session that cancels has its next id off its list.
LEMMA CancelTyped ==
    ASSUME NEW x \in ScheduleSession, NEW id
    PROVE  /\ [x EXCEPT !.todo = @ \ {id}] \in ScheduleSession
           /\ id \in ScheduleId =>
                 [x EXCEPT !.todo = @ \ {id}, !.kept = @ \cup {id}] \in ScheduleSession
  BY DEF ScheduleSession

\* A session that cancels one notification and leaves the record alone.
LEMMA CancelKeeps ==
    ASSUME ScheduleState, trouble \in Nat, Undisturbed', NEW s \in Slots,
           ses[s].pc \in {"converge", "abort", "disable"}, ses[s].todo # {},
           \E c \in Schedules!CancelOne(ses[s]) :
              Schedules!Cancelled(c) /\ ses' = [ses EXCEPT ![s] = c.run],
           UNCHANGED <<tracked, gen, sid, active, migrated, suspended, made, due, purge>>
    PROVE  ScheduleState'
<1>1. /\ ses[s] \in ScheduleSession /\ SessionFits(s) /\ ses[s].cat \in 1 .. 2
      /\ Schedules!State(s) \in ScheduleRecord
      BY RunningAlone
<1>2. PICK c \in Schedules!CancelOne(ses[s]) :
          Schedules!Cancelled(c) /\ ses' = [ses EXCEPT ![s] = c.run]
      OBVIOUS
<1>3. PICK id \in ses[s].todo :
        /\ os' \subseteq os /\ UNCHANGED <<overtaken, lostCall>>
        /\ \/ /\ c.run = [ses[s] EXCEPT !.todo = @ \ {id}] /\ os' = os \ {id}
              /\ trouble' = trouble
           \/ /\ c.run = [ses[s] EXCEPT !.todo = @ \ {id}, !.kept = @ \cup {id}]
              /\ os' \in {os, os \ {id}} /\ trouble' = trouble + 1
      BY <1>2, CancelShape
<1> DEFINE r == c.run
<1>a. trouble' = trouble + 1 => trouble = 0 /\ trouble' = 1
      BY DEF Undisturbed
<1>b. /\ id \in ScheduleId /\ [ses[s] EXCEPT !.todo = @ \ {id}] \in ScheduleSession
      /\ [ses[s] EXCEPT !.todo = @ \ {id}, !.kept = @ \cup {id}] \in ScheduleSession
      BY <1>1, CancelTyped DEF ScheduleSession
<1>4. /\ r \in ScheduleSession /\ r.pc = ses[s].pc /\ r.tok = ses[s].tok /\ r.cat = ses[s].cat
      /\ r.snap = ses[s].snap /\ r.prev = ses[s].prev /\ r.new = ses[s].new /\ r.todo = ses[s].todo \ {id}
      /\ \/ r.kept = ses[s].kept /\ os' = os \ {id} /\ trouble' = trouble
         \/ /\ r.kept = ses[s].kept \cup {id} /\ trouble' = trouble + 1
            /\ trouble = 0 /\ trouble' = 1
      BY <1>1, <1>3, <1>a, <1>b DEF ScheduleSession
<1>5. os' \subseteq os /\ lostCall' = lostCall /\ ses' = [ses EXCEPT ![s] = r]
      BY <1>2, <1>3
<1> HIDE DEF r
<1>6. RunsAlone(s)' /\ ses'[s] = r
      BY <1>1, <1>4, <1>5, GoesOnAlone
<1>7. Schedules!State(s)' = Schedules!State(s) /\ Schedules!C(s)' = Schedules!C(s)
      BY <1>4, <1>6 DEF Schedules!State, Schedules!C
<1>8. SchedulesCovered' /\ tracked' \in [Schedules!Cat -> ScheduleRecord]
      BY <1>5 DEF ScheduleState, ScheduleTypes, SchedulesCovered
<1>9. StagesAreClean'
      BY <1>4, RecordsStayClean DEF Staging
<1>10. active' \in ScheduleLane /\ made' \in [Schedules!Items -> Nat]
      BY DEF ScheduleState, ScheduleTypes
<1>11. ConvergeFits(s)'
  <2>1. CASE ses[s].pc = "converge"
        BY <1>1, <1>4, <1>5, <1>6, <1>7, <2>1 DEF SessionFits, ConvergeFits
  <2>2. CASE ses[s].pc # "converge"
        BY <1>4, <1>6, <2>2 DEF ConvergeFits
  <2> QED
      BY <2>1, <2>2
<1>12. AbortFits(s)' /\ DisableFits(s)'
      BY <1>1, <1>4, <1>5, <1>6, <1>7 DEF SessionFits, AbortFits, DisableFits
<1>13. SessionFits(s)'
      BY <1>1, <1>4, <1>6, <1>11, <1>12 DEF SessionFits, KeepsNothing, OpenFits, BuildFits, RetireFits
<1> QED
    BY <1>4, <1>5, <1>8, <1>9, <1>10, <1>13, OneSessionSteps

\* One category gets another record, which holds what the system still has.
LEMMA CoveredAfter ==
    ASSUME ScheduleState, NEW c0 \in Schedules!Cat, NEW rec \in ScheduleRecord,
           tracked' = [tracked EXCEPT ![c0] = rec], UNCHANGED <<migrated, lostCall>>,
           \A id \in os' :
              \/ id \in Schedules!AllTracked(rec)
              \/ id \in os /\ id \notin Schedules!AllTracked(tracked[c0])
    PROVE  /\ SchedulesCovered' /\ tracked' \in [Schedules!Cat -> ScheduleRecord]
           /\ tracked'[c0] = rec /\ \A c \in Schedules!Cat : c # c0 => tracked'[c] = tracked[c]
  BY DEF ScheduleState, ScheduleTypes, SchedulesCovered

\* What is converged without a failure has no evidence left.
LEMMA ConvergedShape ==
    ASSUME NEW st \in ScheduleRecord
    PROVE  LET rec == Schedules!Converged(st, {})
           IN  /\ rec \in ScheduleRecord /\ Schedules!AllTracked(rec) = st.canonical
               /\ Schedules!Evidence(rec) = {} /\ rec.lane = Schedules!NoLane
<1> DEFINE next == [st EXCEPT !.pending = @ \intersect {}, !.retiring = @ \intersect {},
                              !.cleanup = @ \intersect {}]
           rec == [next EXCEPT !.lane = Schedules!NoLane, !.tomb = FALSE]
<1>1. \A X : X \intersect {} = {}
      OBVIOUS
<1>2. next = [st EXCEPT !.pending = {}, !.retiring = {}, !.cleanup = {}]
      BY <1>1
<1> HIDE DEF next
<1>3. /\ next \in ScheduleRecord /\ next.canonical = st.canonical
      /\ next.pending = {} /\ next.retiring = {} /\ next.cleanup = {}
      BY <1>2 DEF ScheduleRecord
<1>4. /\ rec \in ScheduleRecord /\ rec.canonical = st.canonical /\ rec.lane = Schedules!NoLane
      /\ rec.pending = {} /\ rec.retiring = {} /\ rec.cleanup = {}
      BY <1>3, NothingIsTyped DEF ScheduleRecord
<1> HIDE DEF rec
<1>5. Schedules!Converged(st, {}) = rec
      BY <1>3 DEF Schedules!Converged, Schedules!Evidence, next, rec
<1> QED
    BY <1>4, <1>5 DEF Schedules!AllTracked, Schedules!Evidence

LEMMA ConvergeKeeps ==
    ASSUME ScheduleState, trouble \in Nat, Undisturbed', NEW s \in Slots, Schedules!Converge(s)
    PROVE  ScheduleState'
<1>1. /\ ses[s].pc = "converge"
      /\ UNCHANGED <<gen, sid, active, migrated, suspended, made, due, purge>>
      BY DEF Schedules!Converge, Schedules!world, Schedules!memory
<1>2. CASE ses[s].todo # {}
      BY <1>1, <1>2, CancelKeeps DEF Schedules!Converge, Schedules!Become
<1>3. CASE ses[s].todo = {}
  <2>1. /\ ses[s] \in ScheduleSession /\ SessionFits(s) /\ ses[s].cat \in 1 .. 2
        /\ Schedules!State(s) \in ScheduleRecord /\ Schedules!C(s) \in Schedules!Cat
        /\ ses[s].snap = tracked /\ ses[s].kept = {}
        BY <1>1, RunningAlone DEF SessionFits, ConvergeFits
  <2>2. /\ tracked' = IF /\ Schedules!Evidence(Schedules!State(s)) = {}
                         /\ Schedules!State(s).lane = Schedules!NoLane
                      THEN tracked
                      ELSE [tracked EXCEPT ![Schedules!C(s)] = Schedules!Converged(Schedules!State(s), {})]
        /\ ses' = [ses EXCEPT ![s] = [ses[s] EXCEPT !.pc = "open", !.kept = {}]]
        /\ UNCHANGED <<os, trouble, lostCall>>
        BY <1>3, <2>1 DEF Schedules!Converge, Schedules!Become, Schedules!State, Schedules!NoFault,
           Schedules!observed
  <2> DEFINE r == [ses[s] EXCEPT !.pc = "open", !.kept = {}]
  <2>3. /\ r \in ScheduleSession /\ r.pc = "open" /\ r.tok = ses[s].tok /\ r.cat = ses[s].cat
        /\ r.kept = {} /\ r.new = {}
        BY <1>1, <2>1 DEF ScheduleSession, SessionFits, KeepsNothing
  <2> HIDE DEF r
  <2>4. RunsAlone(s)' /\ ses'[s] = r
        BY <1>1, <2>1, <2>2, <2>3, GoesOnAlone DEF r
  <2>5. /\ SchedulesCovered' /\ tracked' \in [Schedules!Cat -> ScheduleRecord]
        /\ \A c \in Schedules!Cat : c # Schedules!C(s) => tracked'[c] = tracked[c]
        /\ Schedules!Evidence(tracked'[Schedules!C(s)]) = {}
        /\ tracked'[Schedules!C(s)].lane = Schedules!NoLane
    <3> DEFINE rec == Schedules!Converged(Schedules!State(s), {})
    <3>a. /\ rec \in ScheduleRecord /\ Schedules!AllTracked(rec) = Schedules!State(s).canonical
          /\ Schedules!Evidence(rec) = {} /\ rec.lane = Schedules!NoLane
          BY <2>1, ConvergedShape
    <3> HIDE DEF rec
    <3>1. CASE tracked' = tracked
      <4>1. /\ Schedules!Evidence(Schedules!State(s)) = {}
            /\ Schedules!State(s).lane = Schedules!NoLane
        <5>1. CASE tracked = [tracked EXCEPT ![Schedules!C(s)] = rec]
              BY <2>1, <3>a, <5>1 DEF Schedules!State, ScheduleState, ScheduleTypes
        <5>2. CASE tracked # [tracked EXCEPT ![Schedules!C(s)] = rec]
              BY <2>2, <3>1, <5>2 DEF rec
        <5> QED
            BY <5>1, <5>2
      <4> QED
          BY <1>1, <2>2, <3>1, <4>1 DEF ScheduleState, ScheduleTypes, SchedulesCovered,
             Schedules!State
    <3>2. CASE tracked' # tracked
      <4>1. tracked' = [tracked EXCEPT ![Schedules!C(s)] = rec]
            BY <2>2, <3>2 DEF rec
      <4>4. \A id \in os' : \/ id \in Schedules!AllTracked(rec)
                            \/ id \in os /\ id \notin Schedules!AllTracked(tracked[Schedules!C(s)])
            BY <1>1, <1>3, <2>1, <2>2, <3>a, TrackedParts DEF SessionFits, ConvergeFits, Schedules!State
      <4> QED
          BY <1>1, <2>1, <2>2, <3>a, <4>1, <4>4, CoveredAfter
    <3> QED
        BY <3>1, <3>2
  <2>6. StagesAreClean'
        BY <1>1, <2>2, <2>5, OthersStayClean
  <2>7. OpenFits(s)'
        BY <2>3, <2>4, <2>5 DEF OpenFits, Schedules!State, Schedules!C
  <2>8. SessionFits(s)'
        BY <2>3, <2>4, <2>7 DEF SessionFits, KeepsNothing, ConvergeFits, BuildFits, RetireFits,
           AbortFits, DisableFits
  <2>9. active' \in ScheduleLane /\ made' \in [Schedules!Items -> Nat]
        BY <1>1 DEF ScheduleState, ScheduleTypes
  <2> QED
      BY <1>1, <2>2, <2>3, <2>5, <2>6, <2>8, <2>9, OneSessionSteps DEF r
<1> QED
    BY <1>2, <1>3

LEMMA OpenKeeps ==
    ASSUME ScheduleState, NEW s \in Slots, Schedules!Open(s)
    PROVE  ScheduleState'
<1>1. /\ ses[s].pc = "open" /\ UNCHANGED <<suspended, made, due, purge>>
      /\ UNCHANGED <<lostCall, trouble, migrated, os>>
      BY DEF Schedules!Open, Schedules!world, Schedules!observed
<1>2. /\ ses[s] \in ScheduleSession /\ SessionFits(s) /\ ses[s].cat \in 1 .. 2
      /\ Schedules!State(s) \in ScheduleRecord /\ Schedules!C(s) \in Schedules!Cat
      /\ Schedules!Evidence(Schedules!State(s)) = {}
      /\ Schedules!State(s).lane = Schedules!NoLane /\ ses[s].kept = {}
      BY <1>1, RunningAlone DEF SessionFits, OpenFits, KeepsNothing
<1> DEFINE rec == Schedules!Staged(Schedules!State(s), ses[s].tok)
           r == [ses[s] EXCEPT !.pc = "build", !.prev = Schedules!State(s).canonical,
                    !.left = IF Schedules!C(s) = Schedules!Weekly THEN {Schedules!Weekly}
                             ELSE due \ sameDay]
           left == IF Schedules!C(s) = Schedules!Weekly THEN {Schedules!Weekly} ELSE due \ sameDay
<1>3. /\ tracked' = [tracked EXCEPT ![Schedules!C(s)] = rec] /\ ses' = [ses EXCEPT ![s] = r]
      /\ UNCHANGED <<gen, sid, active>>
      BY <1>2 DEF Schedules!Open, Schedules!Become, Schedules!memory, Schedules!State
<1>4. /\ rec \in ScheduleRecord /\ rec.lane = ses[s].tok /\ rec.pending = {} /\ rec.retiring = {}
      /\ rec.cleanup = {} /\ rec.canonical = Schedules!State(s).canonical
      BY <1>2 DEF Schedules!Staged, ScheduleRecord, ScheduleSession, Schedules!Evidence
<1>5. left \subseteq Schedules!Items /\ Schedules!State(s).canonical \subseteq ScheduleId
      BY <1>2, CatsAreTwo DEF ScheduleState, ScheduleTypes, ScheduleRecord
<1>6. /\ r \in ScheduleSession /\ r.pc = "build" /\ r.tok = ses[s].tok /\ r.cat = ses[s].cat
      /\ r.kept = {} /\ r.new = {} /\ r.prev = Schedules!State(s).canonical
  <2>1. r = [ses[s] EXCEPT !.pc = "build", !.prev = Schedules!State(s).canonical, !.left = left]
        OBVIOUS
  <2> HIDE DEF left, r
  <2> QED
      BY <1>1, <1>2, <1>5, <2>1 DEF ScheduleSession, SessionFits, KeepsNothing
<1> HIDE DEF r, rec, left
<1>7. RunsAlone(s)' /\ ses'[s] = r
      BY <1>1, <1>2, <1>3, <1>6, GoesOnAlone
<1>8. /\ SchedulesCovered' /\ tracked' \in [Schedules!Cat -> ScheduleRecord]
      /\ tracked'[Schedules!C(s)] = rec
      /\ \A c \in Schedules!Cat : c # Schedules!C(s) => tracked'[c] = tracked[c]
  <2>1. \A id \in os' : \/ id \in Schedules!AllTracked(rec)
                        \/ id \in os /\ id \notin Schedules!AllTracked(tracked[Schedules!C(s)])
        BY <1>1, <1>2, <1>4, TrackedParts DEF Schedules!State
  <2> QED
      BY <1>1, <1>2, <1>3, <1>4, <2>1, CoveredAfter
<1>9. Schedules!C(s)' = Schedules!C(s) /\ Schedules!State(s)' = rec
      BY <1>6, <1>7, <1>8 DEF Schedules!State, Schedules!C
<1>10. StagesAreClean'
      BY <1>1, <1>6, <1>7, <1>8, <1>9, OthersStayClean DEF Staging
<1>11. SessionFits(s)'
      BY <1>4, <1>6, <1>7, <1>9 DEF SessionFits, KeepsNothing, ConvergeFits, OpenFits, BuildFits,
         RetireFits, AbortFits, DisableFits
<1>12. active' \in ScheduleLane /\ made' \in [Schedules!Items -> Nat]
      BY <1>1, <1>3 DEF ScheduleState, ScheduleTypes
<1> QED
    BY <1>1, <1>3, <1>6, <1>8, <1>10, <1>11, <1>12, OneSessionSteps

LEMMA RequestKeeps ==
    ASSUME ScheduleState, NEW s \in Slots, Schedules!Request(s)
    PROVE  ScheduleState'
<1>1. /\ ses[s].pc = "build" /\ ses[s].left # {} /\ UNCHANGED <<suspended, made, due, purge>>
      /\ UNCHANGED <<lostCall, trouble, migrated, os>>
      BY DEF Schedules!Request, Schedules!world, Schedules!observed
<1>2. ses[s] \in ScheduleSession /\ SessionFits(s) /\ ses[s].cat \in 1 .. 2
      BY <1>1, RunningAlone
<1> DEFINE r == [ses[s] EXCEPT !.pc = "call"]
<1>3. ses' = [ses EXCEPT ![s] = r] /\ UNCHANGED <<tracked, gen, sid, active>>
      BY <1>1, RunningAlone DEF Schedules!Request, Schedules!Goto, Schedules!Become, Schedules!memory
<1>4. /\ r \in ScheduleSession /\ r.pc = "call" /\ r.tok = ses[s].tok /\ r.cat = ses[s].cat
      /\ r.kept = ses[s].kept /\ r.new = ses[s].new /\ r.prev = ses[s].prev
      /\ r.left = ses[s].left
      BY <1>2 DEF ScheduleSession
<1> HIDE DEF r
<1>5. RunsAlone(s)' /\ ses'[s] = r
      BY <1>1, <1>2, <1>3, <1>4, GoesOnAlone
<1>6. Schedules!C(s)' = Schedules!C(s) /\ Schedules!State(s)' = Schedules!State(s)
      BY <1>3, <1>4, <1>5 DEF Schedules!State, Schedules!C
<1>7. StagesAreClean'
      BY <1>1, <1>3, <1>4, <1>5, <1>6, RecordsStayClean DEF Staging
<1>8. SessionFits(s)'
      BY <1>1, <1>2, <1>4, <1>5, <1>6 DEF SessionFits, KeepsNothing, ConvergeFits, OpenFits,
         BuildFits, RetireFits, AbortFits, DisableFits
<1>9. /\ active' \in ScheduleLane /\ made' \in [Schedules!Items -> Nat]
      /\ SchedulesCovered' /\ tracked' \in [Schedules!Cat -> ScheduleRecord]
      BY <1>1, <1>3 DEF ScheduleState, ScheduleTypes, SchedulesCovered
<1> QED
    BY <1>1, <1>3, <1>4, <1>7, <1>8, <1>9, OneSessionSteps

LEMMA ScheduledKeeps ==
    ASSUME ScheduleState, NEW s \in Slots, Schedules!Scheduled(s)
    PROVE  ScheduleState'
<1>1. /\ ses[s].pc = "call" /\ UNCHANGED <<suspended, due, purge>>
      /\ UNCHANGED <<lostCall, trouble, migrated>>
      BY DEF Schedules!Scheduled, Schedules!world, Schedules!observed
<1>2. /\ ses[s] \in ScheduleSession /\ SessionFits(s) /\ ses[s].cat \in 1 .. 2
      /\ Schedules!State(s) \in ScheduleRecord /\ Schedules!C(s) \in Schedules!Cat
      /\ Schedules!Current(s) /\ Schedules!State(s).lane = ses[s].tok /\ ses[s].left # {}
      BY <1>1, RunningAlone DEF SessionFits, BuildFits
<1> DEFINE i == Schedules!Item(s)
           id == Schedules!NewId(i)
           rec == [Schedules!State(s) EXCEPT !.pending = @ \cup {id}]
           r == [ses[s] EXCEPT !.pc = "build", !.left = @ \ {i}, !.new = @ \cup {id}]
<1>3. i \in ses[s].left
      BY <1>2 DEF Schedules!Item
<1>4. i \in Schedules!Items /\ id \in ScheduleId
  <2>1. i \in Schedules!Items
        BY <1>2, <1>3 DEF ScheduleSession
  <2>2. made[i] + 1 \in Nat
        BY <2>1 DEF ScheduleState, ScheduleTypes
  <2> QED
      BY <2>1, <2>2 DEF Schedules!NewId, ScheduleId
<1>5. /\ os' = os \cup {id} /\ made' = [made EXCEPT ![i] = @ + 1]
      /\ tracked' = [tracked EXCEPT ![Schedules!C(s)] = rec]
      /\ ses' = [ses EXCEPT ![s] = r] /\ UNCHANGED <<gen, sid, active>>
      BY <1>2 DEF Schedules!Scheduled, Schedules!Become, Schedules!memory, Schedules!State
<1> HIDE DEF i, id
<1>6. /\ rec \in ScheduleRecord /\ rec.pending = Schedules!State(s).pending \cup {id}
      /\ rec.lane = Schedules!State(s).lane /\ rec.canonical = Schedules!State(s).canonical
      /\ rec.retiring = Schedules!State(s).retiring /\ rec.cleanup = Schedules!State(s).cleanup
      BY <1>2, <1>4 DEF ScheduleRecord
<1>7. /\ r \in ScheduleSession /\ r.pc = "build" /\ r.tok = ses[s].tok /\ r.cat = ses[s].cat
      /\ r.kept = ses[s].kept /\ r.new = ses[s].new \cup {id} /\ r.prev = ses[s].prev
      BY <1>2, <1>4 DEF ScheduleSession
<1>8. made' \in [Schedules!Items -> Nat] /\ active' \in ScheduleLane
      BY <1>4, <1>5 DEF ScheduleState, ScheduleTypes
<1> HIDE DEF r, rec
<1>9. RunsAlone(s)' /\ ses'[s] = r
      BY <1>1, <1>2, <1>5, <1>7, GoesOnAlone
<1>10. /\ SchedulesCovered' /\ tracked' \in [Schedules!Cat -> ScheduleRecord]
       /\ tracked'[Schedules!C(s)] = rec
       /\ \A c \in Schedules!Cat : c # Schedules!C(s) => tracked'[c] = tracked[c]
  <2>1. \A x \in os' : \/ x \in Schedules!AllTracked(rec)
                       \/ x \in os /\ x \notin Schedules!AllTracked(tracked[Schedules!C(s)])
        BY <1>5, <1>6, TrackedParts DEF Schedules!State
  <2> QED
      BY <1>1, <1>2, <1>5, <1>6, <2>1, CoveredAfter
<1>11. Schedules!C(s)' = Schedules!C(s) /\ Schedules!State(s)' = rec
      BY <1>7, <1>9, <1>10 DEF Schedules!State, Schedules!C
<1>12. StagesAreClean'
      BY <1>1, <1>7, <1>9, <1>10, <1>11, OthersStayClean DEF Staging
<1>13. SessionFits(s)'
      BY <1>1, <1>2, <1>6, <1>7, <1>9, <1>11 DEF SessionFits, KeepsNothing, ConvergeFits, OpenFits,
         BuildFits, RetireFits, AbortFits, DisableFits
<1> QED
    BY <1>1, <1>5, <1>7, <1>8, <1>10, <1>12, <1>13, OneSessionSteps

\* An aborted stage leaves the set committed before.
LEMMA AbortedShape ==
    ASSUME NEW st \in ScheduleRecord, st.retiring = {}, st.cleanup = {}
    PROVE  LET rec == Schedules!Aborted(st, st.canonical, {})
           IN  /\ rec \in ScheduleRecord /\ Schedules!AllTracked(rec) = st.canonical
               /\ Schedules!Evidence(rec) = {} /\ rec.lane = Schedules!NoLane
<1> DEFINE rec == [Schedules!Empty EXCEPT !.canonical = st.canonical, !.pending = {},
                                          !.cleanup = st.cleanup]
<1>1. Schedules!Aborted(st, st.canonical, {}) = rec
      BY DEF Schedules!Aborted
<1>2. /\ rec \in ScheduleRecord /\ rec.canonical = st.canonical /\ rec.pending = {}
      /\ rec.retiring = {} /\ rec.cleanup = {} /\ rec.lane = Schedules!NoLane
      BY NothingIsTyped DEF ScheduleRecord, Schedules!Empty
<1> HIDE DEF rec
<1> QED
    BY <1>1, <1>2 DEF Schedules!AllTracked, Schedules!Evidence

\* The end of an aborted session.
LEMMA AbortEnds ==
    ASSUME ScheduleState, NEW s \in Slots, ses[s].pc \in {"call", "abort"}, Schedules!Stale(s),
           Schedules!State(s).retiring = {}, Schedules!State(s).cleanup = {},
           Schedules!State(s).canonical = ses[s].prev,
           \A id \in os : id \notin Schedules!State(s).pending,
           tracked' = [tracked EXCEPT ![Schedules!C(s)] =
                          Schedules!Aborted(Schedules!State(s), ses[s].prev, {})],
           UNCHANGED <<os, lostCall, migrated, suspended, made, purge>>, due' = due,
           trouble' = 0 => trouble = 0
    PROVE  ScheduleState'
<1>1. Schedules!State(s) \in ScheduleRecord /\ Schedules!C(s) \in Schedules!Cat
      BY RunningAlone
<1> DEFINE rec == Schedules!Aborted(Schedules!State(s), ses[s].prev, {})
<1>2. /\ rec \in ScheduleRecord /\ Schedules!AllTracked(rec) = Schedules!State(s).canonical
      /\ Schedules!Evidence(rec) = {} /\ rec.lane = Schedules!NoLane
      BY <1>1, AbortedShape
<1> HIDE DEF rec
<1>3. /\ SchedulesCovered' /\ tracked' \in [Schedules!Cat -> ScheduleRecord]
      /\ tracked'[Schedules!C(s)] = rec
      /\ \A c \in Schedules!Cat : c # Schedules!C(s) => tracked'[c] = tracked[c]
  <2>1. \A x \in os' : \/ x \in Schedules!AllTracked(rec)
                       \/ x \in os /\ x \notin Schedules!AllTracked(tracked[Schedules!C(s)])
        BY <1>2, TrackedParts DEF Schedules!State
  <2> QED
      BY <1>1, <1>2, <2>1, CoveredAfter DEF rec
<1>4. StagesAreClean'
      BY <1>2, <1>3, OthersStayClean
<1> QED
    BY <1>3, <1>4, EndsClean

LEMMA RejectedScheduleKeeps ==
    ASSUME ScheduleState, trouble \in Nat, Undisturbed', NEW s \in Slots, Schedules!Rejected(s)
    PROVE  ScheduleState'
<1>1. /\ ses[s].pc = "call" /\ UNCHANGED <<suspended, made, due, purge>>
      /\ UNCHANGED <<lostCall, migrated, os>> /\ trouble' = 1
      BY DEF Schedules!Rejected, Schedules!world, Schedules!Fault, Undisturbed
<1>2. /\ ses[s] \in ScheduleSession /\ SessionFits(s) /\ ses[s].cat \in 1 .. 2
      /\ Schedules!State(s) \in ScheduleRecord /\ Schedules!C(s) \in Schedules!Cat
      /\ Schedules!State(s).lane = ses[s].tok /\ Schedules!State(s).canonical = ses[s].prev
      /\ Schedules!State(s).retiring = {} /\ Schedules!State(s).cleanup = {} /\ ses[s].kept = {}
      BY <1>1, RunningAlone DEF SessionFits, BuildFits, KeepsNothing
<1>3. CASE Schedules!State(s).pending = {}
      BY <1>1, <1>2, <1>3, AbortEnds DEF Schedules!Rejected, Schedules!AbortFrom, Schedules!State
<1>4. CASE Schedules!State(s).pending # {}
  <2> DEFINE r == [ses[s] EXCEPT !.pc = "abort", !.todo = Schedules!State(s).pending, !.kept = {}]
  <2>1. ses' = [ses EXCEPT ![s] = r] /\ UNCHANGED <<tracked, gen, sid, active>>
        BY <1>2, <1>4 DEF Schedules!Rejected, Schedules!AbortFrom, Schedules!State,
           Schedules!Become, Schedules!memory
  <2>2. Schedules!State(s).pending \subseteq ScheduleId
        BY <1>2 DEF ScheduleRecord
  <2>3. /\ r \in ScheduleSession /\ r.pc = "abort" /\ r.tok = ses[s].tok /\ r.cat = ses[s].cat
        /\ r.kept = {} /\ r.prev = ses[s].prev /\ r.todo = Schedules!State(s).pending
        BY <1>2, <2>2 DEF ScheduleSession
  <2> HIDE DEF r
  <2>4. RunsAlone(s)' /\ ses'[s] = r
        BY <1>1, <1>2, <2>1, <2>3, GoesOnAlone
  <2>5. Schedules!State(s)' = Schedules!State(s)
        BY <2>1, <2>3, <2>4 DEF Schedules!State, Schedules!C
  <2>6. SessionFits(s)'
        BY <1>1, <1>2, <2>3, <2>4, <2>5 DEF SessionFits, KeepsNothing, ConvergeFits, OpenFits,
           BuildFits, RetireFits, AbortFits, DisableFits
  <2>7. /\ active' \in ScheduleLane /\ made' \in [Schedules!Items -> Nat]
        /\ SchedulesCovered' /\ tracked' \in [Schedules!Cat -> ScheduleRecord]
        BY <1>1, <2>1 DEF ScheduleState, ScheduleTypes, SchedulesCovered
  <2>8. StagesAreClean'
        BY <1>1 DEF StagesAreClean
  <2> QED
      BY <1>1, <2>1, <2>3, <2>6, <2>7, <2>8, OneSessionSteps
<1> QED
    BY <1>3, <1>4

LEMMA AbortKeeps ==
    ASSUME ScheduleState, trouble \in Nat, Undisturbed', NEW s \in Slots, Schedules!Abort(s)
    PROVE  ScheduleState'
<1>1. ses[s].pc = "abort" /\ UNCHANGED <<migrated, suspended, made, due, purge>>
      BY DEF Schedules!Abort, Schedules!world
<1>2. CASE ses[s].todo # {}
      BY <1>1, <1>2, CancelKeeps DEF Schedules!Abort, Schedules!Become, Schedules!memory
<1>3. CASE ses[s].todo = {}
  <2>1. /\ SessionFits(s) /\ Schedules!State(s).lane = ses[s].tok /\ ses[s].kept = {}
        /\ Schedules!State(s).canonical = ses[s].prev
        /\ Schedules!State(s).retiring = {} /\ Schedules!State(s).cleanup = {}
        /\ \A id \in os : id \notin Schedules!State(s).pending
        BY <1>1, <1>3, RunningAlone DEF SessionFits, AbortFits
  <2> QED
      BY <1>1, <1>3, <2>1, AbortEnds DEF Schedules!Abort, Schedules!NoFault, Schedules!observed,
         Schedules!State
<1> QED
    BY <1>2, <1>3

LEMMA CommitScheduleKeeps ==
    ASSUME ScheduleState, NEW s \in Slots, Schedules!Commit(s)
    PROVE  ScheduleState'
<1>1. /\ ses[s].pc = "build" /\ UNCHANGED <<suspended, made, due, purge>>
      /\ UNCHANGED <<lostCall, trouble, migrated, os>>
      BY DEF Schedules!Commit, Schedules!world, Schedules!observed
<1>2. /\ ses[s] \in ScheduleSession /\ SessionFits(s) /\ ses[s].cat \in 1 .. 2
      /\ Schedules!State(s) \in ScheduleRecord /\ Schedules!C(s) \in Schedules!Cat
      /\ Schedules!Current(s) /\ Schedules!State(s).lane = ses[s].tok /\ ses[s].kept = {}
      /\ Schedules!State(s).canonical = ses[s].prev /\ Schedules!State(s).pending = ses[s].new
      /\ Schedules!State(s).retiring = {} /\ Schedules!State(s).cleanup = {}
      BY <1>1, RunningAlone DEF SessionFits, BuildFits, KeepsNothing
<1> DEFINE old == ses[s].prev \ ses[s].new
           rec == [Schedules!State(s) EXCEPT !.canonical = ses[s].new, !.pending = {},
                                             !.retiring = old]
           r == [ses[s] EXCEPT !.pc = "retire", !.todo = old]
<1>3. /\ tracked' = [tracked EXCEPT ![Schedules!C(s)] = rec] /\ ses' = [ses EXCEPT ![s] = r]
      /\ UNCHANGED <<gen, sid, active>>
      BY <1>2 DEF Schedules!Commit, Schedules!Holds, Schedules!Become, Schedules!memory,
         Schedules!State
<1>4. ses[s].new \subseteq ScheduleId /\ old \subseteq ScheduleId
      BY <1>2 DEF ScheduleSession
<1>5. /\ rec \in ScheduleRecord /\ rec.canonical = ses[s].new /\ rec.pending = {}
      /\ rec.retiring = old /\ rec.cleanup = {} /\ rec.lane = ses[s].tok
      BY <1>2, <1>4 DEF ScheduleRecord
<1>6. /\ r \in ScheduleSession /\ r.pc = "retire" /\ r.tok = ses[s].tok /\ r.cat = ses[s].cat
      /\ r.kept = {} /\ r.new = ses[s].new /\ r.todo = old
      BY <1>2, <1>4 DEF ScheduleSession
<1>7. /\ active' \in ScheduleLane /\ made' \in [Schedules!Items -> Nat]
      BY <1>1, <1>3 DEF ScheduleState, ScheduleTypes
<1> HIDE DEF r, rec
<1>8. RunsAlone(s)' /\ ses'[s] = r
      BY <1>1, <1>2, <1>3, <1>6, GoesOnAlone
<1>9. /\ SchedulesCovered' /\ tracked' \in [Schedules!Cat -> ScheduleRecord]
      /\ tracked'[Schedules!C(s)] = rec
      /\ \A c \in Schedules!Cat : c # Schedules!C(s) => tracked'[c] = tracked[c]
  <2>1. \A x \in os' : \/ x \in Schedules!AllTracked(rec)
                       \/ x \in os /\ x \notin Schedules!AllTracked(tracked[Schedules!C(s)])
        BY <1>1, <1>2, <1>5, TrackedParts DEF Schedules!State
  <2> QED
      BY <1>1, <1>2, <1>3, <1>5, <2>1, CoveredAfter
<1>10. Schedules!C(s)' = Schedules!C(s) /\ Schedules!State(s)' = rec
      BY <1>6, <1>8, <1>9 DEF Schedules!State, Schedules!C
<1>11. StagesAreClean'
      BY <1>1, <1>6, <1>8, <1>9, <1>10, OthersStayClean DEF Staging
<1>12. SessionFits(s)'
      BY <1>5, <1>6, <1>8, <1>10 DEF SessionFits, KeepsNothing, ConvergeFits, OpenFits, BuildFits,
         RetireFits, AbortFits, DisableFits
<1> QED
    BY <1>1, <1>3, <1>6, <1>7, <1>9, <1>11, <1>12, OneSessionSteps

LEMMA RetireKeeps ==
    ASSUME ScheduleState, NEW s \in Slots, Schedules!Retire(s)
    PROVE  ScheduleState'
<1>1. /\ ses[s].pc = "retire" /\ ses[s].todo # {} /\ UNCHANGED <<suspended, made, due, purge>>
      /\ UNCHANGED <<lostCall, trouble, migrated, os>>
      BY DEF Schedules!Retire, Schedules!world, Schedules!observed
<1>2. ses[s] \in ScheduleSession /\ SessionFits(s) /\ ses[s].cat \in 1 .. 2
      BY <1>1, RunningAlone
<1> DEFINE r == [ses[s] EXCEPT !.pc = "retiring"]
<1>3. ses' = [ses EXCEPT ![s] = r] /\ UNCHANGED <<tracked, gen, sid, active>>
      BY <1>1, RunningAlone DEF Schedules!Retire, Schedules!Goto, Schedules!Become, Schedules!memory
<1>4. /\ r \in ScheduleSession /\ r.pc = "retiring" /\ r.tok = ses[s].tok /\ r.cat = ses[s].cat
      /\ r.kept = ses[s].kept /\ r.new = ses[s].new /\ r.todo = ses[s].todo
      BY <1>2 DEF ScheduleSession
<1> HIDE DEF r
<1>5. RunsAlone(s)' /\ ses'[s] = r
      BY <1>1, <1>2, <1>3, <1>4, GoesOnAlone
<1>6. Schedules!C(s)' = Schedules!C(s) /\ Schedules!State(s)' = Schedules!State(s)
      BY <1>3, <1>4, <1>5 DEF Schedules!State, Schedules!C
<1>7. StagesAreClean'
      BY <1>1, <1>3, <1>4, <1>5, <1>6, RecordsStayClean DEF Staging
<1>8. SessionFits(s)'
      BY <1>1, <1>2, <1>4, <1>5, <1>6 DEF SessionFits, KeepsNothing, ConvergeFits, OpenFits,
         BuildFits, RetireFits, AbortFits, DisableFits
<1>9. /\ active' \in ScheduleLane /\ made' \in [Schedules!Items -> Nat]
      /\ SchedulesCovered' /\ tracked' \in [Schedules!Cat -> ScheduleRecord]
      BY <1>1, <1>3 DEF ScheduleState, ScheduleTypes, SchedulesCovered
<1> QED
    BY <1>1, <1>3, <1>4, <1>7, <1>8, <1>9, OneSessionSteps

LEMMA RetiredKeeps ==
    ASSUME ScheduleState, trouble \in Nat, Undisturbed', NEW s \in Slots, Schedules!Retired(s)
    PROVE  ScheduleState'
<1>1. ses[s].pc = "retiring" /\ UNCHANGED <<migrated, suspended, made, due, purge>>
      BY DEF Schedules!Retired, Schedules!world
<1>2. /\ ses[s] \in ScheduleSession /\ SessionFits(s) /\ ses[s].cat \in 1 .. 2
      /\ Schedules!State(s) \in ScheduleRecord /\ Schedules!C(s) \in Schedules!Cat
      /\ Schedules!State(s).lane = ses[s].tok /\ ses[s].todo # {}
      BY <1>1, RunningAlone DEF SessionFits, RetireFits
<1>3. PICK c \in Schedules!CancelOne(ses[s]) :
          /\ Schedules!Cancelled(c)
          /\ ses' = [ses EXCEPT ![s] = [c.run EXCEPT !.pc = "retire"]]
          /\ tracked' = [tracked EXCEPT ![Schedules!C(s)].retiring =
                            @ \ ((ses[s].todo \ c.run.todo) \ c.run.kept)]
      BY <1>2 DEF Schedules!Retired, Schedules!Become
<1>4. UNCHANGED <<gen, sid, active>>
      BY <1>2 DEF Schedules!Retired, Schedules!memory
<1>5. PICK id \in ses[s].todo :
        /\ os' \subseteq os /\ UNCHANGED <<overtaken, lostCall>>
        /\ \/ /\ c.run = [ses[s] EXCEPT !.todo = @ \ {id}] /\ os' = os \ {id}
              /\ trouble' = trouble
           \/ /\ c.run = [ses[s] EXCEPT !.todo = @ \ {id}, !.kept = @ \cup {id}]
              /\ os' \in {os, os \ {id}} /\ trouble' = trouble + 1
      BY <1>2, <1>3, CancelShape
<1>6. trouble' = trouble + 1 => trouble = 0 /\ trouble' = 1
      BY DEF Undisturbed
<1>7. /\ id \in ScheduleId /\ [ses[s] EXCEPT !.todo = @ \ {id}] \in ScheduleSession
      /\ [ses[s] EXCEPT !.todo = @ \ {id}, !.kept = @ \cup {id}] \in ScheduleSession
      BY <1>2, CancelTyped DEF ScheduleSession
<1> DEFINE run == c.run
           gone == (ses[s].todo \ run.todo) \ run.kept
           rec == [Schedules!State(s) EXCEPT !.retiring = @ \ gone]
           r == [run EXCEPT !.pc = "retire"]
<1>8. /\ run \in ScheduleSession /\ run.tok = ses[s].tok /\ run.cat = ses[s].cat
      /\ run.new = ses[s].new /\ run.todo = ses[s].todo \ {id}
      /\ \/ run.kept = ses[s].kept /\ os' = os \ {id} /\ trouble' = trouble
         \/ run.kept = ses[s].kept \cup {id} /\ trouble' = 1
      BY <1>2, <1>5, <1>6, <1>7 DEF ScheduleSession
<1>9. tracked' = [tracked EXCEPT ![Schedules!C(s)] = rec] /\ ses' = [ses EXCEPT ![s] = r]
      BY <1>3 DEF Schedules!State
<1> HIDE DEF run
<1>10. /\ \A x \in gone : x \notin os'
       /\ trouble' = 0 /\ ses[s].kept = {} => gone = {id} /\ run.kept = {} /\ trouble = 0
      BY <1>8
<1> HIDE DEF gone
<1>11. /\ rec \in ScheduleRecord /\ rec.canonical = Schedules!State(s).canonical
       /\ rec.pending = Schedules!State(s).pending /\ rec.cleanup = Schedules!State(s).cleanup
       /\ rec.lane = ses[s].tok /\ rec.retiring = Schedules!State(s).retiring \ gone
      BY <1>2 DEF ScheduleRecord
<1>12. /\ r \in ScheduleSession /\ r.pc = "retire" /\ r.tok = ses[s].tok /\ r.cat = ses[s].cat
       /\ r.kept = run.kept /\ r.new = ses[s].new /\ r.todo = ses[s].todo \ {id}
      BY <1>8 DEF ScheduleSession
<1>13. /\ active' \in ScheduleLane /\ made' \in [Schedules!Items -> Nat]
       /\ os' \subseteq os /\ lostCall' = lostCall /\ (trouble' = 0 => trouble = 0)
      BY <1>1, <1>4, <1>5 DEF ScheduleState, ScheduleTypes
<1> HIDE DEF r, rec
<1>14. RunsAlone(s)' /\ ses'[s] = r
      BY <1>1, <1>2, <1>4, <1>9, <1>12, GoesOnAlone
<1>15. /\ SchedulesCovered' /\ tracked' \in [Schedules!Cat -> ScheduleRecord]
       /\ tracked'[Schedules!C(s)] = rec
       /\ \A d \in Schedules!Cat : d # Schedules!C(s) => tracked'[d] = tracked[d]
  <2>1. \A x \in os' : \/ x \in Schedules!AllTracked(rec)
                       \/ x \in os /\ x \notin Schedules!AllTracked(tracked[Schedules!C(s)])
        BY <1>10, <1>11, <1>13, TrackedParts DEF Schedules!State
  <2> QED
      BY <1>1, <1>2, <1>9, <1>11, <1>13, <2>1, CoveredAfter
<1>16. Schedules!C(s)' = Schedules!C(s) /\ Schedules!State(s)' = rec
      BY <1>12, <1>14, <1>15 DEF Schedules!State, Schedules!C
<1>17. StagesAreClean'
      BY <1>1, <1>12, <1>13, <1>14, <1>15, <1>16, OthersStayClean DEF Staging
<1>18. RetireFits(s)'
      BY <1>1, <1>2, <1>10, <1>11, <1>12, <1>13, <1>14, <1>16 DEF SessionFits, RetireFits
<1>19. SessionFits(s)'
      BY <1>12, <1>14, <1>18 DEF SessionFits, KeepsNothing, ConvergeFits, OpenFits, BuildFits,
         AbortFits, DisableFits
<1> QED
    BY <1>1, <1>4, <1>9, <1>12, <1>13, <1>15, <1>17, <1>19, OneSessionSteps

\* The session goes on with the next category.
LEMMA CategoryDone ==
    ASSUME ScheduleState, NEW s \in Slots, ses[s].pc # "idle", ses[s].cat \in 1 .. 2,
           ses' = [ses EXCEPT ![s] = Schedules!NextCategory(ses[s])],
           UNCHANGED <<gen, sid, active, suspended, made, purge>>, due' = due,
           tracked' \in [Schedules!Cat -> ScheduleRecord], SchedulesCovered', StagesAreClean'
    PROVE  ScheduleState'
<1>1. ses[s] \in ScheduleSession
      BY RunningAlone
<1>2. RunsAlone(s)' /\ ses'[s] = Schedules!NextCategory(ses[s])
      BY <1>1, NextCategoryShape, GoesOnAlone
<1>3. SessionFits(s)'
      BY <1>1, <1>2, NextCategoryShape DEF SessionFits, KeepsNothing, ConvergeFits, OpenFits,
         BuildFits, RetireFits, AbortFits, DisableFits
<1>4. active' \in ScheduleLane /\ made' \in [Schedules!Items -> Nat]
      BY DEF ScheduleState, ScheduleTypes
<1> QED
    BY <1>1, <1>3, <1>4, NextCategoryShape, OneSessionSteps

LEMMA CloseKeeps ==
    ASSUME ScheduleState, NEW s \in Slots, Schedules!Close(s)
    PROVE  ScheduleState'
<1>1. /\ ses[s].pc = "retire" /\ ses[s].todo = {} /\ UNCHANGED <<suspended, made, due, purge>>
      /\ UNCHANGED <<lostCall, trouble, migrated, os>>
      BY DEF Schedules!Close, Schedules!world, Schedules!observed
<1>2. /\ ses[s] \in ScheduleSession /\ SessionFits(s) /\ ses[s].cat \in 1 .. 2
      /\ Schedules!State(s) \in ScheduleRecord /\ Schedules!C(s) \in Schedules!Cat
      /\ Schedules!Current(s) /\ Schedules!State(s).lane = ses[s].tok
      /\ Schedules!State(s).canonical = ses[s].new
      /\ Schedules!State(s).pending = {} /\ Schedules!State(s).cleanup = {}
      /\ trouble = 0 => Schedules!State(s).retiring = {}
      BY <1>1, RunningAlone DEF SessionFits, RetireFits
<1> DEFINE rec == [Schedules!State(s) EXCEPT !.canonical = ses[s].new, !.pending = {},
                                             !.lane = Schedules!NoLane]
<1>3. /\ tracked' = [tracked EXCEPT ![Schedules!C(s)] = rec]
      /\ ses' = [ses EXCEPT ![s] = Schedules!NextCategory(ses[s])]
      /\ UNCHANGED <<gen, sid, active>>
      BY <1>2 DEF Schedules!Close, Schedules!Holds, Schedules!Become, Schedules!memory,
         Schedules!State
<1>4. ses[s].new \subseteq ScheduleId
      BY <1>2 DEF ScheduleSession
<1>5. /\ rec \in ScheduleRecord /\ rec.canonical = Schedules!State(s).canonical /\ rec.pending = {}
      /\ rec.retiring = Schedules!State(s).retiring /\ rec.cleanup = {}
      /\ rec.lane = Schedules!NoLane
      BY <1>2, <1>4, NothingIsTyped DEF ScheduleRecord
<1> HIDE DEF rec
<1>6. /\ SchedulesCovered' /\ tracked' \in [Schedules!Cat -> ScheduleRecord]
      /\ tracked'[Schedules!C(s)] = rec
      /\ \A c \in Schedules!Cat : c # Schedules!C(s) => tracked'[c] = tracked[c]
  <2>1. \A x \in os' : \/ x \in Schedules!AllTracked(rec)
                       \/ x \in os /\ x \notin Schedules!AllTracked(tracked[Schedules!C(s)])
        BY <1>1, <1>2, <1>5, TrackedParts DEF Schedules!State
  <2> QED
      BY <1>1, <1>2, <1>3, <1>5, <2>1, CoveredAfter
<1>7. trouble' = 0 => Schedules!Evidence(rec) = {}
      BY <1>1, <1>2, <1>5 DEF Schedules!Evidence
<1>8. StagesAreClean'
      BY <1>1, <1>5, <1>6, <1>7, OthersStayClean
<1> QED
    BY <1>1, <1>2, <1>3, <1>6, <1>8, CategoryDone

LEMMA DisableKeeps ==
    ASSUME ScheduleState, trouble \in Nat, Undisturbed', NEW s \in Slots, Schedules!Disable(s)
    PROVE  ScheduleState'
<1>1. ses[s].pc = "disable" /\ UNCHANGED <<migrated, suspended, made, due, purge>>
      BY DEF Schedules!Disable, Schedules!world
<1>2. CASE ses[s].todo # {}
      BY <1>1, <1>2, CancelKeeps DEF Schedules!Disable, Schedules!Become, Schedules!memory
<1>3. CASE ses[s].todo = {}
  <2>1. /\ ses[s] \in ScheduleSession /\ SessionFits(s) /\ ses[s].cat \in 1 .. 2
        /\ Schedules!C(s) \in Schedules!Cat /\ Schedules!Current(s)
        /\ ses[s].snap = tracked /\ (trouble = 0 => ses[s].kept = {})
        /\ \A id \in os : id \in Schedules!AllTracked(Schedules!State(s)) => id \in ses[s].kept
        BY <1>1, <1>3, RunningAlone DEF SessionFits, DisableFits
  <2> DEFINE rec == IF ses[s].kept = {} THEN Schedules!Empty
                    ELSE [Schedules!Empty EXCEPT !.cleanup = @ \cup ses[s].kept]
  <2>2. /\ tracked' = [tracked EXCEPT ![Schedules!C(s)] = rec]
        /\ ses' = [ses EXCEPT ![s] = Schedules!NextCategory(ses[s])]
        /\ UNCHANGED <<gen, sid, active, os, trouble, lostCall>>
        BY <1>3, <2>1 DEF Schedules!Disable, Schedules!Become, Schedules!memory, Schedules!NoFault,
           Schedules!observed
  <2>3. ses[s].kept \subseteq ScheduleId
        BY <2>1 DEF ScheduleSession
  <2>4. /\ rec \in ScheduleRecord /\ rec.lane = Schedules!NoLane /\ rec.cleanup = ses[s].kept
        /\ rec.pending = {} /\ rec.retiring = {}
        BY <2>3, NothingIsTyped DEF ScheduleRecord, Schedules!Empty
  <2> HIDE DEF rec
  <2>5. /\ SchedulesCovered' /\ tracked' \in [Schedules!Cat -> ScheduleRecord]
        /\ tracked'[Schedules!C(s)] = rec
        /\ \A c \in Schedules!Cat : c # Schedules!C(s) => tracked'[c] = tracked[c]
    <3>1. \A x \in os' : \/ x \in Schedules!AllTracked(rec)
                         \/ x \in os /\ x \notin Schedules!AllTracked(tracked[Schedules!C(s)])
          BY <2>1, <2>2, <2>4, TrackedParts DEF Schedules!State
    <3> QED
        BY <1>1, <2>1, <2>2, <2>4, <3>1, CoveredAfter
  <2>6. trouble' = 0 => Schedules!Evidence(rec) = {}
        BY <2>1, <2>2, <2>4 DEF Schedules!Evidence
  <2>7. StagesAreClean'
        BY <1>1, <2>2, <2>4, <2>5, <2>6, OthersStayClean
  <2> QED
      BY <1>1, <2>1, <2>2, <2>5, <2>7, CategoryDone
<1> QED
    BY <1>2, <1>3

LEMMA StartPurgeKeeps ==
    ASSUME ScheduleState, Schedules!StartPurge, ~overtaken' PROVE ScheduleState'
<1>1. /\ \A s \in Slots : ses[s].pc = "idle"
      /\ suspended' = TRUE /\ gen' = gen + 1 /\ active' = Schedules!NoLane
      /\ purge' = [Schedules!NoPurge EXCEPT !.pc = "read"]
      /\ UNCHANGED <<tracked, migrated, os, made, due, sid, ses, lostCall, trouble>>
      BY DEF Schedules!StartPurge, Schedules!Overtake, Schedules!Running, Schedules!world
<1>2. purge' \in SchedulePurge /\ purge'.pc = "read" /\ purge'.kept = {}
      BY <1>1, NothingIsTyped DEF SchedulePurge
<1>3. ScheduleTypes'
      BY <1>1, <1>2, NothingIsTyped DEF ScheduleState, ScheduleTypes
<1>4. (\A s \in Slots : SessionFits(s)') /\ PurgeFits' /\ SchedulesCovered' /\ StagesAreClean'
      BY <1>1, <1>2 DEF ScheduleState, SessionFits, RunsAlone, KeepsNothing, ConvergeFits, OpenFits,
         BuildFits, RetireFits, AbortFits, DisableFits, PurgeFits, SchedulesCovered,
         StagesAreClean, Staging
<1> QED
    BY <1>3, <1>4 DEF ScheduleState

\* A step of the purge concerns no session.
LEMMA PurgeSteps ==
    ASSUME ScheduleState, purge.pc # "idle", purge' \in SchedulePurge,
           UNCHANGED <<ses, suspended, made, due, gen, sid, active>>,
           tracked' \in [Schedules!Cat -> ScheduleRecord], trouble' = 0 => trouble = 0,
           PurgeFits', SchedulesCovered',
           trouble' = 0 => \A c \in Schedules!Cat :
              \/ tracked'[c] = tracked[c]
              \/ Schedules!Evidence(tracked'[c]) = {} /\ tracked'[c].lane = Schedules!NoLane
    PROVE  ScheduleState'
<1>1. \A s \in Slots : ses[s].pc = "idle"
      BY RunningAlone
<1>2. ScheduleTypes' /\ StagesAreClean'
      BY <1>1 DEF ScheduleState, ScheduleTypes, StagesAreClean, Staging
<1>3. \A s \in Slots : SessionFits(s)'
      BY <1>1 DEF SessionFits, RunsAlone, KeepsNothing, ConvergeFits, OpenFits, BuildFits,
         RetireFits, AbortFits, DisableFits
<1> QED
    BY <1>2, <1>3 DEF ScheduleState

LEMMA PurgeReadKeeps == ASSUME ScheduleState, Schedules!PurgeRead PROVE ScheduleState'
<1> DEFINE all == UNION {Schedules!AllTracked(tracked[c]) : c \in Schedules!Cat}
           p == [purge EXCEPT !.pc = "cancel", !.snap = tracked, !.todo = all]
<1>1. /\ purge.pc = "read" /\ purge' = p
      /\ UNCHANGED <<ses, suspended, made, due, gen, sid, active, tracked, trouble, os, migrated,
                     lostCall>>
      BY DEF Schedules!PurgeRead, Schedules!kv, Schedules!world, Schedules!memory,
         Schedules!observed
<1>2. /\ purge \in SchedulePurge /\ tracked \in [Schedules!Cat -> ScheduleRecord]
      /\ purge.kept = {} /\ suspended
      BY <1>1 DEF ScheduleState, ScheduleTypes, PurgeFits
<1>3. all \subseteq ScheduleId /\ \A c \in Schedules!Cat : Schedules!AllTracked(tracked[c]) \subseteq all
      BY <1>2 DEF ScheduleRecord, Schedules!AllTracked
<1> HIDE DEF all
<1>4. /\ p \in SchedulePurge /\ p.pc = "cancel" /\ p.kept = {} /\ p.snap = tracked
      /\ p.todo = all
      BY <1>2, <1>3 DEF SchedulePurge
<1> HIDE DEF p
<1>5. PurgeFits'
      BY <1>1, <1>2, <1>3, <1>4 DEF PurgeFits
<1>6. SchedulesCovered'
      BY <1>1 DEF ScheduleState, SchedulesCovered
<1> QED
    BY <1>1, <1>2, <1>4, <1>5, <1>6, PurgeSteps

LEMMA PurgeEndKeeps ==
    ASSUME ScheduleState, trouble \in Nat, Undisturbed', Schedules!Purge PROVE ScheduleState'
<1>1. purge.pc = "cancel" /\ UNCHANGED <<migrated, suspended, made, due, gen, sid, active, ses>>
      BY DEF Schedules!Purge, Schedules!world, Schedules!memory
<1>2. /\ purge \in SchedulePurge /\ tracked \in [Schedules!Cat -> ScheduleRecord] /\ suspended
      /\ purge.snap = tracked /\ (trouble = 0 => purge.kept = {})
      /\ \A c \in Schedules!Cat, id \in os :
            id \in Schedules!AllTracked(tracked[c]) => id \in purge.todo \/ id \in purge.kept
      BY <1>1 DEF ScheduleState, ScheduleTypes, PurgeFits
<1>3. CASE purge.todo # {}
  <2>1. PICK c \in Schedules!CancelOne(purge) : Schedules!Cancelled(c) /\ purge' = c.run
        BY <1>1, <1>3 DEF Schedules!Purge
  <2>2. PICK id \in purge.todo :
          /\ os' \subseteq os /\ UNCHANGED <<overtaken, lostCall>>
          /\ \/ /\ c.run = [purge EXCEPT !.todo = @ \ {id}] /\ os' = os \ {id}
                /\ trouble' = trouble
             \/ /\ c.run = [purge EXCEPT !.todo = @ \ {id}, !.kept = @ \cup {id}]
                /\ os' \in {os, os \ {id}} /\ trouble' = trouble + 1
        BY <1>3, <2>1, CancelShape
  <2>3. trouble' = trouble + 1 => trouble = 0 /\ trouble' = 1
        BY DEF Undisturbed
  <2> DEFINE less == [purge EXCEPT !.todo = @ \ {id}]
             more == [purge EXCEPT !.todo = @ \ {id}, !.kept = @ \cup {id}]
  <2>a. /\ less \in SchedulePurge /\ less.pc = "cancel" /\ less.snap = tracked
        /\ less.todo = purge.todo \ {id} /\ less.kept = purge.kept
        BY <1>1, <1>2 DEF SchedulePurge
  <2>b. id \in ScheduleId
        BY <1>2 DEF SchedulePurge
  <2>c. /\ more \in SchedulePurge /\ more.pc = "cancel" /\ more.snap = tracked
        /\ more.todo = purge.todo \ {id} /\ more.kept = purge.kept \cup {id}
        BY <1>1, <1>2, <2>b DEF SchedulePurge
  <2>d. \/ purge' = less /\ os' = os \ {id} /\ trouble' = trouble
        \/ purge' = more /\ trouble' = trouble + 1
        BY <2>1, <2>2
  <2> HIDE DEF less, more
  <2>4. /\ purge' \in SchedulePurge /\ purge'.pc = "cancel" /\ purge'.snap = tracked
        /\ purge'.todo = purge.todo \ {id}
        /\ \/ purge'.kept = purge.kept /\ os' = os \ {id} /\ trouble' = trouble
           \/ purge'.kept = purge.kept \cup {id} /\ trouble' = 1
        BY <2>a, <2>c, <2>d, <2>3
  <2>5. os' \subseteq os /\ lostCall' = lostCall /\ tracked' = tracked
        BY <1>3, <2>2 DEF Schedules!Purge
  <2>6. PurgeFits'
        BY <1>1, <1>2, <2>4, <2>5 DEF PurgeFits
  <2>7. SchedulesCovered'
        BY <1>1, <2>5 DEF ScheduleState, SchedulesCovered
  <2> QED
      BY <1>1, <1>2, <2>4, <2>5, <2>6, <2>7, PurgeSteps
<1>4. CASE purge.todo = {}
  <2>1. /\ tracked' = [c \in Schedules!Cat |-> Schedules!Tombstone(tracked[c], purge.kept)]
        /\ purge' = Schedules!NoPurge /\ UNCHANGED <<os, trouble, lostCall>>
        BY <1>2, <1>4 DEF Schedules!Purge, Schedules!NoFault, Schedules!observed
  <2>2. \A st \in ScheduleRecord :
          /\ Schedules!Tombstone(st, purge.kept) \in ScheduleRecord
          /\ Schedules!Tombstone(st, purge.kept).lane = Schedules!NoLane
          /\ \A id : id \in Schedules!AllTracked(st) /\ id \in purge.kept
                => id \in Schedules!Tombstone(st, purge.kept).cleanup
          /\ purge.kept = {} => Schedules!Evidence(Schedules!Tombstone(st, purge.kept)) = {}
    <3> TAKE st \in ScheduleRecord
    <3> DEFINE left == Schedules!AllTracked(st) \intersect purge.kept
               rec == [Schedules!Empty EXCEPT !.cleanup = left, !.tomb = TRUE]
    <3>1. left \subseteq ScheduleId
          BY <1>2 DEF SchedulePurge
    <3> HIDE DEF left
    <3>2. rec \in ScheduleRecord /\ rec.lane = Schedules!NoLane /\ rec.cleanup = left
          BY <3>1, NothingIsTyped DEF ScheduleRecord, Schedules!Empty
    <3> HIDE DEF rec
    <3>3. Schedules!Tombstone(st, purge.kept) = IF left = {} THEN Schedules!Empty ELSE rec
          BY DEF Schedules!Tombstone, left, rec
    <3>4. Schedules!Evidence(Schedules!Empty) = {} /\ Schedules!Empty.lane = Schedules!NoLane
          BY DEF Schedules!Evidence, Schedules!Empty
    <3>5. purge.kept = {} => left = {}
          BY DEF left
    <3>6. \A id : id \in Schedules!AllTracked(st) /\ id \in purge.kept => id \in left
          BY DEF left
    <3> QED
        BY <3>2, <3>3, <3>4, <3>5, <3>6, NothingIsTyped
  <2>3. tracked' \in [Schedules!Cat -> ScheduleRecord]
        BY <1>2, <2>1, <2>2
  <2>4. SchedulesCovered'
    <3> SUFFICES ASSUME migrated', ~lostCall', NEW id \in os'
                 PROVE  \E c \in Schedules!Cat : id \in Schedules!AllTracked(tracked'[c])
        BY DEF SchedulesCovered
    <3>1. PICK c \in Schedules!Cat : id \in Schedules!AllTracked(tracked[c])
          BY <1>1, <2>1 DEF ScheduleState, SchedulesCovered
    <3>2. id \in purge.kept /\ tracked[c] \in ScheduleRecord
          BY <1>2, <1>4, <2>1, <3>1
    <3>3. id \in tracked'[c].cleanup
          BY <2>1, <2>2, <3>1, <3>2
    <3> QED
        BY <3>3, TrackedParts
  <2>5. PurgeFits'
        BY <2>1, NothingIsTyped DEF PurgeFits
  <2>6. trouble' = 0 => \A c \in Schedules!Cat :
            Schedules!Evidence(tracked'[c]) = {} /\ tracked'[c].lane = Schedules!NoLane
        BY <1>2, <2>1, <2>2
  <2> QED
      BY <1>1, <2>1, <2>3, <2>4, <2>5, <2>6, NothingIsTyped, PurgeSteps
<1> QED
    BY <1>3, <1>4

\* The scope is admitted again; a reminder fires.
LEMMA WorldKeeps ==
    ASSUME ScheduleState, Schedules!Reactivate \/ Schedules!Fire PROVE ScheduleState'
<1>1. /\ UNCHANGED <<tracked, migrated, made, due, gen, sid, active, ses, purge, trouble, lostCall>>
      /\ os' \subseteq os
      /\ \/ suspended' = suspended
         \/ suspended /\ suspended' = FALSE /\ purge.pc = "idle"
      BY DEF Schedules!Reactivate, Schedules!Fire, Schedules!kv, Schedules!world,
         Schedules!memory, Schedules!observed
<1>2. ScheduleTypes' /\ SchedulesCovered' /\ StagesAreClean' /\ PurgeFits'
  <2>1. suspended' \in BOOLEAN
        BY <1>1 DEF ScheduleState, ScheduleTypes
  <2>2. ScheduleTypes'
        BY <1>1, <2>1 DEF ScheduleState, ScheduleTypes
  <2>3. SchedulesCovered'
        BY <1>1 DEF ScheduleState, SchedulesCovered
  <2>4. StagesAreClean'
        BY <1>1 DEF ScheduleState, StagesAreClean, Staging, Schedules!C
  <2>5. PurgeFits'
        BY <1>1 DEF ScheduleState, PurgeFits
  <2> QED
      BY <2>2, <2>3, <2>4, <2>5
<1>3. ASSUME NEW s \in Slots PROVE SessionFits(s)'
  <2>1. CASE ses[s].pc = "idle"
        BY <1>1, <2>1 DEF SessionFits, RunsAlone, KeepsNothing, ConvergeFits, OpenFits, BuildFits,
           RetireFits, AbortFits, DisableFits
  <2>2. CASE ses[s].pc # "idle"
    <3>1. SessionFits(s) /\ ~suspended
          BY <2>2, RunningAlone
    <3>2. /\ Schedules!State(s)' = Schedules!State(s) /\ ses'[s] = ses[s]
          /\ Schedules!Current(s) => Schedules!Current(s)'
          BY <1>1, <3>1 DEF Schedules!State, Schedules!C, Schedules!Current
    <3> QED
        BY <1>1, <3>1, <3>2 DEF SessionFits, RunsAlone, KeepsNothing, ConvergeFits, OpenFits,
           BuildFits, RetireFits, AbortFits, DisableFits
  <2> QED
      BY <2>1, <2>2
<1> QED
    BY <1>2, <1>3 DEF ScheduleState

LEMMA ScheduleKillKeeps ==
    ASSUME ScheduleState, trouble \in Nat, Schedules!Kill PROVE ScheduleState'
<1>1. PICK lost \in SUBSET {Schedules!NewId(Schedules!Item(s)) : s \in Schedules!Calls},
           gone \in SUBSET {CHOOSE i \in r.todo : TRUE : r \in Schedules!Cancelling} :
        /\ os' = (os \ gone) \cup lost
        /\ made' = [i \in Schedules!Items |->
                       made[i] + Schedules!Cardinality({id \in lost : id[1] = i})]
      BY DEF Schedules!Kill
<1>2. /\ trouble' = trouble + 1 /\ lostCall' = (lostCall \/ Schedules!Calls # {})
      /\ ses' = [s \in Slots |-> Schedules!Idle] /\ purge' = Schedules!NoPurge
      /\ gen' = 0 /\ sid' = 0 /\ active' = Schedules!NoLane
      /\ UNCHANGED <<tracked, migrated, suspended, due>>
      BY DEF Schedules!Kill, Schedules!kv, Schedules!world
<1>3. IsFiniteSet(lost)
  <2>1. IsFiniteSet(Schedules!Calls)
        BY AppAssumption, FS_Subset DEF Schedules!Calls
  <2> DEFINE calls == Schedules!Calls
             issued == [s \in calls |-> Schedules!NewId(Schedules!Item(s))]
             ids == {Schedules!NewId(Schedules!Item(s)) : s \in calls}
  <2>a. /\ issued \in [calls -> ids]
        /\ \A id \in ids : \E s \in calls : issued[s] = id
        OBVIOUS
  <2> HIDE DEF calls, issued, ids
  <2>b. issued \in Surjection(calls, ids)
        BY <2>a DEF Surjection
  <2>2. IsFiniteSet(ids)
        BY <2>1, <2>b, FS_Surjection DEF calls
  <2> QED
      BY <2>2, FS_Subset DEF ids, calls
<1>4. made' \in [Schedules!Items -> Nat]
  <2>1. ASSUME NEW i \in Schedules!Items PROVE made'[i] \in Nat
    <3>1. IsFiniteSet({id \in lost : id[1] = i})
          BY <1>3, FS_Subset
    <3>2. Schedules!Cardinality({id \in lost : id[1] = i}) \in Nat
          BY <3>1, FS_CardinalityType, SchedulesCardinality
    <3>3. made[i] \in Nat
          BY DEF ScheduleState, ScheduleTypes
    <3> QED
        BY <1>1, <3>2, <3>3
  <2> QED
      BY <1>1, <2>1
<1>5. ScheduleTypes'
      BY <1>2, <1>4, NothingIsTyped DEF ScheduleState, ScheduleTypes
<1>6. SchedulesCovered'
  <2>1. Schedules!Calls = {} => lost = {}
        OBVIOUS
  <2> QED
      BY <1>1, <1>2, <2>1 DEF ScheduleState, SchedulesCovered
<1>7. (\A s \in Slots : SessionFits(s)') /\ PurgeFits' /\ StagesAreClean'
      BY <1>2, NothingIsTyped DEF SessionFits, RunsAlone, KeepsNothing, ConvergeFits, OpenFits,
         BuildFits, RetireFits, AbortFits, DisableFits, PurgeFits, StagesAreClean
<1> QED
    BY <1>5, <1>6, <1>7 DEF ScheduleState

\* Troubles only add up.
LEMMA TroubleGrows ==
    ASSUME trouble \in Nat, overtaken \in BOOLEAN, [Schedules!Next]_Schedules!vars
    PROVE  /\ trouble' \in Nat /\ overtaken' \in BOOLEAN
           /\ Undisturbed' => Undisturbed
<1>1. \A c : Schedules!Cancelled(c) =>
         overtaken' = overtaken /\ trouble' \in {trouble, trouble + 1}
      BY DEF Schedules!Cancelled, Schedules!NoFault, Schedules!Fault, Schedules!observed
<1> DEFINE Grows == /\ trouble' \in {trouble, trouble + 1}
                    /\ overtaken' = overtaken \/ overtaken' = TRUE
<1> SUFFICES Grows
  <2>1. Grows => trouble' \in Nat /\ trouble <= trouble'
        OBVIOUS
  <2>2. Grows => overtaken' \in BOOLEAN /\ (overtaken => overtaken')
        BY Zenon
  <2>3. trouble' \in Nat /\ trouble <= trouble' /\ trouble' <= 1 => trouble <= 1
        OBVIOUS
  <2> QED
      BY <2>1, <2>2, <2>3 DEF Undisturbed
<1>2. ASSUME NEW s \in Slots, Schedules!Session(s) PROVE Grows
  <2>1. CASE Schedules!Begin(s)
        BY <1>1, <2>1 DEF Schedules!Begin, Schedules!Overtake, Schedules!Fault, Schedules!NoFault,
           Schedules!observed
  <2>2. CASE Schedules!Migrate(s)
        BY <1>1, <2>2 DEF Schedules!Migrate, Schedules!Overtake, Schedules!Fault, Schedules!NoFault,
           Schedules!observed
  <2>3. CASE Schedules!ReadPermission(s)
        BY <1>1, <2>3 DEF Schedules!ReadPermission, Schedules!Overtake, Schedules!Fault, Schedules!NoFault,
           Schedules!observed
  <2>4. CASE Schedules!Category(s)
        BY <1>1, <2>4 DEF Schedules!Category, Schedules!Overtake, Schedules!Fault, Schedules!NoFault,
           Schedules!observed
  <2>5. CASE Schedules!Converge(s)
        BY <1>1, <2>5 DEF Schedules!Converge, Schedules!Overtake, Schedules!Fault, Schedules!NoFault,
           Schedules!observed
  <2>6. CASE Schedules!Open(s)
        BY <1>1, <2>6 DEF Schedules!Open, Schedules!Overtake, Schedules!Fault, Schedules!NoFault,
           Schedules!observed
  <2>7. CASE Schedules!Request(s)
        BY <1>1, <2>7 DEF Schedules!Request, Schedules!Overtake, Schedules!Fault, Schedules!NoFault,
           Schedules!observed
  <2>8. CASE Schedules!Scheduled(s)
        BY <1>1, <2>8 DEF Schedules!Scheduled, Schedules!Overtake, Schedules!Fault, Schedules!NoFault,
           Schedules!observed
  <2>9. CASE Schedules!Rejected(s)
        BY <1>1, <2>9 DEF Schedules!Rejected, Schedules!Overtake, Schedules!Fault, Schedules!NoFault,
           Schedules!observed
  <2>10. CASE Schedules!Commit(s)
        BY <1>1, <2>10 DEF Schedules!Commit, Schedules!Overtake, Schedules!Fault, Schedules!NoFault,
           Schedules!observed
  <2>11. CASE Schedules!Retire(s)
        BY <1>1, <2>11 DEF Schedules!Retire, Schedules!Overtake, Schedules!Fault, Schedules!NoFault,
           Schedules!observed
  <2>12. CASE Schedules!Retired(s)
        BY <1>1, <2>12 DEF Schedules!Retired, Schedules!Overtake, Schedules!Fault, Schedules!NoFault,
           Schedules!observed
  <2>13. CASE Schedules!Close(s)
        BY <1>1, <2>13 DEF Schedules!Close, Schedules!Overtake, Schedules!Fault, Schedules!NoFault,
           Schedules!observed
  <2>14. CASE Schedules!Disable(s)
        BY <1>1, <2>14 DEF Schedules!Disable, Schedules!Overtake, Schedules!Fault, Schedules!NoFault,
           Schedules!observed
  <2>15. CASE Schedules!Abort(s)
        BY <1>1, <2>15 DEF Schedules!Abort, Schedules!Overtake, Schedules!Fault, Schedules!NoFault,
           Schedules!observed
  <2> QED
      BY <1>2, <2>1, <2>2, <2>3, <2>4, <2>5, <2>6, <2>7, <2>8,
         <2>9, <2>10, <2>11, <2>12, <2>13, <2>14, <2>15 DEF Schedules!Session
<1>3. CASE Schedules!StartPurge \/ Schedules!PurgeRead \/ Schedules!Reactivate \/ Schedules!Fire
      BY <1>3 DEF Schedules!StartPurge, Schedules!PurgeRead, Schedules!Reactivate, Schedules!Fire,
         Schedules!Overtake, Schedules!observed
<1>4. CASE Schedules!Purge
      BY <1>1, <1>4 DEF Schedules!Purge, Schedules!NoFault, Schedules!observed
<1>5. CASE Schedules!Kill
      BY <1>5 DEF Schedules!Kill
<1>6. CASE UNCHANGED Schedules!vars
      BY <1>6 DEF Schedules!vars, Schedules!observed
<1> QED
    BY <1>2, <1>3, <1>4, <1>5, <1>6 DEF Schedules!Next

LEMMA ScheduleStep == ScheduleInv /\ [Schedules!Next]_Schedules!vars => ScheduleInv'
<1> SUFFICES ASSUME ScheduleInv, [Schedules!Next]_Schedules!vars PROVE ScheduleInv'
    OBVIOUS
<1>1. /\ trouble' \in Nat /\ overtaken' \in BOOLEAN /\ (Undisturbed' => Undisturbed)
      BY TroubleGrows DEF ScheduleInv
<1>2. ASSUME Undisturbed' PROVE ScheduleState'
  <2>1. ScheduleState /\ trouble \in Nat /\ ~overtaken'
        BY <1>1, <1>2 DEF ScheduleInv, Undisturbed
  <2>2. ASSUME NEW s \in Slots, Schedules!Session(s) PROVE ScheduleState'
        BY <1>2, <2>1, <2>2, BeginScheduleKeeps, MigrateKeeps, SchedulePermissionKeeps,
           CategoryKeeps, ConvergeKeeps, OpenKeeps, RequestKeeps, ScheduledKeeps,
           RejectedScheduleKeeps, CommitScheduleKeeps, RetireKeeps, RetiredKeeps, CloseKeeps,
           DisableKeeps, AbortKeeps DEF Schedules!Session
  <2>3. CASE UNCHANGED Schedules!vars
    <3>1. UNCHANGED <<tracked, migrated, suspended, os, made, due, gen, sid, active, ses, purge,
                      trouble, lostCall>>
          BY <2>3 DEF Schedules!vars, Schedules!kv, Schedules!world, Schedules!memory,
             Schedules!observed
    <3>2. ScheduleTypes' /\ PurgeFits' /\ SchedulesCovered'
          BY <2>1, <3>1 DEF ScheduleState, ScheduleTypes, PurgeFits, SchedulesCovered
    <3>3. StagesAreClean'
          BY <2>1, <3>1 DEF ScheduleState, StagesAreClean, Staging, Schedules!C
    <3>4. ASSUME NEW s \in Slots PROVE SessionFits(s)'
      <4>1. SessionFits(s)
            BY <2>1 DEF ScheduleState
      <4>2. /\ Schedules!State(s)' = Schedules!State(s) /\ ses' = ses
            /\ Schedules!Current(s)' = Schedules!Current(s)
            BY <3>1 DEF Schedules!State, Schedules!C, Schedules!Current
      <4> QED
          BY <3>1, <4>1, <4>2 DEF SessionFits, RunsAlone, KeepsNothing, ConvergeFits, OpenFits,
             BuildFits, RetireFits, AbortFits, DisableFits
    <3> QED
        BY <3>2, <3>3, <3>4 DEF ScheduleState
  <2> QED
      BY <1>2, <2>1, <2>2, <2>3, StartPurgeKeeps, PurgeReadKeeps, PurgeEndKeeps, WorldKeeps,
         ScheduleKillKeeps DEF Schedules!Next
<1> QED
    BY <1>1, <1>2 DEF ScheduleInv

\* Every scheduled notification is on record, for any bills, sessions, purges and
\* copies, until a session is overtaken, a second thing goes wrong, or the app is
\* killed inside the call that schedules one.
THEOREM EvidenceStaysOnRecord == Schedules!Spec => []Schedules!EvidenceUnlessOvertaken
<1>1. ScheduleInv => Schedules!EvidenceUnlessOvertaken
      BY DEF ScheduleInv, Undisturbed, ScheduleState, SchedulesCovered,
         Schedules!EvidenceUnlessOvertaken, Schedules!EvidenceCoversOS
<1> QED
    BY <1>1, ScheduleInit, ScheduleStep, PTL DEF Schedules!Spec

-----------------------------------------------------------------------------
(***************************************************************************)
(* The components side by side.                                            *)
(***************************************************************************)
InRequests  == part = "requests"
InSchedules == part = "schedules"
InAlerts    == part = "alerts"
InReconnect == part = "reconnect"

\* A behaviour stays in its part.
LEMMA PartsStay ==
    [MCNext]_allVars => /\ InRequests' <=> InRequests
                        /\ InSchedules' <=> InSchedules
                        /\ InAlerts' <=> InAlerts
                        /\ InReconnect' <=> InReconnect
  BY DEF MCNext, allVars, InRequests, InSchedules, InAlerts, InReconnect

LEMMA InRequestsItRuns ==
    /\ MCInit /\ InRequests => Init
    /\ [MCNext]_allVars /\ InRequests => [Next]_vars
<1>1. MCInit /\ InRequests => Init
      BY DEF MCInit, InRequests
<1>2. MCNext /\ InRequests => Next
      BY DEF MCNext, InRequests
<1>3. UNCHANGED allVars => UNCHANGED vars
      BY DEF allVars, ofRequests, app, server, vars
<1> QED
    BY <1>1, <1>2, <1>3

LEMMA InSchedulesItRuns ==
    /\ MCInit /\ InSchedules => Schedules!Init
    /\ [MCNext]_allVars /\ InSchedules => [Schedules!Next]_Schedules!vars
<1>1. MCInit /\ InSchedules => Schedules!Init
      BY DEF MCInit, InSchedules
<1>2. MCNext /\ InSchedules => Schedules!Next
      BY DEF MCNext, InSchedules
<1>3. UNCHANGED allVars => UNCHANGED Schedules!vars
      BY DEF allVars, ofSchedules, ofLanes, ofBoth, Schedules!vars, Schedules!kv,
         Schedules!world, Schedules!memory, Schedules!observed
<1> QED
    BY <1>1, <1>2, <1>3

LEMMA InAlertsItRuns ==
    /\ MCInit /\ InAlerts => Alerts!Init
    /\ [MCNext]_allVars /\ InAlerts => [Alerts!Next]_Alerts!vars
<1>1. MCInit /\ InAlerts => Alerts!Init
      BY DEF MCInit, InAlerts
<1>2. MCNext /\ InAlerts => Alerts!Next
      BY DEF MCNext, InAlerts
<1>3. UNCHANGED allVars => UNCHANGED Alerts!vars
      BY DEF allVars, ofAlerts, ofLanes, ofBoth, Alerts!vars, Alerts!kv, Alerts!memory,
         Alerts!history
<1> QED
    BY <1>1, <1>2, <1>3

LEMMA InReconnectItRuns ==
    /\ MCInit /\ InReconnect => Reconnect!Init
    /\ [MCNext]_allVars /\ InReconnect => [Reconnect!Next]_Reconnect!vars
<1>1. MCInit /\ InReconnect => Reconnect!Init
      BY DEF MCInit, InReconnect
<1>2. MCNext /\ InReconnect => Reconnect!Next
      BY DEF MCNext, InReconnect
<1>3. UNCHANGED allVars => UNCHANGED Reconnect!vars
      BY DEF allVars, ofReconnect, ofBoth, Reconnect!vars, Reconnect!ofOwner, Reconnect!ofApp,
         Reconnect!ofTimers
<1> QED
    BY <1>1, <1>2, <1>3

\* A request that may still have an effect keeps its record on the phone, in the
\* composition.
THEOREM RequestsStayOnRecord == MCSpec => []RequestsKeepTheirRecord
<1>1. (InRequests => UnsettledIsOnRecordUntilOvertaken) => RequestsKeepTheirRecord
      BY DEF InRequests, RequestsKeepTheirRecord
<1> QED
    BY <1>1, InRequestsItRuns, PartsStay, UnsettledStaysOnRecord, PTL DEF MCSpec, Spec

\* Every scheduled notification is on record until a session is overtaken or a
\* second thing goes wrong, in the composition.
THEOREM SchedulesKeepTheirEvidence == MCSpec => []SchedulesStayOnRecord
<1>1. (InSchedules => Schedules!EvidenceUnlessOvertaken) => SchedulesStayOnRecord
      BY DEF InSchedules, SchedulesStayOnRecord
<1> QED
    BY <1>1, InSchedulesItRuns, PartsStay, EvidenceStaysOnRecord, PTL DEF MCSpec, Schedules!Spec

\* An alert is shown at most once, in the composition.
THEOREM AlertsStayOnce == MCSpec => []AlertsAtMostOnce
<1>1. (InAlerts => Alerts!AtMostOnce) => AlertsAtMostOnce
      BY DEF InAlerts, AlertsAtMostOnce
<1> QED
    BY <1>1, InAlertsItRuns, PartsStay, AlertShownOnce, PTL DEF MCSpec, Alerts!Spec

\* A refresh that is due comes, a standing warning has its retry, and what is
\* confirmed was found after the last purge, in the composition.
THEOREM RefreshesStayAccountedFor == MCSpec => []RefreshesAreAccountedFor
<1>1. (InReconnect => /\ Reconnect!RefreshIsNotForgotten /\ Reconnect!RetryIsComing
                      /\ Reconnect!ConfirmedSinceThePurge) => RefreshesAreAccountedFor
      BY DEF InReconnect, RefreshesAreAccountedFor
<1> QED
    BY <1>1, InReconnectItRuns, PartsStay, RefreshesAccountedFor, PTL DEF MCSpec, Reconnect!Spec

=============================================================================
