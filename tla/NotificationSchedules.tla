---------------------- MODULE NotificationSchedules ----------------------
(***************************************************************************)
(* The scheduled lane of the app's local notifications: the weekly         *)
(* check-in and the bill reminders.  The operating system holds the        *)
(* scheduled notifications; a record in the key-value store says which of  *)
(* them the app knows of.  A session of the lane brings both in line with  *)
(* the settings: it converges what an earlier session left behind, opens a *)
(* stage under its own token, schedules a new set, commits it and retires  *)
(* the old one.  Every call to the operating system is an await, at which  *)
(* another session may begin, the profile may be purged, or the app may be *)
(* killed.  One server scope, one lane.                                    *)
(***************************************************************************)
EXTENDS Naturals, FiniteSets

CONSTANTS
    Slots,          \* the sessions that can be running at once
    Bills,          \* bills that can be due; DueToday of them is a same-day one
    DueToday,
    MaxSessions,    \* sessions one process of the app begins
    MaxCopies,      \* notifications ever scheduled for one item
    MaxTrouble      \* failed calls, kills and sessions or purges that overtake a session, together

Weekly == "weekly"
Cats == <<Weekly, "bills">>                   \* in the order a session takes them
Cat == {Cats[1], Cats[2]}
Items == Bills \union {Weekly}
Ids == Items \X (1 .. MaxCopies)
NoLane == [gen |-> 0, sid |-> 0]               \* a session's number is at least 1

VARIABLES
    tracked,    \* kv, per category: the ids on record and the token of the open stage
    migrated,   \* kv: schedules older than the record have been cancelled
    sameDay,    \* kv: bills whose same-day reminder counts as scheduled
    suspended,  \* kv: the purge tombstone of the scope
    os,         \* ids the operating system holds
    made,       \* per item, notifications scheduled so far
    wanted,     \* categories switched on
    due,        \* unpaid bills due now
    gen, sid,   \* memory: the profile's generation, the last session's number
    active,     \* memory: the token of the current session
    ses,        \* memory: the running sessions
    purge,      \* memory: the running purge of the profile
    trouble, overtaken, lostCall   \* observed: their number, an overtaking, a kill inside a schedule call

kv == <<tracked, migrated, sameDay, suspended>>
world == <<wanted, due>>
memory == <<gen, sid, active>>
observed == <<trouble, overtaken, lostCall>>
vars == <<kv, os, made, world, memory, ses, purge, observed>>

Empty == [canonical |-> {}, pending |-> {}, retiring |-> {}, cleanup |-> {},
          lane |-> NoLane, tomb |-> FALSE]
Idle == [pc |-> "idle", tok |-> NoLane, cat |-> 1, may |-> FALSE, snap |-> [c \in Cat |-> Empty],
         todo |-> {}, kept |-> {}, new |-> {}, prev |-> {}, left |-> {}]
NoPurge == [pc |-> "idle", cat |-> 1, snap |-> [c \in Cat |-> Empty], todo |-> {}, kept |-> {}]

AllTracked(st) == st.canonical \union st.pending \union st.retiring \union st.cleanup
Evidence(st) == st.pending \union st.retiring \union st.cleanup

Init ==
    /\ tracked = [c \in Cat |-> Empty]
    /\ migrated \in BOOLEAN
    /\ os = IF migrated THEN {} ELSE {<<Weekly, 1>>}
    /\ made = [i \in Items |-> IF i = Weekly /\ ~migrated THEN 1 ELSE 0]
    /\ sameDay = {} /\ suspended = FALSE
    /\ wanted = Cat /\ due \in SUBSET Bills
    /\ gen = 0 /\ sid = 0 /\ active = NoLane
    /\ ses = [s \in Slots |-> Idle] /\ purge = NoPurge
    /\ trouble = 0 /\ overtaken = FALSE /\ lostCall = FALSE

(***************************************************************************)
(* Tokens: a session is current while it is the lane's active one, of the  *)
(* profile's generation, in a scope that is not suspended.                 *)
(***************************************************************************)
Current(s) == ~suspended /\ ses[s].tok = active /\ ses[s].tok.gen = gen
Running == {s \in Slots : ses[s].pc # "idle"}
C(s) == Cats[ses[s].cat]
State(s) == tracked[C(s)]

Fault == trouble < MaxTrouble /\ trouble' = trouble + 1 /\ UNCHANGED <<overtaken, lostCall>>
NoFault == UNCHANGED observed
Overtake == IF Running = {} THEN UNCHANGED <<trouble, overtaken>>
            ELSE trouble < MaxTrouble /\ trouble' = trouble + 1 /\ overtaken' = TRUE

Become(s, r) == ses' = [ses EXCEPT ![s] = r]
Goto(s, pc) == Become(s, [ses[s] EXCEPT !.pc = pc])
Ended(s) == active' = IF active.sid = ses[s].tok.sid THEN NoLane ELSE active
Stale(s) == /\ Become(s, Idle) /\ Ended(s) /\ UNCHANGED <<gen, sid>>

(* The effect of a change of settings, bills, day, scope or generation: the *)
(* previous session is cancelled, a new one begins.                         *)
Begin(s) ==
    /\ ~suspended /\ ses[s].pc = "idle" /\ sid < MaxSessions
    /\ wanted' \in SUBSET Cat /\ due' \in SUBSET Bills
    /\ sid' = sid + 1 /\ active' = [gen |-> gen, sid |-> sid + 1]
    /\ Become(s, [Idle EXCEPT !.pc = "migrate", !.tok = active'])
    /\ Overtake
    /\ UNCHANGED <<kv, os, made, gen, purge, lostCall>>

(* Schedules older than the record are cancelled once; a failure puts the  *)
(* migration off and keeps this session from scheduling.                    *)
Migrate(s) ==
    /\ ses[s].pc = "migrate"
    /\ \/ Current(s) /\ migrated
          /\ Become(s, [ses[s] EXCEPT !.pc = "permission", !.may = TRUE])
          /\ NoFault /\ UNCHANGED <<migrated, os, memory>>
       \/ Current(s) /\ ~migrated
          /\ migrated' = TRUE /\ os' = {}
          /\ Become(s, [ses[s] EXCEPT !.pc = "permission", !.may = TRUE])
          /\ NoFault /\ UNCHANGED memory
       \/ Current(s) /\ ~migrated
          /\ Goto(s, "permission") /\ Fault /\ UNCHANGED <<migrated, os, memory>>
       \/ ~Current(s) /\ Stale(s) /\ NoFault /\ UNCHANGED <<migrated, os>>
    /\ UNCHANGED <<tracked, sameDay, suspended, made, world, purge>>

ReadPermission(s) ==
    /\ ses[s].pc = "permission"
    /\ \/ Current(s)
          /\ \E granted \in BOOLEAN :
                Become(s, [ses[s] EXCEPT !.pc = "category", !.may = @ /\ granted])
          /\ UNCHANGED memory
       \/ ~Current(s) /\ Stale(s)
    /\ UNCHANGED <<kv, os, made, world, purge, observed>>

NextCategory(r) == [r EXCEPT !.pc = "category", !.cat = @ + 1, !.todo = {}, !.kept = {},
                             !.new = {}, !.prev = {}, !.left = {}]

(* One category: nothing to do (bills not loaded among the reasons), or its *)
(* record is read before the first await, to cancel all of it when the     *)
(* category is off, else to converge what an earlier session left.          *)
Category(s) ==
    /\ ses[s].pc = "category"
    /\ IF ses[s].cat > 2 \/ ~Current(s) THEN Stale(s)
       ELSE /\ UNCHANGED memory
            /\ LET off == C(s) \notin wanted
                   ids == IF off THEN AllTracked(State(s)) ELSE Evidence(State(s))
               IN  \/ Become(s, IF (off /\ ids = {}) \/ (~off /\ ~ses[s].may) THEN NextCategory(ses[s])
                                ELSE [ses[s] EXCEPT !.pc = IF off THEN "disable" ELSE "converge",
                                                    !.snap = tracked, !.todo = ids])
                   \/ ~off /\ C(s) # Weekly /\ Become(s, NextCategory(ses[s]))
    /\ UNCHANGED <<kv, os, made, world, purge, observed>>

(* Cancelling is confirmed by listing what is scheduled afterwards: an id   *)
(* still listed, or a list that could not be read, keeps it as evidence.    *)
CancelOne(r) ==
    LET id == CHOOSE i \in r.todo : TRUE
        kept == [r EXCEPT !.todo = @ \ {id}, !.kept = @ \union {id}]
        result(left, then, sure) == [os |-> left, run |-> then, sure |-> sure]
    IN  {result(os \ {id}, [r EXCEPT !.todo = @ \ {id}], TRUE), result(os \ {id}, kept, FALSE)}
        \union (IF id \in os THEN {result(os, kept, FALSE)} ELSE {})
Cancelled(c) == os' = c.os /\ (IF c.sure THEN NoFault ELSE Fault)

Converged(st, kept) ==
    LET next == [st EXCEPT !.pending = @ \intersect kept, !.retiring = @ \intersect kept,
                           !.cleanup = @ \intersect kept]
    IN  IF Evidence(next) = {} THEN [next EXCEPT !.lane = NoLane, !.tomb = FALSE] ELSE next

Converge(s) ==
    /\ ses[s].pc = "converge"
    /\ IF ses[s].todo # {}
       THEN (\E c \in CancelOne(ses[s]) : Cancelled(c) /\ Become(s, c.run)) /\ UNCHANGED tracked
       ELSE /\ LET st == ses[s].snap[C(s)] IN
               tracked' = IF Evidence(st) = {} /\ st.lane = NoLane THEN tracked
                          ELSE [ses[s].snap EXCEPT ![C(s)] = Converged(st, ses[s].kept)]
            /\ Become(s, [ses[s] EXCEPT !.pc = "open", !.kept = {}])
            /\ NoFault /\ UNCHANGED os
    /\ UNCHANGED <<migrated, sameDay, suspended, made, world, memory, purge>>

(* The stage is opened under the session's token, unless another token      *)
(* holds it.  Pending and retiring ids are taken to be gone.                *)
Staged(st, tok) == [st EXCEPT !.pending = {}, !.retiring = {}, !.lane = tok, !.tomb = FALSE]
Open(s) ==
    /\ ses[s].pc = "open"
    /\ IF State(s).lane \notin {NoLane, ses[s].tok} THEN Stale(s) /\ UNCHANGED tracked
       ELSE /\ tracked' = [tracked EXCEPT ![C(s)] = Staged(@, ses[s].tok)]
            /\ Become(s, [ses[s] EXCEPT !.pc = "build", !.prev = State(s).canonical,
                            !.left = IF C(s) = Weekly THEN {Weekly} ELSE due \ sameDay])
            /\ UNCHANGED memory
    /\ UNCHANGED <<migrated, sameDay, suspended, os, made, world, purge, observed>>

(* An abort leaves a stage that another session has taken alone; else it    *)
(* cancels what it scheduled and restores the set committed before, or      *)
(* keeps the new one if that was committed already.                         *)
Aborted(st, prev, kept) ==
    IF st.retiring # {} \/ ~(st.canonical \subseteq prev)
    THEN [st EXCEPT !.pending = kept, !.lane = NoLane, !.tomb = FALSE]
    ELSE [Empty EXCEPT !.canonical = prev, !.pending = kept, !.cleanup = st.cleanup]
AbortFrom(s, trk) ==
    LET st == trk[C(s)] IN
    IF st.lane # ses[s].tok THEN tracked' = trk /\ Stale(s)
    ELSE IF st.pending = {}
    THEN tracked' = [trk EXCEPT ![C(s)] = Aborted(st, ses[s].prev, {})] /\ Stale(s)
    ELSE /\ tracked' = trk /\ UNCHANGED memory
         /\ Become(s, [ses[s] EXCEPT !.pc = "abort", !.todo = st.pending, !.kept = {}])
Abort(s) ==
    /\ ses[s].pc = "abort"
    /\ IF ses[s].todo # {}
       THEN (\E c \in CancelOne(ses[s]) : Cancelled(c) /\ Become(s, c.run)) /\ UNCHANGED <<tracked, memory>>
       ELSE /\ tracked' = IF State(s).lane # ses[s].tok THEN tracked
                          ELSE [tracked EXCEPT ![C(s)] = Aborted(@, ses[s].prev, ses[s].kept)]
            /\ Stale(s) /\ NoFault /\ UNCHANGED os
    /\ UNCHANGED <<migrated, sameDay, suspended, made, world, purge>>

(* One item is scheduled: the session is checked, the call is awaited, its  *)
(* id goes on record if the stage is still the session's.                   *)
Item(s) == CHOOSE i \in ses[s].left : TRUE
NewId(i) == <<i, made[i] + 1>>
Request(s) ==
    /\ ses[s].pc = "build" /\ ses[s].left # {} /\ made[Item(s)] < MaxCopies
    /\ IF Current(s) THEN Goto(s, "call") /\ UNCHANGED <<tracked, memory>>
       ELSE AbortFrom(s, tracked)
    /\ UNCHANGED <<migrated, sameDay, suspended, os, made, world, purge, observed>>
Scheduled(s) ==
    /\ ses[s].pc = "call" /\ made[Item(s)] < MaxCopies
    /\ LET i == Item(s)
           trk == IF State(s).lane # ses[s].tok THEN tracked
                  ELSE [tracked EXCEPT ![C(s)].pending = @ \union {NewId(i)}]
       IN  /\ os' = os \union {NewId(i)} /\ made' = [made EXCEPT ![i] = @ + 1]
           /\ IF Current(s) /\ State(s).lane = ses[s].tok
              THEN /\ tracked' = trk /\ UNCHANGED memory
                   /\ sameDay' = IF i \in DueToday THEN sameDay \union {i} ELSE sameDay
                   /\ Become(s, [ses[s] EXCEPT !.pc = "build", !.left = @ \ {i},
                                               !.new = @ \union {NewId(i)}])
              ELSE AbortFrom(s, trk) /\ UNCHANGED sameDay
    /\ UNCHANGED <<migrated, suspended, world, purge, observed>>
Rejected(s) ==
    /\ ses[s].pc = "call" /\ Fault /\ AbortFrom(s, tracked)
    /\ UNCHANGED <<migrated, sameDay, suspended, os, made, world, purge>>

(* The new set is committed, and what it replaces is retired id by id.      *)
Holds(s) == Current(s) /\ State(s).lane = ses[s].tok
Commit(s) ==
    /\ ses[s].pc = "build" /\ ses[s].left = {}
    /\ IF ~Holds(s) THEN AbortFrom(s, tracked)
       ELSE LET old == ses[s].prev \ ses[s].new IN
            /\ tracked' = [tracked EXCEPT ![C(s)] =
                             [@ EXCEPT !.canonical = ses[s].new, !.pending = {}, !.retiring = old]]
            /\ Become(s, [ses[s] EXCEPT !.pc = "retire", !.todo = old]) /\ UNCHANGED memory
    /\ UNCHANGED <<migrated, sameDay, suspended, os, made, world, purge, observed>>
Retire(s) ==
    /\ ses[s].pc = "retire" /\ ses[s].todo # {}
    /\ IF Current(s) THEN Goto(s, "retiring") /\ UNCHANGED <<tracked, memory>>
       ELSE AbortFrom(s, tracked)
    /\ UNCHANGED <<migrated, sameDay, suspended, os, made, world, purge, observed>>
Retired(s) ==
    /\ ses[s].pc = "retiring"
    /\ IF State(s).lane # ses[s].tok
       THEN \E o \in {os, os \ {CHOOSE i \in ses[s].todo : TRUE}} :
               os' = o /\ AbortFrom(s, tracked) /\ NoFault
       ELSE /\ \E c \in CancelOne(ses[s]) :
                  /\ Cancelled(c)
                  /\ Become(s, [c.run EXCEPT !.pc = "retire"])
                  /\ tracked' = [tracked EXCEPT ![C(s)].retiring =
                                    @ \ ((ses[s].todo \ c.run.todo) \ c.run.kept)]
            /\ UNCHANGED memory
    /\ UNCHANGED <<migrated, sameDay, suspended, made, world, purge>>
Close(s) ==
    /\ ses[s].pc = "retire" /\ ses[s].todo = {}
    /\ IF ~Holds(s) THEN AbortFrom(s, tracked)
       ELSE /\ tracked' = [tracked EXCEPT ![C(s)] =
                             [@ EXCEPT !.canonical = ses[s].new, !.pending = {}, !.lane = NoLane]]
            /\ Become(s, NextCategory(ses[s])) /\ UNCHANGED memory
    /\ UNCHANGED <<migrated, sameDay, suspended, os, made, world, purge, observed>>

(* A category switched off: all its ids are cancelled, the rest stays on    *)
(* record for cleanup; nothing is written by a session no longer current.   *)
Disable(s) ==
    /\ ses[s].pc = "disable"
    /\ IF ses[s].todo # {}
       THEN (\E c \in CancelOne(ses[s]) : Cancelled(c) /\ Become(s, c.run)) /\ UNCHANGED <<tracked, memory>>
       ELSE /\ NoFault /\ UNCHANGED os
            /\ IF ~Current(s) THEN Stale(s) /\ UNCHANGED tracked
               ELSE /\ tracked' = [ses[s].snap EXCEPT ![C(s)] = IF ses[s].kept = {} THEN Empty
                                     ELSE [Empty EXCEPT !.cleanup = @ \union ses[s].kept]]
                    /\ Become(s, NextCategory(ses[s])) /\ UNCHANGED memory
    /\ UNCHANGED <<migrated, sameDay, suspended, made, world, purge>>

(***************************************************************************)
(* Leaving the server: the scope is suspended on record before any await,  *)
(* its lanes are cancelled and the generation moves on; then every id of    *)
(* the scope is cancelled, and what is not confirmed stays under a          *)
(* tombstone.  The scope is admitted again when the user comes back to it.  *)
(***************************************************************************)
StartPurge ==
    /\ purge.pc = "idle" /\ ~suspended /\ gen = 0
    /\ suspended' = TRUE /\ gen' = gen + 1 /\ active' = NoLane
    /\ purge' = [NoPurge EXCEPT !.pc = "read"]
    /\ Overtake
    /\ UNCHANGED <<tracked, migrated, sameDay, os, made, world, sid, ses, lostCall>>
PurgeRead ==
    /\ purge.pc = "read"
    /\ purge' = [purge EXCEPT !.pc = "cancel", !.snap = tracked,
                              !.todo = UNION {AllTracked(tracked[c]) : c \in Cat}]
    /\ UNCHANGED <<kv, os, made, world, memory, ses, observed>>
\* Mutant: the tombstone keeps what was left over before, not the committed set.
TombstoneOfEvidence(st, kept) ==
    [Empty EXCEPT !.cleanup = Evidence(st) \intersect kept, !.tomb = Evidence(st) # {}]
Tombstone(st, kept) == IF AllTracked(st) \intersect kept = {} THEN Empty
                       ELSE [Empty EXCEPT !.cleanup = AllTracked(st) \intersect kept, !.tomb = TRUE]
Purge ==
    /\ purge.pc = "cancel"
    /\ IF purge.todo # {}
       THEN (\E c \in CancelOne(purge) : Cancelled(c) /\ purge' = c.run) /\ UNCHANGED <<tracked, sameDay>>
       ELSE /\ tracked' = [c \in Cat |-> Tombstone(purge.snap[c], purge.kept)]
            /\ sameDay' = {} /\ purge' = NoPurge /\ NoFault /\ UNCHANGED os
    /\ UNCHANGED <<migrated, suspended, made, world, memory, ses>>
Reactivate ==
    /\ suspended /\ purge.pc = "idle" /\ suspended' = FALSE
    /\ UNCHANGED <<tracked, migrated, sameDay, os, made, world, memory, ses, purge, observed>>

(***************************************************************************)
(* The environment: a bill reminder fires; the app is killed, with calls   *)
(* to the operating system in flight that took effect or did not.           *)
(***************************************************************************)
Fire == \E id \in os : id[1] \in Bills /\ os' = os \ {id}
                       /\ UNCHANGED <<kv, made, world, memory, ses, purge, observed>>
Calls == {s \in Slots : ses[s].pc = "call"}
Cancelling == {r \in {ses[s] : s \in Slots} \union {purge} :
                 r.pc \in {"converge", "abort", "disable", "retiring", "cancel"} /\ r.todo # {}}
Kill ==
    /\ Running # {} \/ purge.pc # "idle" \/ gen # 0
    /\ trouble < MaxTrouble /\ trouble' = trouble + 1
    /\ \E lost \in SUBSET {NewId(Item(s)) : s \in Calls},
          gone \in SUBSET {CHOOSE i \in r.todo : TRUE : r \in Cancelling} :
          /\ os' = (os \ gone) \union lost
          /\ made' = [i \in Items |-> made[i] + Cardinality({id \in lost : id[1] = i})]
    /\ lostCall' = (lostCall \/ Calls # {})
    /\ ses' = [s \in Slots |-> Idle] /\ purge' = NoPurge
    /\ gen' = 0 /\ sid' = 0 /\ active' = NoLane
    /\ UNCHANGED <<kv, world, overtaken>>

Session(s) ==
    \/ Begin(s) \/ Migrate(s) \/ ReadPermission(s) \/ Category(s) \/ Converge(s) \/ Open(s)
    \/ Request(s) \/ Scheduled(s) \/ Rejected(s) \/ Commit(s) \/ Retire(s) \/ Retired(s)
    \/ Close(s) \/ Disable(s) \/ Abort(s)
Next == (\E s \in Slots : Session(s)) \/ StartPurge \/ PurgeRead \/ Purge \/ Reactivate \/ Fire \/ Kill
Spec == Init /\ [][Next]_vars

(***************************************************************************)
(* Properties.                                                             *)
(***************************************************************************)
Quiet == Running = {} /\ purge.pc = "idle"

(* "IDs that must remain represented because they may still exist in the    *)
(* OS": when nothing runs, every scheduled notification is on record, so    *)
(* that a later session can replace or cancel it.  A kill inside the call   *)
(* that schedules one is beyond what the app can record.                    *)
EvidenceCoversOS == Quiet /\ migrated /\ ~lostCall
                    => os \subseteq UNION {AllTracked(tracked[c]) : c \in Cat}

(* The same as long as no session or purge overtook a running session and    *)
(* at most one thing went wrong: one failed cancellation, unread list,       *)
(* rejected call or kill loses no id.  A second may: an id whose cancelling  *)
(* failed stays pending under no token, or under the one that the first      *)
(* session after a kill is given again, and the next stage begins with      *)
(* nothing pending.                                                          *)
EvidenceUnlessOvertaken == ~overtaken /\ trouble <= 1 => EvidenceCoversOS

(* Replacing a set never costs the user the committed one: a session that   *)
(* converges, schedules, retires or aborts cancels no id that the record    *)
(* holds to be committed, while at most one thing went wrong.  After more a *)
(* session can write back the whole record it read before its awaits, over  *)
(* what a newer one committed in between.                                    *)
LosesCommitted(s) ==
    /\ trouble' <= 1
    /\ ses[s].pc \in {"converge", "call", "retiring", "abort"}
    /\ ses'[s].pc # "idle" /\ ses'[s] # ses[s]
    /\ \E c \in Cat : ~(tracked[c].canonical \intersect os \subseteq os')
CommittedOutlivesReplacement == [][\A s \in Slots : ~LosesCommitted(s)]_vars
=============================================================================
