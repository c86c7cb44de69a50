------------------------ MODULE NotificationAlerts ------------------------
(***************************************************************************)
(* The event lane of the app's local notifications: an alert for what is   *)
(* new since the baseline on record (large charges, low balances, new      *)
(* subscriptions, repayments).  A delivery marker goes on record before    *)
(* the operating system is asked to present the alert, the baseline after. *)
(* In between another session may begin, the profile may be purged, or the *)
(* app may be killed.  One category, in one server scope.                  *)
(***************************************************************************)
EXTENDS Naturals, FiniteSets

CONSTANTS
    Slots,         \* the sessions that can be running at once
    Things,        \* what can be alerted about
    Cumulative,    \* the baseline only grows (large charges), else it is what is present
    MaxSessions,   \* sessions one process of the app begins
    MaxTrouble     \* rejected calls, kills and purges, together

NoBaseline == [seen |-> FALSE, things |-> {}]

VARIABLES
    baseline, markers, suspended,   \* kv
    present,                        \* the things there are now, as the server tells it
    gen, sid, active,               \* memory: generation, last session, current session
    ses, purging,                   \* memory: the running sessions, a running purge
    shown,                          \* observed: alerts the user saw since the last purge
    trouble,
    overtaken                       \* history: a rejected call took back a later session's marker

kv == <<baseline, markers, suspended>>
memory == <<gen, sid, active>>
history == <<shown, overtaken>>
vars == <<kv, present, memory, ses, purging, trouble, history>>

Idle == [pc |-> "idle", gen |-> 0, sid |-> 0, things |-> {}, key |-> {}]

Init ==
    /\ baseline = NoBaseline /\ markers = {} /\ suspended = FALSE
    /\ present \in SUBSET Things
    /\ gen = 0 /\ sid = 0 /\ active = 0
    /\ ses = [s \in Slots |-> Idle]
    /\ purging = FALSE /\ shown = [k \in SUBSET Things |-> 0] /\ trouble = 0
    /\ overtaken = FALSE

Current(s) == ~suspended /\ ses[s].sid = active /\ ses[s].gen = gen
Trouble == trouble < MaxTrouble /\ trouble' = trouble + 1
End(s) == /\ ses' = [ses EXCEPT ![s] = Idle]
          /\ active' = IF active = ses[s].sid THEN 0 ELSE active
          /\ UNCHANGED <<gen, sid>>

(* New data, settings or a new generation: the running session of the lane  *)
(* is cancelled and another one begins with the data there is now.          *)
Begin(s) ==
    /\ ~suspended /\ ses[s].pc = "idle" /\ sid < MaxSessions
    /\ present' \in SUBSET Things /\ sid' = sid + 1 /\ active' = sid + 1
    /\ ses' = [ses EXCEPT ![s] = [pc |-> "permission", gen |-> gen, sid |-> sid + 1,
                                  things |-> present', key |-> {}]]
    /\ UNCHANGED <<kv, gen, trouble, purging, history>>

ReadPermission(s) ==
    /\ ses[s].pc = "permission"
    /\ \/ Current(s) /\ ses' = [ses EXCEPT ![s].pc = "check"] /\ UNCHANGED memory
       \/ End(s)
    /\ UNCHANGED <<kv, present, trouble, purging, history>>

NewBaseline(s) == [seen |-> TRUE, things |-> ses[s].things \union
                                     IF Cumulative THEN baseline.things ELSE {}]
Fresh(s) == ses[s].things \ baseline.things

\* Mutant: the marker is left to the session's end.
CheckUnmarked(s) ==
    /\ ses[s].pc = "check" /\ Current(s)
    /\ IF ~baseline.seen \/ Fresh(s) = {} THEN baseline' = NewBaseline(s) /\ End(s)
       ELSE /\ ses' = [ses EXCEPT ![s] = [@ EXCEPT !.pc = "present", !.key = Fresh(s)]]
            /\ UNCHANGED <<baseline, memory>>
    /\ UNCHANGED <<markers, suspended, present, trouble, purging, history>>

(* The first session records a baseline and alerts about nothing; later     *)
(* ones record the marker and ask for the alert, unless the marker is there. *)
Check(s) ==
    /\ ses[s].pc = "check"
    /\ IF ~Current(s) THEN End(s) /\ UNCHANGED <<baseline, markers>>
       ELSE IF ~baseline.seen \/ Fresh(s) = {} \/ Fresh(s) \in markers
       THEN baseline' = NewBaseline(s) /\ End(s) /\ UNCHANGED markers
       ELSE /\ markers' = markers \union {Fresh(s)}
            /\ ses' = [ses EXCEPT ![s] = [@ EXCEPT !.pc = "present", !.key = Fresh(s)]]
            /\ UNCHANGED <<baseline, memory>>
    /\ UNCHANGED <<suspended, present, trouble, purging, history>>

(* An alert of a profile that was left is not counted: it is dismissed.      *)
Show(s) == shown' = IF ses[s].gen = gen THEN [shown EXCEPT ![ses[s].key] = @ + 1] ELSE shown
Presented(s) ==
    /\ ses[s].pc = "present" /\ Show(s) /\ End(s)
    /\ baseline' = IF Current(s) THEN NewBaseline(s) ELSE baseline
    /\ UNCHANGED <<markers, suspended, present, trouble, purging, overtaken>>

(* A rejected call takes its marker back, for a later session to try again. *)
(* The catch does not ask whose marker it is: a purge may have cleared its  *)
(* own, and a session that began since have set the same one.               *)
MarkedAgain(s) ==
    /\ ses[s].gen # gen
    /\ \/ shown[ses[s].key] > 0
       \/ \E t \in Slots : /\ ses[t].pc = "present" /\ ses[t].gen = gen
                           /\ ses[t].key = ses[s].key
TakeBack(s) == markers' = markers \ {ses[s].key}
Rejected(s) ==
    /\ ses[s].pc = "present" /\ TakeBack(s) /\ End(s) /\ Trouble
    /\ overtaken' = (overtaken \/ MarkedAgain(s))
    /\ UNCHANGED <<baseline, suspended, present, shown, purging>>

(* Leaving the server: the scope is suspended at once, its records are      *)
(* cleared after the calls the purge awaits; and coming back to it.         *)
Purge ==
    /\ ~suspended /\ ~purging /\ Trouble /\ gen' = gen + 1 /\ active' = 0
    /\ suspended' = TRUE /\ purging' = TRUE
    /\ UNCHANGED <<baseline, markers, present, sid, ses, history>>
ClearBaselines ==
    /\ purging /\ purging' = FALSE /\ baseline' = NoBaseline /\ markers' = {}
    /\ shown' = [k \in SUBSET Things |-> 0]
    /\ UNCHANGED <<suspended, present, memory, ses, trouble, overtaken>>
Reactivate ==
    /\ suspended /\ ~purging /\ suspended' = FALSE
    /\ UNCHANGED <<baseline, markers, present, memory, ses, trouble, purging, history>>

(* A kill: a call in flight is presented or not.                            *)
InFlight == {s \in Slots : ses[s].pc = "present" /\ ses[s].gen = gen}
About(out, k) == {s \in out : ses[s].key = k}
ShowAll(out) ==
    shown' = [k \in SUBSET Things |-> shown[k] + Cardinality(About(out, k))]
Kill ==
    /\ purging \/ \E s \in Slots : ses[s].pc # "idle"
    /\ Trouble
    /\ \E out \in SUBSET InFlight : ShowAll(out)
    /\ ses' = [s \in Slots |-> Idle] /\ purging' = FALSE
    /\ gen' = 0 /\ sid' = 0 /\ active' = 0
    /\ UNCHANGED <<kv, present, overtaken>>

Session(s) == Begin(s) \/ ReadPermission(s) \/ Check(s) \/ Presented(s) \/ Rejected(s)
Next == (\E s \in Slots : Session(s)) \/ Purge \/ ClearBaselines \/ Reactivate \/ Kill
Spec == Init /\ [][Next]_vars

(* The tradeoff presentOnce names: an alert is shown at most once, whatever *)
(* sessions overtake each other and wherever the app is killed, as long as  *)
(* no late rejection took back the marker of a later session.               *)
AtMostOnce == ~overtaken => \A k \in SUBSET Things : shown[k] <= 1
=============================================================================
