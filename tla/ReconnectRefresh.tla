--------------------------- MODULE ReconnectRefresh ---------------------------
(***************************************************************************)
(* What the phone app does when its connection comes back:                 *)
(* reconnect-refresh.js with the connectivity tracker and the stale        *)
(* warnings, as the component reconnect-refresh-owner.tsx configures it    *)
(* from the profile, and the purge of a profile (profile-purge.ts).        *)
(*                                                                         *)
(* A run asks the server how fresh its data are, reconciles the pending    *)
(* mutations and fetches the active queries again; each of the three is an *)
(* await, in which everything else may happen.  A profile is changed in    *)
(* three steps: the purge, the commit of the new settings, the effect that *)
(* tells the owner.                                                        *)
(*                                                                         *)
(* Source identities, error classes and reasons of a refresh are left out; *)
(* a backoff is none, cooling down, or over.                               *)
(***************************************************************************)
EXTENDS Integers, FiniteSets

CONSTANTS
    Scopes,        \* profiles with a server
    Demo, Nobody,  \* the scope of the demo mode; the app without a profile
    MaxPurges,     \* bound: purges of a profile
    MaxRuns,       \* bound: runs that wait at once
    MaxTrouble     \* bound: failing calls of runs that are current

VARIABLES
    phase,              \* connectivity: unknown, offline, online
    scope, gen, active, \* of the owner
    runs,               \* the runs that wait; the one in flight is `current`
    pending,            \* pendingReason
    debounce, settle, retry,     \* its timers, retry being backoffTimer
    backoff,            \* backoffMs > 0, and whether that long has passed since lastFailedAt
    confirmed,          \* per scope: the generation whose run has confirmed an identity
    warned,             \* per scope: no stale warning, one "here", or one of an "old" profile
    profile,            \* scope and generation the app has committed
    switching,          \* a change of settings has purged and not yet committed
    owed,               \* the connection came back and no run has started since
    purgedAt,           \* per scope: the generation its last purge began
    trouble

ofTimers == <<debounce, settle, retry>>
ofOwner  == <<scope, gen, active>>
ofApp    == <<profile, switching, purgedAt>>
vars == <<phase, ofOwner, runs, pending, ofTimers, backoff, confirmed, warned, ofApp, owed, trouble>>

Never == -1

Init ==
    /\ phase = "unknown"
    /\ \E s \in Scopes : scope = s /\ profile = [scope |-> s, gen |-> 0]
    /\ gen = 0 /\ active = TRUE /\ switching = FALSE
    /\ runs = {} /\ pending = FALSE /\ owed = FALSE
    /\ debounce = FALSE /\ settle = FALSE /\ retry = FALSE
    /\ backoff = "none"
    /\ confirmed = [s \in Scopes |-> Never]
    /\ warned = [s \in Scopes |-> "none"]
    /\ purgedAt = [s \in Scopes |-> 0]
    /\ trouble = 0

InFlight == \E r \in runs : r.current

\* assertRunCurrent
Current(r) == r.current /\ r.scope = scope /\ r.gen = gen /\ active

-----------------------------------------------------------------------------
(* The owner's methods, on variables that no other conjunct of a step sets. *)

\* Mutant: a refresh that cannot start now is dropped.
StartOrDrop(timer) ==
    /\ debounce' = timer
    /\ UNCHANGED pending
    /\ IF ~active \/ InFlight \/ backoff = "cooling"
       THEN UNCHANGED <<runs, owed>>
       ELSE /\ Cardinality(runs) < MaxRuns
            /\ runs' = runs \cup {[scope |-> scope, gen |-> gen, stage |-> "fetch",
                                   current |-> TRUE, born |-> profile.gen]}
            /\ owed' = FALSE

\* startRefresh, where the debounce timer becomes `timer`.
Start(timer) ==
    /\ debounce' = timer
    /\ IF ~active
       THEN UNCHANGED <<runs, pending, owed>>
       ELSE IF InFlight \/ backoff = "cooling"
            THEN pending' = TRUE /\ UNCHANGED <<runs, owed>>
            ELSE /\ Cardinality(runs) < MaxRuns
                 /\ runs' = runs \cup {[scope |-> scope, gen |-> gen, stage |-> "fetch",
                                        current |-> TRUE, born |-> profile.gen]}
                 /\ owed' = FALSE
                 /\ UNCHANGED pending

\* A run that is no longer in flight never is again: its generation is forgotten.
Aborted(r) == [r EXCEPT !.current = FALSE, !.gen = Never, !.born = Never]

\* clearScheduledWork, abortInFlight and the end of the pending reason.
Cleared ==
    /\ debounce' = FALSE /\ settle' = FALSE /\ retry' = FALSE
    /\ runs' = {Aborted(r) : r \in runs}
    /\ pending' = FALSE /\ owed' = FALSE

\* The `finally` of executeRefresh: r ends, a pending reason is queued.
End(r) ==
    /\ runs' = runs \ {r}
    /\ IF pending /\ ~\E q \in runs \ {r} : q.current
       THEN pending' = FALSE /\ debounce' = TRUE
       ELSE UNCHANGED <<pending, debounce>>

-----------------------------------------------------------------------------
(* Events. *)

Mounted == profile.scope # Nobody

\* The component listens to the network while it has made the owner active.
Snapshot ==
    /\ Mounted /\ active
    /\ \E p \in {"unknown", "offline", "online"} \ {phase} :
        /\ phase' = p
        /\ settle' = CASE phase = "offline" /\ p = "online" -> TRUE
                       [] p = "offline" -> FALSE
                       [] OTHER -> settle
        /\ owed' = (p = "online" /\ (owed \/ phase = "offline"))
    /\ UNCHANGED <<ofOwner, runs, pending, debounce, retry, backoff, confirmed, warned, ofApp, trouble>>

Settle ==
    /\ settle /\ settle' = FALSE
    /\ debounce' = (debounce \/ phase = "online")
    /\ UNCHANGED <<phase, ofOwner, runs, pending, retry, backoff, confirmed, warned, ofApp, owed, trouble>>

Debounce ==
    /\ debounce /\ Start(FALSE)
    /\ UNCHANGED <<phase, ofOwner, settle, retry, backoff, confirmed, warned, ofApp, trouble>>

\* The timer runs out with the time that startRefresh compares.
Retry ==
    /\ retry /\ retry' = FALSE /\ backoff # "cooling"
    /\ debounce' = TRUE
    /\ UNCHANGED <<phase, ofOwner, runs, pending, settle, backoff, confirmed, warned, ofApp, owed, trouble>>

CoolDown ==
    /\ backoff = "cooling" /\ backoff' = "over"
    /\ UNCHANGED <<phase, ofOwner, runs, pending, ofTimers, confirmed, warned, ofApp, owed, trouble>>

\* noteForegroundCoincidence
Foreground ==
    /\ Mounted /\ (InFlight \/ pending \/ debounce \/ settle)
    /\ pending' = TRUE
    /\ debounce' = (debounce \/ ~InFlight)
    /\ UNCHANGED <<phase, ofOwner, runs, settle, retry, backoff, confirmed, warned, ofApp, owed, trouble>>

\* A tap on a banner, or a ping that works again.
AskedFor ==
    /\ Mounted /\ Start(debounce)
    /\ UNCHANGED <<phase, ofOwner, settle, retry, backoff, confirmed, warned, ofApp, trouble>>

\* A call of run r returns: the next await, or the end of the run.
Returns ==
    \E r \in runs :
        /\ IF Current(r) /\ r.stage # "refetch"
           THEN /\ runs' = (runs \ {r}) \cup
                      {[r EXCEPT !.stage = IF r.stage = "fetch" THEN "reconcile" ELSE "refetch"]}
                /\ UNCHANGED <<pending, debounce>>
           ELSE End(r)
        /\ IF Current(r) /\ r.stage = "refetch"
           THEN /\ confirmed' = [confirmed EXCEPT ![r.scope] = r.born]
                /\ warned' = [warned EXCEPT ![r.scope] = "none"]
                /\ backoff' = "none"
           ELSE UNCHANGED <<confirmed, warned, backoff>>
        /\ UNCHANGED <<phase, ofOwner, settle, retry, ofApp, owed, trouble>>

\* A call of run r fails; reconciliation keeps its errors to itself.  Whether the
\* run is still current is not asked: its scope gets the warning, the owner the
\* backoff.
Fails ==
    \E r \in runs :
        /\ r.stage # "reconcile"
        /\ IF r.current THEN trouble < MaxTrouble /\ trouble' = trouble + 1 ELSE UNCHANGED trouble
        /\ End(r)
        /\ warned' = [warned EXCEPT ![r.scope] = IF r.scope = scope THEN "here" ELSE "old"]
        /\ backoff' = "cooling"
        /\ retry' = active
        /\ UNCHANGED <<phase, ofOwner, settle, confirmed, ofApp, owed>>

-----------------------------------------------------------------------------
(* The profile. *)

\* purgeFinanceProfile: the generation, the owner's state, the requests.  By the
\* time settings are changed, the effect of the last change has run.
Purge ==
    /\ ~switching /\ switching' = TRUE
    /\ Mounted => scope = profile.scope
    /\ profile.gen < MaxPurges /\ profile' = [profile EXCEPT !.gen = @ + 1]
    /\ Cleared /\ backoff' = "none"
    /\ LET s == profile.scope IN
       IF s \in Scopes
       THEN /\ confirmed' = [confirmed EXCEPT ![s] = Never]
            /\ warned' = [warned EXCEPT ![s] = "none"]
            /\ purgedAt' = [purgedAt EXCEPT ![s] = profile'.gen]
       ELSE UNCHANGED <<confirmed, warned, purgedAt>>
    /\ UNCHANGED <<phase, ofOwner, trouble>>

\* The settings are committed, or the old ones stay.
Commit ==
    /\ switching /\ switching' = FALSE
    /\ \E s \in Scopes \cup {Demo, Nobody} : profile' = [profile EXCEPT !.scope = s]
    /\ UNCHANGED <<phase, ofOwner, runs, pending, ofTimers, backoff, confirmed, warned, purgedAt,
                   owed, trouble>>

\* The component's effect: setScope, setProfileGeneration, setActive.  It is not
\* run when the component goes away.
Configure ==
    /\ Mounted /\ (scope # profile.scope \/ gen # profile.gen)
    /\ scope' = profile.scope /\ gen' = profile.gen /\ active' = (profile.scope # Demo)
    /\ Cleared /\ backoff' = "none"
    /\ warned' = [s \in Scopes |-> IF warned[s] = "none" THEN "none" ELSE "old"]
    /\ UNCHANGED <<phase, confirmed, ofApp, trouble>>

Next ==
    \/ Snapshot \/ Settle \/ Debounce \/ Retry \/ CoolDown
    \/ Foreground \/ AskedFor \/ Returns \/ Fails
    \/ Purge \/ Commit \/ Configure

Spec == Init /\ [][Next]_vars

-----------------------------------------------------------------------------
(* Properties. *)

\* A connection that came back, and a refresh asked for while another runs or
\* the backoff lasts, is not forgotten: a timer or the end of a run will start
\* it, however events overtake each other (reconnect-refresh.js:197).
RefreshIsNotForgotten ==
    /\ owed => settle \/ debounce \/ pending
    /\ pending => InFlight \/ debounce \/ retry

\* The warning that the data of the current profile may be stale stands only
\* while a retry is on its way, if it was set since the owner knows the profile
\* (reconnect-refresh.js:188).
RetryIsComing ==
    LET known == active /\ scope = profile.scope /\ gen = profile.gen
    IN  known /\ scope \in Scopes /\ warned[scope] = "here" => InFlight \/ debounce \/ retry

\* What is confirmed of a profile, a run found that began after its last purge
\* (reconnect-refresh.js:149).
ConfirmedSinceThePurge ==
    \A s \in Scopes : confirmed[s] # Never => confirmed[s] >= purgedAt[s]

=============================================================================
