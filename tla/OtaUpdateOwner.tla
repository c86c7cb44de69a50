---------------------------- MODULE OtaUpdateOwner ----------------------------
(***************************************************************************)
(* Over-the-air updates of the phone app: ota-update-owner.js with the     *)
(* reducer of ota-update-state.js and the deferral ota-update-persistence  *)
(* keeps on disk, as auto-update.ts wires them to the root layout and to   *)
(* expo-updates.                                                           *)
(*                                                                         *)
(* A purge of the profile throws the shared owner away; timers, pipelines  *)
(* and alerts of the old one stay, and so do the effects of the component  *)
(* until it renders again.  Owners are numbered in the order of creation.  *)
(* Updates are numbered as published; 0 is no update.  Time is the number  *)
(* of cooldowns that have elapsed: the n-th "Later" defers until n.        *)
(*                                                                         *)
(* Builds without updates, status texts and listeners are left out.        *)
(***************************************************************************)
EXTENDS Integers

CONSTANTS
    NoRecord,      \* no deferral on disk
    MaxUpdates,    \* bound: updates published
    MaxOwners,     \* bound: owners of one process, one more than its purges
    MaxLaters,     \* bound: answers "Later"
    MaxTrouble     \* bound: failing calls and kills

VARIABLES
    own,           \* the owners of the process
    pipes,         \* their check pipelines and reloads that wait for an answer
    born,          \* owners created in this process
    shared,        \* sharedOwner of auto-update.ts, 0 for null
    mounted,       \* the owner the component's effects use, 0 before the first render
    alerts,        \* the alerts on the screen
    deferral,      \* the record on disk
    native,        \* otaNativePendingRef
    fetched,       \* the update expo-updates holds for the next start
    running,       \* the update that runs
    latest,        \* the update the update server has
    front, canPrompt,       \* AppState is active; the privacy gate is open
    laters, elapsed,        \* answers "Later"; cooldowns elapsed
    later,                  \* until when the user put each update off
    strayed,       \* an alert was answered that Strays
    trouble

ofOwners == <<born, shared, mounted>>
ofPhone  == <<native, fetched, running, latest, front, canPrompt>>
ofUser   == <<laters, elapsed, later, strayed>>
vars == <<own, pipes, alerts, deferral, ofOwners, ofPhone, ofUser, trouble>>

Owners  == 1 .. MaxOwners
Updates == 1 .. MaxUpdates
Busy    == {"checking", "available", "downloading", "restarting"}

\* createInitialOtaUpdateState: the part of an owner that the reducer keeps.
Fresh(id, until) ==
    [phase |-> IF id = 0 THEN "idle" ELSE "downloaded", id |-> id, src |-> "none",
     prompted |-> 0, until |-> IF id = 0 THEN 0 ELSE until]

NewOwner ==
    [st |-> Fresh(0, 0), active |-> TRUE, gate |-> FALSE, promptTimer |-> FALSE,
     cooldownTimer |-> 0, throttled |-> FALSE, inFlight |-> FALSE, queued |-> 0,
     initialized |-> FALSE]

Init ==
    /\ own = [i \in Owners |-> NewOwner]
    /\ pipes = {} /\ alerts = {} /\ born = 0 /\ shared = 0 /\ mounted = 0
    /\ deferral = NoRecord
    /\ native = 0 /\ fetched = 0 /\ running = 0 /\ latest = 0
    /\ front = TRUE /\ canPrompt = FALSE
    /\ laters = 0 /\ elapsed = 0
    /\ later = [u \in Updates |-> 0] /\ strayed = FALSE
    /\ trouble = 0

-----------------------------------------------------------------------------
(* The reducer.  `until` is 0 where the code has null.  An expired record   *)
(* reads as none; that the read also erases it changes nothing further.     *)

DeferredUntil(rec, id) ==
    IF rec # NoRecord /\ rec.id = id /\ rec.until > elapsed THEN rec.until ELSE 0

\* Mutant: the record on disk is not asked.
NativePendingAnew(st, id, rec) ==
    IF st.phase \in {"downloaded", "prompted"} /\ st.id = id THEN st ELSE Fresh(id, 0)

NativePendingDetected(st, id, rec) ==
    IF st.phase \in {"downloaded", "prompted"} /\ st.id = id
    THEN st ELSE Fresh(id, DeferredUntil(rec, id))

CanCheck(st) == st.phase \notin Busy \cup {"downloaded", "prompted"}

CheckRequested(st, src) == [st EXCEPT !.phase = "checking", !.src = src]

CheckSucceeded(st, available, id, rec) ==
    CASE st.phase # "checking" -> st
      [] ~available ->
            [st EXCEPT !.phase = "idle", !.id = 0, !.src = "none", !.prompted = 0]
      [] available /\ id = 0 -> [st EXCEPT !.phase = "error", !.src = "none"]
      [] available /\ id # 0 /\ st.src = "auto" /\ DeferredUntil(rec, id) # 0 ->
            [phase |-> "deferred", id |-> id, src |-> "none", prompted |-> 0,
             until |-> DeferredUntil(rec, id)]
      [] OTHER -> [st EXCEPT !.phase = "available", !.id = id, !.prompted = 0]

DownloadStarted(st) == IF st.phase = "available" THEN [st EXCEPT !.phase = "downloading"] ELSE st

DownloadSucceeded(st, id, rec) ==
    IF st.phase \in {"downloading", "available"} THEN Fresh(id, DeferredUntil(rec, id)) ELSE st

Failed(st) == [st EXCEPT !.phase = "error", !.src = "none"]

PromptDeferred(st, until) ==
    IF st.phase = "prompted"
    THEN [st EXCEPT !.phase = "deferred", !.prompted = 0, !.until = until] ELSE st

CooldownExpired(st) ==
    IF st.phase = "deferred" /\ st.until <= elapsed
    THEN [st EXCEPT !.phase = "idle", !.id = 0, !.prompted = 0, !.until = 0] ELSE st

RestartRequested(st) == [st EXCEPT !.phase = "restarting", !.prompted = 0, !.until = 0]

RestartFailed(st) ==
    IF st.phase = "restarting"
    THEN [st EXCEPT !.phase = "downloaded", !.prompted = 0, !.until = 0] ELSE st

ShouldPrompt(o) ==
    /\ o.st.phase = "downloaded" /\ o.st.id # 0 /\ o.st.prompted # o.st.id
    /\ o.active /\ o.gate
    /\ o.st.until <= elapsed

-----------------------------------------------------------------------------
(* The owner's methods.  Each maps a world - the owner `o`, its pipelines    *)
(* `ps`, the record on disk `rec` - to the next; `n` is getNativePending.   *)
(* A pipeline knows whether its generation and its token are still the      *)
(* owner's: both are counters, compared for equality only.                  *)

World(i) == [o |-> own[i], ps |-> {p \in pipes : p.owner = i}, rec |-> deferral]

SchedulePrompt(w) == [w EXCEPT !.o.promptTimer = ShouldPrompt(w.o)]

ApplyNative(w, id) ==
    SchedulePrompt([w EXCEPT !.o.st = NativePendingDetected(w.o.st, id, w.rec)])

SyncNative(w, n) ==
    CASE n = 0 -> w
      [] n # 0 /\ w.o.inFlight -> [w EXCEPT !.o.queued = n]
      [] n # 0 /\ ~w.o.inFlight /\ w.o.st.phase = "downloaded" /\ w.o.st.id = n -> w
      [] OTHER -> ApplyNative(w, n)

Outdated(ps) == {[p EXCEPT !.gen = FALSE, !.tok = FALSE] : p \in ps}

RunCheck(w, i, src) ==
    IF w.o.inFlight THEN w
    ELSE [w EXCEPT !.o.inFlight = TRUE,
                   !.ps = Outdated(w.ps) \cup {[owner |-> i, stage |-> "check", src |-> src,
                                                gen |-> TRUE, tok |-> TRUE]}]

MaybeAutoCheck(w, i) ==
    LET st == IF CanCheck(w.o.st) /\ ~w.o.throttled
              THEN CheckRequested(w.o.st, "auto") ELSE w.o.st
        x == [w EXCEPT !.o.st = st]
    IN  IF st.phase = "checking" /\ st.src = "auto" THEN RunCheck(x, i, "auto") ELSE x

RequestManualCheck(w, i) ==
    LET st == IF CanCheck(w.o.st) THEN CheckRequested(w.o.st, "manual") ELSE w.o.st
        x == [w EXCEPT !.o.st = st]
    IN  IF st.phase = "checking" /\ st.src = "manual" THEN RunCheck(x, i, "manual") ELSE x

Invalidated(w) ==
    [w EXCEPT !.ps = Outdated(w.ps), !.o.queued = 0, !.o.inFlight = FALSE,
              !.o.promptTimer = FALSE, !.o.cooldownTimer = 0]

\* A deferral of the update that waits natively also arms its cooldown timer.
Initialize(w, n) ==
    IF w.o.initialized THEN w
    ELSE LET until == DeferredUntil(w.rec, n)
             x == [Invalidated(w) EXCEPT !.o.st = Fresh(n, until), !.o.initialized = TRUE,
                                         !.o.cooldownTimer = IF n = 0 THEN 0 ELSE until]
         IN  SchedulePrompt(x)

SetAppActive(w, i, n, on) ==
    LET x == [w EXCEPT !.o.active = on]
    IN  IF on THEN SchedulePrompt(MaybeAutoCheck(SyncNative(x, n), i))
        ELSE [x EXCEPT !.o.promptTimer = FALSE]

SetPromptGateOpen(w, on) ==
    LET x == [w EXCEPT !.o.gate = on]
    IN  IF on THEN SchedulePrompt(x) ELSE [x EXCEPT !.o.promptTimer = FALSE]

\* Mutant: whichever pipeline ends, the owner is free again.
FinishWhoever(w, p) == [w EXCEPT !.o.inFlight = FALSE, !.o.queued = 0]

\* The end of a pipeline: the `finally` of runCheck.
Finish(w, p) ==
    LET x == [w EXCEPT !.o.inFlight = FALSE]
        y == [x EXCEPT !.o.throttled = (p.src = "auto") \/ @, !.o.queued = 0]
    IN  CASE ~p.tok -> w
          [] p.tok /\ ~p.gen -> x
          [] p.tok /\ p.gen /\ x.o.queued = 0 -> y
          [] OTHER -> ApplyNative(y, x.o.queued)

CheckAnswered(w, p, available, id) ==
    LET st == CheckSucceeded(w.o.st, available, id, w.rec)
        x == [w EXCEPT !.o.st = st]
    IN  CASE ~p.gen -> Finish(w, p)
          [] p.gen /\ st.phase = "available" /\ p.tok ->
                [x EXCEPT !.o.st = DownloadStarted(st), !.ps = @ \cup {[p EXCEPT !.stage = "fetch"]}]
          [] p.gen /\ st.phase = "downloaded" -> Finish(SchedulePrompt(x), p)
          [] OTHER -> Finish(x, p)

Fetched(w, p, id) ==
    IF p.gen
    THEN Finish(SchedulePrompt([w EXCEPT !.o.st = DownloadSucceeded(w.o.st, id, w.rec)]), p)
    ELSE Finish(w, p)

CallFailed(w, p) == Finish(IF p.gen THEN [w EXCEPT !.o.st = Failed(w.o.st)] ELSE w, p)

-----------------------------------------------------------------------------
(* Steps. *)

\* The world of owner i becomes w.
Becomes(i, w) ==
    /\ own' = [own EXCEPT ![i] = w.o]
    /\ pipes' = {p \in pipes : p.owner # i} \cup w.ps
    /\ deferral' = w.rec

Without(i, p) == [World(i) EXCEPT !.ps = @ \ {p}]

CheckEnds(i) ==
    \E p \in World(i).ps :
        /\ p.stage = "check"
        /\ \/ /\ Becomes(i, CheckAnswered(Without(i, p), p, latest > running, latest))
              /\ UNCHANGED trouble
           \/ /\ trouble < MaxTrouble /\ trouble' = trouble + 1
              /\ \/ Becomes(i, CallFailed(Without(i, p), p))
                 \/ Becomes(i, CheckAnswered(Without(i, p), p, TRUE, 0))
        /\ UNCHANGED <<alerts, ofOwners, ofPhone, ofUser>>

\* An update that was there already comes without a manifest.
FetchEnds(i) ==
    \E p \in World(i).ps :
        /\ p.stage = "fetch"
        /\ \/ /\ Becomes(i, Fetched(Without(i, p), p,
                             IF fetched = latest THEN own[i].st.id ELSE latest))
              /\ fetched' = latest
              /\ UNCHANGED trouble
           \/ /\ trouble < MaxTrouble /\ trouble' = trouble + 1
              /\ Becomes(i, CallFailed(Without(i, p), p))
              /\ UNCHANGED fetched
        /\ UNCHANGED <<alerts, ofOwners, native, running, latest, front, canPrompt, ofUser>>

PromptTimer(i) ==
    /\ own[i].promptTimer
    /\ LET w == [World(i) EXCEPT !.o.promptTimer = FALSE]
           u == own[i].st.id
       IN  IF ShouldPrompt(own[i])
           THEN /\ Becomes(i, [w EXCEPT !.o.st.phase = "prompted", !.o.st.prompted = u])
                /\ alerts' = alerts \cup {[owner |-> i, id |-> u]}
           ELSE Becomes(i, w) /\ UNCHANGED alerts
    /\ UNCHANGED <<ofOwners, ofPhone, ofUser, trouble>>

CooldownTimer(i) ==
    /\ own[i].cooldownTimer # 0 /\ own[i].cooldownTimer <= elapsed
    /\ LET w == [World(i) EXCEPT !.o.cooldownTimer = 0, !.rec = NoRecord,
                                 !.o.st = CooldownExpired(@)]
           x == SyncNative(w, native)
       IN  Becomes(i, IF x.o.st.phase = "idle" THEN MaybeAutoCheck(x, i) ELSE SchedulePrompt(x))
    /\ UNCHANGED <<alerts, ofOwners, ofPhone, ofUser, trouble>>

\* The alert belongs to a former owner, or to one that asks something else by now.
Strays(a) ==
    \/ a.owner # shared
    \/ own[a.owner].st.phase # "prompted" \/ own[a.owner].st.id # a.id

\* A user is slower than a render of the component.
Rendered == shared = mounted => native = fetched

\* onLater writes the record for whatever update the owner has by now.
AnswerLater ==
    \E a \in alerts :
        /\ Rendered /\ laters < MaxLaters /\ laters' = laters + 1
        /\ LET w == World(a.owner)
               st == PromptDeferred(w.o.st, laters')
           IN  /\ Becomes(a.owner,
                    [w EXCEPT !.o.st = st, !.o.cooldownTimer = laters',
                              !.rec = IF st.id = 0 THEN NoRecord
                                      ELSE [id |-> st.id, until |-> laters']])
               /\ strayed' = (strayed \/ Strays(a))
        /\ alerts' = alerts \ {a}
        /\ later' = [later EXCEPT ![a.id] = laters']
        /\ UNCHANGED <<ofOwners, ofPhone, elapsed, trouble>>

Restarting(i) == [owner |-> i, stage |-> "reload", src |-> "none", gen |-> FALSE, tok |-> FALSE]

\* A restart forgets what was put off before.
AnswerRestart ==
    \E a \in alerts :
        /\ Rendered
        /\ LET w == World(a.owner)
           IN  IF w.o.st.phase = "prompted"
               THEN /\ Becomes(a.owner, [w EXCEPT !.o.st = RestartRequested(@), !.rec = NoRecord,
                                                  !.ps = @ \cup {Restarting(a.owner)}])
                    /\ later' = [u \in Updates |-> 0]
               ELSE UNCHANGED <<own, pipes, deferral, later>>
        /\ alerts' = alerts \ {a}
        /\ strayed' = (strayed \/ Strays(a))
        /\ UNCHANGED <<ofOwners, ofPhone, laters, elapsed, trouble>>

ReloadFails(i) ==
    /\ Restarting(i) \in pipes
    /\ trouble < MaxTrouble /\ trouble' = trouble + 1
    /\ Becomes(i, SchedulePrompt([Without(i, Restarting(i)) EXCEPT !.o.st = RestartFailed(@)]))
    /\ UNCHANGED <<alerts, ofOwners, ofPhone, ofUser>>

\* A new process starts what expo-updates holds.
NewProcess ==
    /\ own' = [i \in Owners |-> NewOwner]
    /\ pipes' = {} /\ alerts' = {} /\ born' = 0 /\ shared' = 0 /\ mounted' = 0
    /\ native' = 0 /\ fetched' = 0
    /\ running' = IF fetched = 0 THEN running ELSE fetched
    /\ front' = TRUE /\ canPrompt' = FALSE
    /\ UNCHANGED <<deferral, latest, ofUser>>

Reload == (\E i \in Owners : Restarting(i) \in pipes) /\ NewProcess /\ UNCHANGED trouble
Kill   == trouble < MaxTrouble /\ trouble' = trouble + 1 /\ NewProcess

\* getSharedOwner: i is the shared owner, created if there is none.
SharedOwner(i) ==
    /\ i \in Owners
    /\ i = IF shared = 0 THEN born + 1 ELSE shared
    /\ shared' = i /\ born' = IF shared = 0 THEN i ELSE born

\* The component renders with another owner: its four effects run in order.
Mount ==
    \E i \in Owners :
        LET a == MaybeAutoCheck(Initialize(World(i), native), i)
            b == SyncNative(a, fetched)
            c == SetPromptGateOpen(b, canPrompt)
        IN  /\ SharedOwner(i)
            /\ i # mounted /\ mounted' = i
            /\ Becomes(i, SetAppActive(c, i, fetched, front))
            /\ native' = fetched
            /\ UNCHANGED <<alerts, fetched, running, latest, front, canPrompt, ofUser, trouble>>

\* expo-updates tells the component what it holds.  Every render asks for the
\* shared owner anew, so a former owner learns neither this nor of the gate.
NativeEffect ==
    /\ mounted # 0 /\ shared = mounted
    /\ native # fetched /\ native' = fetched
    /\ Becomes(mounted, SyncNative(World(mounted), fetched))
    /\ UNCHANGED <<alerts, ofOwners, fetched, running, latest, front, canPrompt, ofUser, trouble>>

\* The app comes to the front, where the privacy gate opens in time, or leaves
\* it, which closes the gate.  Until it is replaced, the listener is the former
\* owner's.
AppState ==
    /\ mounted # 0 /\ front' = ~front /\ canPrompt' = FALSE
    /\ LET w == SetAppActive(World(mounted), mounted, native, front')
       IN  Becomes(mounted, IF shared = mounted THEN SetPromptGateOpen(w, FALSE) ELSE w)
    /\ UNCHANGED <<alerts, ofOwners, native, fetched, running, latest, ofUser, trouble>>

GateOpens ==
    /\ mounted # 0 /\ shared = mounted /\ front /\ ~canPrompt /\ canPrompt' = TRUE
    /\ Becomes(mounted, SetPromptGateOpen(World(mounted), TRUE))
    /\ UNCHANGED <<alerts, ofOwners, native, fetched, running, latest, front, ofUser, trouble>>

\* checkForUpdatesManual of the settings screen, which the layout encloses.
ManualCheck ==
    /\ mounted # 0
    /\ \E i \in Owners : SharedOwner(i) /\ Becomes(i, RequestManualCheck(World(i), i))
    /\ UNCHANGED <<mounted, alerts, ofPhone, ofUser, trouble>>

\* purgeOtaProfileState.  It also drops the answers of the user.
Purge ==
    /\ born < MaxOwners
    /\ IF shared = 0 THEN UNCHANGED <<own, pipes>> /\ deferral' = NoRecord
       ELSE Becomes(shared, [Invalidated(World(shared)) EXCEPT
                !.o = NewOwner, !.rec = NoRecord])
    /\ shared' = 0 /\ native' = 0
    /\ later' = [u \in Updates |-> 0]
    /\ UNCHANGED <<born, mounted, alerts, fetched, running, latest, front, canPrompt, laters,
                   elapsed, strayed, trouble>>

Publish ==
    /\ latest < MaxUpdates /\ latest' = latest + 1
    /\ UNCHANGED <<own, pipes, alerts, deferral, ofOwners, native, fetched, running, front,
                   canPrompt, ofUser, trouble>>

CooldownElapses ==
    /\ elapsed < laters /\ elapsed' = elapsed + 1
    /\ UNCHANGED <<own, pipes, alerts, deferral, ofOwners, ofPhone, laters, later,
                   strayed, trouble>>

ThrottleElapses(i) ==
    /\ own[i].throttled
    /\ own' = [own EXCEPT ![i].throttled = FALSE]
    /\ UNCHANGED <<pipes, alerts, deferral, ofOwners, ofPhone, ofUser, trouble>>

Next ==
    \/ \E i \in Owners :
        \/ CheckEnds(i) \/ FetchEnds(i) \/ ReloadFails(i)
        \/ PromptTimer(i) \/ CooldownTimer(i) \/ ThrottleElapses(i)
    \/ AnswerLater \/ AnswerRestart \/ Reload \/ Kill
    \/ Mount \/ NativeEffect \/ AppState \/ GateOpens \/ ManualCheck \/ Purge
    \/ Publish \/ CooldownElapses

Spec == Init /\ [][Next]_vars

-----------------------------------------------------------------------------
(* Properties. *)

\* An owner that says it checks or downloads has exactly one pipeline that is
\* still its own and at that stage, and an owner with work in flight has one:
\* else no check would ever start again (ota-update-owner.js:208).
BusyHasItsPipeline ==
    \A i \in Owners :
        LET mine == {p \in pipes : p.owner = i /\ p.gen /\ p.tok}
            stage == CASE own[i].st.phase = "checking" -> {"check"}
                       [] own[i].st.phase \in {"available", "downloading"} -> {"fetch"}
                       [] OTHER -> {}
        IN  /\ own[i].inFlight <=> mine # {}
            /\ \A p, q \in mine : p = q
            /\ stage # {} => {p.stage : p \in mine} = stage

\* The shared owner does not offer again what the user put off while the
\* cooldown lasts, through checks, native news, background and foreground, until
\* a purge or a restart drops the answer, or an answer to an alert of a former owner strays
\* (ota-update-owner.js:161).
OffersInTime ==
    \A i \in Owners :
        i = shared /\ ~strayed /\ own[i].st.phase # "prompted" /\ own'[i].st.phase = "prompted"
            => later[own'[i].st.id] <= elapsed

LaterIsRespected == [][OffersInTime]_vars

\* Whenever the mounted owner may ask the user, the timer that asks is armed, or
\* the one of an elapsed cooldown is about to arm it: each event that opens the
\* way - download, gate, foreground, end of a cooldown, failed restart - looks
\* again (ota-update-owner.js:138).
PromptIsArmed ==
    mounted # 0 /\ shared = mounted /\ ~strayed /\ ShouldPrompt(own[mounted]) =>
        \/ own[mounted].promptTimer
        \/ own[mounted].cooldownTimer # 0 /\ own[mounted].cooldownTimer <= elapsed

=============================================================================
