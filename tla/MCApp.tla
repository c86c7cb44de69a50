-------------------------------- MODULE MCApp --------------------------------
(***************************************************************************)
(* The app's components side by side: a behaviour is one of `part`, fixed  *)
(* at the start, and leaves the variables of the others where they are.    *)
(***************************************************************************)
EXTENDS RequestOperation

CONSTANTS
    d1, d2,                                \* RequestOperation
    Slots,                                 \* NotificationSchedules, NotificationAlerts
    Bills, MaxScheduleSessions, MaxCopies, MaxScheduleTrouble,
    Things, Cumulative, MaxAlertSessions, MaxAlertTrouble,
    noRecord,                              \* OtaUpdateOwner
    Scopes, Demo, Nobody,                  \* ReconnectRefresh
    MaxPurges, MaxRuns, MaxFailures

ASSUME AppAssumption == IsFiniteSet(Slots)

VARIABLES
    part,
    tracked, migrated, sameDay, os, made, wanted, due, purge, lostCall,
    baseline, markers, present, purging, shown,
    suspended, sid, ses,        \* of both lanes
    gen, active,                \* of the lanes, and of the reconnect owner
    own, pipes, born, shared, mounted, alerts, deferral, native, fetched, running, latest,
    front, canPrompt, laters, elapsed, later, strayed,
    phase, scope, runs, pending, debounce, settle, retry, backoff, confirmed, warned,
    profile, switching, owed, purgedAt

MCDigests == {d1, d2}

Schedules == INSTANCE NotificationSchedules WITH
    DueToday <- Bills, MaxSessions <- MaxScheduleSessions, MaxTrouble <- MaxScheduleTrouble

Alerts == INSTANCE NotificationAlerts WITH
    MaxSessions <- MaxAlertSessions, MaxTrouble <- MaxAlertTrouble

\* Two updates, two answers "Later" and two failures, no purge of the profile.
Updates == INSTANCE OtaUpdateOwner WITH
    NoRecord <- noRecord, MaxUpdates <- 2, MaxOwners <- 1, MaxLaters <- 2, MaxTrouble <- 2

\* One update, one answer "Later", a purge.
UpdatesPurged == INSTANCE OtaUpdateOwner WITH
    NoRecord <- noRecord, MaxUpdates <- 1, MaxOwners <- 2, MaxLaters <- 1, MaxTrouble <- 0

Reconnect == INSTANCE ReconnectRefresh WITH MaxTrouble <- MaxFailures

ofRequests  == <<store, generation, app, net, server>>
ofSchedules == <<tracked, migrated, sameDay, os, made, wanted, due, purge, lostCall>>
ofAlerts    == <<baseline, markers, present, purging, shown>>
ofLanes     == <<suspended, sid, ses>>
ofBoth      == <<gen, active>>
ofUpdates   == <<own, pipes, born, shared, mounted, alerts, deferral, native, fetched, running,
                 latest, front, canPrompt, laters, elapsed, later, strayed>>
ofReconnect == <<phase, scope, runs, pending, debounce, settle, retry, backoff, confirmed, warned,
                 profile, switching, owed, purgedAt>>
allVars     == <<part, ofRequests, overtaken, trouble, ofSchedules, ofAlerts, ofLanes, ofBoth,
                 ofUpdates, ofReconnect>>

NoRequests ==
    /\ store = <<>> /\ generation = 0 /\ call = <<>> /\ asked = <<>> /\ sweep = <<>>
    /\ net = {} /\ holder = <<>> /\ fate = <<>> /\ acted = <<>>
NoSchedules ==
    /\ tracked = <<>> /\ migrated = FALSE /\ sameDay = {} /\ os = {} /\ made = <<>>
    /\ wanted = {} /\ due = {} /\ purge = <<>> /\ lostCall = FALSE
NoAlerts == baseline = <<>> /\ markers = {} /\ present = {} /\ purging = FALSE /\ shown = <<>>
NoLanes == suspended = FALSE /\ sid = 0 /\ ses = <<>>
NoBoth  == gen = 0 /\ active = 0
NoUpdates ==
    /\ own = <<>> /\ pipes = {} /\ born = 0 /\ shared = 0 /\ mounted = 0 /\ alerts = {}
    /\ deferral = noRecord /\ native = 0 /\ fetched = 0 /\ running = 0 /\ latest = 0
    /\ front = TRUE /\ canPrompt = FALSE /\ laters = 0 /\ elapsed = 0 /\ later = <<>>
    /\ strayed = FALSE
NoReconnect ==
    /\ phase = "unknown" /\ scope = Nobody /\ runs = {} /\ pending = FALSE
    /\ debounce = FALSE /\ settle = FALSE /\ retry = FALSE /\ backoff = "none"
    /\ confirmed = <<>> /\ warned = <<>> /\ profile = <<>> /\ switching = FALSE
    /\ owed = FALSE /\ purgedAt = <<>>

MCInit ==
    \/ /\ part = "requests" /\ Init
       /\ NoSchedules /\ NoAlerts /\ NoLanes /\ NoBoth /\ NoUpdates /\ NoReconnect
    \/ /\ part = "schedules" /\ Schedules!Init
       /\ NoRequests /\ NoAlerts /\ NoUpdates /\ NoReconnect
    \/ /\ part = "alerts" /\ Alerts!Init
       /\ NoRequests /\ NoSchedules /\ NoUpdates /\ NoReconnect
    \/ /\ \/ part = "updates" /\ Updates!Init
          \/ part = "updates purged" /\ UpdatesPurged!Init
       /\ NoRequests /\ overtaken = FALSE
       /\ NoSchedules /\ NoAlerts /\ NoLanes /\ NoBoth /\ NoReconnect
    \/ /\ part = "reconnect" /\ Reconnect!Init /\ overtaken = FALSE
       /\ NoRequests /\ NoSchedules /\ NoAlerts /\ NoLanes /\ NoUpdates

MCNext ==
    /\ UNCHANGED part
    /\ \/ /\ part = "requests" /\ Next
          /\ UNCHANGED <<ofSchedules, ofAlerts, ofLanes, ofBoth, ofUpdates, ofReconnect>>
       \/ /\ part = "schedules" /\ Schedules!Next
          /\ UNCHANGED <<ofRequests, ofAlerts, ofUpdates, ofReconnect>>
       \/ /\ part = "alerts" /\ Alerts!Next
          /\ UNCHANGED <<ofRequests, ofSchedules, ofUpdates, ofReconnect>>
       \/ /\ \/ part = "updates" /\ Updates!Next
             \/ part = "updates purged" /\ UpdatesPurged!Next
          /\ UNCHANGED <<ofRequests, overtaken, ofSchedules, ofAlerts, ofLanes, ofBoth, ofReconnect>>
       \/ /\ part = "reconnect" /\ Reconnect!Next
          /\ UNCHANGED <<ofRequests, overtaken, ofSchedules, ofAlerts, ofLanes, ofUpdates>>

MCSpec == MCInit /\ [][MCNext]_allVars

\* A request that may still have an effect keeps its record on the phone until
\* an old answer has met a newer request of the same mutation.
RequestsKeepTheirRecord == part = "requests" => UnsettledIsOnRecordUntilOvertaken

\* The same, whatever answer meets whatever record.
RequestsAlwaysKeepTheirRecord == part = "requests" => UnsettledIsOnRecord

\* Every scheduled notification is on record until a session or a purge overtakes
\* a running session or a second thing goes wrong.
SchedulesStayOnRecord == part = "schedules" => Schedules!EvidenceUnlessOvertaken

\* No session cancels a notification that the record holds to be committed, while
\* at most one thing went wrong.
CommittedSchedulesOutliveReplacement ==
    [][part = "schedules" => \A s \in Slots : ~Schedules!LosesCommitted(s)]_allVars

\* A check of updates that an owner reports is under way, and whenever it may
\* ask the user, it will.
UpdateChecksAreTracked ==
    /\ part = "updates" => Updates!BusyHasItsPipeline /\ Updates!PromptIsArmed
    /\ part = "updates purged" => UpdatesPurged!BusyHasItsPipeline /\ UpdatesPurged!PromptIsArmed

\* An update that was put off is not offered while the cooldown lasts.
UpdatesWaitForTheirCooldown ==
    [][/\ part = "updates" => Updates!OffersInTime
       /\ part = "updates purged" => UpdatesPurged!OffersInTime]_allVars

\* A refresh that is due comes, a standing warning comes with a retry, and what
\* is confirmed was found after the last purge.
RefreshesAreAccountedFor ==
    part = "reconnect" =>
        /\ Reconnect!RefreshIsNotForgotten
        /\ Reconnect!RetryIsComing
        /\ Reconnect!ConfirmedSinceThePurge

\* An alert is shown at most once until a rejected call has taken back the marker
\* of a later session.
AlertsAtMostOnce == part = "alerts" => Alerts!AtMostOnce
=============================================================================
