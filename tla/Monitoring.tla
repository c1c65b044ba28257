----------------------------- MODULE Monitoring -----------------------------
(***************************************************************************)
(* The two monitors beside CapRover, NetData and GoAccess: what the data   *)
(* store says of each, its container, and for GoAccess also the crontab    *)
(* and the access logs of nginx (CaptainManager.updateNetDataInfo and      *)
(* updateGoAccessInfo, SystemRouter), with the page that turns them on and *)
(* off in several tabs (MonitoringWorkspace).  An update goes on when its   *)
(* tab is left, and then the next one is served beside it.                 *)
(*                                                                         *)
(* NetData is recorded after its container is there, GoAccess before, and  *)
(* GoAccess alone is applied again whenever the process starts.            *)
(***************************************************************************)
EXTENDS Naturals

CONSTANTS
    Viewers,    \* tabs that show the page
    Monitors,   \* the monitors that are looked at
    Start,      \* the start of the process, which applies GoAccess like a tab
    MaxEdits    \* bound: settings that users type

ASSUME MonitoringAssumption ==
    /\ Monitors \subseteq {"netdata", "goaccess"}
    /\ Start \notin Viewers
    /\ MaxEdits \in Nat

\* The settings of a monitor, numbered as they are typed: a notification secret
\* of NetData, 0 for none, or the rotation and retention of GoAccess, 0 for the
\* default.  The page shows the mark for a secret ([REDACTED]).
Settings == 0 .. MaxEdits
Mark == MaxEdits + 1
Info == [isEnabled : BOOLEAN, data : 0 .. Mark]
Users == Viewers \cup {Start}

VARIABLES
    info,        \* NET_DATA_INFO, GOACCESS_INFO
    container,   \* of each monitor: the settings it runs with, plus one; or 0
    crontab,     \* the settings in the crontab of GoAccess
    accessLogs,  \* nginx writes access logs
    serverState,     \* "up", "starting" or "down"
    monitoring,  \* of each tab, the page: "closed", "ready" or "working"
    current,     \* what it shows of the monitors
    edits,       \* settings typed so far
    update,      \* the update that is under way for a tab, or at the start
    lockFree,    \* threadLockNamespace is not set
    together,    \* history: tabs whose update of GoAccess is served beside another's
    failed       \* history: the last update of GoAccess has failed, or was one of these

dockerVars == <<container, crontab, accessLogs>>
monitoringPageVars == <<monitoring, current, edits>>
goAccessHistory == <<together, failed>>
monitoringVars == <<info, dockerVars, serverState, monitoringPageVars, update, lockFree, goAccessHistory>>

NoUpdate == [monitor |-> "none", at |-> "none"]

\* What is sent, and what it comes to.
Update == [monitor : Monitors, sent : Info, to : Info,
           at : {"sent", "admitted", "restored", "recorded", "scheduled", "removed", "created"}]

Off == [isEnabled |-> FALSE, data |-> 0]

MonitoringTypeOK ==
    /\ info \in [Monitors -> [isEnabled : BOOLEAN, data : Settings]]
    /\ container \in [Monitors -> 0 .. MaxEdits + 1]
    /\ crontab \in Settings
    /\ accessLogs \in BOOLEAN
    /\ serverState \in {"up", "starting", "down"}
    /\ monitoring \in [Viewers -> {"closed", "ready", "working"}]
    /\ current \in [Viewers -> [Monitors -> Info]]
    /\ edits \in Settings
    /\ update \in [Users -> Update \cup {NoUpdate}]
    /\ lockFree \in BOOLEAN
    /\ together \subseteq Viewers
    /\ failed \in BOOLEAN

MonitoringInit ==
    /\ info = [m \in Monitors |-> Off]
    /\ container = [m \in Monitors |-> 0]
    /\ crontab = 0
    /\ accessLogs = FALSE
    /\ serverState = "up"
    /\ monitoring = [t \in Viewers |-> "closed"]
    /\ current = [t \in Viewers |-> [m \in Monitors |-> Off]]
    /\ edits = 0
    /\ update = [u \in Users |-> NoUpdate]
    /\ lockFree = TRUE
    /\ together = {}
    /\ failed = FALSE

-----------------------------------------------------------------------------
(* The page                                                                *)

\* GoAccess that is off has the default settings.
getGoAccessInfo == IF info["goaccess"].isEnabled THEN info["goaccess"] ELSE Off

\* A secret that is set is shown as the mark.
Redacted == [info["netdata"] EXCEPT !.data = IF @ = 0 THEN 0 ELSE Mark]

Disclosed(m) == IF m = "netdata" THEN Redacted ELSE getGoAccessInfo

LoadMonitoring(t) ==
    /\ serverState = "up"
    /\ current' = [current EXCEPT ![t] = [m \in Monitors |-> Disclosed(m)]]
    /\ monitoring' = [monitoring EXCEPT ![t] = IF @ = "closed" THEN "ready" ELSE @]
    /\ UNCHANGED <<info, dockerVars, serverState, edits, update, lockFree, goAccessHistory>>

UnderWay(u) == update[u].at \notin {"none", "sent"}

\* The update of a tab that is left goes on.
LeaveMonitoring(t) ==
    /\ monitoring[t] # "closed"
    /\ monitoring' = [monitoring EXCEPT ![t] = "closed"]
    /\ current' = [current EXCEPT ![t] = [m \in Monitors |-> Off]]
    /\ lockFree' = (lockFree \/ (monitoring[t] = "working" /\ UnderWay(t)))
    /\ UNCHANGED <<info, dockerVars, serverState, edits, update, goAccessHistory>>

SendUpdate(t, m, to) ==
    /\ monitoring[t] = "ready"
    /\ update[t] = NoUpdate
    /\ monitoring' = [monitoring EXCEPT ![t] = "working"]
    /\ update' = [update EXCEPT ![t] = [monitor |-> m, sent |-> to, to |-> to, at |-> "sent"]]
    /\ UNCHANGED <<info, dockerVars, serverState, lockFree, goAccessHistory>>

\* The text of the page is saved, edited or not.
saveSettings(t, m) ==
    /\ \/ /\ SendUpdate(t, m, current[t][m])
          /\ UNCHANGED edits
       \/ /\ edits < MaxEdits
          /\ edits' = edits + 1
          /\ SendUpdate(t, m, [current[t][m] EXCEPT !.data = edits + 1])
    /\ UNCHANGED current

\* All that the page shows is sent, and shown at once as if it were done.
toggle(t, m) ==
    LET next == [current[t][m] EXCEPT !.isEnabled = ~@]
    IN  /\ SendUpdate(t, m, next)
        /\ current' = [current EXCEPT ![t][m] = next]
        /\ UNCHANGED edits

-----------------------------------------------------------------------------
(* The server                                                              *)

UpdateGoes(u, stage) == update' = [update EXCEPT ![u].at = stage]

\* The tabs that have been left while their update of GoAccess is served.
LeftUpdates == {t \in Viewers : update[t].monitor = "goaccess" /\ UnderWay(t) /\ monitoring[t] # "working"}

AdmitUpdate(t) ==
    /\ update[t].at = "sent"
    /\ serverState = "up"
    /\ lockFree
    /\ lockFree' = (monitoring[t] # "working")
    /\ UpdateGoes(t, "admitted")
    /\ IF update[t].monitor = "goaccess" /\ LeftUpdates # {}
       THEN /\ together' = together \cup LeftUpdates \cup {t}
            /\ failed' = TRUE
       ELSE UNCHANGED goAccessHistory
    /\ UNCHANGED <<info, dockerVars, serverState, monitoringPageVars>>

\* The answer comes to the page, if it is still there; at the start, the
\* process is up, or ends.
AnswerUpdate(u, good) ==
    /\ update' = [update EXCEPT ![u] = NoUpdate]
    /\ serverState' = IF u # Start THEN serverState ELSE IF good THEN "up" ELSE "down"
    /\ monitoring' = [t \in Viewers |-> IF t = u /\ monitoring[t] = "working" THEN "ready"
                                     ELSE monitoring[t]]
    /\ lockFree' = (lockFree \/ (u \in Viewers /\ monitoring[u] = "working"))
    /\ together' = together \ {u}

\* The text that was saved is shown.
ShowSaved(u) ==
    current' = [t \in Viewers |->
        IF t = u /\ monitoring[t] = "working"
        THEN [current[t] EXCEPT ![update[u].monitor] = update[u].sent]
        ELSE current[t]]

UpdateFails(u) ==
    /\ AnswerUpdate(u, FALSE)
    /\ failed' = (failed \/ update[u].monitor = "goaccess")
    /\ UNCHANGED <<info, crontab, accessLogs, current, edits>>

\* Another update is being served (429), or none can be: the process is not up.
RefuseUpdate(t) ==
    /\ update[t].at = "sent"
    /\ ~lockFree \/ serverState # "up"
    /\ update' = [update EXCEPT ![t] = NoUpdate]
    /\ monitoring' = [monitoring EXCEPT ![t] = IF @ = "working" THEN "ready" ELSE @]
    /\ UNCHANGED <<info, dockerVars, serverState, current, edits, lockFree, goAccessHistory>>

\* The schedule is not one, or the request has no settings: nothing is done.
RejectUpdate(t) ==
    /\ update[t].at = "admitted"
    /\ AnswerUpdate(t, FALSE)
    /\ UNCHANGED <<info, dockerVars, current, edits, failed>>

\* restoreRedactedSecrets: the mark stands for the secret that is set now.
RestoreSecrets(t) ==
    /\ update[t].monitor = "netdata"
    /\ update[t].at = "admitted"
    /\ update' = [update EXCEPT ![t].at = "restored",
                                ![t].to.data = IF @ = Mark THEN info["netdata"].data ELSE @]
    /\ UNCHANGED <<info, dockerVars, serverState, monitoringPageVars, lockFree, goAccessHistory>>

setGoAccessInfo(u) ==
    /\ update[u].monitor = "goaccess"
    /\ update[u].at = "admitted"
    /\ info' = [info EXCEPT !["goaccess"] = update[u].to]
    /\ UpdateGoes(u, "recorded")
    /\ UNCHANGED <<dockerVars, serverState, monitoringPageVars, lockFree, goAccessHistory>>

WriteCrontab(u) ==
    /\ update[u].at = "recorded"
    /\ crontab' = update[u].to.data
    /\ UpdateGoes(u, "scheduled")
    /\ UNCHANGED <<info, container, accessLogs, serverState, monitoringPageVars, lockFree, goAccessHistory>>

\* ensureContainerStoppedAndRemoved; a container that is not there will do.
RemoveContainer(u) ==
    /\ update[u].at \in {"restored", "scheduled"}
    /\ container' = [container EXCEPT ![update[u].monitor] = 0]
    /\ UpdateGoes(u, "removed")
    /\ UNCHANGED <<info, crontab, accessLogs, serverState, monitoringPageVars, lockFree, goAccessHistory>>

\* Docker fails before the container is removed, or after, as it prunes.
RemovalFails(u) ==
    /\ update[u].at \in {"restored", "scheduled"}
    /\ \E there \in {0, container[update[u].monitor]} :
          container' = [container EXCEPT ![update[u].monitor] = there]
    /\ UpdateFails(u)

\* The settings go into the environment of the container.
RunsWith(to) == IF to.isEnabled THEN to.data + 1 ELSE 0

\* createStickyContainer, unless the monitor is to be off.
CreateContainer(u) ==
    /\ update[u].at = "removed"
    /\ container' = [container EXCEPT ![update[u].monitor] = RunsWith(update[u].to)]
    /\ UpdateGoes(u, "created")
    /\ UNCHANGED <<info, crontab, accessLogs, serverState, monitoringPageVars, lockFree, goAccessHistory>>

CreationFails(u) ==
    /\ update[u].at = "removed"
    /\ update[u].to.isEnabled
    /\ UpdateFails(u)
    /\ UNCHANGED container

setNetDataInfo(t) ==
    /\ update[t].monitor = "netdata"
    /\ update[t].at = "created"
    /\ info' = [info EXCEPT !["netdata"] = update[t].to]
    /\ ShowSaved(t)
    /\ AnswerUpdate(t, TRUE)
    /\ UNCHANGED <<dockerVars, edits, failed>>

\* rePopulateNginxConfigFile, with which GoAccess is done.
ReloadForGoAccess(u) ==
    /\ update[u].monitor = "goaccess"
    /\ update[u].at = "created"
    /\ accessLogs' = info["goaccess"].isEnabled
    /\ failed' = (u \in together)
    /\ ShowSaved(u)
    /\ AnswerUpdate(u, TRUE)
    /\ UNCHANGED <<info, container, crontab, edits>>

ReloadForGoAccessFails(u) ==
    /\ update[u].monitor = "goaccess"
    /\ update[u].at = "created"
    /\ UpdateFails(u)
    /\ UNCHANGED container

\* An app has changed: nginx is configured anew.
OtherReload ==
    /\ serverState = "up"
    /\ "goaccess" \in Monitors
    /\ accessLogs' = info["goaccess"].isEnabled
    /\ UNCHANGED <<info, container, crontab, serverState, monitoringPageVars, update, lockFree, goAccessHistory>>

\* The process ends; its containers stay.
CaptainEnds ==
    /\ serverState # "down"
    /\ serverState' = "down"
    /\ update' = [u \in Users |-> IF update[u].at = "sent" THEN update[u] ELSE NoUpdate]
    /\ monitoring' = [t \in Viewers |-> IF update[t].at # "sent" /\ monitoring[t] = "working"
                                     THEN "ready" ELSE monitoring[t]]
    /\ lockFree' = TRUE
    /\ together' = {}
    /\ UNCHANGED <<info, dockerVars, current, edits, failed>>

\* Mutant: a container that is there is good enough.
StartAsItIs ==
    /\ serverState = "down"
    /\ serverState' = "up"
    /\ UNCHANGED <<info, dockerVars, monitoringPageVars, update, lockFree, goAccessHistory>>

\* "Ensure GoAccess container restart": it is applied as it is recorded.
StartAgain ==
    /\ serverState = "down"
    /\ "goaccess" \in Monitors
    /\ serverState' = "starting"
    /\ update' = [update EXCEPT ![Start] =
                    [monitor |-> "goaccess", sent |-> getGoAccessInfo,
                     to |-> getGoAccessInfo, at |-> "admitted"]]
    /\ UNCHANGED <<info, dockerVars, monitoringPageVars, lockFree, goAccessHistory>>

MonitoringNext ==
    \/ \E t \in Viewers :
          \/ LoadMonitoring(t)
          \/ LeaveMonitoring(t)
          \/ \E m \in Monitors : saveSettings(t, m) \/ toggle(t, m)
          \/ AdmitUpdate(t)
          \/ RefuseUpdate(t)
          \/ RejectUpdate(t)
          \/ RestoreSecrets(t)
          \/ setNetDataInfo(t)
    \/ \E u \in Users :
          \/ setGoAccessInfo(u)
          \/ WriteCrontab(u)
          \/ RemoveContainer(u)
          \/ RemovalFails(u)
          \/ CreateContainer(u)
          \/ CreationFails(u)
          \/ ReloadForGoAccess(u)
          \/ ReloadForGoAccessFails(u)
    \/ OtherReload
    \/ CaptainEnds
    \/ StartAgain

MonitoringSpec == MonitoringInit /\ [][MonitoringNext]_monitoringVars

-----------------------------------------------------------------------------
(* Properties                                                              *)

AtRest == serverState = "up" /\ \A u \in Users : ~UnderWay(u)

\* Unless its last update has failed, or was served beside one that its tab had
\* left, GoAccess is what the data store says, whenever no update is under way:
\* its container, its crontab and the access logs of nginx are of one setting,
\* however an earlier update was cut short (the order of updateGoAccessInfo, the
\* start of CaptainManager).
GoAccessAsRecorded ==
    AtRest /\ ~failed =>
        /\ container["goaccess"] = RunsWith(info["goaccess"])
        /\ crontab = info["goaccess"].data
        /\ accessLogs = info["goaccess"].isEnabled

\* NetData is what the data store says.  It is not, after an update that failed
\* or was cut short: the container has gone, and nothing brings it back.
NetDataAsRecorded ==
    AtRest => container["netdata"] = RunsWith(info["netdata"])

\* Settings of NetData that were typed and saved do not give way to earlier
\* ones.  They do: a tab that turns NetData on or off sends all that it shows,
\* the empty secret too that another tab has set since.
TypedSettingsStay ==
    [][info'["netdata"].data >= info["netdata"].data]_monitoringVars

=============================================================================
