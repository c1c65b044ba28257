----------------------------- MODULE BuildQueue -----------------------------
(***************************************************************************)
(* ServiceManager's build scheduling.  A call to scheduleDeployNewVersion  *)
(* starts a build at once when no app is marked as building, and queues it *)
(* otherwise.  A build is a promise chain of the single Node thread:       *)
(*                                                                         *)
(*   createNewVersion -> ensureImage (I/O) -> setDeployedVersionAndImage   *)
(*     -> onBuildFinished -> ensureServiceInitedAndUpdated (I/O)           *)
(*                                                                         *)
(* with one catch behind all of it.  Each action below is one turn of the  *)
(* event loop, from one I/O completion to the next.  The callback that     *)
(* onBuildFinished leaves to take the next build off the queue is a        *)
(* microtask: nothing else runs until every such callback has.             *)
(***************************************************************************)
EXTENDS AppVersions, SequencesExt

CONSTANTS
    Apps,          \* app names
    MaxBuilds,     \* bound on the calls to scheduleDeployNewVersion
    MaxRestarts,   \* bound on the restarts of the process
    Removable,     \* apps a user may delete
    NoApp,         \* "no such app definition"
    NoService,     \* "no such Docker service"
    Placeholder    \* the image a service is created with

ASSUME BoundsAssumption ==
    /\ MaxBuilds \in Nat
    /\ MaxRestarts \in Nat
    /\ Removable \subseteq Apps
    /\ NoApp \notin Apps

\* Every call gets a number: it names the call, the source it hands over, the
\* promise it is given, and the image built from that source.
Builds == 1..MaxBuilds

ASSUME ImageAssumption == {NoImage, Placeholder, NoService} \cap Builds = {}

VARIABLES
    apps,      \* the app definitions on disk
    service,   \* the image each Docker service runs
    active,    \* activeOrScheduledBuilds
    queue,     \* queuedBuilds
    shifts,    \* onBuildFinished callbacks that have not run yet
    calls,     \* number of calls so far
    appOf,     \* the app a call was made for
    phase,     \* where the source of a call is
    version,   \* the version createNewVersion gave a build in progress
    attached,  \* calls whose promise is the build's own chain
    promise,   \* what the promise created by a call has come to
    removal,   \* progress of removeApps for each app
    restarts   \* number of restarts so far

buildVars == <<active, queue, shifts, calls, appOf, phase, version, attached,
               promise>>
vars == <<apps, service, buildVars, removal, restarts>>

Phases == {"unused", "queued", "replaced", "building", "deploying", "done",
           "failed", "lost"}
PromiseStates == {"none", "pending", "resolved", "rejected", "lost"}
RemovalStates == {"idle", "inspecting", "removing"}

Images == Builds \cup {Placeholder}

ASSUME NoAppAssumption == NoApp \notin Definition(Images)

QueueEntry == [app : Apps, source : Builds, promise : Builds]

TypeOK ==
    /\ apps \in [Apps -> Definition(Images) \cup {NoApp}]
    /\ service \in [Apps -> Images \cup {NoService}]
    /\ active \in [Apps -> BOOLEAN]
    /\ queue \in Seq(QueueEntry)
    /\ shifts \in Nat
    /\ calls \in 0..MaxBuilds
    /\ appOf \in [Builds -> Apps \cup {NoApp}]
    /\ phase \in [Builds -> Phases]
    /\ version \in [Builds -> Nat]
    /\ attached \subseteq Builds
    /\ promise \in [Builds -> PromiseStates]
    /\ removal \in [Apps -> RemovalStates]
    /\ restarts \in 0..MaxRestarts

Init ==
    /\ apps = [a \in Apps |-> NoApp]
    /\ service = [a \in Apps |-> NoService]
    /\ active = [a \in Apps |-> FALSE]
    /\ queue = <<>>
    /\ shifts = 0
    /\ calls = 0
    /\ appOf = [b \in Builds |-> NoApp]
    /\ phase = [b \in Builds |-> "unused"]
    /\ version = [b \in Builds |-> 0]
    /\ attached = {}
    /\ promise = [b \in Builds |-> "none"]
    /\ removal = [a \in Apps |-> "idle"]
    /\ restarts = 0

Quiet == shifts = 0

InPhase(p) == {b \in Builds : phase[b] = p}

isAnyBuildRunning == \E a \in Apps : active[a]

-----------------------------------------------------------------------------
(* startDeployingNewVersion up to its first I/O, on the definitions defs.  *)
(* A definition that is gone makes createNewVersion reject, and the catch  *)
(* runs onBuildFinished.                                                   *)

StartDeployingNewVersion(b, a, defs, pendingShifts) ==
    \/ /\ defs[a] # NoApp
       /\ apps' = [defs EXCEPT ![a] = CreateNewVersion(defs[a])]
       /\ version' = [version EXCEPT ![b] = NewVersionIndex(defs[a])]
       /\ phase' = [phase EXCEPT ![b] = "building"]
       /\ shifts' = pendingShifts
    \/ /\ defs[a] = NoApp
       /\ apps' = defs
       /\ phase' = [phase EXCEPT ![b] = "failed"]
       /\ shifts' = pendingShifts + 1
       /\ UNCHANGED version

\* The branches of scheduleDeployNewVersion.  Nothing is building: start.
StartAtOnce(b, a, defs) ==
    /\ ~isAnyBuildRunning
    /\ StartDeployingNewVersion(b, a, defs, 0)
    /\ active' = [active EXCEPT ![a] = (defs[a] # NoApp)]
    /\ promise' = [promise EXCEPT ![b] =
                      IF defs[a] = NoApp THEN "rejected" ELSE "pending"]
    /\ attached' = attached \cup {b}
    /\ UNCHANGED queue

\* A build of this app is queued: it keeps its place and its promise, which is
\* what this call returns, and gets the new source.
ReplaceQueuedSource(b, a, defs) ==
    /\ isAnyBuildRunning
    /\ \E i \in DOMAIN queue :
        /\ queue[i].app = a
        /\ \A j \in 1..(i - 1) : queue[j].app # a
        /\ queue' = [queue EXCEPT ![i].source = b]
        /\ phase' = [phase EXCEPT ![queue[i].source] = "replaced", ![b] = "queued"]
    /\ active' = [active EXCEPT ![a] = TRUE]
    /\ apps' = defs
    /\ UNCHANGED <<shifts, version, attached, promise>>

Enqueue(b, a, defs) ==
    /\ isAnyBuildRunning
    /\ \A i \in DOMAIN queue : queue[i].app # a
    /\ queue' = Append(queue, [app |-> a, source |-> b, promise |-> b])
    /\ phase' = [phase EXCEPT ![b] = "queued"]
    /\ promise' = [promise EXCEPT ![b] = "pending"]
    /\ active' = [active EXCEPT ![a] = TRUE]
    /\ apps' = defs
    /\ UNCHANGED <<shifts, version, attached>>

ScheduleDeployNewVersion(a, defs) ==
    LET b == calls + 1
    IN  /\ calls < MaxBuilds
        /\ calls' = b
        /\ appOf' = [appOf EXCEPT ![b] = a]
        /\ \/ StartAtOnce(b, a, defs)
           \/ ReplaceQueuedSource(b, a, defs)
           \/ Enqueue(b, a, defs)

-----------------------------------------------------------------------------
\* A deploy from the upload route, a webhook or an agent.  The caller need not
\* know whether the app exists.
Schedule(a) ==
    /\ Quiet
    /\ ScheduleDeployNewVersion(a, apps)
    /\ UNCHANGED <<service, removal, restarts>>

\* registerAppDefinition: a new definition and a build of the placeholder.
Register(a) ==
    /\ Quiet
    /\ apps[a] = NoApp
    /\ ScheduleDeployNewVersion(a, [apps EXCEPT ![a] = FreshDefinition])
    /\ UNCHANGED <<service, removal, restarts>>

\* Mutant: onBuildFinished only takes the mark away.
OnBuildFinishedNoShift(a) ==
    /\ active' = [active EXCEPT ![a] = FALSE]
    /\ shifts' = shifts

\* onBuildFinished, up to the callback it leaves behind.
OnBuildFinished(a) ==
    /\ active' = [active EXCEPT ![a] = FALSE]
    /\ shifts' = shifts + 1

\* Mutant: the head is read and stays in the queue.
ShiftQueuePeek ==
    /\ shifts > 0
    /\ queue # <<>>
    /\ LET head == Head(queue)
       IN  /\ StartDeployingNewVersion(head.source, head.app, apps, shifts - 1)
           /\ active' = [active EXCEPT ![head.app] = (apps[head.app] # NoApp)]
    /\ UNCHANGED <<service, queue, calls, appOf, attached, promise, removal,
                   restarts>>

\* The callback: take the head of the queue and start it, without marking its
\* app as building and without looking at the promise of the entry again.
ShiftQueue ==
    /\ shifts > 0
    /\ \/ /\ queue = <<>>
          /\ shifts' = shifts - 1
          /\ UNCHANGED <<apps, active, queue, phase, version>>
       \/ /\ queue # <<>>
          /\ queue' = Tail(queue)
          /\ LET head == Head(queue)
             IN  /\ StartDeployingNewVersion(head.source, head.app, apps, shifts - 1)
                 /\ active' = IF apps[head.app] = NoApp
                              THEN [active EXCEPT ![head.app] = FALSE]
                              ELSE active
    /\ UNCHANGED <<service, calls, appOf, attached, promise, removal, restarts>>

\* Mutant: the promise is resolved but never rejected.
SettleResolvedOnly(b, outcome) ==
    promise' = IF b \in attached /\ outcome = "resolved"
               THEN [promise EXCEPT ![b] = outcome] ELSE promise

Settle(b, outcome) ==
    promise' = IF b \in attached
               THEN [promise EXCEPT ![b] = outcome] ELSE promise

\* ensureImage succeeded and the version is still in the definition.
ImageReady(b) ==
    LET a == appOf[b]
    IN  /\ Quiet
        /\ phase[b] = "building"
        /\ apps[a] # NoApp
        /\ HasVersion(apps[a], version[b])
        /\ apps' = [apps EXCEPT ![a] =
                       SetDeployedVersionAndImage(@, version[b], b)]
        /\ phase' = [phase EXCEPT ![b] = "deploying"]
        /\ version' = [version EXCEPT ![b] = 0]
        /\ OnBuildFinished(a)
        /\ UNCHANGED <<service, queue, calls, appOf, attached, promise, removal,
                       restarts>>

\* Mutant: the catch rejects without running onBuildFinished.
BuildFailsUnannounced(b) ==
    /\ Quiet
    /\ phase[b] = "building"
    /\ phase' = [phase EXCEPT ![b] = "failed"]
    /\ Settle(b, "rejected")
    /\ version' = [version EXCEPT ![b] = 0]
    /\ UNCHANGED <<apps, service, active, queue, shifts, calls, appOf, attached,
                   removal, restarts>>

\* ensureImage or setDeployedVersionAndImage rejected: the catch.
BuildFails(b) ==
    /\ Quiet
    /\ phase[b] = "building"
    /\ phase' = [phase EXCEPT ![b] = "failed"]
    /\ OnBuildFinished(appOf[b])
    /\ Settle(b, "rejected")
    /\ version' = [version EXCEPT ![b] = 0]
    /\ UNCHANGED <<apps, service, queue, calls, appOf, attached, removal,
                   restarts>>

\* ensureServiceInitedAndUpdated went through: the service runs the image the
\* definition named when the turn that set it ended.
ServiceUpdated(b) ==
    /\ Quiet
    /\ phase[b] = "deploying"
    /\ phase' = [phase EXCEPT ![b] = "done"]
    /\ service' = [service EXCEPT ![appOf[b]] = b]
    /\ Settle(b, "resolved")
    /\ UNCHANGED <<apps, active, queue, shifts, calls, appOf, version, attached,
                   removal, restarts>>

\* It failed, before or after Docker took the update, or in the reload of the
\* load balancer behind it: the catch runs onBuildFinished a second time.
ServiceUpdateFails(b) ==
    LET a == appOf[b]
    IN  /\ Quiet
        /\ phase[b] = "deploying"
        /\ phase' = [phase EXCEPT ![b] = "failed"]
        /\ service' \in {[service EXCEPT ![a] = img] :
                            img \in {b, IF service[a] = NoService
                                        THEN Placeholder ELSE service[a]}}
                        \cup {service}
        /\ OnBuildFinished(a)
        /\ Settle(b, "rejected")
        /\ UNCHANGED <<apps, queue, calls, appOf, version, attached, removal,
                       restarts>>

-----------------------------------------------------------------------------
(* removeApps for one app: ensureNotBuilding is asked once, before two     *)
(* calls to Docker.                                                        *)

RemoveStart(a) ==
    /\ Quiet
    /\ a \in Removable
    /\ removal[a] = "idle"
    /\ apps[a] # NoApp
    /\ ~active[a]
    /\ removal' = [removal EXCEPT ![a] = "inspecting"]
    /\ UNCHANGED <<apps, service, buildVars, restarts>>

RemoveInspect(a) ==
    /\ Quiet
    /\ removal[a] = "inspecting"
    /\ \/ /\ service[a] # NoService
          /\ removal' = [removal EXCEPT ![a] = "removing"]
          /\ UNCHANGED apps
       \/ /\ service[a] = NoService
          /\ removal' = [removal EXCEPT ![a] = "idle"]
          /\ apps' = [apps EXCEPT ![a] = NoApp]
    /\ UNCHANGED <<service, buildVars, restarts>>

RemoveFinish(a) ==
    /\ Quiet
    /\ removal[a] = "removing"
    /\ removal' = [removal EXCEPT ![a] = "idle"]
    /\ service' = [service EXCEPT ![a] = NoService]
    /\ apps' = [apps EXCEPT ![a] = NoApp]
    /\ UNCHANGED <<buildVars, restarts>>

\* Docker did not answer, or did not remove the service: the definition stays.
RemoveFails(a) ==
    /\ Quiet
    /\ removal[a] # "idle"
    /\ removal' = [removal EXCEPT ![a] = "idle"]
    /\ UNCHANGED <<apps, service, buildVars, restarts>>

\* The process stops: everything but the definitions and Docker's services
\* lived in its memory.
Restart ==
    /\ restarts < MaxRestarts
    /\ restarts' = restarts + 1
    /\ active' = [a \in Apps |-> FALSE]
    /\ queue' = <<>>
    /\ shifts' = 0
    /\ phase' = [b \in Builds |->
                    IF phase[b] \in {"queued", "building", "deploying"}
                    THEN "lost" ELSE phase[b]]
    /\ promise' = [b \in Builds |->
                      IF promise[b] = "pending" THEN "lost" ELSE promise[b]]
    /\ version' = [b \in Builds |-> 0]
    /\ removal' = [a \in Apps |-> "idle"]
    /\ UNCHANGED <<apps, service, calls, appOf, attached>>

-----------------------------------------------------------------------------
Next ==
    \/ \E a \in Apps : \/ Schedule(a)
                       \/ Register(a)
                       \/ RemoveStart(a)
                       \/ RemoveInspect(a)
                       \/ RemoveFinish(a)
                       \/ RemoveFails(a)
    \/ \E b \in Builds : \/ ImageReady(b)
                         \/ BuildFails(b)
                         \/ ServiceUpdated(b)
                         \/ ServiceUpdateFails(b)
    \/ ShiftQueue
    \/ Restart

Spec == Init /\ [][Next]_vars

\* Docker and the image build answer in the end, one way or the other, and the
\* event loop runs the callbacks it was given.  Nobody has to call or remove.
Fairness ==
    /\ WF_vars(ShiftQueue)
    /\ \A b \in Builds : /\ WF_vars(ImageReady(b) \/ BuildFails(b))
                         /\ WF_vars(ServiceUpdated(b) \/ ServiceUpdateFails(b))

FairSpec == Spec /\ Fairness

-----------------------------------------------------------------------------
(* Properties                                                              *)

QueuedApps == {queue[i].app : i \in DOMAIN queue}

BuildingApps == {appOf[b] : b \in InPhase("building")}

\* An app marked in activeOrScheduledBuilds is queued or being built, so that
\* a mark is always taken away again and never blocks updates, renames and
\* deletes of the app (ensureNotBuilding) for good.
MarkedAppsHaveABuild ==
    \A a \in Apps : active[a] => a \in QueuedApps \cup BuildingApps

\* While a build is queued another one is under way, or the callback that takes
\* one off the queue is about to run: no queued build waits for a wake-up that
\* nobody will send.
NoStrandedBuild == queue # <<>> => BuildingApps # {} \/ shifts > 0

\* scheduleDeployNewVersion keeps at most one queued build of an app.
OneQueueEntryPerApp ==
    \A i, j \in DOMAIN queue : queue[i].app = queue[j].app => i = j

\* The sources still to be built are those of the queue, each there once: a
\* source that was replaced, taken off or lost is in no entry.
QueueHoldsTheQueued ==
    /\ {queue[i].source : i \in DOMAIN queue} = InPhase("queued")
    /\ \A i, j \in DOMAIN queue : queue[i].source = queue[j].source => i = j

\* createNewVersion numbers the versions of an app in increasing order, however
\* its builds interleave and however many old versions were dropped.
VersionsIncrease ==
    \A a \in Apps : apps[a] # NoApp => Increasing(apps[a])

\* Two builds of one app under way at the same time never hold the same version
\* number, so neither can record its image in the other's version.  (A deleted
\* app that is registered again starts over from 0, with builds under way.)
BuildsHoldDistinctVersions ==
    \A b, c \in InPhase("building") :
        appOf[b] \notin Removable /\ appOf[b] = appOf[c] /\ version[b] = version[c] => b = c

\* Every queued source is built, replaced by a newer one of its app, or lost in
\* a restart: it does not stay in the queue.
QueuedBuildsStart ==
    \A b \in Builds : phase[b] = "queued" ~> phase[b] # "queued"

\* The comment in scheduleDeployNewVersion: the promise of a queued build is
\* there for attached builds, and returns when the build is finished.
PromisesSettle ==
    \A b \in Builds : promise[b] = "pending" ~> promise[b] # "pending"
=============================================================================
