----------------------------- MODULE AgentDeploy -----------------------------
(***************************************************************************)
(* runAgentDeployment on top of the build scheduler: how a deployment that *)
(* an agent asked for calls scheduleDeployNewVersion, what it learns from  *)
(* the promise it gets back, and how it undoes a deployment that failed.   *)
(*                                                                         *)
(* Everything runAgentDeployment does between two awaits of Docker or of a *)
(* build is microtasks, so it happens in one turn of the event loop; but   *)
(* two promise chains of one turn interleave, and both read and write the  *)
(* whole definition of the app.  Where that loses a write it is lost here. *)
(*                                                                         *)
(* Left out: removeApps, and with it builds of apps without a definition.  *)
(***************************************************************************)
EXTENDS BuildQueue

CONSTANTS
    Jobs,        \* calls of runAgentDeployment
    Contents,    \* what a source is recognised by: git hash or image name
    NoVersion    \* no previous version noted

ASSUME DeployAssumption == NoVersion \notin Nat

VARIABLES
    job,        \* where each call of runAgentDeployment is
    awaits,     \* the call whose promise it waits for
    source,     \* the call that handed over its own source
    previous,   \* the deployed version it noted
    restoring,  \* the image it puts back
    content,    \* the content of the source of each call
    before      \* the definitions as this turn's first chain left them

deployVars == <<job, awaits, source, previous, restoring, content, before>>
allVars == <<vars, deployVars>>

JobStates == {"idle", "new", "replacing", "undoing", "succeeded", "failed",
              "lost"}
NoCall == 0

DeployTypeOK ==
    /\ TypeOK
    /\ job \in [Jobs -> JobStates]
    /\ awaits \in [Jobs -> Builds \cup {NoCall}]
    /\ source \in [Jobs -> Builds \cup {NoCall}]
    /\ previous \in [Jobs -> Nat \cup {NoVersion}]
    /\ restoring \in [Jobs -> Images \cup {NoImage}]
    /\ content \in [Builds -> Contents]
    /\ before \in [Apps -> Definition(Images) \cup {NoApp}]
    /\ \A d \in Jobs : job[d] \in {"new", "replacing", "undoing"} =>
           awaits[d] # NoCall /\ source[d] # NoCall

DeployInit ==
    /\ Init
    /\ job = [d \in Jobs |-> "idle"]
    /\ awaits = [d \in Jobs |-> NoCall]
    /\ source = [d \in Jobs |-> NoCall]
    /\ previous = [d \in Jobs |-> NoVersion]
    /\ restoring = [d \in Jobs |-> NoImage]
    /\ content \in [Builds -> Contents]
    /\ before = apps

AppOf(d) == appOf[source[d]]

\* The promise a job awaits has come to an outcome; the job goes on in the same
\* turn, after the callback that onBuildFinished left.
Told(d, outcome) ==
    /\ job[d] \in {"new", "replacing"}
    /\ promise[awaits[d]] = outcome

Due == {d \in Jobs : Told(d, "resolved") \/ Told(d, "rejected")}

-----------------------------------------------------------------------------
(* The scheduler's own steps, between the steps of the jobs.               *)

SchedulerStep ==
    /\ Due = {}
    /\ \/ \E a \in Apps : (apps[a] # NoApp /\ Schedule(a)) \/ Register(a)
       \/ \E b \in Builds : \/ ImageReady(b)
                            \/ BuildFails(b)
                            \/ ServiceUpdated(b)
                            \/ ServiceUpdateFails(b)
    /\ before' = apps'
    /\ UNCHANGED <<job, awaits, source, previous, restoring, content>>

\* createNewVersion for the build taken off the queue reads after what woke it
\* and writes before a job that is due: the job has read by then.
ShiftStep ==
    /\ ShiftQueue
    /\ UNCHANGED deployVars

RestartStep ==
    /\ Restart
    /\ job' = [d \in Jobs |-> IF job[d] \in {"new", "replacing", "undoing"}
                              THEN "lost" ELSE job[d]]
    /\ before' = apps
    /\ UNCHANGED <<awaits, source, previous, restoring, content>>

-----------------------------------------------------------------------------
(* runAgentDeployment up to the await of the build.                        *)

\* The call whose promise a deploy of app a that is call b gets back.
PromiseFor(a, b) ==
    LET waiting == {i \in DOMAIN queue : queue[i].app = a}
    IN  IF isAnyBuildRunning /\ waiting # {}
        THEN queue[Min(waiting)].promise ELSE b

\* A replacement: the deployed version is noted and the source handed over.
BeginReplacement(d, a) ==
    /\ Quiet /\ Due = {}
    /\ job[d] = "idle"
    /\ apps[a] # NoApp
    /\ previous' = [previous EXCEPT ![d] = apps[a].deployedVersion]
    /\ awaits' = [awaits EXCEPT ![d] = PromiseFor(a, calls + 1)]
    /\ source' = [source EXCEPT ![d] = calls + 1]
    /\ job' = [job EXCEPT ![d] = "replacing"]
    /\ ScheduleDeployNewVersion(a, apps)
    /\ before' = apps'
    /\ UNCHANGED <<service, removal, restarts, restoring, content>>

\* A new app: registerAppDefinition schedules a build p of the placeholder and
\* does not wait for it; the agent's source b is scheduled behind it.  The app
\* had no definition, so no build of it is queued.
BeginNew(d, a, p, b) ==
    /\ Quiet /\ Due = {}
    /\ job[d] = "idle"
    /\ apps[a] = NoApp
    /\ b <= MaxBuilds
    /\ calls' = b
    /\ appOf' = [appOf EXCEPT ![p] = a, ![b] = a]
    /\ apps' = [apps EXCEPT ![a] = FreshDefinition]
    /\ active' = [active EXCEPT ![a] = TRUE]
    /\ source' = [source EXCEPT ![d] = b]
    /\ job' = [job EXCEPT ![d] = "new"]
    /\ before' = apps'
    /\ UNCHANGED <<service, shifts, removal, restarts, previous, restoring,
                   content>>

\* Nothing is building: the placeholder's build starts at once.  Its
\* createNewVersion and markAppCreatedByAgent read the definition in the same
\* tick and the second writes last: the version of the placeholder is lost.
NewStartsPlaceholder(d, a, p, b) ==
    /\ ~isAnyBuildRunning
    /\ BeginNew(d, a, p, b)
    /\ phase' = [phase EXCEPT ![p] = "building", ![b] = "queued"]
    /\ version' = [version EXCEPT ![p] = NewVersionIndex(FreshDefinition)]
    /\ queue' = Append(queue, [app |-> a, source |-> b, promise |-> b])
    /\ promise' = [promise EXCEPT ![p] = "pending", ![b] = "pending"]
    /\ attached' = attached \cup {p}
    /\ awaits' = [awaits EXCEPT ![d] = b]

\* Something is building: the placeholder is queued, and replaced by the
\* agent's source, which gets the promise of the placeholder's entry.
NewReplacesPlaceholder(d, a, p, b) ==
    /\ isAnyBuildRunning
    /\ BeginNew(d, a, p, b)
    /\ phase' = [phase EXCEPT ![p] = "replaced", ![b] = "queued"]
    /\ queue' = Append(queue, [app |-> a, source |-> b, promise |-> p])
    /\ promise' = [promise EXCEPT ![p] = "pending"]
    /\ awaits' = [awaits EXCEPT ![d] = p]
    /\ UNCHANGED <<version, attached>>

-----------------------------------------------------------------------------
(* And from its answer on.                                                 *)

JobSucceeds(d) ==
    /\ Quiet
    /\ Told(d, "resolved")
    /\ job' = [job EXCEPT ![d] = "succeeded"]
    /\ UNCHANGED <<vars, awaits, source, previous, restoring, content, before>>

\* The definition as the job reads it: without the version of the build that
\* this turn took off the queue.
ReadBy(d) == before[AppOf(d)]

\* Mutant: the number of the version is not compared.
OwnsAttemptedVersionByContent(d) ==
    LET img == DeployedImage(ReadBy(d))
    IN  /\ previous[d] \in Nat \ {0}
        /\ img \in Builds
        /\ content[img] = content[source[d]]

\* The version now deployed is the next after the one noted, and its content is
\* that of the job's source.
OwnsAttemptedVersion(d) ==
    LET img == DeployedImage(ReadBy(d))
    IN  /\ previous[d] \in Nat \ {0}
        /\ ReadBy(d).deployedVersion = previous[d] + 1
        /\ img \in Builds
        /\ content[img] = content[source[d]]

Undo(d, def) ==
    /\ apps' = [apps EXCEPT ![AppOf(d)] = def]
    /\ restoring' = [restoring EXCEPT ![d] = DeployedImage(def)]
    /\ job' = [job EXCEPT ![d] = "undoing"]

MayRollBack(d) ==
    /\ job[d] = "replacing"
    /\ OwnsAttemptedVersion(d)
    /\ CanRollBack(ReadBy(d), previous[d])

\* The failure of a new app pauses it, that of a replacement puts the previous
\* version back.  A definition is written as it was read.
JobFails(d) ==
    /\ Quiet
    /\ Told(d, "rejected")
    /\ \/ job[d] = "new" /\ Undo(d, Pause(ReadBy(d)))
       \/ MayRollBack(d) /\ Undo(d, RollBack(ReadBy(d), previous[d]))
       \/ /\ job[d] = "replacing" /\ ~MayRollBack(d)
          /\ job' = [job EXCEPT ![d] = "failed"]
          /\ UNCHANGED <<apps, restoring>>
    /\ before' = apps'
    /\ UNCHANGED <<service, buildVars, removal, restarts, awaits, source,
                   previous, content>>

\* ensureServiceInitedAndUpdated with what was put back, for better or worse.
UndoEnds(d) ==
    /\ Quiet /\ Due = {}
    /\ job[d] = "undoing"
    /\ job' = [job EXCEPT ![d] = "failed"]
    /\ \/ /\ restoring[d] # NoImage
          /\ service' = [service EXCEPT ![AppOf(d)] = restoring[d]]
       \/ UNCHANGED service
    /\ UNCHANGED <<apps, buildVars, removal, restarts, awaits, source,
                   previous, restoring, content, before>>

-----------------------------------------------------------------------------
DeployNext ==
    \/ SchedulerStep
    \/ ShiftStep
    \/ RestartStep
    \/ \E d \in Jobs : \/ \E a \in Apps :
                             \/ BeginReplacement(d, a)
                             \/ NewStartsPlaceholder(d, a, calls + 1, calls + 2)
                             \/ NewReplacesPlaceholder(d, a, calls + 1, calls + 2)
                       \/ JobSucceeds(d)
                       \/ JobFails(d)
                       \/ UndoEnds(d)

DeploySpec == DeployInit /\ [][DeployNext]_allVars

\* As in BuildQueue: Docker and the builds answer, and the event loop runs what
\* it was given.
DeployFairness ==
    /\ WF_allVars(ShiftStep)
    /\ \A b \in Builds :
        /\ WF_allVars(SchedulerStep /\ (ImageReady(b) \/ BuildFails(b)))
        /\ WF_allVars(SchedulerStep /\ (ServiceUpdated(b) \/ ServiceUpdateFails(b)))
    /\ \A d \in Jobs : WF_allVars(JobSucceeds(d) \/ JobFails(d) \/ UndoEnds(d))

FairDeploySpec == DeploySpec /\ DeployFairness

-----------------------------------------------------------------------------
(* Properties                                                              *)

\* A rollback takes back a version that was built for the job or for an earlier
\* call, never one that somebody deployed after the agent.  (The deployed
\* version may have left the history by then: it has no image.)
UndoKeepsLaterDeploys ==
    [][\A d \in Jobs : job[d] = "replacing" /\ job'[d] = "undoing" =>
           LET img == DeployedImage(apps[AppOf(d)])
           IN  img \in Builds => img <= source[d]]_allVars

\* A replacement whose build was not queued waits for nothing but that build:
\* while it waits its build or its service update is under way, or it is told.
StartedReplacementsAreAnswered ==
    \A d \in Jobs :
        job[d] = "replacing" /\ awaits[d] \in attached =>
            d \in Due \/ phase[awaits[d]] \in {"building", "deploying"}

\* The README and AGENT_ACCESS.md: the deployment of a new app ends, paused
\* when it failed, so that its agent reads a clear status.
NewAppDeploymentsEnd ==
    \A d \in Jobs : job[d] = "new" ~> job[d] # "new"

\* The README: failed replacements restore the previous deployable version when
\* one is available.
FailedReplacementsRestore ==
    \A d \in Jobs :
        LET def == apps[AppOf(d)]
        IN  job[d] = "failed" /\ previous[d] # NoVersion =>
                ~ /\ DeployedImage(def) = source[d]
                  /\ def.deployedVersion # previous[d]
                  /\ CanRollBack(def, previous[d])
=============================================================================
