---------------------------- MODULE ControlPlane ----------------------------
(***************************************************************************)
(* The life of the captain service after its creation: CaptainManager's    *)
(* initialisation with the services it makes sure of (DockerApi,           *)
(* LoadBalancerManager, CertbotManager), the second phase of a restoration *)
(* (BackupManager), backups, the health check and the restarts.            *)
(*                                                                         *)
(* A process runs through its initialisation once; whatever goes wrong in  *)
(* it ends the process, and Docker starts the next one.  A change of the   *)
(* service makes Docker replace the process, at a moment of its own.       *)
(***************************************************************************)
EXTENDS Restoration, FiniteSets

CONSTANTS
    MaxFailAllowed,  \* failed health checks in a row that are let pass
    MaxBackups,      \* bound: backups that are kept apart
    UserApps         \* bound: the apps that users register or change

ASSUME HealthAssumption == MaxFailAllowed \in Nat /\ UserApps \subseteq Apps

VARIABLES
    process,     \* the process of the captain service
    outdated,    \* Docker is about to replace it
    balancers,   \* the machines of the nginx and of the certbot service
    running,     \* the apps that have a service
    downloads    \* the backups that can be downloaded

planeVars == <<process, outdated, balancers, running, downloads>>

vars == <<restorationVars, planeVars>>

Steps == {"locate", "network", "connect", "secret", "mount", "halted", "read",
          "nginx", "certbot", "phase2", "apps", "cleanup", "serving"}

\* mounted: the secret was on the service when the process began; salt: what it
\* read from it; todo: the apps phase 2 has still to see to; builds, updates:
\* the apps whose image is made, or whose service is brought up to date, after
\* requests; waiting: waitUntilRestarted; backup: longOperationInProgress;
\* fails: consecutiveHealthCheckFailCount.
Process == [at : Steps, mounted : BOOLEAN, salt : Salt \cup {None},
            todo : SUBSET Apps, builds : SUBSET Apps, updates : SUBSET Apps,
            waiting : BOOLEAN, backup : BOOLEAN, fails : 0 .. MaxFailAllowed]

Balancers == {"nginx", "certbot"}

TypeOK ==
    /\ RestorationTypeOK
    /\ process \in Process \cup {None}
    /\ outdated \in BOOLEAN
    /\ balancers \in [Balancers -> Machines \cup {None}]
    /\ running \in SUBSET Apps
    /\ downloads \in SUBSET Archive

\* In an existing swarm there may be an nginx of an earlier installation.
Init ==
    /\ RestorationInit
    /\ process = None
    /\ outdated = FALSE
    /\ balancers \in {[b \in Balancers |-> m] :
                        m \in {None} \cup (IF swarm.joined = {} THEN {} ELSE Machines)}
    /\ running = {}
    /\ downloads = {}

At(step) == process # None /\ process.at = step

Serving == At("serving")

GoesTo(step) == process' = [process EXCEPT !.at = step]

-----------------------------------------------------------------------------
(* The start of a process                                                  *)

\* Docker starts the container; the data store creates its file.
StartProcess ==
    /\ captain # None
    /\ process = None
    /\ process' = [at |-> "locate", mounted |-> captain.secret, salt |-> None, todo |-> {},
                   builds |-> {}, updates |-> {}, waiting |-> FALSE, backup |-> FALSE, fails |-> 0]
    /\ outdated' = FALSE
    /\ data' = IF data = None THEN EmptyData ELSE data
    /\ UNCHANGED <<tar, restoring, swarm, captain, installer, failures, balancers, running,
                   downloads>>

\* The node of the service is a manager; the temporary and the generated files
\* are removed, the downloads among them, and the directories made.
PrepareDirectories ==
    /\ At("locate")
    /\ GoesTo("network")
    /\ downloads' = {}
    /\ UNCHANGED <<restorationVars, outdated, balancers, running>>

EnsureOverlayNetwork ==
    /\ At("network")
    /\ GoesTo("connect")
    /\ UNCHANGED <<restorationVars, outdated, balancers, running, downloads>>

\* Connecting the captain service changes it.
EnsureServiceConnectedToNetwork ==
    /\ At("connect")
    /\ captain' = [captain EXCEPT !.network = TRUE]
    /\ outdated' = (outdated \/ ~captain.network)
    /\ GoesTo("secret")
    /\ UNCHANGED <<diskVars, swarm, installer, failures, balancers, running, downloads>>

EnsureCaptainSalt ==
    /\ At("secret")
    /\ EnsureSecret(swarm.number)
    /\ GoesTo("mount")
    /\ UNCHANGED <<diskVars, captain, installer, failures, outdated, balancers, running, downloads>>

\* Mutant: the secret is put on the service again at each start.
AlwaysHalts ==
    /\ At("mount")
    /\ captain' = [captain EXCEPT !.secret = TRUE]
    /\ outdated' = TRUE
    /\ GoesTo("halted")
    /\ UNCHANGED <<diskVars, swarm, installer, failures, balancers, running, downloads>>

\* A process that has just added the secret halts.
EnsureSecretOnService ==
    /\ At("mount")
    /\ captain' = [captain EXCEPT !.secret = TRUE]
    /\ outdated' = (outdated \/ ~captain.secret)
    /\ GoesTo(IF captain.secret THEN "read" ELSE "halted")
    /\ UNCHANGED <<diskVars, swarm, installer, failures, balancers, running, downloads>>

ReadSalt ==
    /\ At("read")
    /\ process.mounted
    /\ process' = [process EXCEPT !.salt = swarm.salt, !.at = "nginx"]
    /\ UNCHANGED <<restorationVars, outdated, balancers, running, downloads>>

\* LoadBalancerManager.init and CertbotManager.init: the service is made on the
\* captain's node, if need be after it was removed from another one.
EnsureOnMyNode(b, next) ==
    /\ At(b)
    /\ IF balancers[b] = Main
       THEN GoesTo(next) /\ UNCHANGED balancers
       ELSE /\ balancers' = [balancers EXCEPT ![b] = IF @ = None THEN Main ELSE None]
            /\ UNCHANGED process
    /\ UNCHANGED <<restorationVars, outdated, running, downloads>>

\* The second phase: the salt is compared, every app gets its service, and then
\* the directory of the restoration goes.
SkipPhase2 ==
    /\ At("phase2")
    /\ ~HasInstructions
    /\ GoesTo("cleanup")
    /\ UNCHANGED <<restorationVars, outdated, balancers, running, downloads>>

\* Mutant: the salts are not compared.
AnySaltWillDo ==
    /\ At("phase2")
    /\ HasInstructions
    /\ process' = [process EXCEPT !.todo = data.apps, !.at = "apps"]
    /\ UNCHANGED <<restorationVars, outdated, balancers, running, downloads>>

BeginPhase2 ==
    /\ At("phase2")
    /\ HasInstructions
    /\ restoring.salt = process.salt
    /\ process' = [process EXCEPT !.todo = data.apps, !.at = "apps"]
    /\ UNCHANGED <<restorationVars, outdated, balancers, running, downloads>>

\* ensureServiceInitedAndUpdated, which throws if the deployed version of the
\* app has no image.
EnsureAppInited(a) ==
    /\ At("apps")
    /\ a \in process.todo
    /\ a \in data.built
    /\ running' = running \cup {a}
    /\ process' = [process EXCEPT !.todo = @ \ {a}]
    /\ UNCHANGED <<restorationVars, outdated, balancers, downloads>>

\* Mutant: the directory is removed without waiting for the services.
EndsEarly ==
    /\ At("apps")
    /\ restoring' = None
    /\ GoesTo("cleanup")
    /\ UNCHANGED <<tar, data, swarm, captain, installer, failures, outdated, balancers, running,
                   downloads>>

EndPhase2 ==
    /\ At("apps")
    /\ process.todo = {}
    /\ restoring' = None
    /\ GoesTo("cleanup")
    /\ UNCHANGED <<tar, data, swarm, captain, installer, failures, outdated, balancers, running,
                   downloads>>

\* Disk cleanup and GoAccess are set up, and then the captain is ready.
BecomesReady ==
    /\ At("cleanup")
    /\ GoesTo("serving")
    /\ UNCHANGED <<restorationVars, outdated, balancers, running, downloads>>

-----------------------------------------------------------------------------
(* A process that serves                                                   *)

IsInitialized == Serving /\ ~process.waiting /\ ~process.backup

\* The definition is stored, and then the image of a placeholder is made;
\* whether it can be is not waited for, or logged.
RegisterApp(a) ==
    /\ IsInitialized
    /\ a \notin data.apps
    /\ data' = [data EXCEPT !.apps = @ \cup {a}, !.pins[a] = None]
    /\ process' = [process EXCEPT !.builds = @ \cup {a}]
    /\ UNCHANGED <<tar, restoring, swarm, captain, installer, failures, outdated, balancers,
                   running, downloads>>

\* An app is changed: it may be bound to a node, and the definition may hold a
\* field that is encrypted.
SaveApp(a, pin, encrypted) ==
    /\ IsInitialized
    /\ a \in data.apps
    /\ data' = [data EXCEPT !.pins[a] = pin,
                            !.salt = IF encrypted THEN process.salt ELSE @]
    /\ process' = [process EXCEPT !.updates = @ \cup {a}]
    /\ UNCHANGED <<tar, restoring, swarm, captain, installer, failures, outdated, balancers,
                   running, downloads>>

\* A new version of an app.
DeployApp(a) ==
    /\ IsInitialized
    /\ a \in data.apps
    /\ process' = [process EXCEPT !.builds = @ \cup {a}]
    /\ UNCHANGED <<restorationVars, outdated, balancers, running, downloads>>

BuildEnds(a) ==
    /\ Serving
    /\ a \in process.builds
    /\ \/ /\ data' = [data EXCEPT !.built = @ \cup {a}]
          /\ process' = [process EXCEPT !.builds = @ \ {a}, !.updates = @ \cup {a}]
       \/ /\ process' = [process EXCEPT !.builds = @ \ {a}]
          /\ UNCHANGED data
    /\ UNCHANGED <<tar, restoring, swarm, captain, installer, failures, outdated, balancers,
                   running, downloads>>

\* The service is made before it is brought up to date; either may fail.
ServiceUpdateEnds(a) ==
    /\ Serving
    /\ a \in process.updates
    /\ process' = [process EXCEPT !.updates = @ \ {a}]
    /\ running' \in {running} \cup {running \cup {x} : x \in {a} \cap data.built}
    /\ UNCHANGED <<restorationVars, outdated, balancers, downloads>>

\* SystemRouter: another machine joins the swarm.
JoinNode(m) ==
    /\ IsInitialized
    /\ swarm' = [swarm EXCEPT !.joined = @ \cup {m}]
    /\ UNCHANGED <<diskVars, captain, installer, failures, planeVars>>

StartBackup ==
    /\ IsInitialized
    /\ process' = [process EXCEPT !.backup = TRUE]
    /\ UNCHANGED <<restorationVars, outdated, balancers, running, downloads>>

\* "cp -rp source dest" makes dest a copy, or puts one into it if it is there.
CopyIsFlat(destExists) == ~destExists

\* The data is copied to a directory that was made before, and packed with the
\* salt and the nodes of the swarm.
CreateBackupInternal ==
    [salt |-> process.salt, nodes |-> {NodeOf(m) : m \in swarm.joined}, data |-> data,
     flat |-> CopyIsFlat(TRUE)]

FinishBackup ==
    /\ Serving
    /\ process.backup
    /\ Cardinality(downloads) < MaxBackups
    /\ downloads' = downloads \cup {CreateBackupInternal}
    /\ process' = [process EXCEPT !.backup = FALSE]
    /\ UNCHANGED <<restorationVars, outdated, balancers, running>>

BackupFails ==
    /\ Serving
    /\ process.backup
    /\ process' = [process EXCEPT !.backup = FALSE]
    /\ UNCHANGED <<restorationVars, outdated, balancers, running, downloads>>

\* A download is deleted when it was sent, and after two hours.
DeleteDownload(b) ==
    /\ b \in downloads
    /\ process # None
    /\ downloads' = downloads \ {b}
    /\ UNCHANGED <<restorationVars, process, outdated, balancers, running>>

\* Two probes, each with its time limit; the process ends after too many rounds
\* in a row in which one of them failed.
PerformHealthCheck(passed) ==
    /\ Serving
    /\ process' = CASE passed -> [process EXCEPT !.fails = 0]
                    [] ~passed /\ process.fails < MaxFailAllowed ->
                          [process EXCEPT !.fails = @ + 1]
                    [] OTHER -> None
    /\ UNCHANGED <<restorationVars, outdated, balancers, running, downloads>>

\* Non-SSL traffic was allowed or refused: the process waits to be replaced.
ResetSelf ==
    /\ IsInitialized
    /\ process' = [process EXCEPT !.waiting = TRUE]
    /\ outdated' = TRUE
    /\ UNCHANGED <<restorationVars, balancers, running, downloads>>

UpdateCaptain ==
    /\ IsInitialized
    /\ outdated' = TRUE
    /\ UNCHANGED <<restorationVars, process, balancers, running, downloads>>

-----------------------------------------------------------------------------
(* The end of a process                                                    *)

DockerReplaces ==
    /\ process # None
    /\ outdated
    /\ process' = None
    /\ UNCHANGED <<restorationVars, outdated, balancers, running, downloads>>

\* The initialisation cannot go on, and ends the process.
CannotGoOn ==
    \/ At("read") /\ ~process.mounted
    \/ At("phase2") /\ HasInstructions /\ restoring.salt # process.salt
    \/ At("apps") /\ \E a \in process.todo : a \notin data.built

\* A step of the initialisation fails, or the process is killed.
ProcessEnds ==
    /\ process # None
    /\ ~CannotGoOn => failures < MaxFailures
    /\ failures' = IF CannotGoOn THEN failures ELSE failures + 1
    /\ process' = None
    /\ UNCHANGED <<diskVars, swarm, captain, installer, outdated, balancers, running, downloads>>

-----------------------------------------------------------------------------

ProcessStep ==
    \/ PrepareDirectories
    \/ EnsureOverlayNetwork
    \/ EnsureServiceConnectedToNetwork
    \/ EnsureCaptainSalt
    \/ EnsureSecretOnService
    \/ ReadSalt
    \/ EnsureOnMyNode("nginx", "certbot")
    \/ EnsureOnMyNode("certbot", "phase2")
    \/ SkipPhase2
    \/ BeginPhase2
    \/ \E a \in Apps : EnsureAppInited(a)
    \/ EndPhase2
    \/ BecomesReady

Request ==
    \/ \E a \in UserApps : RegisterApp(a) \/ DeployApp(a)
    \/ \E a \in UserApps, m \in swarm.joined, encrypted \in BOOLEAN :
          SaveApp(a, NodeOf(m), encrypted) \/ SaveApp(a, None, encrypted)
    \/ \E m \in Machines : JoinNode(m)
    \/ StartBackup
    \/ \E b \in downloads : DeleteDownload(b)
    \/ ResetSelf
    \/ UpdateCaptain

\* The services of a swarm are gone with it.
Leave ==
    /\ LeaveSwarm
    /\ balancers' = [b \in Balancers |-> None]
    /\ UNCHANGED <<process, outdated, running, downloads>>

Next ==
    \/ InstallerStep /\ UNCHANGED planeVars
    \/ InstallationFails /\ UNCHANGED planeVars
    \/ Install /\ UNCHANGED planeVars
    \/ (\E n \in Node, answer \in Answer : EditInstructions(n, answer)) /\ UNCHANGED planeVars
    \/ Leave
    \/ StartProcess
    \/ ProcessStep
    \/ Request
    \/ \E a \in Apps : BuildEnds(a) \/ ServiceUpdateEnds(a)
    \/ FinishBackup
    \/ BackupFails
    \/ \E passed \in BOOLEAN : PerformHealthCheck(passed)
    \/ DockerReplaces
    \/ ProcessEnds

Spec == Init /\ [][Next]_vars

\* Docker keeps the service running and carries out its changes; what a start
\* asks of Docker and the file system is answered, or the process ends.
FairSpec ==
    /\ Spec
    /\ WF_vars(StartProcess)
    /\ WF_vars(ProcessStep)
    /\ WF_vars(DockerReplaces)
    /\ WF_vars(ProcessEnds /\ CannotGoOn)

-----------------------------------------------------------------------------
(* Properties                                                              *)

\* The salt lives in a secret of the swarm, the fields that are encrypted with
\* it on the disk: a captain that serves must have the salt its data needs,
\* whichever of the installer and the processes made the secret
\* (ensureSecret, phase 1, initialize, phase 2).
ServesWithTheSaltOfItsData ==
    Serving => data.salt \in {process.salt, None}

\* Whatever was interrupted before: when the captain serves, nginx and certbot
\* are beside it, every app that came with a backup has its service, and every
\* app that is bound to a node is bound to one of this swarm
\* (ensureAllAppsInited is done as a whole before the directory of the
\* restoration is removed).  An app that is registered here has its service
\* when a build of it has ended well, which nothing promises.
ServesWithItsServices ==
    Serving => /\ \A b \in Balancers : balancers[b] = Main
               /\ data.brought \subseteq running
               /\ \A a \in data.apps :
                     data.pins[a] \in {NodeOf(m) : m \in swarm.joined} \cup {None}

\* At every moment the backup that is being restored is in one of the archive,
\* the directory of the restoration and the data: an attempt that is stopped
\* anywhere loses nothing (extractBackupContentAndRemoveTar, phase 1).
HasBackup ==
    \/ tar # None
    \/ restoring # None /\ restoring.data # None
    \/ data # None /\ ~data.own

BackupIsKept == [][HasBackup => HasBackup']_vars

\* Once the installer has made the captain service, the captain serves in the
\* end, through the restarts it causes itself.  The exceptions are restorations
\* whose phase 2 ends the process each time: in a swarm that has a salt already,
\* and of an app whose deployed version has no image.
CannotBeRestored ==
    HasInstructions /\ (restoring.salt # swarm.salt \/ ~(data.apps \subseteq data.built))

CreatedCaptainServes == (captain # None /\ (data # None => ~CannotBeRestored)) ~> Serving

\* What BackupManager.ts:707 says of an archive, which is what the restoration
\* looks for: the data is copied to "data".
BackupsCanBeRestored == \A b \in downloads : b.flat

\* An installation that was interrupted can be taken up again
\* (BackupManager.ts:302, "Resuming restoration from backup").
RestorationCanBeResumed ==
    installer = "idle" /\ captain = None /\ HasInstructions =>
        /\ restoring.data # None
        /\ \A a \in restoring.data.apps :
              restoring.data.pins[a] \in restoring.nodes \cup {None}

\* A captain does not serve beside a backup that was never restored.
NoBackupIsForgotten ==
    Serving => restoring = None

=============================================================================
