---------------------------- MODULE BuildSources ----------------------------
(***************************************************************************)
(* What a deployment of one app leaves on the disk: the archive that was   *)
(* uploaded (AppDataRouter), the directory in which ImageMaker puts the    *)
(* source together, the key with which GitHelper clones a repository, and  *)
(* the image that comes of it.  BuildQueue says when builds run; here it   *)
(* is only said that one waits at most, and that the mark of a running     *)
(* build goes with the first that ends, so that two may run at a time.     *)
(***************************************************************************)
EXTENDS FiniteSets, Naturals, JavaScript

CONSTANTS
    Deploys,       \* calls: uploads, or pushes to a tracked branch
    MaxRecreated   \* bound: times the app is deleted and created again

ASSUME SourcesAssumption ==
    /\ MaxRecreated \in Nat
    /\ IsFiniteSet(Deploys)
    /\ None \notin Deploys

Sources == {"archive", "content", "repository"}
Channels == {"attached", "detached", "webhook"}

\* dropped: it failed before ImageMaker looked after its source.
Stages == {"idle", "uploading", "queued", "replaced", "starting", "started", "fetching",
           "fetched", "found", "building", "pushing", "made", "failing", "imaged", "unpacked",
           "dropped", "ended", "lost"}

VARIABLES
    exists,     \* the app is defined
    latest,     \* the version createNewVersion drew last
    recreated,
    grant,      \* the deploy token and webhook that were given out are enabled
    marked,     \* activeOrScheduledBuilds
    waiting,    \* the queued build
    stage,      \* of each call
    sort,       \* its channel and source
    direct,     \* calls whose answer waits for the build
    version,    \* of a build that was started
    archives,   \* uploaded files, by call
    dirs,       \* version -> the sources in its directory
    keyFiles,   \* keys written for git, by call
    imageOf     \* the sources that a call's image is built from

appVars == <<exists, latest, recreated, grant>>
queueVars == <<marked, waiting>>
callVars == <<sort, direct, version>>
diskVars == <<archives, dirs, keyFiles>>
sourcesVars == <<appVars, queueVars, stage, callVars, diskVars, imageOf>>

Versions == 1 .. Cardinality(Deploys)

SourcesTypeOK ==
    /\ exists \in BOOLEAN
    /\ latest \in Nat
    /\ recreated \in 0 .. MaxRecreated
    /\ grant \in BOOLEAN
    /\ marked \in BOOLEAN
    /\ waiting \in Deploys \cup {None}
    /\ stage \in [Deploys -> Stages]
    /\ sort \in [Deploys -> [by : Channels, source : Sources] \cup {None}]
    /\ direct \subseteq Deploys
    /\ version \in [Deploys -> Nat]
    /\ archives \subseteq Deploys
    /\ dirs \in [Versions -> (SUBSET Deploys) \cup {None}]
    /\ keyFiles \subseteq Deploys
    /\ imageOf \in [Deploys -> SUBSET Deploys]

SourcesInit ==
    /\ exists = TRUE
    /\ latest = 0
    /\ recreated = 0
    /\ grant = TRUE
    /\ marked = FALSE
    /\ waiting = None
    /\ stage = [d \in Deploys |-> "idle"]
    /\ sort = [d \in Deploys |-> None]
    /\ direct = {}
    /\ version = [d \in Deploys |-> 0]
    /\ archives = {}
    /\ dirs = [v \in Versions |-> None]
    /\ keyFiles = {}
    /\ imageOf = [d \in Deploys |-> {}]

To(d, next) == stage' = [stage EXCEPT ![d] = next]

IsSort(d, source) == sort[d].source = source

-----------------------------------------------------------------------------
(* The call arrives                                                        *)

\* injectUserForBuildTrigger, and the handler that looks whether the app is
\* there.
MayPost(withToken) == exists /\ (withToken => grant)

\* injectUserForWebhook.  An app whose webhook was removed passes the injector,
\* and fails when its repository is looked for.
MayTrigger == exists /\ grant

\* The upload follows.
PostSource(d, by, source, withToken) ==
    /\ stage[d] = "idle"
    /\ by # "webhook"
    /\ source # "repository"
    /\ MayPost(withToken)
    /\ sort' = [sort EXCEPT ![d] = [by |-> by, source |-> source]]
    /\ To(d, "uploading")
    /\ UNCHANGED <<appVars, queueVars, direct, version, diskVars, imageOf>>

\* scheduleDeployNewVersion
Schedule(d, by) ==
    IF ~marked
    THEN /\ To(d, "starting")
         /\ marked' = TRUE
         /\ direct' = IF by = "attached" THEN direct \cup {d} ELSE direct
         /\ UNCHANGED waiting
    ELSE /\ stage' = [e \in Deploys |-> IF e = d THEN "queued"
                                        ELSE IF e = waiting THEN "replaced" ELSE stage[e]]
         /\ waiting' = d
         /\ UNCHANGED <<marked, direct>>

\* The mutant's Responds: the router removes the archive once it has answered.
ScheduledAndRemoved(d, saved) ==
    /\ Schedule(d, sort[d].by)
    /\ archives' = IF sort[d].by = "detached" THEN archives ELSE saved

\* The router leaves the archive to the build.
HandOff(d, saved) ==
    /\ Schedule(d, sort[d].by)
    /\ archives' = saved

\* uploadCaptainDefinitionContent: multer has saved the file.
Uploaded(d) ==
    /\ stage[d] = "uploading"
    /\ HandOff(d, IF IsSort(d, "archive") THEN archives \cup {d} ELSE archives)
    /\ UNCHANGED <<appVars, sort, version, dirs, keyFiles, imageOf>>

\* An upload that multer refuses, or that brings both or neither of archive
\* and content: the file, if there is one, is removed.
UploadFails(d) ==
    /\ stage[d] = "uploading"
    /\ To(d, "ended")
    /\ sort' = [sort EXCEPT ![d] = None]
    /\ UNCHANGED <<appVars, queueVars, direct, version, diskVars, imageOf>>

\* POST /triggerbuild answers first; a push to another branch builds nothing.
TriggerBuild(d) ==
    /\ stage[d] = "idle"
    /\ MayTrigger
    /\ sort' = [sort EXCEPT ![d] = [by |-> "webhook", source |-> "repository"]]
    /\ Schedule(d, "webhook")
    /\ UNCHANGED <<appVars, version, diskVars, imageOf>>

-----------------------------------------------------------------------------
(* The build: startDeployingNewVersion, ensureImage                        *)

\* Mutant: all builds of an app use one directory.
OneDirectory(d) == 1

\* getDirectoryForRawSource
DirectoryOf(d) == version[d]

Busy(d) == stage[d] \in {"started", "fetching", "fetched", "found", "building",
                         "pushing", "made", "failing", "imaged", "unpacked"}

createNewVersion(d) ==
    /\ stage[d] = "starting"
    /\ exists
    /\ latest' = latest + 1
    /\ version' = [version EXCEPT ![d] = latest + 1]
    /\ To(d, "started")
    /\ UNCHANGED <<exists, recreated, grant, queueVars, sort, direct, diskVars,
                   imageOf>>

\* The app is gone; or its captain-definition is not inside the source, which
\* ensureImage rejects before anything else.
NotTaken(d) ==
    /\ \/ stage[d] = "starting" /\ ~exists
       \/ stage[d] = "started"
    /\ To(d, "dropped")
    /\ UNCHANGED <<appVars, queueVars, callVars, diskVars, imageOf>>

\* The directory is made, and the key of a repository is written.
BeginToFetch(d) ==
    /\ stage[d] = "started"
    /\ LET at == DirectoryOf(d)
       IN  dirs' = [dirs EXCEPT ![at] = IF @ = None THEN {} ELSE @]
    /\ keyFiles' = IF IsSort(d, "repository") THEN keyFiles \cup {d} ELSE keyFiles
    /\ To(d, "fetching")
    /\ UNCHANGED <<appVars, queueVars, callVars, archives, imageOf>>

Content(d) == LET at == DirectoryOf(d) IN IF dirs[at] = None THEN {} ELSE dirs[at]

\* extractContentIntoDestDirectory: git does not clone into a directory that
\* is not empty, and tar does not make one.
Extract(d) ==
    /\ stage[d] = "fetching"
    /\ IsSort(d, "archive") => d \in archives /\ dirs[DirectoryOf(d)] # None
    /\ IsSort(d, "repository") => Content(d) = {}
    /\ dirs' = [dirs EXCEPT ![DirectoryOf(d)] = Content(d) \cup {d}]
    /\ keyFiles' = keyFiles \ {d}
    /\ To(d, "fetched")
    /\ UNCHANGED <<appVars, queueVars, callVars, archives, imageOf>>

\* Mutant: the key is only removed after a clone that worked.
KeyStays(d) ==
    /\ stage[d] = "fetching"
    /\ To(d, "failing")
    /\ UNCHANGED <<appVars, queueVars, callVars, diskVars, imageOf>>

\* clone ... finally
ExtractFails(d) ==
    /\ stage[d] = "fetching"
    /\ keyFiles' = keyFiles \ {d}
    /\ To(d, "failing")
    /\ UNCHANGED <<appVars, queueVars, callVars, archives, dirs, imageOf>>

\* The captain-definition, or a Dockerfile, is there, or in the one directory
\* that is.
FindDefinition(d) ==
    /\ stage[d] = "fetched"
    /\ dirs[DirectoryOf(d)] # None
    /\ To(d, "found")
    /\ UNCHANGED <<appVars, queueVars, callVars, diskVars, imageOf>>

\* convertCaptainDefinitionToDockerfile, convertContentOfDirectoryIntoTar; or
\* the definition names an image.
MakeTar(d) ==
    /\ stage[d] = "found"
    /\ dirs[DirectoryOf(d)] # None
    /\ imageOf' = [imageOf EXCEPT ![d] = Content(d)]
    /\ To(d, "building")
    /\ UNCHANGED <<appVars, queueVars, callVars, diskVars>>

PullImage(d) ==
    /\ stage[d] = "building"
    /\ To(d, "made")
    /\ UNCHANGED <<appVars, queueVars, callVars, diskVars, imageOf>>

BuildImageFromDockerFile(d) ==
    /\ stage[d] = "building"
    /\ To(d, "pushing")
    /\ UNCHANGED <<appVars, queueVars, callVars, diskVars, imageOf>>

retagAndPushIfDefaultPushExist(d) ==
    /\ stage[d] = "pushing"
    /\ To(d, "made")
    /\ UNCHANGED <<appVars, queueVars, callVars, diskVars, imageOf>>

\* The captain-definition is not there, or is not valid.
BuildFails(d) ==
    /\ stage[d] \in {"fetched", "found"}
    /\ To(d, "failing")
    /\ UNCHANGED <<appVars, queueVars, callVars, diskVars, imageOf>>

\* The stream of Docker brought an error, at the build or at the push.
DockerFails(d) ==
    /\ stage[d] \in {"building", "pushing"}
    /\ To(d, "failing")
    /\ UNCHANGED <<appVars, queueVars, callVars, diskVars, imageOf>>

RemoveDirectory(d) ==
    /\ stage[d] \in {"made", "failing"}
    /\ dirs' = [dirs EXCEPT ![DirectoryOf(d)] = None]
    /\ To(d, IF stage[d] = "made" THEN "imaged" ELSE "unpacked")
    /\ UNCHANGED <<appVars, queueVars, callVars, archives, keyFiles, imageOf>>

\* The mark goes, and the queued build is started.
onBuildFinished(d, end) ==
    /\ marked' = FALSE
    /\ waiting' = None
    /\ stage' = [e \in Deploys |-> IF e = d THEN end
                                   ELSE IF e = waiting THEN "starting" ELSE stage[e]]
    /\ sort' = [sort EXCEPT ![d] = None]
    /\ direct' = direct \ {d}
    /\ version' = [version EXCEPT ![d] = 0]
    /\ imageOf' = [imageOf EXCEPT ![d] = {}]
    /\ UNCHANGED <<appVars, dirs, keyFiles>>

\* Mutant: a build that failed leaves its archive to the router.
FailedAndLeft(d) ==
    /\ stage[d] \in {"imaged", "unpacked"}
    /\ archives' = IF stage[d] = "imaged" \/ d \in direct THEN archives \ {d} ELSE archives
    /\ onBuildFinished(d, "ended")

\* The archive is removed.  A build that worked is deployed, if its app is
\* still there; the router answers, if it waited.
Ended(d) ==
    /\ stage[d] \in {"imaged", "unpacked"}
    /\ archives' = archives \ {d}
    /\ onBuildFinished(d, "ended")

\* Of a build that ImageMaker did not take, the router removes the archive, if
\* it is still to answer.
Dropped(d) ==
    /\ stage[d] = "dropped"
    /\ archives' = IF d \in direct THEN archives \ {d} ELSE archives
    /\ onBuildFinished(d, "lost")

-----------------------------------------------------------------------------
(* Meanwhile                                                               *)

\* removeApps does not remove an app that is marked as building.
DeleteApp ==
    /\ exists
    /\ ~marked
    /\ recreated < MaxRecreated
    /\ exists' = FALSE
    /\ UNCHANGED <<latest, recreated, grant, queueVars, stage, callVars, diskVars,
                   imageOf>>

CreateApp ==
    /\ ~exists
    /\ exists' = TRUE
    /\ latest' = 0
    /\ recreated' = recreated + 1
    /\ grant' = FALSE
    /\ UNCHANGED <<queueVars, stage, callVars, diskVars, imageOf>>

\* The deploy token, or the webhook, is renewed or disabled.
ChangeGrant ==
    /\ exists
    /\ grant
    /\ grant' = FALSE
    /\ UNCHANGED <<exists, latest, recreated, queueVars, stage, callVars, diskVars, imageOf>>

SourcesNext ==
    \/ \E d \in Deploys :
          \/ \E by \in Channels, source \in Sources, withToken \in BOOLEAN :
                PostSource(d, by, source, withToken)
          \/ Uploaded(d)
          \/ UploadFails(d)
          \/ TriggerBuild(d)
          \/ createNewVersion(d)
          \/ NotTaken(d)
          \/ BeginToFetch(d)
          \/ Extract(d)
          \/ ExtractFails(d)
          \/ FindDefinition(d)
          \/ MakeTar(d)
          \/ PullImage(d)
          \/ BuildImageFromDockerFile(d)
          \/ retagAndPushIfDefaultPushExist(d)
          \/ BuildFails(d)
          \/ DockerFails(d)
          \/ RemoveDirectory(d)
          \/ Ended(d)
          \/ Dropped(d)
    \/ DeleteApp
    \/ CreateApp
    \/ ChangeGrant

SourcesSpec == SourcesInit /\ [][SourcesNext]_sourcesVars

-----------------------------------------------------------------------------
(* Properties                                                              *)

\* The image of a build is made of the source of that build and of no other,
\* whichever builds of the app run at the same time (getDirectoryForRawSource).
BuildsReadTheirSource ==
    recreated = 0 =>
        \A d \in Deploys :
            stage[d] \in {"building", "pushing", "made", "imaged"} => imageOf[d] = {d}

\* They do, too, when the app is deleted and created again.  Its versions begin
\* anew, and a build that is not marked is not seen by removeApps.
RecreatedAppsBuildTheirSource ==
    \A d \in Deploys : stage[d] = "building" => imageOf[d] = {d}

\* An archive that was handed over stays until its build has unpacked it:
\* "Removing it here races the background build" (AppDataRouter).
ArchiveOutlivesItsBuild ==
    \A d \in Deploys :
        stage[d] \in {"queued", "starting", "started", "fetching"} /\ IsSort(d, "archive") =>
            d \in archives

\* When all is done there is no directory, no key, and no archive but those of
\* builds that were replaced in the queue or failed before they were taken.
LeftoversAreKnown ==
    /\ \A d \in keyFiles : stage[d] = "fetching"
    /\ (\A d \in Deploys : ~Busy(d)) => \A v \in Versions : dirs[v] = None
    /\ \A d \in archives : stage[d] # "ended"

\* No archive is left behind.  It is, of a queued build that another replaced.
ArchivesAreRemoved == \A d \in archives : stage[d] \notin {"replaced", "lost"}

=============================================================================
