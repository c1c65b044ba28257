---------------------------- MODULE ServiceImages ----------------------------
(***************************************************************************)
(* The images of one app between three parties: builds, which make an      *)
(* image and then record and deploy it (ServiceManager); the calls of      *)
(* ensureServiceInitedAndUpdated, each of which reads the definition,      *)
(* waits for Docker and updates the service under Docker's version index;  *)
(* and the disk cleanup (DiskCleanupManager), which reads Docker's images  *)
(* and the definitions one after the other and removes images one by one.  *)
(*                                                                         *)
(* An image that was built is named by the number of its version, which is *)
(* the tag ImageMaker gives it; OtherImage is one named by the source.     *)
(* Docker identifies an image by its content, so a build that changes      *)
(* nothing adds its tag to an image that is there.                         *)
(***************************************************************************)
EXTENDS AppVersions

CONSTANTS
    OtherImage,   \* an image the source names; its tag is not CapRover's
    NoService, Placeholder,  \* a service that is missing, or just created
    Runs,         \* calls that end in ensureServiceInitedAndUpdated
    Cleaners,     \* calls of the disk cleanup
    Ids,          \* contents of images
    Limits,       \* how many earlier versions a scheduled cleanup spares
    MaxVersion    \* bound: the highest number given to a version

ASSUME ImagesAssumption ==
    /\ OtherImage \notin Nat /\ NoImage \notin Nat /\ OtherImage # NoImage
    /\ NoService \notin Nat \cup {OtherImage}
    /\ Limits \subseteq Nat

VARIABLES
    def,          \* the definition of the app
    images,       \* Docker: the tags on each image, none if it is not there
    service,      \* Docker: the image of the service
    inspected,    \* Docker: the runs that know the present version index
    run,          \* where each run is, its version and the image it carries
    cleaner,      \* where each cleanup is and what it has read
    owed,         \* the deployed version changed and no update came since
    raced         \* it last changed while a run carried an earlier image

imageVars == <<def, images, service, inspected, run, cleaner, owed, raced>>

Tag == Nat
Image == Tag \cup {OtherImage}

Making == {"building", "built"}
Carrying == {"reading", "creating", "found", "inspected"}

RunState == [at : {"idle", "ready", "failed"} \cup Making \cup Carrying,
             version : Nat, image : Image \cup {NoImage}]

IdleRun == [at |-> "idle", version |-> 0, image |-> NoImage]

CleanerState ==
    [at : {"idle", "called", "listed", "asked", "relisted", "deleting"},
     keep : Limits \cup {0}, listed : [Ids -> SUBSET Tag],
     wanted : SUBSET Ids, seen : Nat]

NoTags == [i \in Ids |-> {}]

Cleaner(place, keep, listed, wanted, seen) ==
    [at |-> place, keep |-> keep, listed |-> listed, wanted |-> wanted, seen |-> seen]

IdleCleaner == Cleaner("idle", 0, NoTags, {}, 0)

ImagesInit ==
    /\ def = FreshDefinition
    /\ images = NoTags
    /\ service = NoService
    /\ inspected = {}
    /\ run = [r \in Runs |-> IdleRun]
    /\ cleaner = [c \in Cleaners |-> IdleCleaner]
    /\ owed = FALSE
    /\ raced = FALSE

MoveTo(r, place) ==
    run' = [run EXCEPT ![r] = [at |-> place, version |-> run[r].version,
                               image |-> run[r].image]]

\* Done, failed, or about to read the definition: nothing is carried.
Drop(r, place) ==
    run' = [run EXCEPT ![r] = [at |-> place, version |-> 0, image |-> NoImage]]

-----------------------------------------------------------------------------
(* Builds: a version, its image, and the record that deploys it.           *)

StartBuild(r) ==
    /\ run[r].at = "idle"
    /\ NewVersionIndex(def) <= MaxVersion
    /\ def' = CreateNewVersion(def)
    /\ run' = [run EXCEPT ![r] = [at |-> "building", image |-> NoImage,
                                  version |-> NewVersionIndex(def)]]
    /\ UNCHANGED <<images, service, inspected, cleaner, owed, raced>>

\* The image with content i is new, or was there and gets one more tag.
MakeImage(r, i) ==
    /\ run[r].at = "building"
    /\ images' = [images EXCEPT ![i] = @ \cup {run[r].version}]
    /\ MoveTo(r, "built")
    /\ UNCHANGED <<def, service, inspected, cleaner, owed, raced>>

\* History variables of every change of the deployed version.
Deployed(r) ==
    /\ owed' = TRUE
    /\ raced' = \E q \in Runs \ {r} : run[q].at \in Carrying

\* A version that has left the history meanwhile makes the record throw.
RecordImage(r, img) ==
    /\ \/ run[r].at = "built" /\ img = run[r].version
       \/ run[r].at = "building" /\ img = OtherImage
    /\ HasVersion(def, run[r].version)
    /\ def' = SetDeployedVersionAndImage(def, run[r].version, img)
    /\ Drop(r, "ready")
    /\ Deployed(r)
    /\ UNCHANGED <<images, service, inspected, cleaner>>

\* The build, the push of its image or the record fails.
BuildEndsBadly(r) ==
    /\ run[r].at \in Making
    /\ Drop(r, "failed")
    /\ UNCHANGED <<def, images, service, inspected, cleaner, owed, raced>>

-----------------------------------------------------------------------------
(* ensureServiceInitedAndUpdated.                                          *)

\* An update of the configuration, or a build that has been recorded, calls it.
UpdateApp(r) ==
    /\ run[r].at = "idle"
    /\ Drop(r, "ready")
    /\ UNCHANGED <<def, images, service, inspected, cleaner, owed, raced>>

\* Mutant: the newest image of the history.
NewestImage(d) ==
    LET built == {n \in DOMAIN d.versions : d.versions[n].image # NoImage}
    IN  IF built = {} THEN NoImage ELSE d.versions[Max(built)].image

ImageToRun(d) == DeployedImage(d)

\* The definition is read once, here; whether the service runs is asked later.
ReadDefinition(r) ==
    /\ run[r].at = "ready"
    /\ run' = [run EXCEPT ![r] =
           [at |-> IF ImageToRun(def) = NoImage THEN "failed" ELSE "reading",
            version |-> 0, image |-> ImageToRun(def)]]
    /\ UNCHANGED <<def, images, service, inspected, cleaner, owed, raced>>

AskForService(r) ==
    /\ run[r].at = "reading"
    /\ MoveTo(r, IF service = NoService THEN "creating" ELSE "found")
    /\ UNCHANGED <<def, images, service, inspected, cleaner, owed, raced>>

\* Docker refuses the second of two services with one name.
CreateService(r) ==
    /\ run[r].at = "creating"
    /\ service = NoService
    /\ service' = Placeholder
    /\ MoveTo(r, "found")
    /\ UNCHANGED <<def, images, inspected, cleaner, owed, raced>>

InspectService(r) ==
    /\ run[r].at = "found"
    /\ inspected' = inspected \cup {r}
    /\ MoveTo(r, "inspected")
    /\ UNCHANGED <<def, images, service, cleaner, owed, raced>>

\* Docker takes an update that carries the version index of the service as it
\* is; every update changes it.
UpdateService(r) ==
    /\ run[r].at = "inspected"
    /\ r \in inspected
    /\ service' = run[r].image
    /\ inspected' = {}
    /\ owed' = FALSE
    /\ Drop(r, "idle")
    /\ UNCHANGED <<def, images, cleaner, raced>>

\* Any of the calls to Docker fails, or is refused.
UpdateEndsBadly(r) ==
    /\ run[r].at \in Carrying
    /\ inspected' = inspected \ {r}
    /\ Drop(r, "failed")
    /\ UNCHANGED <<def, images, service, cleaner, owed, raced>>

\* runAgentDeployment puts back the version before the deployed one.  Whether
\* that one is the agent's own is a matter of AgentDeploy; here it may be any
\* run that failed.
PutBack(r) ==
    /\ run[r].at = "failed"
    /\ def.deployedVersion > 1
    /\ CanRollBack(def, def.deployedVersion - 1)
    /\ def' = RollBack(def, def.deployedVersion - 1)
    /\ Drop(r, "ready")
    /\ Deployed(r)
    /\ UNCHANGED <<images, service, inspected, cleaner>>

GiveUp(r) ==
    /\ run[r].at = "failed"
    /\ Drop(r, "idle")
    /\ UNCHANGED <<def, images, service, inspected, cleaner, owed, raced>>

-----------------------------------------------------------------------------
(* The disk cleanup.                                                       *)

\* The last match counts.
ImageOf(d, v) ==
    IF HasVersion(d, v) THEN d.versions[Max(IndexesOf(d, v))].image ELSE NoImage

\* Recorded for a version, and named as ImageMaker names images.
OwnedTags(d) == {d.versions[n].image : n \in DOMAIN d.versions} \ {NoImage, OtherImage}

\* Mutant: the deployed version itself is not looked at.
InUseBefore(d, tags, keep) ==
    \E k \in 1..keep : k <= d.deployedVersion
                       /\ ImageOf(d, d.deployedVersion - k) \in tags

\* One of the versions spared, counted back from the deployed one, is among
\* the tags.
InUse(d, tags, keep) ==
    \E k \in 0..keep : k <= d.deployedVersion
                       /\ ImageOf(d, d.deployedVersion - k) \in tags

\* getUnusedImages on a list of images read before the definition d.
Unused(listed, d, keep) ==
    {i \in Ids : /\ listed[i] \cap OwnedTags(d) # {}
                 /\ ~InUse(d, listed[i], keep)}

Becomes(c, state) == cleaner' = [cleaner EXCEPT ![c] = state]

CleanupCalled(c, limit) ==
    /\ cleaner[c].at = "idle"
    /\ Becomes(c, Cleaner("called", limit, NoTags, {}, 0))
    /\ UNCHANGED <<def, images, service, inspected, run, owed, raced>>

\* getImages, of the first reading.
ListImages(c) ==
    /\ cleaner[c].at = "called"
    /\ Becomes(c, Cleaner("listed", cleaner[c].keep, images, {}, 0))
    /\ UNCHANGED <<def, images, service, inspected, run, owed, raced>>

PickUnused(c) ==
    /\ cleaner[c].at = "listed"
    /\ LET unused == Unused(cleaner[c].listed, def, cleaner[c].keep)
       IN  Becomes(c, IF unused = {} THEN IdleCleaner
                      ELSE Cleaner("asked", 0, NoTags, unused, 0))
    /\ UNCHANGED <<def, images, service, inspected, run, owed, raced>>

\* The dashboard sends the images its user picked from a list it was given at
\* some time before.
DeleteImages(c, ids) ==
    /\ cleaner[c].at = "idle"
    /\ Becomes(c, Cleaner("asked", 0, NoTags, ids, 0))
    /\ UNCHANGED <<def, images, service, inspected, run, owed, raced>>

\* getImages, of the second reading.
ListAgain(c) ==
    /\ cleaner[c].at = "asked"
    /\ Becomes(c, Cleaner("relisted", 0, images, cleaner[c].wanted, 0))
    /\ UNCHANGED <<def, images, service, inspected, run, owed, raced>>

\* Of the images asked for, those unused when nothing but the deployed version
\* is spared.
AllowImages(c) ==
    /\ cleaner[c].at = "relisted"
    /\ LET allowed == cleaner[c].wanted \cap Unused(cleaner[c].listed, def, 0)
       IN  Becomes(c, IF allowed = {} THEN IdleCleaner
                      ELSE Cleaner("deleting", 0, cleaner[c].listed, allowed,
                                   def.deployedVersion))
    /\ UNCHANGED <<def, images, service, inspected, run, owed, raced>>

\* One call to Docker, which removes the image with its tags or refuses; a
\* refusal is logged and the next image is tried.
RemoveImage(c, i) ==
    /\ cleaner[c].at = "deleting"
    /\ i \in cleaner[c].wanted
    /\ images' \in {images, [images EXCEPT ![i] = {}]}
    /\ LET left == cleaner[c].wanted \ {i}
       IN  Becomes(c, IF left = {} THEN IdleCleaner
                      ELSE Cleaner("deleting", 0, cleaner[c].listed, left,
                                   cleaner[c].seen))
    /\ UNCHANGED <<def, service, inspected, run, owed, raced>>

\* The process ends: what is stored and what Docker has stay.
RestartProcess ==
    /\ run' = [r \in Runs |-> IdleRun]
    /\ cleaner' = [c \in Cleaners |-> IdleCleaner]
    /\ inspected' = {}
    /\ UNCHANGED <<def, images, service, owed, raced>>

-----------------------------------------------------------------------------
RunStep(r) ==
    \/ StartBuild(r)
    \/ \E i \in Ids : MakeImage(r, i)
    \/ \E img \in {run[r].version, OtherImage} : RecordImage(r, img)
    \/ BuildEndsBadly(r)
    \/ UpdateApp(r)
    \/ ReadDefinition(r)
    \/ AskForService(r)
    \/ CreateService(r)
    \/ InspectService(r)
    \/ UpdateService(r)
    \/ UpdateEndsBadly(r)
    \/ PutBack(r)
    \/ GiveUp(r)

CleanerStep(c) ==
    \/ \E limit \in Limits : CleanupCalled(c, limit)
    \/ \E ids \in (SUBSET Ids) \ {{}} : DeleteImages(c, ids)
    \/ ListImages(c)
    \/ PickUnused(c)
    \/ ListAgain(c)
    \/ AllowImages(c)
    \/ \E i \in Ids : RemoveImage(c, i)

ImagesNext ==
    \/ \E r \in Runs : RunStep(r)
    \/ \E c \in Cleaners : CleanerStep(c)
    \/ RestartProcess

ImagesSpec == ImagesInit /\ [][ImagesNext]_imageVars

-----------------------------------------------------------------------------
(* Properties                                                              *)

ImagesTypeOK ==
    /\ def \in Definition(Image)
    /\ images \in [Ids -> SUBSET Tag]
    /\ service \in Image \cup {NoService, Placeholder, NoImage}
    /\ inspected \subseteq Runs
    /\ run \in [Runs -> RunState]
    /\ cleaner \in [Cleaners -> CleanerState]
    /\ owed \in BOOLEAN
    /\ raced \in BOOLEAN

\* Once the service has been updated after the last change of the deployed
\* version it runs that version's image, however updates of the configuration,
\* builds, cleanups and restarts overlap: unless a run was carrying an earlier
\* image while the version changed, or the version has left the history.
ServiceRunsTheDeployed ==
    ~raced /\ ~owed =>
        DeployedImage(def) \in {NoImage, service}

\* Cleanup c removes image i, which is there, in this step.
Removes(c, i) ==
    /\ images[i] # {} /\ images'[i] = {}
    /\ i \in cleaner[c].wanted /\ cleaner'[c].wanted = cleaner[c].wanted \ {i}

\* The cleanup takes the image of the deployed version only when another
\* version was deployed since it read the definitions, or when the image got
\* that tag since it listed the images.  It never takes an image that still has
\* the tags it was listed with when all of these belong to builds under way.
CleanupSparesWhatIsUsed ==
    [][\A c \in Cleaners, i \in Ids : Removes(c, i) =>
           /\ DeployedImage(def) \in images[i] =>
                  \/ def.deployedVersion # cleaner[c].seen
                  \/ DeployedImage(def) \notin cleaner[c].listed[i]
           /\ images[i] = cleaner[c].listed[i] =>
                  \E v \in images[i] : \A r \in Runs :
                      run[r].at \in Making => run[r].version # v]_imageVars
=============================================================================
