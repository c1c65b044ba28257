-------------------------- MODULE ControlPlaneProofs --------------------------
(***************************************************************************)
(* What the control plane does by itself, for any values of the constants.  *)
(*                                                                         *)
(* The safety properties of ControlPlane for any machines and apps, any    *)
(* number of swarms, failures and backups.  The argument follows the       *)
(* backup: where it is at each step of the installer, which salt goes with *)
(* it, and that nothing but a finished second phase lets a captain serve   *)
(* what was restored.  Then the monitors beside it (Monitoring).           *)
(***************************************************************************)
EXTENDS ControlPlane, ServiceImages, Monitoring, SharedLemmas

\* A backup that was not made here, with at most its own salt in its data.
Foreign(b) ==
    /\ ~b.data.own
    /\ b.data.salt \in {b.salt, None}
    /\ b.data.brought \subseteq b.data.apps

\* The nodes of the swarm as it is.
Joined == {NodeOf(m) : m \in swarm.joined}

PinsHold(d) == \A a \in d.apps : d.pins[a] \in Joined \cup {None}

\* Where the archive and its content are at the steps of the installer.
InstallerKnows ==
    /\ tar # None => Foreign(tar) /\ data = None /\ captain = None
    /\ installer \in {"archive", "staged", "untar"} => tar # None
    /\ installer \in InstallerSteps \ {"idle", "archive", "staged", "untar"} => tar = None
    /\ restoring # None /\ restoring.data # None => Foreign(restoring)
    /\ installer \in {"untar", "instructions"} => restoring # None /\ restoring.data # None
    /\ installer \in {"join", "remap", "secret", "move"} => HasInstructions
    /\ installer \in {"join", "remap", "secret", "move"} => Main \in swarm.joined
    /\ installer \in {"remap", "secret", "move"} => ToJoin = {}
    /\ installer \in {"secret", "move"} => restoring.data # None /\ PinsHold(restoring.data)
    /\ installer # "idle" => captain = None

\* The data is the captain's own, or it has been restored and phase 2 is due.
DataKnows ==
    /\ captain = None => process = None /\ running = {}
    /\ captain = None /\ data # None => HasInstructions
    /\ HasInstructions /\ (captain # None \/ installer = "create") =>
           data # None /\ ~data.own
    /\ data # None /\ data.salt # None =>
           \/ captain # None /\ data.salt = swarm.salt
           \/ HasInstructions /\ data.salt = restoring.salt
    /\ data # None => data.brought \subseteq data.apps
    /\ data # None /\ ~HasInstructions => data.brought \subseteq running
    /\ data # None /\ (captain # None \/ installer = "create") => PinsHold(data)

\* What a process has seen to when it is at a step.
ProcessKnows ==
    process # None =>
        /\ data # None
        /\ process.at \notin {"locate", "network", "connect", "secret"} => swarm.salt # None
        /\ process.at \in {"nginx", "certbot", "phase2", "apps", "cleanup", "serving"} =>
               process.salt = swarm.salt
        /\ process.at \in {"certbot", "phase2", "apps", "cleanup", "serving"} =>
               balancers["nginx"] = Main
        /\ process.at \in {"phase2", "apps", "cleanup", "serving"} =>
               balancers["certbot"] = Main
        /\ process.at = "apps" => /\ HasInstructions
                                  /\ restoring.salt = process.salt
                                  /\ data.apps \subseteq running \cup process.todo
        /\ process.at \in {"cleanup", "serving"} => ~HasInstructions

IInv == TypeOK /\ InstallerKnows /\ DataKnows /\ ProcessKnows

-----------------------------------------------------------------------------

\* The node that replaces an old one is None or is in the swarm.
LEMMA RemapTyped ==
    ASSUME IInv, installer = "remap", HasInstructions, ToJoin = {}, Main \in swarm.joined, NEW n \in restoring.nodes
    PROVE  Replacement(n) \in Joined \cup {None} /\ Replacement(n) \in Node \cup {None}
<1>1. restoring \in Restoring /\ swarm \in Swarm /\ n \in Node
  BY NoneAssumption DEF IInv, TypeOK, RestorationTypeOK, HasInstructions, Restoring
<1>2. restoring.map[n] \in Answer
  BY <1>1 DEF HasInstructions, Restoring, Instructions
<1>3. restoring.map[n] \in swarm.joined \cup {"current"}
  BY <1>1 DEF ToJoin
<1>4. CASE restoring.map[n] = "current"
  BY <1>4, <1>1, MachinesAssumption DEF Replacement, NodeOf, Joined, Swarm, Node
<1>5. CASE restoring.map[n] # "current" /\ restoring.map[n] = "empty"
  BY <1>5 DEF Replacement
<1>6. CASE restoring.map[n] # "current" /\ restoring.map[n] # "empty"
  BY <1>6, <1>3, <1>1 DEF Replacement, NodeOf, Joined, Swarm, Node
<1>7. QED BY <1>4, <1>5, <1>6

\* RemapNodes changes the bindings, and binds to nodes of the swarm.
LEMMA RemapFields ==
    ASSUME IInv, RemapNodes
    PROVE  /\ restoring' \in Restoring /\ restoring'.data # None
           /\ restoring'.salt = restoring.salt /\ restoring'.nodes = restoring.nodes /\ restoring'.map = restoring.map
           /\ restoring'.data.apps = restoring.data.apps /\ restoring'.data.salt = restoring.data.salt
           /\ restoring'.data.own = restoring.data.own
           /\ restoring'.data.brought = restoring.data.brought
           /\ PinsHold(restoring'.data)
<1>1. /\ restoring \in Restoring /\ restoring.data \in Data /\ HasInstructions /\ ToJoin = {}
      /\ Main \in swarm.joined
  BY NoneAssumption DEF IInv, RemapNodes, TypeOK, RestorationTypeOK, InstallerKnows,
       HasInstructions, Restoring
<1> DEFINE pins == [a \in Apps |->
                       IF a \in restoring.data.apps /\ restoring.data.pins[a] # None
                       THEN Replacement(restoring.data.pins[a]) ELSE restoring.data.pins[a]]
           new == [salt |-> restoring.data.salt, apps |-> restoring.data.apps,
                   built |-> restoring.data.built, pins |-> pins,
                   own |-> restoring.data.own, brought |-> restoring.data.brought]
<1>2. \A a \in restoring.data.apps : restoring.data.pins[a] \in restoring.nodes \cup {None}
  BY DEF RemapNodes
<1>3. pins \in [Apps -> Node \cup {None}]
  <2>1. ASSUME NEW a \in Apps PROVE pins[a] \in Node \cup {None}
    <3>1. restoring.data.pins[a] \in Node \cup {None}
      BY <1>1 DEF Data
    <3>2. CASE a \in restoring.data.apps /\ restoring.data.pins[a] # None
      BY <3>2, <1>1, <1>2, RemapTyped DEF RemapNodes
    <3>3. QED BY <3>1, <3>2
  <2>2. QED BY <2>1
<1>4. new \in Data
  BY <1>1, <1>3 DEF Data
<1>5. \A a \in restoring.data.apps : pins[a] \in Joined \cup {None}
  <2>1. ASSUME NEW a \in restoring.data.apps PROVE pins[a] \in Joined \cup {None}
    <3>1. a \in Apps
      BY <1>1 DEF Data
    <3>2. CASE restoring.data.pins[a] # None
      BY <3>1, <3>2, <1>1, <1>2, RemapTyped DEF RemapNodes
    <3>3. QED BY <3>1, <3>2
  <2>2. QED BY <2>1
<1>6. restoring' = [restoring EXCEPT !.data = [restoring.data EXCEPT !.pins = pins]]
  BY DEF RemapNodes
<1>7. [restoring.data EXCEPT !.pins = pins] = new
  BY <1>1 DEF Data
<1>8. restoring' = [salt |-> restoring.salt, nodes |-> restoring.nodes, data |-> new, map |-> restoring.map]
  BY <1>6, <1>7, <1>1 DEF Restoring
<1>9. restoring' \in Restoring
  BY <1>1, <1>4, <1>8 DEF Restoring
<1>10. new # None
  BY <1>4, NoneAssumption
<1> HIDE DEF pins
<1>11. QED BY <1>5, <1>8, <1>9, <1>10 DEF PinsHold

\* The part of the invariant that RemapNodes disturbs.
LEMMA RemapNodesKeeps ==
    ASSUME IInv, RemapNodes, UNCHANGED planeVars
    PROVE  TypeOK' /\ InstallerKnows' /\ DataKnows'
<1>1. installer = "remap" /\ installer' = "secret" /\ tar' = tar /\ data' = data /\ swarm' = swarm
      /\ captain' = captain /\ failures' = failures /\ restoring # None /\ restoring.map # None
  BY DEF RemapNodes, IInv, InstallerKnows, HasInstructions
<1>2. /\ restoring' \in Restoring /\ restoring'.data # None
      /\ restoring'.salt = restoring.salt /\ restoring'.nodes = restoring.nodes
      /\ restoring'.map = restoring.map
      /\ restoring'.data.salt = restoring.data.salt /\ restoring'.data.own = restoring.data.own
      /\ restoring'.data.apps = restoring.data.apps
      /\ restoring'.data.brought = restoring.data.brought
      /\ PinsHold(restoring'.data)
  BY RemapFields
<1>2a. restoring' # None
  BY <1>2, NoneAssumption
<1>3. TypeOK'
  BY <1>1, <1>2 DEF planeVars, IInv, TypeOK, RestorationTypeOK, InstallerSteps
<1>3a. HasInstructions' /\ HasInstructions /\ ToJoin' = ToJoin
  BY <1>1, <1>2, <1>2a DEF HasInstructions, ToJoin
<1>3b. PinsHold(restoring.data)' /\ Foreign(restoring)' /\ restoring.data # None
  <2>1. Foreign(restoring) /\ restoring.data # None
    BY <1>1 DEF IInv, InstallerKnows, RemapNodes
  <2>2. Foreign(restoring)'
    BY <1>2, <2>1, RemapFields DEF Foreign
  <2>3. PinsHold(restoring.data)'
    BY <1>1, <1>2 DEF PinsHold, Joined, NodeOf
  <2>4. QED BY <2>1, <2>2, <2>3
<1>4. InstallerKnows'
  <2>1. tar' = None /\ captain' = None /\ ToJoin' = {} /\ Main \in swarm'.joined
    BY <1>1, <1>3a DEF IInv, InstallerKnows, InstallerSteps
  <2>2. QED BY <1>1, <1>2, <1>3a, <1>3b, <2>1 DEF InstallerKnows
<1>5. DataKnows'
  BY <1>1, <1>2, <1>3a DEF IInv, InstallerKnows, DataKnows, PinsHold, Joined, NodeOf, planeVars
<1>6. QED BY <1>3, <1>4, <1>5

\* The captain stays a captain when it is connected to the network.
LEMMA ConnectData ==
    ASSUME IInv, EnsureServiceConnectedToNetwork PROVE DataKnows'
<1>1. captain # None /\ captain' # None
  BY NoneAssumption DEF EnsureServiceConnectedToNetwork, At, IInv, DataKnows, TypeOK,
       RestorationTypeOK, Captain
<1>2. QED BY <1>1 DEF EnsureServiceConnectedToNetwork, diskVars, At, GoesTo,
     HasInstructions, IInv, DataKnows, PinsHold, Joined, NodeOf

\* The captain stays a captain when its secret is put on it.
LEMMA MountData ==
    ASSUME IInv, EnsureSecretOnService PROVE DataKnows'
<1>1. captain # None /\ captain' # None
  BY NoneAssumption DEF EnsureSecretOnService, At, IInv, DataKnows, TypeOK,
       RestorationTypeOK, Captain
<1>2. QED BY <1>1 DEF EnsureSecretOnService, diskVars, At, GoesTo, HasInstructions, IInv,
     DataKnows, PinsHold, Joined, NodeOf

\* The salt drawn is the number of the swarm.
LEMMA SaltTyped ==
    ASSUME IInv, EnsureCaptainSalt PROVE TypeOK'
<1>1. swarm' \in Swarm
  BY MachinesAssumption DEF EnsureCaptainSalt, EnsureSecret, IInv, TypeOK,
       RestorationTypeOK, Swarm, Salt
<1>2. process' \in Process
  BY DEF EnsureCaptainSalt, At, GoesTo, IInv, TypeOK, Process, Steps
<1>3. QED BY <1>1, <1>2 DEF EnsureCaptainSalt, diskVars, IInv, TypeOK, RestorationTypeOK

\* A process starts with the data that is there, or with none.
LEMMA StartKeeps ==
    ASSUME IInv, StartProcess PROVE TypeOK' /\ DataKnows' /\ ProcessKnows'
<1>1. EmptyData \in Data /\ EmptyData.salt = None /\ EmptyData.apps = {} /\ EmptyData.brought = {}
  BY DEF EmptyData, Data, NoPins
<1>2. data' \in Data /\ data' # None
  BY <1>1, NoneAssumption DEF StartProcess, IInv, TypeOK, RestorationTypeOK
<1>3. /\ process' = [at |-> "locate", mounted |-> captain.secret, salt |-> None, todo |-> {},
                   builds |-> {}, updates |-> {}, waiting |-> FALSE, backup |-> FALSE, fails |-> 0]
      /\ captain # None /\ captain' = captain
  BY DEF StartProcess
<1>4. process' \in Process
  <2>1. captain.secret \in BOOLEAN
    BY <1>3 DEF IInv, TypeOK, RestorationTypeOK, Captain
  <2>2. 0 \in 0 .. MaxFailAllowed
    BY HealthAssumption
  <2>3. QED BY <1>3, <2>1, <2>2 DEF Process, Steps
<1>5. TypeOK'
  BY <1>2, <1>4 DEF StartProcess, IInv, TypeOK, RestorationTypeOK
<1>6. DataKnows'
  <2>1. CASE data = None
    <3>1. ~HasInstructions'
      BY <2>1 DEF StartProcess, IInv, DataKnows, HasInstructions
    <3>2. data' = EmptyData
      BY <2>1 DEF StartProcess
    <3>3. QED BY <1>1, <1>3, <3>1, <3>2 DEF DataKnows, PinsHold
  <2>2. CASE data # None
    <3>1. data' = data
      BY <2>2 DEF StartProcess
    <3>2. QED BY <3>1, <2>2 DEF StartProcess, IInv, DataKnows, HasInstructions, PinsHold,
         Joined, NodeOf
  <2>3. QED BY <2>1, <2>2
<1>7. process'.at = "locate"
  BY <1>3
<1>8. ProcessKnows'
  BY <1>2, <1>7 DEF ProcessKnows
<1>9. QED BY <1>5, <1>6, <1>8

\* What the definitions are saved with, and what builds and updates leave,
\* touches nothing that came with a backup.
LEMMA ServingKeeps ==
    ASSUME IInv, Serving,
           UNCHANGED <<tar, restoring, swarm, captain, installer, failures, outdated, balancers,
                       downloads>>,
           data' \in Data, data'.own = data.own, data'.brought = data.brought,
           data.apps \subseteq data'.apps, PinsHold(data'),
           data'.salt \in {data.salt, process.salt},
           process' \in Process, process'.at = "serving", process'.salt = process.salt,
           running \subseteq running', running' \subseteq Apps
    PROVE  IInv' /\ (HasBackup => HasBackup')
<1>1. /\ process # None /\ data # None /\ ~HasInstructions /\ process.salt = swarm.salt
      /\ swarm.salt # None /\ balancers["nginx"] = Main /\ balancers["certbot"] = Main
  BY DEF Serving, At, IInv, ProcessKnows
<1>2. captain # None
  BY <1>1 DEF IInv, DataKnows
<1>3. data' # None
  BY NoneAssumption
<1>4. TypeOK'
  BY DEF IInv, TypeOK, RestorationTypeOK
<1>5. ~HasInstructions' /\ ToJoin' = ToJoin /\ Joined' = Joined
  BY <1>1 DEF HasInstructions, ToJoin, Joined, NodeOf
<1>6. InstallerKnows'
  <2>1. installer = "idle" /\ tar = None
    BY <1>2 DEF IInv, InstallerKnows
  <2>2. QED BY <1>2, <2>1 DEF IInv, InstallerKnows, Foreign, InstallerSteps
<1>7. DataKnows'
  <2>1. data'.brought \subseteq data'.apps /\ data'.brought \subseteq running'
    BY <1>1 DEF IInv, DataKnows
  <2>2. data'.salt # None => data'.salt = swarm'.salt
    BY <1>1 DEF IInv, DataKnows
  <2>3. PinsHold(data)'
    BY <1>5 DEF PinsHold
  <2>4. QED BY <1>2, <1>5, <2>1, <2>2, <2>3 DEF DataKnows
<1>8. ProcessKnows'
  BY <1>1, <1>3, <1>5 DEF ProcessKnows
<1>9. HasBackup => HasBackup'
  BY <1>3 DEF HasBackup
<1>10. QED BY <1>4, <1>6, <1>7, <1>8, <1>9 DEF IInv

\* What is known of a captain that serves.
LEMMA ServingHas ==
    ASSUME IInv, Serving
    PROVE  /\ data \in Data /\ process \in Process /\ process.at = "serving"
           /\ running \subseteq Apps /\ PinsHold(data) /\ data # None
<1>1. process # None /\ data # None /\ process.at = "serving"
  BY DEF Serving, At, IInv, ProcessKnows
<1>2. captain # None
  BY <1>1 DEF IInv, DataKnows
<1>3. QED BY <1>1, <1>2 DEF IInv, TypeOK, RestorationTypeOK, DataKnows

\* What a captain serves of its apps: the requests, and what they leave to do.
AppsStep ==
    \/ \E a \in Apps : RegisterApp(a) \/ DeployApp(a) \/ BuildEnds(a) \/ ServiceUpdateEnds(a)
    \/ \E a \in Apps, pin \in Joined \cup {None}, encrypted \in BOOLEAN : SaveApp(a, pin, encrypted)

LEMMA RegisterAppKeeps ==
    ASSUME IInv, NEW a \in Apps, RegisterApp(a) PROVE IInv' /\ (HasBackup => HasBackup')
<1>1. Serving
  BY DEF RegisterApp, IsInitialized
<1> DEFINE pins == [data.pins EXCEPT ![a] = None]
<1>2. /\ pins \in [Apps -> Node \cup {None}] /\ pins[a] = None
      /\ \A b \in Apps \ {a} : pins[b] = data.pins[b]
  BY <1>1, ServingHas DEF Data
<1> HIDE DEF pins
<1>3. data' = [data EXCEPT !.apps = data.apps \cup {a}, !.pins = pins]
      /\ process' = [process EXCEPT !.builds = process.builds \cup {a}]
  BY DEF RegisterApp, pins
<1>4. /\ data' \in Data /\ data'.own = data.own /\ data'.brought = data.brought
      /\ data'.apps = data.apps \cup {a} /\ data'.pins = pins /\ data'.salt = data.salt
  BY <1>1, <1>2, <1>3, ServingHas DEF Data
<1>5. PinsHold(data')
  <2>1. data.apps \subseteq Apps
    BY <1>1, ServingHas DEF Data
  <2>2. QED BY <1>1, <1>2, <1>4, <2>1, ServingHas DEF PinsHold
<1>6. process' \in Process /\ process'.at = "serving" /\ process'.salt = process.salt
  BY <1>1, <1>3, ServingHas DEF Process
<1>7. QED BY <1>1, <1>4, <1>5, <1>6, ServingHas, ServingKeeps DEF RegisterApp

LEMMA DeployAppKeeps ==
    ASSUME IInv, NEW a \in Apps, DeployApp(a) PROVE IInv' /\ (HasBackup => HasBackup')
<1>1. Serving /\ data' = data
  BY DEF DeployApp, IsInitialized, restorationVars, diskVars
<1>2. process' \in Process /\ process'.at = "serving" /\ process'.salt = process.salt
  BY <1>1, ServingHas DEF DeployApp, Process
<1>3. QED BY <1>1, <1>2, ServingHas, ServingKeeps DEF DeployApp, restorationVars, diskVars

LEMMA BuildEndsKeeps ==
    ASSUME IInv, NEW a \in Apps, BuildEnds(a) PROVE IInv' /\ (HasBackup => HasBackup')
<1>1. Serving
  BY DEF BuildEnds
<1>2. data' = data \/ data' = [data EXCEPT !.built = data.built \cup {a}]
  BY DEF BuildEnds
<1>3. /\ data' \in Data /\ data'.own = data.own /\ data'.brought = data.brought
      /\ data'.apps = data.apps /\ data'.pins = data.pins /\ data'.salt = data.salt
  BY <1>1, <1>2, ServingHas DEF Data
<1>4. PinsHold(data')
  BY <1>1, <1>3, ServingHas DEF PinsHold
<1>5. process' \in Process /\ process'.at = "serving" /\ process'.salt = process.salt
  <2>1. CASE process' = [process EXCEPT !.builds = process.builds \ {a}]
    BY <1>1, <2>1, ServingHas DEF Process
  <2>2. CASE process' = [process EXCEPT !.builds = process.builds \ {a},
                                        !.updates = process.updates \cup {a}]
    BY <1>1, <2>2, ServingHas DEF Process
  <2>3. QED BY <2>1, <2>2 DEF BuildEnds
<1>6. QED BY <1>1, <1>3, <1>4, <1>5, ServingHas, ServingKeeps DEF BuildEnds

LEMMA ServiceUpdateEndsKeeps ==
    ASSUME IInv, NEW a \in Apps, ServiceUpdateEnds(a) PROVE IInv' /\ (HasBackup => HasBackup')
<1>1. Serving /\ data' = data
  BY DEF ServiceUpdateEnds, restorationVars, diskVars
<1>2. process' \in Process /\ process'.at = "serving" /\ process'.salt = process.salt
  BY <1>1, ServingHas DEF ServiceUpdateEnds, Process
<1>3. running \subseteq running' /\ running' \subseteq Apps
  BY <1>1, ServingHas DEF ServiceUpdateEnds
<1>4. QED BY <1>1, <1>2, <1>3, ServingHas, ServingKeeps DEF ServiceUpdateEnds, restorationVars, diskVars

LEMMA SaveAppKeeps ==
    ASSUME IInv, NEW a \in Apps, NEW pin \in Joined \cup {None}, NEW encrypted \in BOOLEAN,
           SaveApp(a, pin, encrypted)
    PROVE  IInv' /\ (HasBackup => HasBackup')
<1>1. Serving
  BY DEF SaveApp, IsInitialized
<1>2. pin \in Node \cup {None}
  BY DEF Joined, NodeOf, Node, IInv, TypeOK, RestorationTypeOK, Swarm
<1> DEFINE pins == [data.pins EXCEPT ![a] = pin]
           salt == IF encrypted THEN process.salt ELSE data.salt
<1>3. /\ pins \in [Apps -> Node \cup {None}] /\ salt \in Salt \cup {None}
      /\ pins[a] = pin /\ \A b \in Apps \ {a} : pins[b] = data.pins[b]
      /\ salt \in {data.salt, process.salt}
  BY <1>1, <1>2, ServingHas DEF Data, Process
<1> HIDE DEF pins, salt
<1>4. data' = [data EXCEPT !.pins = pins, !.salt = salt]
  BY DEF SaveApp, pins, salt
<1>5. /\ data' \in Data /\ data'.own = data.own /\ data'.brought = data.brought
      /\ data'.apps = data.apps /\ data'.pins = pins /\ data'.salt = salt
  BY <1>1, <1>3, <1>4, ServingHas DEF Data
<1>6. PinsHold(data')
  <2>1. data.apps \subseteq Apps
    BY <1>1, ServingHas DEF Data
  <2>2. QED BY <1>1, <1>3, <1>5, <2>1, ServingHas DEF PinsHold
<1>7. process' \in Process /\ process'.at = "serving" /\ process'.salt = process.salt
  BY <1>1, ServingHas DEF SaveApp, Process
<1>8. QED BY <1>1, <1>3, <1>5, <1>6, <1>7, ServingHas, ServingKeeps DEF SaveApp

LEMMA AppsStepKeeps ==
    ASSUME IInv, AppsStep PROVE IInv' /\ (HasBackup => HasBackup')
BY RegisterAppKeeps, DeployAppKeeps, BuildEndsKeeps, ServiceUpdateEndsKeeps, SaveAppKeeps DEF AppsStep

\* A backup is packed with the salt and the nodes of the swarm.
LEMMA BackupTyped ==
    ASSUME IInv, FinishBackup PROVE TypeOK'
<1>1. process \in Process /\ data \in Data /\ swarm \in Swarm /\ process.salt = swarm.salt
      /\ swarm.salt # None
  BY DEF FinishBackup, Serving, At, IInv, TypeOK, RestorationTypeOK, ProcessKnows
<1>2. CreateBackupInternal \in Archive
  <2>1. process.salt \in Salt
    BY <1>1 DEF Swarm, Salt
  <2>2. {NodeOf(m) : m \in swarm.joined} \subseteq Node
    BY <1>1 DEF NodeOf, Swarm, Node
  <2>3. QED BY <1>1, <2>1, <2>2 DEF CreateBackupInternal, CopyIsFlat, Archive
<1>3. process' \in Process
  BY <1>1 DEF FinishBackup, Process
<1>4. QED BY <1>2, <1>3 DEF FinishBackup, restorationVars, diskVars, IInv, TypeOK,
     RestorationTypeOK

\* An edited answer leaves the data and its salt alone.
LEMMA EditFields ==
    ASSUME IInv, NEW n \in Node, NEW answer \in Answer, EditInstructions(n, answer),
           UNCHANGED planeVars
    PROVE  DataKnows' /\ ProcessKnows'
<1>1. restoring \in Restoring /\ restoring.map \in Instructions
  BY NoneAssumption DEF EditInstructions, HasInstructions, IInv, TypeOK, RestorationTypeOK,
       Restoring
<1>2. restoring' = [restoring EXCEPT !.map = [restoring.map EXCEPT ![n] = answer]]
  BY DEF EditInstructions
<1>3. /\ restoring'.salt = restoring.salt /\ restoring' \in Restoring
      /\ restoring'.map = [restoring.map EXCEPT ![n] = answer] /\ restoring'.map \in Instructions
  BY <1>1, <1>2 DEF Restoring, Instructions
<1>4. HasInstructions' /\ HasInstructions
  BY <1>3, NoneAssumption DEF HasInstructions, EditInstructions
<1>5. DataKnows'
  BY <1>3, <1>4 DEF EditInstructions, planeVars, IInv, DataKnows, PinsHold, Joined, NodeOf
<1>6. ProcessKnows'
  BY <1>3, <1>4 DEF EditInstructions, planeVars, IInv, ProcessKnows
<1>7. QED BY <1>5, <1>6

\* The archive is still in its place.
LEMMA ExtractBackupContentKeeps ==
    ASSUME IInv, ExtractBackupContent, UNCHANGED planeVars
    PROVE  IInv'
<1>1. TypeOK'
  BY DEF Answer, Archive, Balancers, Captain, Data, ExtractBackupContent, IInv,
       InstallerSteps, Instructions, Node, Process, RestorationTypeOK, Restoring, Salt,
       Steps, Swarm, TypeOK, planeVars
<1>2. InstallerKnows'
  BY DEF ExtractBackupContent, Foreign, HasInstructions, IInv, InstallerKnows,
       InstallerSteps, Joined, NodeOf, PinsHold, ToJoin, planeVars
<1>3. DataKnows'
  BY DEF DataKnows, ExtractBackupContent, Foreign, HasInstructions, IInv, InstallerKnows,
       InstallerSteps, Joined, NodeOf, PinsHold, ToJoin, planeVars
<1>4. ProcessKnows'
  BY DEF ExtractBackupContent, Foreign, HasInstructions, IInv, InstallerKnows,
       InstallerSteps, Joined, NodeOf, PinsHold, ProcessKnows, ToJoin, planeVars
<1>5. QED BY <1>1, <1>2, <1>3, <1>4 DEF IInv

\* The directory has what the archive has.
LEMMA ExposeBackupContentKeeps ==
    ASSUME IInv, ExposeBackupContent, UNCHANGED planeVars
    PROVE  IInv'
<1>1. TypeOK'
  BY DEF Answer, Archive, Balancers, Captain, Data, ExposeBackupContent, Foreign,
       HasInstructions, IInv, InstallerKnows, InstallerSteps, Instructions, Joined, Node,
       NodeOf, PinsHold, Process, RestorationTypeOK, Restoring, Salt, Steps, Swarm, ToJoin,
       TypeOK, planeVars
<1>2. InstallerKnows'
  BY NoneAssumption, MachinesAssumption, HealthAssumption DEF Answer, Archive, Balancers,
       Captain, Data, ExposeBackupContent, Foreign, HasInstructions, IInv, InstallerKnows,
       InstallerSteps, Instructions, Joined, Node, NodeOf, PinsHold, Process,
       RestorationTypeOK, Restoring, Salt, Steps, Swarm, ToJoin, TypeOK, planeVars
<1>3. DataKnows'
  BY DEF DataKnows, ExposeBackupContent, Foreign, HasInstructions, IInv, InstallerKnows,
       InstallerSteps, Joined, NodeOf, PinsHold, ToJoin, planeVars
<1>4. ProcessKnows'
  BY DEF ExposeBackupContent, Foreign, HasInstructions, IInv, InstallerKnows,
       InstallerSteps, Joined, NodeOf, PinsHold, ProcessKnows, ToJoin, planeVars
<1>5. QED BY <1>1, <1>2, <1>3, <1>4 DEF IInv

\* The directory has the backup when the archive goes.
LEMMA RemoveTarKeeps ==
    ASSUME IInv, RemoveTar, UNCHANGED planeVars
    PROVE  IInv'
<1>1. TypeOK'
  BY DEF Answer, Archive, Balancers, Captain, Data, IInv, InstallerSteps, Instructions,
       Node, Process, RemoveTar, RestorationTypeOK, Restoring, Salt, Steps, Swarm, TypeOK,
       planeVars
<1>2. InstallerKnows'
  BY DEF Foreign, HasInstructions, IInv, InstallerKnows, InstallerSteps, Joined, NodeOf,
       PinsHold, RemoveTar, ToJoin, planeVars
<1>3. DataKnows'
  BY DEF DataKnows, HasInstructions, IInv, Joined, NodeOf, PinsHold, RemoveTar, planeVars
<1>4. ProcessKnows'
  BY DEF HasInstructions, IInv, ProcessKnows, RemoveTar, planeVars
<1>5. QED BY <1>1, <1>2, <1>3, <1>4 DEF IInv

\* The instructions change nothing that was restored.
LEMMA CreateRestorationInstructionFileKeeps ==
    ASSUME IInv, CreateRestorationInstructionFile, UNCHANGED planeVars
    PROVE  IInv'
<1>1. TypeOK'
  BY DEF Answer, Archive, Balancers, Captain, CreateRestorationInstructionFile, Data,
       Foreign, HasInstructions, IInv, InstallerKnows, InstallerSteps, Instructions,
       Joined, Node, NodeOf, PinsHold, Process, RestorationTypeOK, Restoring, Salt, Steps,
       Swarm, ToJoin, TypeOK, planeVars
<1>2. InstallerKnows'
  BY DEF CreateRestorationInstructionFile, Foreign, HasInstructions, IInv, InstallerKnows,
       InstallerSteps, Joined, Node, NodeOf, PinsHold, ToJoin, planeVars
<1>3. DataKnows'
  BY NoneAssumption, MachinesAssumption, HealthAssumption DEF Answer, Archive, Balancers,
       Captain, CreateRestorationInstructionFile, Data, DataKnows, Foreign,
       HasInstructions, IInv, InstallerKnows, InstallerSteps, Instructions, Joined, Node,
       NodeOf, PinsHold, Process, RestorationTypeOK, Restoring, Salt, Steps, Swarm, ToJoin,
       TypeOK, planeVars
<1>4. ProcessKnows'
  BY DEF CreateRestorationInstructionFile, DataKnows, Foreign, HasInstructions, IInv,
       InstallerKnows, InstallerSteps, Joined, Node, NodeOf, PinsHold, ProcessKnows,
       ToJoin, planeVars
<1>5. QED BY <1>1, <1>2, <1>3, <1>4 DEF IInv

\* The check changes nothing.
LEMMA CheckAndPrepareRestorationKeeps ==
    ASSUME IInv, CheckAndPrepareRestoration, UNCHANGED planeVars
    PROVE  IInv'
<1>1. TypeOK'
  BY DEF AccessToAllNodes, Answer, Archive, Balancers, Captain, CheckAndPrepareRestoration,
       CheckSshRoot, Data, HasInstructions, IInv, InstallerSteps, Instructions, Node,
       Process, RestorationTypeOK, Restoring, Salt, Steps, Swarm, TypeOK, diskVars,
       planeVars
<1>2. InstallerKnows'
  BY DEF AccessToAllNodes, CheckAndPrepareRestoration, CheckSshRoot, Foreign,
       HasInstructions, IInv, InstallerKnows, InstallerSteps, Joined, NodeOf, PinsHold,
       ToJoin, diskVars, planeVars
<1>3. DataKnows'
  BY DEF AccessToAllNodes, CheckAndPrepareRestoration, CheckSshRoot, DataKnows,
       HasInstructions, IInv, Joined, NodeOf, PinsHold, diskVars, planeVars
<1>4. ProcessKnows'
  BY DEF AccessToAllNodes, CheckAndPrepareRestoration, CheckSshRoot, HasInstructions, IInv,
       ProcessKnows, diskVars, planeVars
<1>5. QED BY <1>1, <1>2, <1>3, <1>4 DEF IInv

\* A new swarm has no apps, and no secret yet.
LEMMA InitSwarmKeeps ==
    ASSUME IInv, InitSwarm, UNCHANGED planeVars
    PROVE  IInv'
<1>1. TypeOK'
  BY NoneAssumption, MachinesAssumption, HealthAssumption DEF Answer, Archive, Balancers,
       Captain, Data, HasInstructions, IInv, InitSwarm, InstallerSteps, Instructions, Node,
       Phase1, Process, RestorationTypeOK, Restoring, Salt, Steps, Swarm, TypeOK, diskVars,
       planeVars
<1>2. InstallerKnows'
  BY DEF Foreign, HasInstructions, IInv, InitSwarm, InstallerKnows, InstallerSteps, Joined,
       NodeOf, Phase1, PinsHold, ToJoin, diskVars, planeVars
<1>3. DataKnows'
  BY DEF DataKnows, Foreign, HasInstructions, IInv, InitSwarm, InstallerKnows,
       InstallerSteps, Joined, NodeOf, Phase1, PinsHold, ToJoin, diskVars, planeVars
<1>4. ProcessKnows'
  BY DEF DataKnows, Foreign, HasInstructions, IInv, InitSwarm, InstallerKnows,
       InstallerSteps, Joined, NodeOf, Phase1, PinsHold, ProcessKnows, ToJoin, diskVars,
       planeVars
<1>5. QED BY <1>1, <1>2, <1>3, <1>4 DEF IInv

\* The swarm has the main machine.
LEMMA EnsureSwarmExistsKeeps ==
    ASSUME IInv, EnsureSwarmExists, UNCHANGED planeVars
    PROVE  IInv'
<1>1. TypeOK'
  BY DEF Answer, Archive, Balancers, Captain, Data, EnsureSwarmExists, HasInstructions,
       IInv, InstallerSteps, Instructions, Node, Phase1, Process, RestorationTypeOK,
       Restoring, Salt, Steps, Swarm, TypeOK, diskVars, planeVars
<1>2. InstallerKnows'
  BY DEF EnsureSwarmExists, Foreign, HasInstructions, IInv, InstallerKnows, InstallerSteps,
       Joined, NodeOf, Phase1, PinsHold, ToJoin, diskVars, planeVars
<1>3. DataKnows'
  BY DEF DataKnows, EnsureSwarmExists, HasInstructions, IInv, Joined, NodeOf, Phase1,
       PinsHold, diskVars, planeVars
<1>4. ProcessKnows'
  BY DEF EnsureSwarmExists, HasInstructions, IInv, Phase1, ProcessKnows, diskVars,
       planeVars
<1>5. QED BY <1>1, <1>2, <1>3, <1>4 DEF IInv

\* A machine that joins stays in.
LEMMA JoinDockerNodeKeeps ==
    ASSUME IInv, NEW n \in Node, JoinDockerNode(n), UNCHANGED planeVars
    PROVE  IInv'
<1>1. TypeOK'
  BY DEF Answer, Archive, Balancers, Captain, Data, IInv, InstallerSteps, Instructions,
       JoinDockerNode, Node, Process, RestorationTypeOK, Restoring, Salt, Steps, Swarm,
       ToJoin, TypeOK, diskVars, planeVars
<1>2. InstallerKnows'
  BY DEF Foreign, HasInstructions, IInv, InstallerKnows, InstallerSteps, JoinDockerNode,
       Joined, NodeOf, PinsHold, ToJoin, diskVars, planeVars
<1>3. DataKnows'
  BY DEF DataKnows, HasInstructions, IInv, JoinDockerNode, Joined, NodeOf, PinsHold,
       ToJoin, diskVars, planeVars
<1>4. ProcessKnows'
  BY DEF HasInstructions, IInv, JoinDockerNode, ProcessKnows, ToJoin, diskVars, planeVars
<1>5. QED BY <1>1, <1>2, <1>3, <1>4 DEF IInv

\* Nobody is left to join.
LEMMA AllJoinedKeeps ==
    ASSUME IInv, AllJoined, UNCHANGED planeVars
    PROVE  IInv'
<1>1. TypeOK'
  BY DEF AllJoined, Answer, Archive, Balancers, Captain, Data, IInv, InstallerSteps,
       Instructions, Node, Process, RestorationTypeOK, Restoring, Salt, Steps, Swarm,
       ToJoin, TypeOK, diskVars, planeVars
<1>2. InstallerKnows'
  BY DEF AllJoined, Foreign, HasInstructions, IInv, InstallerKnows, InstallerSteps, Joined,
       NodeOf, PinsHold, ToJoin, diskVars, planeVars
<1>3. DataKnows'
  BY DEF AllJoined, DataKnows, HasInstructions, IInv, Joined, NodeOf, PinsHold, ToJoin,
       diskVars, planeVars
<1>4. ProcessKnows'
  BY DEF AllJoined, HasInstructions, IInv, ProcessKnows, ToJoin, diskVars, planeVars
<1>5. QED BY <1>1, <1>2, <1>3, <1>4 DEF IInv

\* The bindings go to nodes of the swarm.
LEMMA NodesRemapped ==
    ASSUME IInv, RemapNodes, UNCHANGED planeVars
    PROVE  IInv'
<1>1. TypeOK'
  BY RemapNodesKeeps
<1>2. InstallerKnows'
  BY RemapNodesKeeps
<1>3. DataKnows'
  BY RemapNodesKeeps
<1>4. ProcessKnows'
  BY DEF DataKnows, Foreign, HasInstructions, IInv, InstallerKnows, InstallerSteps, Joined,
       NodeOf, PinsHold, ProcessKnows, RemapNodes, Replacement, ToJoin, planeVars
<1>5. QED BY <1>1, <1>2, <1>3, <1>4 DEF IInv

\* The secret is made, or is left as it was.
LEMMA RestoreSecretKeeps ==
    ASSUME IInv, RestoreSecret, UNCHANGED planeVars
    PROVE  IInv'
<1>1. TypeOK'
  BY DEF Answer, Archive, Balancers, Captain, Data, EnsureSecret, Foreign, HasInstructions,
       IInv, InstallerKnows, InstallerSteps, Instructions, Joined, Node, NodeOf, PinsHold,
       Process, RestorationTypeOK, RestoreSecret, Restoring, Salt, Steps, Swarm, ToJoin,
       TypeOK, diskVars, planeVars
<1>2. InstallerKnows'
  BY DEF EnsureSecret, Foreign, HasInstructions, IInv, InstallerKnows, InstallerSteps,
       Joined, NodeOf, PinsHold, RestoreSecret, ToJoin, diskVars, planeVars
<1>3. DataKnows'
  BY DEF DataKnows, EnsureSecret, HasInstructions, IInv, Joined, NodeOf, PinsHold,
       RestoreSecret, diskVars, planeVars
<1>4. ProcessKnows'
  BY DEF EnsureSecret, HasInstructions, IInv, ProcessKnows, RestoreSecret, diskVars,
       planeVars
<1>5. QED BY <1>1, <1>2, <1>3, <1>4 DEF IInv

\* The data is the backup's, and phase 2 is due.
LEMMA MoveDataKeeps ==
    ASSUME IInv, MoveData, UNCHANGED planeVars
    PROVE  IInv'
<1>1. TypeOK'
  BY DEF Answer, Archive, Balancers, Captain, Data, Foreign, HasInstructions, IInv,
       InstallerKnows, InstallerSteps, Instructions, Joined, MoveData, Node, NodeOf,
       PinsHold, Process, RestorationTypeOK, Restoring, Salt, Steps, Swarm, ToJoin, TypeOK,
       planeVars
<1>2. InstallerKnows'
  BY DEF Foreign, HasInstructions, IInv, InstallerKnows, InstallerSteps, Joined, MoveData,
       NodeOf, PinsHold, ToJoin, planeVars
<1>3. DataKnows'
  BY NoneAssumption, MachinesAssumption, HealthAssumption DEF Answer, Archive, Balancers,
       Captain, Data, DataKnows, Foreign, HasInstructions, IInv, InstallerKnows,
       InstallerSteps, Instructions, Joined, MoveData, Node, NodeOf, PinsHold, Process,
       RestorationTypeOK, Restoring, Salt, Steps, Swarm, ToJoin, TypeOK, planeVars
<1>4. ProcessKnows'
  BY DEF DataKnows, Foreign, HasInstructions, IInv, InstallerKnows, InstallerSteps, Joined,
       MoveData, NodeOf, PinsHold, ProcessKnows, ToJoin, planeVars
<1>5. QED BY <1>1, <1>2, <1>3, <1>4 DEF IInv

\* The service is made beside its data.
LEMMA CreateCaptainServiceKeeps ==
    ASSUME IInv, CreateCaptainService, UNCHANGED planeVars
    PROVE  IInv'
<1>1. TypeOK'
  BY DEF Answer, Archive, Balancers, Captain, CreateCaptainService, Data, IInv,
       InstallerSteps, Instructions, Node, Process, RestorationTypeOK, Restoring, Salt,
       Steps, Swarm, TypeOK, diskVars, planeVars
<1>2. InstallerKnows'
  BY DEF CreateCaptainService, Foreign, HasInstructions, IInv, InstallerKnows,
       InstallerSteps, Joined, NodeOf, PinsHold, ToJoin, diskVars, planeVars
<1>3. DataKnows'
  BY DEF CreateCaptainService, DataKnows, HasInstructions, IInv, Joined, NodeOf, PinsHold,
       diskVars, planeVars
<1>4. ProcessKnows'
  BY DEF CreateCaptainService, HasInstructions, IInv, ProcessKnows, diskVars, planeVars
<1>5. QED BY <1>1, <1>2, <1>3, <1>4 DEF IInv

\* An attempt that ends leaves all where it is.
LEMMA InstallationFailsKeeps ==
    ASSUME IInv, InstallationFails, UNCHANGED planeVars
    PROVE  IInv'
<1>1. TypeOK'
  BY NoneAssumption, MachinesAssumption, HealthAssumption DEF AccessToAllNodes, Answer,
       Archive, Balancers, Captain, CheckSshRoot, Data, HasInstructions, IInv,
       InstallationFails, InstallerSteps, Instructions, Node, Process, Refused,
       RestorationTypeOK, Restoring, Salt, Steps, Swarm, ToJoin, TypeOK, diskVars,
       planeVars
<1>2. InstallerKnows'
  BY DEF AccessToAllNodes, CheckSshRoot, Foreign, HasInstructions, IInv, InstallationFails,
       InstallerKnows, InstallerSteps, Joined, NodeOf, PinsHold, Refused, ToJoin, diskVars,
       planeVars
<1>3. DataKnows'
  BY DEF AccessToAllNodes, CheckSshRoot, DataKnows, HasInstructions, IInv,
       InstallationFails, Joined, NodeOf, PinsHold, Refused, ToJoin, diskVars, planeVars
<1>4. ProcessKnows'
  BY DEF AccessToAllNodes, CheckSshRoot, HasInstructions, IInv, InstallationFails,
       ProcessKnows, Refused, ToJoin, diskVars, planeVars
<1>5. QED BY <1>1, <1>2, <1>3, <1>4 DEF IInv

\* An attempt begins where the disk says.
LEMMA InstallKeeps ==
    ASSUME IInv, Install, UNCHANGED planeVars
    PROVE  IInv'
<1>1. TypeOK'
  BY DEF Answer, Archive, Balancers, Captain, Data, IInv, Install, InstallerSteps,
       Instructions, Node, PortsAreFree, Process, RestorationTypeOK, Restoring, Salt,
       Steps, Swarm, TypeOK, diskVars, planeVars
<1>2. InstallerKnows'
  BY DEF Foreign, HasInstructions, IInv, Install, InstallerKnows, InstallerSteps, Joined,
       NodeOf, PinsHold, PortsAreFree, ToJoin, diskVars, planeVars
<1>3. DataKnows'
  BY DEF DataKnows, HasInstructions, IInv, Install, Joined, NodeOf, PinsHold, PortsAreFree,
       diskVars, planeVars
<1>4. ProcessKnows'
  BY DEF HasInstructions, IInv, Install, PortsAreFree, ProcessKnows, diskVars, planeVars
<1>5. QED BY <1>1, <1>2, <1>3, <1>4 DEF IInv

\* An answer is all that changes.
LEMMA EditInstructionsKeeps ==
    ASSUME IInv, NEW n \in Node, NEW answer \in Answer, EditInstructions(n, answer), UNCHANGED planeVars
    PROVE  IInv'
<1>1. TypeOK'
  <2>1. restoring' \in Restoring \cup {None}
    <3>1. restoring \in Restoring /\ restoring.map \in Instructions
      <4>1. restoring \in Restoring
        BY DEF EditInstructions, HasInstructions, IInv, TypeOK, RestorationTypeOK
      <4> QED BY <4>1 DEF EditInstructions, HasInstructions, Restoring
    <3>2. DEFINE new == [restoring.map EXCEPT ![n] = answer]
    <3>3. restoring' = [restoring EXCEPT !.map = new]
      BY DEF EditInstructions
    <3>4. new \in Instructions
      BY <3>1 DEF Instructions
    <3> HIDE DEF new
    <3> QED BY <3>1, <3>3, <3>4 DEF Restoring
  <2> QED BY <2>1 DEF IInv, TypeOK, RestorationTypeOK, EditInstructions, planeVars
<1>2. InstallerKnows'
  BY DEF EditInstructions, Foreign, HasInstructions, IInv, InstallerKnows, InstallerSteps,
       Joined, NodeOf, PinsHold, ToJoin, planeVars
<1>3. DataKnows'
  BY EditFields
<1>4. ProcessKnows'
  BY EditFields
<1>5. QED BY <1>1, <1>2, <1>3, <1>4 DEF IInv

\* The directories are no part of the invariant.
LEMMA PrepareDirectoriesKeeps ==
    ASSUME IInv, PrepareDirectories
    PROVE  IInv'
<1>1. TypeOK'
  BY DEF Answer, Archive, At, Balancers, Captain, Data, GoesTo, IInv, InstallerSteps,
       Instructions, Node, PrepareDirectories, Process, RestorationTypeOK, Restoring, Salt,
       Steps, Swarm, TypeOK, diskVars, restorationVars
<1>2. InstallerKnows'
  BY DEF At, Foreign, GoesTo, HasInstructions, IInv, InstallerKnows, InstallerSteps,
       Joined, NodeOf, PinsHold, PrepareDirectories, ToJoin, diskVars, restorationVars
<1>3. DataKnows'
  BY DEF At, DataKnows, GoesTo, HasInstructions, IInv, Joined, NodeOf, PinsHold,
       PrepareDirectories, diskVars, restorationVars
<1>4. ProcessKnows'
  BY DEF At, GoesTo, HasInstructions, IInv, PrepareDirectories, ProcessKnows, diskVars,
       restorationVars
<1>5. QED BY <1>1, <1>2, <1>3, <1>4 DEF IInv

\* Nor is the network.
LEMMA EnsureOverlayNetworkKeeps ==
    ASSUME IInv, EnsureOverlayNetwork
    PROVE  IInv'
<1>1. TypeOK'
  BY DEF Answer, Archive, At, Balancers, Captain, Data, EnsureOverlayNetwork, GoesTo, IInv,
       InstallerSteps, Instructions, Node, Process, RestorationTypeOK, Restoring, Salt,
       Steps, Swarm, TypeOK, diskVars, restorationVars
<1>2. InstallerKnows'
  BY DEF At, EnsureOverlayNetwork, Foreign, GoesTo, HasInstructions, IInv, InstallerKnows,
       InstallerSteps, Joined, NodeOf, PinsHold, ToJoin, diskVars, restorationVars
<1>3. DataKnows'
  BY DEF At, DataKnows, EnsureOverlayNetwork, GoesTo, HasInstructions, IInv, Joined,
       NodeOf, PinsHold, diskVars, restorationVars
<1>4. ProcessKnows'
  BY DEF At, EnsureOverlayNetwork, GoesTo, HasInstructions, IInv, ProcessKnows, diskVars,
       restorationVars
<1>5. QED BY <1>1, <1>2, <1>3, <1>4 DEF IInv

\* The service is connected.
LEMMA EnsureServiceConnectedToNetworkKeeps ==
    ASSUME IInv, EnsureServiceConnectedToNetwork
    PROVE  IInv'
<1>1. TypeOK'
  BY DEF Answer, Archive, At, Balancers, Captain, Data, DataKnows,
       EnsureServiceConnectedToNetwork, Foreign, GoesTo, HasInstructions, IInv,
       InstallerKnows, InstallerSteps, Instructions, Joined, Node, NodeOf, PinsHold,
       Process, RestorationTypeOK, Restoring, Salt, Steps, Swarm, ToJoin, TypeOK, diskVars
<1>2. InstallerKnows'
  BY DEF At, DataKnows, EnsureServiceConnectedToNetwork, Foreign, GoesTo, HasInstructions,
       IInv, InstallerKnows, InstallerSteps, Joined, NodeOf, PinsHold, ToJoin, diskVars
<1>3. DataKnows'
  BY ConnectData
<1>4. ProcessKnows'
  BY DEF At, EnsureServiceConnectedToNetwork, GoesTo, HasInstructions, IInv, ProcessKnows,
       diskVars
<1>5. QED BY <1>1, <1>2, <1>3, <1>4 DEF IInv

\* The swarm has a salt from here on.
LEMMA EnsureCaptainSaltKeeps ==
    ASSUME IInv, EnsureCaptainSalt
    PROVE  IInv'
<1>1. TypeOK'
  BY SaltTyped
<1>2. InstallerKnows'
  BY DEF At, EnsureCaptainSalt, EnsureSecret, Foreign, GoesTo, HasInstructions, IInv,
       InstallerKnows, InstallerSteps, Joined, NodeOf, PinsHold, ToJoin, diskVars
<1>3. DataKnows'
  BY DEF At, DataKnows, EnsureCaptainSalt, EnsureSecret, GoesTo, HasInstructions, IInv,
       Joined, NodeOf, PinsHold, diskVars
<1>4. ProcessKnows'
  BY NoneAssumption, MachinesAssumption, HealthAssumption DEF Answer, Archive, At,
       Balancers, Captain, Data, EnsureCaptainSalt, EnsureSecret, GoesTo, HasInstructions,
       IInv, InstallerSteps, Instructions, Node, Process, ProcessKnows, RestorationTypeOK,
       Restoring, Salt, Steps, Swarm, TypeOK, diskVars
<1>5. QED BY <1>1, <1>2, <1>3, <1>4 DEF IInv

\* The service has the secret.
LEMMA EnsureSecretOnServiceKeeps ==
    ASSUME IInv, EnsureSecretOnService
    PROVE  IInv'
<1>1. TypeOK'
  BY DEF Answer, Archive, At, Balancers, Captain, Data, DataKnows, EnsureSecretOnService,
       Foreign, GoesTo, HasInstructions, IInv, InstallerKnows, InstallerSteps,
       Instructions, Joined, Node, NodeOf, PinsHold, Process, RestorationTypeOK, Restoring,
       Salt, Steps, Swarm, ToJoin, TypeOK, diskVars
<1>2. InstallerKnows'
  BY DEF At, DataKnows, EnsureSecretOnService, Foreign, GoesTo, HasInstructions, IInv,
       InstallerKnows, InstallerSteps, Joined, NodeOf, PinsHold, ToJoin, diskVars
<1>3. DataKnows'
  BY MountData
<1>4. ProcessKnows'
  BY DEF At, EnsureSecretOnService, GoesTo, HasInstructions, IInv, ProcessKnows, diskVars
<1>5. QED BY <1>1, <1>2, <1>3, <1>4 DEF IInv

\* The process has the salt of the swarm.
LEMMA ReadSaltKeeps ==
    ASSUME IInv, ReadSalt
    PROVE  IInv'
<1>1. TypeOK'
  BY DEF Answer, Archive, At, Balancers, Captain, Data, DataKnows, Foreign,
       HasInstructions, IInv, InstallerKnows, InstallerSteps, Instructions, Joined, Node,
       NodeOf, PinsHold, Process, ProcessKnows, ReadSalt, RestorationTypeOK, Restoring,
       Salt, Steps, Swarm, ToJoin, TypeOK, diskVars, restorationVars
<1>2. InstallerKnows'
  BY DEF At, Foreign, HasInstructions, IInv, InstallerKnows, InstallerSteps, Joined,
       NodeOf, PinsHold, ReadSalt, ToJoin, diskVars, restorationVars
<1>3. DataKnows'
  BY DEF At, DataKnows, HasInstructions, IInv, Joined, NodeOf, PinsHold, ReadSalt,
       diskVars, restorationVars
<1>4. ProcessKnows'
  BY DEF At, HasInstructions, IInv, ProcessKnows, ReadSalt, diskVars, restorationVars
<1>5. QED BY <1>1, <1>2, <1>3, <1>4 DEF IInv

\* nginx is on the captain's node when the step is left.
LEMMA NginxPlaced ==
    ASSUME IInv, EnsureOnMyNode("nginx", "certbot")
    PROVE  IInv'
<1>1. TypeOK'
  BY NoneAssumption, MachinesAssumption, HealthAssumption DEF Answer, Archive, At,
       Balancers, Captain, Data, EnsureOnMyNode, GoesTo, IInv, InstallerSteps,
       Instructions, Node, Process, RestorationTypeOK, Restoring, Salt, Steps, Swarm,
       TypeOK, diskVars, restorationVars
<1>2. InstallerKnows'
  BY DEF At, EnsureOnMyNode, Foreign, GoesTo, HasInstructions, IInv, InstallerKnows,
       InstallerSteps, Joined, NodeOf, PinsHold, ToJoin, diskVars, restorationVars
<1>3. DataKnows'
  BY DEF At, DataKnows, EnsureOnMyNode, GoesTo, HasInstructions, IInv, Joined, NodeOf,
       PinsHold, diskVars, restorationVars
<1>4. ProcessKnows'
  BY DEF Answer, Archive, At, Balancers, Captain, Data, EnsureOnMyNode, GoesTo,
       HasInstructions, IInv, InstallerSteps, Instructions, Node, Process, ProcessKnows,
       RestorationTypeOK, Restoring, Salt, Steps, Swarm, TypeOK, diskVars, restorationVars
<1>5. QED BY <1>1, <1>2, <1>3, <1>4 DEF IInv

\* And so is certbot.
LEMMA CertbotPlaced ==
    ASSUME IInv, EnsureOnMyNode("certbot", "phase2")
    PROVE  IInv'
<1>1. TypeOK'
  BY NoneAssumption, MachinesAssumption, HealthAssumption DEF Answer, Archive, At,
       Balancers, Captain, Data, EnsureOnMyNode, GoesTo, IInv, InstallerSteps,
       Instructions, Node, Process, RestorationTypeOK, Restoring, Salt, Steps, Swarm,
       TypeOK, diskVars, restorationVars
<1>2. InstallerKnows'
  BY DEF At, EnsureOnMyNode, Foreign, GoesTo, HasInstructions, IInv, InstallerKnows,
       InstallerSteps, Joined, NodeOf, PinsHold, ToJoin, diskVars, restorationVars
<1>3. DataKnows'
  BY DEF At, DataKnows, EnsureOnMyNode, GoesTo, HasInstructions, IInv, Joined, NodeOf,
       PinsHold, diskVars, restorationVars
<1>4. ProcessKnows'
  BY DEF Answer, Archive, At, Balancers, Captain, Data, EnsureOnMyNode, GoesTo,
       HasInstructions, IInv, InstallerSteps, Instructions, Node, Process, ProcessKnows,
       RestorationTypeOK, Restoring, Salt, Steps, Swarm, TypeOK, diskVars, restorationVars
<1>5. QED BY <1>1, <1>2, <1>3, <1>4 DEF IInv

\* There is nothing to restore.
LEMMA SkipPhase2Keeps ==
    ASSUME IInv, SkipPhase2
    PROVE  IInv'
<1>1. TypeOK'
  BY DEF Answer, Archive, At, Balancers, Captain, Data, GoesTo, HasInstructions, IInv,
       InstallerSteps, Instructions, Node, Process, RestorationTypeOK, Restoring, Salt,
       SkipPhase2, Steps, Swarm, TypeOK, diskVars, restorationVars
<1>2. InstallerKnows'
  BY DEF At, Foreign, GoesTo, HasInstructions, IInv, InstallerKnows, InstallerSteps,
       Joined, NodeOf, PinsHold, SkipPhase2, ToJoin, diskVars, restorationVars
<1>3. DataKnows'
  BY DEF At, DataKnows, GoesTo, HasInstructions, IInv, Joined, NodeOf, PinsHold,
       SkipPhase2, diskVars, restorationVars
<1>4. ProcessKnows'
  BY DEF At, GoesTo, HasInstructions, IInv, ProcessKnows, SkipPhase2, diskVars,
       restorationVars
<1>5. QED BY <1>1, <1>2, <1>3, <1>4 DEF IInv

\* The salts agree, and every app is to be seen to.
LEMMA BeginPhase2Keeps ==
    ASSUME IInv, BeginPhase2
    PROVE  IInv'
<1>1. TypeOK'
  BY DEF Answer, Archive, At, Balancers, BeginPhase2, Captain, Data, DataKnows, Foreign,
       HasInstructions, IInv, InstallerKnows, InstallerSteps, Instructions, Joined, Node,
       NodeOf, PinsHold, Process, RestorationTypeOK, Restoring, Salt, Steps, Swarm, ToJoin,
       TypeOK, diskVars, restorationVars
<1>2. InstallerKnows'
  BY DEF At, BeginPhase2, Foreign, HasInstructions, IInv, InstallerKnows, InstallerSteps,
       Joined, NodeOf, PinsHold, ToJoin, diskVars, restorationVars
<1>3. DataKnows'
  BY DEF At, BeginPhase2, DataKnows, HasInstructions, IInv, Joined, NodeOf, PinsHold,
       diskVars, restorationVars
<1>4. ProcessKnows'
  BY DEF At, BeginPhase2, HasInstructions, IInv, ProcessKnows, diskVars, restorationVars
<1>5. QED BY <1>1, <1>2, <1>3, <1>4 DEF IInv

\* One app less to see to.
LEMMA EnsureAppInitedKeeps ==
    ASSUME IInv, NEW a \in Apps, EnsureAppInited(a)
    PROVE  IInv'
<1>1. TypeOK'
  <2>1. process \in Process
    BY DEF EnsureAppInited, At, IInv, TypeOK
  <2>2. process' \in Process
    BY <2>1 DEF EnsureAppInited, Process
  <2>3. QED BY <2>2 DEF EnsureAppInited, IInv, TypeOK, RestorationTypeOK, restorationVars, diskVars
<1>2. InstallerKnows'
  BY DEF At, EnsureAppInited, Foreign, HasInstructions, IInv, InstallerKnows,
       InstallerSteps, Joined, NodeOf, PinsHold, ToJoin, diskVars, restorationVars
<1>3. DataKnows'
  BY DEF At, DataKnows, EnsureAppInited, HasInstructions, IInv, Joined, NodeOf, PinsHold,
       diskVars, restorationVars
<1>4. ProcessKnows'
  BY DEF At, EnsureAppInited, HasInstructions, IInv, ProcessKnows, diskVars,
       restorationVars
<1>5. QED BY <1>1, <1>2, <1>3, <1>4 DEF IInv

\* Every app runs when the directory goes.
LEMMA EndPhase2Keeps ==
    ASSUME IInv, EndPhase2
    PROVE  IInv'
<1>1. TypeOK'
  BY DEF Answer, Archive, At, Balancers, Captain, Data, EndPhase2, GoesTo, IInv,
       InstallerSteps, Instructions, Node, Process, RestorationTypeOK, Restoring, Salt,
       Steps, Swarm, TypeOK
<1>2. InstallerKnows'
  BY DEF At, DataKnows, EndPhase2, Foreign, GoesTo, HasInstructions, IInv, InstallerKnows,
       InstallerSteps, Joined, NodeOf, PinsHold, ToJoin
<1>3. DataKnows'
  BY DEF At, DataKnows, EndPhase2, GoesTo, HasInstructions, IInv, Joined, NodeOf, PinsHold,
       ProcessKnows
<1>4. ProcessKnows'
  BY DEF At, EndPhase2, GoesTo, HasInstructions, IInv, ProcessKnows
<1>5. QED BY <1>1, <1>2, <1>3, <1>4 DEF IInv

\* What was seen to stays so.
LEMMA BecomesReadyKeeps ==
    ASSUME IInv, BecomesReady
    PROVE  IInv'
<1>1. TypeOK'
  BY DEF Answer, Archive, At, Balancers, BecomesReady, Captain, Data, GoesTo, IInv,
       InstallerSteps, Instructions, Node, Process, RestorationTypeOK, Restoring, Salt,
       Steps, Swarm, TypeOK, diskVars, restorationVars
<1>2. InstallerKnows'
  BY DEF At, BecomesReady, Foreign, GoesTo, HasInstructions, IInv, InstallerKnows,
       InstallerSteps, Joined, NodeOf, PinsHold, ToJoin, diskVars, restorationVars
<1>3. DataKnows'
  BY DEF At, BecomesReady, DataKnows, GoesTo, HasInstructions, IInv, Joined, NodeOf,
       PinsHold, diskVars, restorationVars
<1>4. ProcessKnows'
  BY DEF At, BecomesReady, GoesTo, HasInstructions, IInv, ProcessKnows, diskVars,
       restorationVars
<1>5. QED BY <1>1, <1>2, <1>3, <1>4 DEF IInv

\* A new process has seen to nothing.
LEMMA ProcessStarts ==
    ASSUME IInv, StartProcess
    PROVE  IInv'
<1>1. TypeOK'
  BY StartKeeps
<1>2. InstallerKnows'
  BY DEF EmptyData, Foreign, HasInstructions, IInv, InstallerKnows, InstallerSteps, Joined,
       NoPins, NodeOf, PinsHold, StartProcess, ToJoin
<1>3. DataKnows'
  BY StartKeeps
<1>4. ProcessKnows'
  BY StartKeeps
<1>5. QED BY <1>1, <1>2, <1>3, <1>4 DEF IInv

\* Another machine joins.
LEMMA JoinNodeKeeps ==
    ASSUME IInv, NEW m \in Machines, JoinNode(m)
    PROVE  IInv'
<1>1. TypeOK'
  BY DEF Answer, Archive, At, Balancers, Captain, Data, IInv, InstallerSteps, Instructions,
       IsInitialized, JoinNode, Node, Process, RestorationTypeOK, Restoring, Salt, Serving,
       Steps, Swarm, TypeOK, diskVars, planeVars
<1>2. InstallerKnows'
  BY DEF At, Foreign, HasInstructions, IInv, InstallerKnows, InstallerSteps, IsInitialized,
       JoinNode, Joined, NodeOf, PinsHold, Serving, ToJoin, diskVars, planeVars
<1>3. DataKnows'
  BY DEF At, DataKnows, HasInstructions, IInv, IsInitialized, JoinNode, Joined, NodeOf,
       PinsHold, Serving, diskVars, planeVars
<1>4. ProcessKnows'
  BY DEF At, HasInstructions, IInv, IsInitialized, JoinNode, ProcessKnows, Serving,
       diskVars, planeVars
<1>5. QED BY <1>1, <1>2, <1>3, <1>4 DEF IInv

\* A backup changes the flag only.
LEMMA StartBackupKeeps ==
    ASSUME IInv, StartBackup
    PROVE  IInv'
<1>1. TypeOK'
  <2>1. process \in Process
    BY DEF StartBackup, IsInitialized, Serving, At, IInv, TypeOK
  <2>2. process' \in Process
    BY <2>1 DEF StartBackup, Process
  <2>3. QED BY <2>2 DEF StartBackup, IInv, TypeOK, RestorationTypeOK, restorationVars, diskVars
<1>2. InstallerKnows'
  BY DEF At, Foreign, HasInstructions, IInv, InstallerKnows, InstallerSteps, IsInitialized,
       Joined, NodeOf, PinsHold, Serving, StartBackup, ToJoin, diskVars, restorationVars
<1>3. DataKnows'
  BY DEF At, DataKnows, HasInstructions, IInv, IsInitialized, Joined, NodeOf, PinsHold,
       Serving, StartBackup, diskVars, restorationVars
<1>4. ProcessKnows'
  BY DEF At, HasInstructions, IInv, IsInitialized, ProcessKnows, Serving, StartBackup,
       diskVars, restorationVars
<1>5. QED BY <1>1, <1>2, <1>3, <1>4 DEF IInv

\* A backup is of the type.
LEMMA FinishBackupKeeps ==
    ASSUME IInv, FinishBackup
    PROVE  IInv'
<1>1. TypeOK'
  BY BackupTyped
<1>2. InstallerKnows'
  BY DEF At, CopyIsFlat, CreateBackupInternal, FinishBackup, Foreign, HasInstructions,
       IInv, InstallerKnows, InstallerSteps, Joined, NodeOf, PinsHold, Serving, ToJoin,
       diskVars, restorationVars
<1>3. DataKnows'
  BY DEF At, CopyIsFlat, CreateBackupInternal, DataKnows, FinishBackup, HasInstructions,
       IInv, Joined, NodeOf, PinsHold, Serving, diskVars, restorationVars
<1>4. ProcessKnows'
  BY DEF At, CopyIsFlat, CreateBackupInternal, FinishBackup, HasInstructions, IInv, NodeOf,
       ProcessKnows, Serving, diskVars, restorationVars
<1>5. QED BY <1>1, <1>2, <1>3, <1>4 DEF IInv

\* A failed one leaves nothing.
LEMMA BackupFailsKeeps ==
    ASSUME IInv, BackupFails
    PROVE  IInv'
<1>1. TypeOK'
  <2>1. process \in Process
    BY DEF BackupFails, Serving, At, IInv, TypeOK
  <2>2. process' \in Process
    BY <2>1 DEF BackupFails, Process
  <2>3. QED BY <2>2 DEF BackupFails, IInv, TypeOK, RestorationTypeOK, restorationVars, diskVars
<1>2. InstallerKnows'
  BY DEF At, BackupFails, Foreign, HasInstructions, IInv, InstallerKnows, InstallerSteps,
       Joined, NodeOf, PinsHold, Serving, ToJoin, diskVars, restorationVars
<1>3. DataKnows'
  BY DEF At, BackupFails, DataKnows, HasInstructions, IInv, Joined, NodeOf, PinsHold,
       Serving, diskVars, restorationVars
<1>4. ProcessKnows'
  BY DEF At, BackupFails, HasInstructions, IInv, ProcessKnows, Serving, diskVars,
       restorationVars
<1>5. QED BY <1>1, <1>2, <1>3, <1>4 DEF IInv

\* A download is deleted.
LEMMA DeleteDownloadKeeps ==
    ASSUME IInv, NEW b \in downloads, DeleteDownload(b)
    PROVE  IInv'
<1>1. TypeOK'
  BY DEF Answer, Archive, Balancers, Captain, Data, DeleteDownload, IInv, InstallerSteps,
       Instructions, Node, Process, RestorationTypeOK, Restoring, Salt, Steps, Swarm,
       TypeOK, diskVars, restorationVars
<1>2. InstallerKnows'
  BY DEF DeleteDownload, Foreign, HasInstructions, IInv, InstallerKnows, InstallerSteps,
       Joined, NodeOf, PinsHold, ToJoin, diskVars, restorationVars
<1>3. DataKnows'
  BY DEF DataKnows, DeleteDownload, HasInstructions, IInv, Joined, NodeOf, PinsHold,
       diskVars, restorationVars
<1>4. ProcessKnows'
  BY DEF DeleteDownload, HasInstructions, IInv, ProcessKnows, diskVars, restorationVars
<1>5. QED BY <1>1, <1>2, <1>3, <1>4 DEF IInv

\* The process goes on, or ends.
LEMMA PerformHealthCheckKeeps ==
    ASSUME IInv, NEW passed \in BOOLEAN, PerformHealthCheck(passed)
    PROVE  IInv'
<1>1. TypeOK'
  BY NoneAssumption, MachinesAssumption, HealthAssumption DEF Answer, Archive, At,
       Balancers, Captain, Data, IInv, InstallerSteps, Instructions, Node,
       PerformHealthCheck, Process, RestorationTypeOK, Restoring, Salt, Serving, Steps,
       Swarm, TypeOK, diskVars, restorationVars
<1>2. InstallerKnows'
  BY DEF At, Foreign, HasInstructions, IInv, InstallerKnows, InstallerSteps, Joined,
       NodeOf, PerformHealthCheck, PinsHold, Serving, ToJoin, diskVars, restorationVars
<1>3. DataKnows'
  BY DEF At, DataKnows, HasInstructions, IInv, Joined, NodeOf, PerformHealthCheck,
       PinsHold, Serving, diskVars, restorationVars
<1>4. ProcessKnows'
  BY DEF At, HasInstructions, IInv, PerformHealthCheck, ProcessKnows, Serving, diskVars,
       restorationVars
<1>5. QED BY <1>1, <1>2, <1>3, <1>4 DEF IInv

\* The process waits.
LEMMA ResetSelfKeeps ==
    ASSUME IInv, ResetSelf
    PROVE  IInv'
<1>1. TypeOK'
  <2>1. process \in Process
    BY DEF ResetSelf, IsInitialized, Serving, At, IInv, TypeOK
  <2>2. process' \in Process
    BY <2>1 DEF ResetSelf, Process
  <2>3. QED BY <2>2 DEF ResetSelf, IInv, TypeOK, RestorationTypeOK, restorationVars, diskVars
<1>2. InstallerKnows'
  BY DEF At, Foreign, HasInstructions, IInv, InstallerKnows, InstallerSteps, IsInitialized,
       Joined, NodeOf, PinsHold, ResetSelf, Serving, ToJoin, diskVars, restorationVars
<1>3. DataKnows'
  BY DEF At, DataKnows, HasInstructions, IInv, IsInitialized, Joined, NodeOf, PinsHold,
       ResetSelf, Serving, diskVars, restorationVars
<1>4. ProcessKnows'
  BY DEF At, HasInstructions, IInv, IsInitialized, ProcessKnows, ResetSelf, Serving,
       diskVars, restorationVars
<1>5. QED BY <1>1, <1>2, <1>3, <1>4 DEF IInv

\* Docker is asked to replace the process.
LEMMA UpdateCaptainKeeps ==
    ASSUME IInv, UpdateCaptain
    PROVE  IInv'
<1>1. TypeOK'
  BY DEF Answer, Archive, At, Balancers, Captain, Data, IInv, InstallerSteps, Instructions,
       IsInitialized, Node, Process, RestorationTypeOK, Restoring, Salt, Serving, Steps,
       Swarm, TypeOK, UpdateCaptain, diskVars, restorationVars
<1>2. InstallerKnows'
  BY DEF At, Foreign, HasInstructions, IInv, InstallerKnows, InstallerSteps, IsInitialized,
       Joined, NodeOf, PinsHold, Serving, ToJoin, UpdateCaptain, diskVars, restorationVars
<1>3. DataKnows'
  BY DEF At, DataKnows, HasInstructions, IInv, IsInitialized, Joined, NodeOf, PinsHold,
       Serving, UpdateCaptain, diskVars, restorationVars
<1>4. ProcessKnows'
  BY DEF At, HasInstructions, IInv, IsInitialized, ProcessKnows, Serving, UpdateCaptain,
       diskVars, restorationVars
<1>5. QED BY <1>1, <1>2, <1>3, <1>4 DEF IInv

\* The process is gone.
LEMMA DockerReplacesKeeps ==
    ASSUME IInv, DockerReplaces
    PROVE  IInv'
<1>1. TypeOK'
  BY DEF Answer, Archive, Balancers, Captain, Data, DockerReplaces, IInv, InstallerSteps,
       Instructions, Node, Process, RestorationTypeOK, Restoring, Salt, Steps, Swarm,
       TypeOK, diskVars, restorationVars
<1>2. InstallerKnows'
  BY DEF DockerReplaces, Foreign, HasInstructions, IInv, InstallerKnows, InstallerSteps,
       Joined, NodeOf, PinsHold, ToJoin, diskVars, restorationVars
<1>3. DataKnows'
  BY DEF DataKnows, DockerReplaces, HasInstructions, IInv, Joined, NodeOf, PinsHold,
       diskVars, restorationVars
<1>4. ProcessKnows'
  BY DEF DockerReplaces, HasInstructions, IInv, ProcessKnows, diskVars, restorationVars
<1>5. QED BY <1>1, <1>2, <1>3, <1>4 DEF IInv

\* The process is gone.
LEMMA ProcessEndsKeeps ==
    ASSUME IInv, ProcessEnds
    PROVE  IInv'
<1>1. TypeOK'
  BY NoneAssumption, MachinesAssumption, HealthAssumption DEF Answer, Archive, At,
       Balancers, CannotGoOn, Captain, Data, HasInstructions, IInv, InstallerSteps,
       Instructions, Node, Process, ProcessEnds, RestorationTypeOK, Restoring, Salt, Steps,
       Swarm, TypeOK, diskVars
<1>2. InstallerKnows'
  BY DEF At, CannotGoOn, Foreign, HasInstructions, IInv, InstallerKnows, InstallerSteps,
       Joined, NodeOf, PinsHold, ProcessEnds, ToJoin, diskVars
<1>3. DataKnows'
  BY DEF At, CannotGoOn, DataKnows, HasInstructions, IInv, Joined, NodeOf, PinsHold,
       ProcessEnds, diskVars
<1>4. ProcessKnows'
  BY DEF At, CannotGoOn, HasInstructions, IInv, ProcessEnds, ProcessKnows, diskVars
<1>5. QED BY <1>1, <1>2, <1>3, <1>4 DEF IInv

\* The machines leave before there is a captain.
LEMMA LeaveKeeps ==
    ASSUME IInv, Leave
    PROVE  IInv'
<1>1. TypeOK'
  BY DEF Answer, Archive, Balancers, Captain, Data, DataKnows, Foreign, HasInstructions,
       IInv, InstallerKnows, InstallerSteps, Instructions, Joined, Leave, LeaveSwarm, Node,
       NodeOf, PinsHold, Process, RestorationTypeOK, Restoring, Salt, Steps, Swarm, ToJoin,
       TypeOK, diskVars
<1>2. InstallerKnows'
  BY DEF Balancers, Foreign, HasInstructions, IInv, InstallerKnows, InstallerSteps, Joined,
       Leave, LeaveSwarm, NodeOf, PinsHold, ToJoin, diskVars
<1>3. DataKnows'
  BY DEF Balancers, DataKnows, HasInstructions, IInv, Joined, Leave, LeaveSwarm, NodeOf,
       PinsHold, diskVars
<1>4. ProcessKnows'
  BY DEF Balancers, DataKnows, HasInstructions, IInv, Joined, Leave, LeaveSwarm, NodeOf,
       PinsHold, ProcessKnows, diskVars
<1>5. QED BY <1>1, <1>2, <1>3, <1>4 DEF IInv

\* The initial states.
LEMMA Starts == Init => IInv
<1> SUFFICES ASSUME Init PROVE IInv
  OBVIOUS
<1>1. Brought \subseteq Archive
  <2> DEFINE B(M, flat, salt, built, pins) ==
            [salt |-> 0, nodes |-> {<<0, m>> : m \in M}, flat |-> flat,
             data |-> [salt |-> salt, apps |-> Apps, built |-> built, pins |-> pins,
                       own |-> FALSE, brought |-> Apps]]
  <2>1. ASSUME NEW M \in SUBSET Machines, NEW flat \in BOOLEAN, NEW salt \in {0, None},
               NEW built \in {Apps, {}},
               NEW pins \in [Apps -> {None} \cup {<<0, m>> : m \in M}]
        PROVE  B(M, flat, salt, built, pins) \in Archive
    <3>1. 0 \in Salt /\ {<<0, m>> : m \in M} \in SUBSET Node
      BY MachinesAssumption DEF Salt, Node
    <3>2. pins \in [Apps -> Node \cup {None}]
      BY <3>1
    <3>3. QED BY <3>1, <3>2 DEF Archive, Data
  <2>2. {Main} \in SUBSET Machines /\ Machines \in SUBSET Machines
    BY MachinesAssumption
  <2>3. ASSUME NEW b \in Brought PROVE b \in Archive
    <3>1. PICK M \in {{Main}, Machines} :
             \E flat \in BOOLEAN, salt \in {0, None}, built \in {Apps, {}},
                pins \in [Apps -> {None} \cup {<<0, m>> : m \in M}] :
                   b = B(M, flat, salt, built, pins)
      BY DEF Brought
    <3>2. QED BY <2>1, <2>2, <3>1
  <2>4. QED BY <2>3
<1>2. \A b \in Brought : Foreign(b)
  BY DEF Brought, Foreign
<1>3. TypeOK
  <2>1. swarm \in Swarm
    BY MachinesAssumption DEF Init, RestorationInit, Swarm, Salt
  <2>2. balancers \in [Balancers -> Machines \cup {None}]
    BY DEF Init
  <2>4. 0 \in 0 .. MaxFailures
    BY MachinesAssumption
  <2>3. QED BY <1>1, <2>1, <2>2, <2>4 DEF Init, RestorationInit, TypeOK, RestorationTypeOK,
       InstallerSteps
<1>4. InstallerKnows
  BY <1>2 DEF Init, RestorationInit, InstallerKnows, InstallerSteps, HasInstructions
<1>5. DataKnows /\ ProcessKnows
  BY DEF Init, RestorationInit, DataKnows, ProcessKnows, HasInstructions
<1>6. QED BY <1>3, <1>4, <1>5 DEF IInv

\* Every step keeps the invariant.
LEMMA StepKeeps == IInv /\ [Next]_vars => IInv'
<1> SUFFICES ASSUME IInv, [Next]_vars
             PROVE  IInv'
  OBVIOUS
<1>1. CASE InstallerStep /\ UNCHANGED planeVars
  BY <1>1, ExtractBackupContentKeeps, ExposeBackupContentKeeps, RemoveTarKeeps,
       CreateRestorationInstructionFileKeeps, CheckAndPrepareRestorationKeeps,
       InitSwarmKeeps, EnsureSwarmExistsKeeps, JoinDockerNodeKeeps, AllJoinedKeeps,
       NodesRemapped, RestoreSecretKeeps, MoveDataKeeps, CreateCaptainServiceKeeps DEF
       InstallerStep
<1>2. CASE (InstallationFails \/ Install) /\ UNCHANGED planeVars
  BY <1>2, InstallationFailsKeeps, InstallKeeps
<1>3. CASE (\E n \in Node, answer \in Answer : EditInstructions(n, answer)) /\ UNCHANGED planeVars
  BY <1>3, EditInstructionsKeeps
<1>4. CASE ProcessStep
  BY <1>4, PrepareDirectoriesKeeps, EnsureOverlayNetworkKeeps,
       EnsureServiceConnectedToNetworkKeeps, EnsureCaptainSaltKeeps,
       EnsureSecretOnServiceKeeps, ReadSaltKeeps, NginxPlaced, CertbotPlaced,
       SkipPhase2Keeps, BeginPhase2Keeps, EnsureAppInitedKeeps, EndPhase2Keeps,
       BecomesReadyKeeps DEF ProcessStep
<1>5. CASE Request
  <2>1. \A m \in swarm.joined : NodeOf(m) \in Joined
    BY DEF Joined
  <2>2. CASE AppsStep
    BY <2>2, AppsStepKeeps
  <2>3. CASE ~AppsStep
    BY <1>5, <2>1, <2>3, HealthAssumption, JoinNodeKeeps, StartBackupKeeps,
       DeleteDownloadKeeps, ResetSelfKeeps, UpdateCaptainKeeps DEF Request, AppsStep
  <2>4. QED BY <2>2, <2>3
<1>5a. CASE \E a \in Apps : BuildEnds(a) \/ ServiceUpdateEnds(a)
  BY <1>5a, AppsStepKeeps DEF AppsStep
<1>6. CASE FinishBackup \/ BackupFails \/ DockerReplaces \/ ProcessEnds \/ StartProcess \/ Leave
  BY <1>6, FinishBackupKeeps, BackupFailsKeeps, DockerReplacesKeeps, ProcessEndsKeeps,
       ProcessStarts, LeaveKeeps
<1>7. CASE \E passed \in BOOLEAN : PerformHealthCheck(passed)
  BY <1>7, PerformHealthCheckKeeps
<1>8. CASE UNCHANGED vars
  BY <1>8 DEF Answer, Archive, Balancers, Captain, Data, DataKnows, Foreign,
       HasInstructions, IInv, InstallerKnows, InstallerSteps, Instructions, Joined, Node,
            NodeOf, PinsHold, Process, ProcessKnows, RestorationTypeOK, Restoring, Salt,
       Steps,
       Swarm, ToJoin, TypeOK, diskVars, planeVars, restorationVars, vars
<1>9. QED
  BY <1>1, <1>2, <1>3, <1>4, <1>5, <1>5a, <1>6, <1>7, <1>8 DEF Next

-----------------------------------------------------------------------------

\* Every variable keeps its type, for any machines, apps, swarms and failures.
THEOREM PlaneTyped == Spec => []TypeOK
<1>1. IInv => TypeOK
  BY DEF IInv
<1>2. QED BY <1>1, Starts, StepKeeps, PTL DEF Spec

\* A captain that serves has the salt that its data is encrypted with, whichever
\* of the installer and the processes made the secret.
THEOREM PlaneServesWithSalt == Spec => []ServesWithTheSaltOfItsData
<1>1. IInv => ServesWithTheSaltOfItsData
  <2> SUFFICES ASSUME IInv, Serving PROVE data.salt \in {process.salt, None}
    BY DEF ServesWithTheSaltOfItsData
  <2>1. process # None /\ data # None /\ ~HasInstructions /\ process.salt = swarm.salt
    BY DEF Serving, At, IInv, ProcessKnows
  <2>2. QED BY <2>1 DEF IInv, DataKnows
<1>2. QED BY <1>1, Starts, StepKeeps, PTL DEF Spec

\* A captain that serves has nginx, certbot and the services of the apps that
\* came with a backup, and binds apps to nodes of the swarm only, whatever was
\* interrupted before.
THEOREM PlaneServesWithServices == Spec => []ServesWithItsServices
<1>1. IInv => ServesWithItsServices
  <2> SUFFICES ASSUME IInv, Serving
               PROVE  /\ \A b \in Balancers : balancers[b] = Main
                      /\ data.brought \subseteq running
                      /\ PinsHold(data)
    BY DEF ServesWithItsServices, PinsHold, Joined
  <2>1. /\ process # None /\ data # None /\ ~HasInstructions
        /\ balancers["nginx"] = Main /\ balancers["certbot"] = Main
    BY DEF Serving, At, IInv, ProcessKnows
  <2>2. captain # None
    BY <2>1 DEF IInv, DataKnows
  <2>3. QED BY <2>1, <2>2 DEF IInv, DataKnows, Balancers
<1>2. QED BY <1>1, Starts, StepKeeps, PTL DEF Spec

\* Only four steps move the backup, and each has it in its next place before it
\* leaves the last.
LEMMA BackupStays == IInv /\ [Next]_vars => (HasBackup => HasBackup')
<1> SUFFICES ASSUME IInv, HasBackup, [Next]_vars
             PROVE  HasBackup'
  OBVIOUS
<1>1. CASE UNCHANGED <<tar, restoring, data>>
  BY <1>1 DEF HasBackup
<1>2. CASE ExtractBackupContent \/ ExposeBackupContent
  BY <1>2 DEF ExtractBackupContent, ExposeBackupContent, HasBackup, IInv, InstallerKnows
<1>3. CASE RemoveTar
  BY <1>3 DEF RemoveTar, HasBackup, IInv, InstallerKnows
<1>4. CASE CreateRestorationInstructionFile
  <2>1. restoring # None /\ restoring.data # None /\ restoring \in Restoring
    BY <1>4 DEF CreateRestorationInstructionFile, IInv, TypeOK, RestorationTypeOK,
         InstallerKnows
  <2>2. restoring'.data = restoring.data
    BY <1>4, <2>1 DEF CreateRestorationInstructionFile, Restoring
  <2>3. restoring' # None
    BY <1>4, <2>1, NoneAssumption DEF CreateRestorationInstructionFile, Restoring,
         Instructions, Answer
  <2>4. QED BY <2>1, <2>2, <2>3 DEF HasBackup
<1>5. CASE \E n \in Node, answer \in Answer : EditInstructions(n, answer)
  <2>1. restoring # None /\ restoring \in Restoring /\ tar' = tar /\ data' = data
    BY <1>5 DEF EditInstructions, HasInstructions, IInv, TypeOK, RestorationTypeOK
  <2>2. PICK n \in Node, answer \in Answer : EditInstructions(n, answer)
    BY <1>5
  <2>3. restoring' = [restoring EXCEPT !.map = [restoring.map EXCEPT ![n] = answer]]
    BY <2>2 DEF EditInstructions
  <2>4. restoring'.data = restoring.data /\ restoring' # None
    BY <2>1, <2>2, <2>3, NoneAssumption DEF EditInstructions, HasInstructions, Restoring,
         Instructions
  <2>5. QED BY <2>1, <2>4 DEF HasBackup
<1>6. CASE RemapNodes
  <2>1. restoring' # None
    BY <1>6, RemapFields, NoneAssumption
  <2>2. QED BY <1>6, <2>1, RemapFields DEF HasBackup
<1>7. CASE MoveData
  BY <1>7 DEF MoveData, HasBackup, HasInstructions, IInv, InstallerKnows, Foreign
<1>8. CASE EndPhase2
  <2>1. HasInstructions /\ captain # None
    BY <1>8 DEF EndPhase2, At, IInv, ProcessKnows, DataKnows
  <2>2. QED BY <1>8, <2>1 DEF EndPhase2, HasBackup, IInv, DataKnows
<1>9. CASE StartProcess
  BY <1>9, NoneAssumption DEF StartProcess, HasBackup, EmptyData, IInv, TypeOK,
       RestorationTypeOK
<1>10. CASE Request
  <2>1. CASE AppsStep
    BY <2>1, AppsStepKeeps
  <2>2. CASE ~AppsStep
    <3>1. \A m \in swarm.joined : NodeOf(m) \in Joined
      BY DEF Joined
    <3>2. UNCHANGED <<tar, restoring, data>>
      BY <1>10, <2>2, <3>1, HealthAssumption DEF Request, AppsStep, JoinNode, StartBackup,
           DeleteDownload, ResetSelf, UpdateCaptain, restorationVars, diskVars
    <3>3. QED BY <1>1, <3>2
  <2>3. QED BY <2>1, <2>2
<1>10a. CASE \E a \in Apps : BuildEnds(a) \/ ServiceUpdateEnds(a)
  BY <1>10a, AppsStepKeeps DEF AppsStep
<1>11. CASE InstallerStep
  <2>1. CASE ExtractBackupContent \/ ExposeBackupContent \/ RemoveTar
             \/ CreateRestorationInstructionFile \/ RemapNodes \/ MoveData
    BY <2>1, <1>2, <1>3, <1>4, <1>6, <1>7
  <2>2. CASE CheckAndPrepareRestoration \/ InitSwarm \/ EnsureSwarmExists
             \/ (\E n \in Node : JoinDockerNode(n)) \/ AllJoined \/ RestoreSecret
             \/ CreateCaptainService
    <3>1. UNCHANGED <<tar, restoring, data>>
      BY <2>2 DEF CheckAndPrepareRestoration, InitSwarm, EnsureSwarmExists, JoinDockerNode,
           AllJoined, RestoreSecret, CreateCaptainService, diskVars
    <3>2. QED BY <3>1, <1>1
  <2>3. QED BY <1>11, <2>1, <2>2 DEF InstallerStep
<1>12. CASE ProcessStep
  <2>1. CASE EndPhase2
    BY <2>1, <1>8
  <2>2. CASE ~EndPhase2
    <3>1. UNCHANGED <<tar, restoring, data>>
      BY <1>12, <2>2 DEF ProcessStep, PrepareDirectories, EnsureOverlayNetwork,
           EnsureServiceConnectedToNetwork, EnsureCaptainSalt, EnsureSecretOnService,
           ReadSalt, EnsureOnMyNode, SkipPhase2, BeginPhase2, EnsureAppInited,
           BecomesReady, restorationVars, diskVars
    <3>2. QED BY <3>1, <1>1
  <2>3. QED BY <2>1, <2>2
<1>13. CASE \/ InstallationFails \/ Install \/ Leave \/ FinishBackup \/ BackupFails
            \/ DockerReplaces \/ ProcessEnds \/ UNCHANGED vars
            \/ \E passed \in BOOLEAN : PerformHealthCheck(passed)
  <2>1. UNCHANGED <<tar, restoring, data>>
    BY <1>13 DEF InstallationFails, Install, Leave, LeaveSwarm, FinishBackup, BackupFails,
         DockerReplaces, ProcessEnds, PerformHealthCheck, vars, restorationVars, diskVars
  <2>2. QED BY <2>1, <1>1
<1>14. QED
  BY <1>5, <1>9, <1>10, <1>10a, <1>11, <1>12, <1>13 DEF Next

\* An attempt that is stopped anywhere loses nothing of the backup.
THEOREM BackupKept == Spec => BackupIsKept
<1>1. IInv /\ [Next]_vars => [HasBackup => HasBackup']_vars
  BY BackupStays
<1>2. QED BY <1>1, Starts, StepKeeps, PTL DEF Spec, BackupIsKept

-----------------------------------------------------------------------------
(***************************************************************************)
(* The disk cleanup: the invariants of ServiceImages for any number of     *)
(* runs, cleanups, images, versions and any length of the history.  The    *)
(* argument rests on what a definition records: which version has which    *)
(* image.  A recorded version keeps its image, and no build under way has  *)
(* its number.                                                             *)
(***************************************************************************)


\* Version v of definition d has image x.
Records(d, v, x) ==
    x # NoImage /\ \E n \in DOMAIN d.versions :
        d.versions[n].version = v /\ d.versions[n].image = x

\* A number that createNewVersion will not give again.
Reached(d, v) ==
    \E n \in DOMAIN d.versions : v <= d.versions[n].version

IsMaking(r) == run[r].at \in Making

\* What is recorded was built for its version; the deployed number is used up
\* once anything is recorded.
RecordsMatch ==
    /\ \A v \in Nat, x \in Image : Records(def, v, x) => x \in {v, OtherImage}
    /\ \A v \in Nat, x \in Image :
           Records(def, v, x) => Reached(def, def.deployedVersion)

\* The builds under way have numbers of their own without an image.
BuildsAreUnrecorded ==
    \A r \in Runs : IsMaking(r) =>
        /\ Reached(def, run[r].version)
        /\ \A x \in Image : ~Records(def, run[r].version, x)
        /\ run[r].version = def.deployedVersion =>
               \A v \in Nat, x \in Image : ~Records(def, v, x)
        /\ \A q \in Runs \ {r} : IsMaking(q) => run[q].version # run[r].version

\* An image a cleanup may remove was not in use when it read the definition,
\* and has a tag that no build will be given.
CleanerSpares(c) ==
    cleaner[c].at = "deleting" =>
        /\ Reached(def, cleaner[c].seen)
        /\ \A r \in Runs : IsMaking(r) => run[r].version # cleaner[c].seen
        /\ \A i \in cleaner[c].wanted :
            /\ \A x \in Image :
                   Records(def, cleaner[c].seen, x) => x \notin cleaner[c].listed[i]
            /\ \E v \in cleaner[c].listed[i] :
                   /\ Reached(def, v)
                   /\ \A r \in Runs : IsMaking(r) => run[r].version # v

CleanersSpare == \A c \in Cleaners : CleanerSpares(c)

\* Without a race every run carries the image of the deployed version, and the
\* service has it as soon as one of them has come through.
UpdatesCarryTheDeployed ==
    \A x \in Image : Records(def, def.deployedVersion, x) /\ ~raced =>
        /\ \A r \in Runs : run[r].at \in Carrying => run[r].image = x
        /\ ~owed => service = x

ImagesInv ==
    /\ ImagesTypeOK
    /\ Increasing(def)
    /\ RecordsMatch
    /\ BuildsAreUnrecorded
    /\ CleanersSpare
    /\ UpdatesCarryTheDeployed

-----------------------------------------------------------------------------
(* What the operators of AppVersions do to what is recorded.               *)

\* The numbers of a definition are naturals, its images images.
LEMMA VersionsTyped ==
    ASSUME NEW d \in Definition(Image)
    PROVE  /\ d.versions \in Seq(Version(Image))
           /\ Len(d.versions) \in Nat
           /\ DOMAIN d.versions = 1..Len(d.versions)
           /\ d.deployedVersion \in Nat
           /\ d.paused \in BOOLEAN
           /\ \A n \in DOMAIN d.versions : /\ d.versions[n].version \in Nat
                                           /\ d.versions[n].image \in Image \cup {NoImage}
<1>1. /\ d.versions \in Seq(Version(Image)) /\ d.deployedVersion \in Nat
      /\ d.paused \in BOOLEAN
  BY DEF Definition
<1>2. Len(d.versions) \in Nat /\ DOMAIN d.versions = 1..Len(d.versions)
  BY <1>1
<1>3. \A n \in DOMAIN d.versions : d.versions[n] \in Version(Image)
  BY <1>1, <1>2
<1>4. QED BY <1>1, <1>2, <1>3 DEF Version

\* A number is at one place of the list, which is its smallest and largest.
LEMMA OneIndex ==
    ASSUME NEW d \in Definition(Image), Increasing(d),
           NEW v \in Nat, NEW n \in IndexesOf(d, v)
    PROVE  /\ IndexesOf(d, v) = {n}
           /\ Min(IndexesOf(d, v)) = n
           /\ Max(IndexesOf(d, v)) = n
<1>1. n \in DOMAIN d.versions /\ d.versions[n].version = v
  BY DEF IndexesOf
<1>2. ASSUME NEW m \in IndexesOf(d, v) PROVE m = n
  <2>1. m \in DOMAIN d.versions /\ d.versions[m].version = v
    BY DEF IndexesOf
  <2>2. ~(m < n) /\ ~(n < m)
    BY <1>1, <2>1, VersionsTyped DEF Increasing
  <2>3. m \in Nat /\ n \in Nat
    BY <1>1, <2>1, VersionsTyped
  <2>4. QED BY <2>2, <2>3
<1>3. IndexesOf(d, v) = {n}
  BY <1>2
<1>4. n \in Nat
  BY <1>1, VersionsTyped
<1>5. Min({n}) = n /\ Max({n}) = n
  BY <1>4 DEF Min, Max
<1>6. QED BY <1>3, <1>5

\* The deployed image, and the image of a number, are what is recorded.
LEMMA ImageIsRecorded ==
    ASSUME NEW d \in Definition(Image), Increasing(d), NEW v \in Nat
    PROVE  /\ ImageOf(d, v) \in Image \cup {NoImage}
           /\ \A x \in Image : Records(d, v, x) <=> ImageOf(d, v) = x
           /\ DeployedImage(d) = ImageOf(d, d.deployedVersion)
<1>0. \A x \in Image : x # NoImage
  BY ImagesAssumption DEF Image, Tag
<1>1. DeployedImage(d) = ImageOf(d, d.deployedVersion)
  <2>1. CASE IndexesOf(d, d.deployedVersion) = {}
    BY <2>1 DEF DeployedImage, ImageOf, HasVersion
  <2>2. ASSUME NEW n \in IndexesOf(d, d.deployedVersion)
        PROVE  DeployedImage(d) = ImageOf(d, d.deployedVersion)
    <3>1. d.deployedVersion \in Nat BY VersionsTyped
    <3>2. QED BY <3>1, OneIndex DEF DeployedImage, ImageOf, HasVersion
  <2>3. QED BY <2>1, <2>2
<1>2. CASE IndexesOf(d, v) = {}
  <2>1. ImageOf(d, v) = NoImage
    BY <1>2 DEF ImageOf, HasVersion
  <2>2. \A x \in Image : ~Records(d, v, x)
    BY <1>2 DEF Records, IndexesOf
  <2>3. QED BY <1>0, <1>1, <2>1, <2>2
<1>3. ASSUME NEW n \in IndexesOf(d, v)
      PROVE  /\ ImageOf(d, v) \in Image \cup {NoImage}
             /\ \A x \in Image : Records(d, v, x) <=> ImageOf(d, v) = x
  <2>1. ImageOf(d, v) = d.versions[n].image
    BY OneIndex DEF ImageOf, HasVersion
  <2>2. n \in DOMAIN d.versions /\ d.versions[n].version = v
    BY DEF IndexesOf
  <2>3. ImageOf(d, v) \in Image \cup {NoImage}
    BY <2>1, <2>2, VersionsTyped
  <2>4. \A m \in DOMAIN d.versions : d.versions[m].version = v => m = n
    <3>1. IndexesOf(d, v) = {n} BY OneIndex
    <3>2. QED BY <3>1 DEF IndexesOf
  <2>5. ASSUME NEW x \in Image
        PROVE  Records(d, v, x) <=> ImageOf(d, v) = x
    BY <1>0, <2>1, <2>2, <2>4 DEF Records
  <2>6. QED BY <2>3, <2>5
<1>4. QED BY <1>1, <1>2, <1>3

\* A new version records nothing, drops what is oldest, and its number is above
\* all that were reached.
LEMMA CreateRecords ==
    ASSUME NEW d \in Definition(Image), Increasing(d)
    PROVE  LET new == CreateNewVersion(d)
               v == NewVersionIndex(d)
           IN  /\ new \in Definition(Image)
               /\ Increasing(new)
               /\ new.deployedVersion = d.deployedVersion
               /\ v \in Nat
               /\ Reached(new, v)
               /\ \A w \in Nat : Reached(d, w) => w < v /\ Reached(new, w)
               /\ \A w \in Nat, x \in Image : Records(new, w, x) => Records(d, w, x)
               /\ \A x \in Image : ~Records(new, v, x)
<1> DEFINE new == CreateNewVersion(d)
           v == NewVersionIndex(d)
           r == Kept(d)
           s == d.versions
           e == [version |-> v, image |-> NoImage]
<1>1. /\ new \in Definition(Image)
      /\ Increasing(new)
      /\ new.deployedVersion = d.deployedVersion
  BY CreateNewVersionCorrect
<1>2. /\ v \in Nat
      /\ \A n \in DOMAIN s : s[n].version < v /\ s[n].version \in Nat
  BY NewVersionIndexAbove, VersionsTyped
<1>3. /\ r \in Seq(Version(Image)) /\ Len(r) \in Nat
      /\ \A n \in 1..Len(r) : \E m \in DOMAIN s : r[n] = s[m]
  <2>1. s \in Seq(Version(Image)) /\ Len(s) \in Nat /\ DOMAIN s = 1..Len(s)
    BY VersionsTyped
  <2>2. MaxVersionHistory - 1 \in Nat
    BY HistoryAssumption
  <2> DEFINE k == IF Len(s) <= MaxVersionHistory - 1 THEN 0
                  ELSE Len(s) - (MaxVersionHistory - 1)
  <2>3. /\ r \in Seq(Version(Image))
        /\ Len(r) = Len(s) - k
        /\ \A n \in 1..Len(r) : r[n] = s[n + k]
    BY <2>1, <2>2, DropFirstSuffix DEF Kept
  <2>4. k \in Nat /\ Len(r) \in Nat
    BY <2>1, <2>2, <2>3
  <2>5. \A n \in 1..Len(r) : n + k \in 1..Len(s)
    BY <2>1, <2>3, <2>4
  <2>6. QED BY <2>1, <2>3, <2>4, <2>5
<1>4. e \in Version(Image)
  BY <1>2 DEF Version
<1>5. new.versions = Append(r, e)
  BY DEF CreateNewVersion, Definition
<1>6. /\ DOMAIN new.versions = 1..(Len(r) + 1)
      /\ \A n \in 1..Len(r) : new.versions[n] = r[n]
      /\ new.versions[Len(r) + 1] = e
  BY <1>3, <1>4, <1>5
<1>7. Reached(new, v)
  <2>1. Len(r) + 1 \in DOMAIN new.versions /\ v <= new.versions[Len(r) + 1].version
    BY <1>2, <1>3, <1>6
  <2>2. QED BY <2>1 DEF Reached
<1>8. ASSUME NEW w \in Nat, Reached(d, w)
      PROVE  w < v /\ Reached(new, w)
  <2>1. w < v
    BY <1>2, <1>8 DEF Reached
  <2>2. Len(r) + 1 \in DOMAIN new.versions /\ w <= new.versions[Len(r) + 1].version
    BY <1>2, <1>3, <1>6, <2>1
  <2>3. QED BY <2>1, <2>2 DEF Reached
<1>9. ASSUME NEW w \in Nat, NEW x \in Image, Records(new, w, x)
      PROVE  Records(d, w, x)
  <2>1. PICK n \in DOMAIN new.versions :
            new.versions[n].version = w /\ new.versions[n].image = x
    BY <1>9 DEF Records
  <2>2. x # NoImage
    BY <1>9 DEF Records
  <2>3. n \in 1..Len(r)
    BY <1>3, <1>6, <2>1, <2>2
  <2>4. PICK m \in DOMAIN s : r[n] = s[m]
    BY <1>3, <2>3
  <2>5. s[m].version = w /\ s[m].image = x
    BY <1>6, <2>1, <2>3, <2>4
  <2>6. QED BY <2>2, <2>4, <2>5 DEF Records
<1>10. ASSUME NEW x \in Image
       PROVE  ~Records(new, v, x)
  <2>1. ~Records(d, v, x)
    BY <1>2 DEF Records
  <2>2. QED BY <1>2, <1>9, <2>1
<1>11. QED BY <1>1, <1>2, <1>7, <1>8, <1>9, <1>10

\* The record of version v changes the image of v and of no other.
LEMMA SetRecords ==
    ASSUME NEW d \in Definition(Image), Increasing(d),
           NEW v \in Nat, HasVersion(d, v), NEW img \in Image
    PROVE  LET new == SetDeployedVersionAndImage(d, v, img)
           IN  /\ new \in Definition(Image)
               /\ Increasing(new)
               /\ new.deployedVersion = v
               /\ Reached(new, v)
               /\ \A w \in Nat : Reached(d, w) => Reached(new, w)
               /\ \A w \in Nat, x \in Image :
                      Records(new, w, x) =>
                          IF w = v THEN x = img ELSE Records(d, w, x)
<1> DEFINE new == SetDeployedVersionAndImage(d, v, img)
           s == d.versions
<1>1. /\ new \in Definition(Image)
      /\ Increasing(new)
  BY SetDeployedCorrect
<1>2. PICK k \in IndexesOf(d, v) : Min(IndexesOf(d, v)) = k /\ IndexesOf(d, v) = {k}
  BY OneIndex DEF HasVersion
<1>3. k \in DOMAIN s /\ s[k].version = v
      /\ \A n \in DOMAIN s : s[n].version = v => n = k
  BY <1>2 DEF IndexesOf
<1>4. /\ new.versions = [s EXCEPT ![k].image = img]
      /\ new.deployedVersion = v
  BY <1>2 DEF SetDeployedVersionAndImage
<1>5. \A n \in DOMAIN s : s[n] \in Version(Image)
  BY VersionsTyped
<1>6. /\ DOMAIN new.versions = DOMAIN s
      /\ \A n \in DOMAIN s \ {k} : new.versions[n] = s[n]
      /\ new.versions[k].version = v /\ new.versions[k].image = img
  BY <1>3, <1>4, <1>5 DEF Version
<1>7. ASSUME NEW w \in Nat, Reached(d, w)
      PROVE  Reached(new, w)
  <2>1. PICK n \in DOMAIN s : w <= s[n].version
    BY <1>7 DEF Reached
  <2>2. w <= new.versions[n].version
    BY <1>3, <1>6, <2>1
  <2>3. QED BY <1>6, <2>2 DEF Reached
<1>8. Reached(new, v)
  BY <1>3, <1>6 DEF Reached
<1>9. ASSUME NEW w \in Nat, NEW x \in Image, Records(new, w, x)
      PROVE  IF w = v THEN x = img ELSE Records(d, w, x)
  <2>1. PICK n \in DOMAIN s :
            new.versions[n].version = w /\ new.versions[n].image = x
    BY <1>6, <1>9 DEF Records
  <2>2. CASE n = k
    BY <1>6, <2>1, <2>2
  <2>3. CASE n # k
    <3>1. s[n].version = w /\ s[n].image = x
      BY <1>6, <2>1, <2>3
    <3>2. w # v
      BY <1>3, <2>3, <3>1
    <3>3. QED BY <1>9, <3>1, <3>2 DEF Records
  <2>4. QED BY <2>2, <2>3
<1>10. QED BY <1>1, <1>4, <1>7, <1>8, <1>9

\* A rollback changes the deployed version alone.
LEMMA RollBackRecords ==
    ASSUME NEW d \in Definition(Image), Increasing(d), NEW v \in Nat
    PROVE  LET new == RollBack(d, v)
           IN  /\ new \in Definition(Image)
               /\ Increasing(new)
               /\ new.deployedVersion = v
               /\ \A w \in Nat : Reached(d, w) => Reached(new, w)
               /\ \A w \in Nat, x \in Image :
                      Records(new, w, x) => Records(d, w, x)
<1>1. /\ RollBack(d, v) \in Definition(Image)
      /\ RollBack(d, v).versions = d.versions
      /\ RollBack(d, v).deployedVersion = v
  BY DEF RollBack, Definition
<1>2. QED BY <1>1 DEF Increasing, Reached, Records

-----------------------------------------------------------------------------
(* Types.                                                                  *)

\* A run that moves has the type of a run.
LEMMA RunTyped ==
    ASSUME ImagesTypeOK, NEW r \in Runs, NEW state \in RunState,
           run' = [run EXCEPT ![r] = state]
    PROVE  /\ run' \in [Runs -> RunState]
           /\ run'[r] = state
           /\ \A q \in Runs \ {r} : run'[q] = run[q]
BY DEF ImagesTypeOK

\* The definition keeps its type and its order, in every step.
LEMMA DefinitionTyped ==
    ASSUME ImagesTypeOK, Increasing(def), [ImagesNext]_imageVars
    PROVE  def' \in Definition(Image) /\ Increasing(def)'
<1>0. def \in Definition(Image)
  BY DEF ImagesTypeOK
<1>1. CASE def' = def
  BY <1>0, <1>1 DEF Increasing
<1>2. ASSUME NEW r \in Runs, StartBuild(r)
      PROVE  def' \in Definition(Image) /\ Increasing(def)'
  <2>1. def' = CreateNewVersion(def)
    BY <1>2 DEF StartBuild
  <2>2. def' \in Definition(Image) /\ Increasing(def')
    BY <1>0, <2>1, CreateRecords
  <2>3. QED BY <2>2 DEF Increasing
<1>3. ASSUME NEW r \in Runs, NEW img \in {run[r].version, OtherImage},
             RecordImage(r, img)
      PROVE  def' \in Definition(Image) /\ Increasing(def)'
  <2>1. /\ def' = SetDeployedVersionAndImage(def, run[r].version, img)
        /\ HasVersion(def, run[r].version)
    BY <1>3 DEF RecordImage
  <2>2. run[r].version \in Nat /\ img \in Image
    BY DEF ImagesTypeOK, RunState, Image, Tag
  <2>3. def' \in Definition(Image) /\ Increasing(def')
    BY <1>0, <2>1, <2>2, SetRecords
  <2>4. QED BY <2>3 DEF Increasing
<1>4. ASSUME NEW r \in Runs, PutBack(r)
      PROVE  def' \in Definition(Image) /\ Increasing(def)'
  <2>1. def' = RollBack(def, def.deployedVersion - 1) /\ def.deployedVersion > 1
    BY <1>4 DEF PutBack
  <2>2. def.deployedVersion - 1 \in Nat
    BY <1>0, <2>1, VersionsTyped
  <2>3. def' \in Definition(Image) /\ Increasing(def')
    BY <1>0, <2>1, <2>2, RollBackRecords
  <2>4. QED BY <2>3 DEF Increasing
<1>5. ASSUME NEW r \in Runs, RunStep(r)
      PROVE  def' \in Definition(Image) /\ Increasing(def)'
  BY <1>1, <1>2, <1>3, <1>4, <1>5 DEF RunStep, MakeImage, BuildEndsBadly,
     UpdateApp, ReadDefinition, AskForService, CreateService, InspectService,
     UpdateService, UpdateEndsBadly, GiveUp
<1>6. ASSUME NEW c \in Cleaners, CleanerStep(c)
      PROVE  def' = def
  BY <1>6 DEF CleanerStep, CleanupCalled, ListImages, PickUnused, DeleteImages,
     ListAgain, AllowImages, RemoveImage
<1>7. CASE RestartProcess
  BY <1>1, <1>7 DEF RestartProcess
<1>8. CASE UNCHANGED imageVars
  BY <1>1, <1>8 DEF imageVars
<1>9. QED BY <1>1, <1>5, <1>6, <1>7, <1>8 DEF ImagesNext

\* A step of a run keeps the types.
LEMMA RunStepTyped ==
    ASSUME ImagesTypeOK, Increasing(def), NEW r \in Runs, RunStep(r)
    PROVE  ImagesTypeOK'
<1>0. def' \in Definition(Image)
  BY DefinitionTyped DEF ImagesNext
<1>t. /\ run \in [Runs -> RunState] /\ run[r] \in RunState
      /\ images \in [Ids -> SUBSET Tag] /\ inspected \subseteq Runs
      /\ cleaner \in [Cleaners -> CleanerState]
      /\ service \in Image \cup {NoService, Placeholder, NoImage}
      /\ owed \in BOOLEAN /\ raced \in BOOLEAN
      /\ def \in Definition(Image)
  BY DEF ImagesTypeOK
<1>1. \A place \in {"idle", "ready", "failed"} \cup Making \cup Carrying :
          /\ [at |-> place, version |-> 0, image |-> NoImage] \in RunState
          /\ [at |-> place, version |-> run[r].version, image |-> run[r].image]
                 \in RunState
  BY <1>t DEF RunState
<1>2. ASSUME NEW state \in RunState, run' = [run EXCEPT ![r] = state]
      PROVE  run' \in [Runs -> RunState]
  BY <1>2, RunTyped
<1>3. CASE StartBuild(r)
  <2>1. NewVersionIndex(def) \in Nat
    BY <1>t, CreateRecords
  <2>2. [at |-> "building", image |-> NoImage, version |-> NewVersionIndex(def)]
            \in RunState
    BY <2>1 DEF RunState, Making
  <2>3. QED BY <1>0, <1>t, <1>2, <1>3, <2>2 DEF StartBuild, ImagesTypeOK
<1>4. ASSUME NEW i \in Ids, MakeImage(r, i)
      PROVE  ImagesTypeOK'
  <2>1. run[r].version \in Tag
    BY <1>t DEF RunState, Tag
  <2>2. images' \in [Ids -> SUBSET Tag]
    BY <1>t, <1>4, <2>1 DEF MakeImage
  <2>3. run' \in [Runs -> RunState]
    BY <1>1, <1>2, <1>4 DEF MakeImage, MoveTo, Making
  <2>4. QED BY <1>0, <1>t, <1>4, <2>2, <2>3 DEF MakeImage, ImagesTypeOK
<1>5. ASSUME NEW img \in {run[r].version, OtherImage}, RecordImage(r, img)
      PROVE  ImagesTypeOK'
  BY <1>0, <1>t, <1>1, <1>2, <1>5 DEF RecordImage, Drop, Deployed, ImagesTypeOK
<1>6. CASE BuildEndsBadly(r) \/ UpdateApp(r) \/ GiveUp(r)
  BY <1>0, <1>t, <1>1, <1>2, <1>6 DEF BuildEndsBadly, UpdateApp, GiveUp, Drop, ImagesTypeOK
<1>7. CASE ReadDefinition(r)
  <2>1. ImageToRun(def) \in Image \cup {NoImage}
    BY <1>t, ImageIsRecorded, VersionsTyped DEF ImageToRun
  <2>2. [at |-> IF ImageToRun(def) = NoImage THEN "failed" ELSE "reading",
         version |-> 0, image |-> ImageToRun(def)] \in RunState
    BY <2>1 DEF RunState, Carrying
  <2>3. QED BY <1>0, <1>t, <1>2, <1>7, <2>2 DEF ReadDefinition, ImagesTypeOK
<1>8. CASE AskForService(r) \/ CreateService(r) \/ InspectService(r)
  BY <1>0, <1>t, <1>1, <1>2, <1>8
     DEF AskForService, CreateService, InspectService, MoveTo, Carrying, ImagesTypeOK
<1>9. CASE UpdateService(r)
  <2>1. run[r].image \in Image \cup {NoImage}
    BY <1>t DEF RunState
  <2>2. QED BY <1>0, <1>t, <1>1, <1>2, <1>9, <2>1 DEF UpdateService, Drop, ImagesTypeOK
<1>10. CASE UpdateEndsBadly(r)
  BY <1>0, <1>t, <1>1, <1>2, <1>10 DEF UpdateEndsBadly, Drop, ImagesTypeOK
<1>11. CASE PutBack(r)
  BY <1>0, <1>t, <1>1, <1>2, <1>11 DEF PutBack, Drop, Deployed, ImagesTypeOK
<1>12. QED
  BY <1>3, <1>4, <1>5, <1>6, <1>7, <1>8, <1>9, <1>10, <1>11 DEF RunStep

\* A step of a cleanup keeps the types.
LEMMA CleanerStepTyped ==
    ASSUME ImagesTypeOK, NEW c \in Cleaners, CleanerStep(c)
    PROVE  ImagesTypeOK'
<1>t. /\ images \in [Ids -> SUBSET Tag]
      /\ cleaner \in [Cleaners -> CleanerState] /\ cleaner[c] \in CleanerState
      /\ def.deployedVersion \in Nat
  BY VersionsTyped DEF ImagesTypeOK
<1>1. /\ NoTags \in [Ids -> SUBSET Tag]
      /\ cleaner[c].listed \in [Ids -> SUBSET Tag] /\ cleaner[c].wanted \subseteq Ids
      /\ cleaner[c].keep \in Limits \cup {0} /\ cleaner[c].seen \in Nat
  BY <1>t DEF CleanerState, NoTags
<1>2. \A place \in {"idle", "called", "listed", "asked", "relisted", "deleting"},
        keep \in Limits \cup {0}, listed \in [Ids -> SUBSET Tag],
        wanted \in SUBSET Ids, seen \in Nat :
          Cleaner(place, keep, listed, wanted, seen) \in CleanerState
  BY DEF Cleaner, CleanerState
<1>3. IdleCleaner \in CleanerState
  BY <1>1, <1>2 DEF IdleCleaner
<1>4. ASSUME NEW state \in CleanerState, Becomes(c, state)
      PROVE  cleaner' \in [Cleaners -> CleanerState]
  BY <1>t, <1>4 DEF Becomes
<1>5. ASSUME NEW d, NEW keep
      PROVE  Unused(cleaner[c].listed, d, keep) \subseteq Ids
  BY DEF Unused
<1>6. cleaner' \in [Cleaners -> CleanerState] /\ images' \in [Ids -> SUBSET Tag]
  <2>1. ASSUME NEW limit \in Limits, CleanupCalled(c, limit)
        PROVE  cleaner' \in [Cleaners -> CleanerState] /\ images' = images
    BY <1>1, <1>2, <1>4, <2>1 DEF CleanupCalled
  <2>2. ASSUME NEW ids \in (SUBSET Ids) \ {{}}, DeleteImages(c, ids)
        PROVE  cleaner' \in [Cleaners -> CleanerState] /\ images' = images
    BY <1>1, <1>2, <1>4, <2>2 DEF DeleteImages
  <2>3. CASE ListImages(c)
    BY <1>t, <1>1, <1>2, <1>4, <2>3 DEF ListImages
  <2>4. CASE PickUnused(c)
    <3> DEFINE unused == Unused(cleaner[c].listed, def, cleaner[c].keep)
    <3>1. (IF unused = {} THEN IdleCleaner ELSE Cleaner("asked", 0, NoTags, unused, 0))
              \in CleanerState
      BY <1>1, <1>2, <1>3, <1>5
    <3>2. QED BY <1>t, <1>4, <2>4, <3>1 DEF PickUnused
  <2>5. CASE ListAgain(c)
    BY <1>t, <1>1, <1>2, <1>4, <2>5 DEF ListAgain
  <2>6. CASE AllowImages(c)
    <3> DEFINE allowed == cleaner[c].wanted \cap Unused(cleaner[c].listed, def, 0)
               state == IF allowed = {} THEN IdleCleaner
                        ELSE Cleaner("deleting", 0, cleaner[c].listed, allowed,
                                     def.deployedVersion)
    <3>1. state \in CleanerState
      BY <1>t, <1>1, <1>2, <1>3
    <3>2. QED BY <1>t, <1>4, <2>6, <3>1 DEF AllowImages
  <2>7. ASSUME NEW i \in Ids, RemoveImage(c, i)
        PROVE  cleaner' \in [Cleaners -> CleanerState] /\ images' \in [Ids -> SUBSET Tag]
    <3> DEFINE left == cleaner[c].wanted \ {i}
               state == IF left = {} THEN IdleCleaner
                        ELSE Cleaner("deleting", 0, cleaner[c].listed, left,
                                     cleaner[c].seen)
    <3>1. state \in CleanerState
      BY <1>1, <1>2, <1>3
    <3>2. cleaner' \in [Cleaners -> CleanerState]
      BY <1>4, <2>7, <3>1 DEF RemoveImage
    <3>3. images' \in [Ids -> SUBSET Tag]
      BY <1>t, <2>7 DEF RemoveImage
    <3>4. QED BY <3>2, <3>3
  <2>8. QED BY <1>t, <2>1, <2>2, <2>3, <2>4, <2>5, <2>6, <2>7 DEF CleanerStep
<1>7. UNCHANGED <<def, service, inspected, run, owed, raced>>
  BY DEF CleanerStep, CleanupCalled, ListImages, PickUnused, DeleteImages,
     ListAgain, AllowImages, RemoveImage
<1>8. QED BY <1>6, <1>7 DEF ImagesTypeOK

-----------------------------------------------------------------------------
(* What a step has to do with the builds and the cleanups.                 *)

\* No build has begun or got another number.
NoNewBuild ==
    \A r \in Runs : run'[r].at \in Making =>
        run[r].at \in Making /\ run'[r].version = run[r].version

\* While the definition stays and no build begins, what it records goes on to
\* match.
LEMMA BuildsKept ==
    ASSUME RecordsMatch, BuildsAreUnrecorded, def' = def, NoNewBuild
    PROVE  RecordsMatch' /\ BuildsAreUnrecorded'
<1>1. RecordsMatch'
  BY DEF RecordsMatch
<1>2. BuildsAreUnrecorded'
  BY DEF BuildsAreUnrecorded, IsMaking, NoNewBuild
<1>3. QED BY <1>1, <1>2

\* A cleanup that stays where it is goes on to spare what is used, if numbers
\* that were reached stay so, the version it saw gets no image, and builds
\* begin with numbers not reached.
LEMMA CleanerKept ==
    ASSUME ImagesTypeOK, NEW c \in Cleaners, CleanerSpares(c), cleaner'[c] = cleaner[c],
           \A w \in Nat : Reached(def, w) => Reached(def', w),
           cleaner[c].at = "deleting" =>
               \A x \in Image : Records(def', cleaner[c].seen, x) =>
                                    Records(def, cleaner[c].seen, x),
           \A r \in Runs : run'[r].at \in Making =>
               \/ run[r].at \in Making /\ run'[r].version = run[r].version
               \/ \A w \in Nat : Reached(def, w) => run'[r].version # w
    PROVE  CleanerSpares(c)'
<1> SUFFICES ASSUME cleaner[c].at = "deleting" PROVE CleanerSpares(c)'
  BY DEF CleanerSpares
<1>1. cleaner[c].seen \in Nat /\ cleaner[c].wanted \subseteq Ids
      /\ cleaner[c].listed \in [Ids -> SUBSET Nat]
  BY DEF ImagesTypeOK, CleanerState, Tag
<1>2. Reached(def', cleaner'[c].seen)
  BY <1>1 DEF CleanerSpares
<1>3. ASSUME NEW w \in Nat, Reached(def, w),
             \A r \in Runs : run[r].at \in Making => run[r].version # w
      PROVE  \A r \in Runs : run'[r].at \in Making => run'[r].version # w
  BY <1>3
<1>4. \A r \in Runs : run'[r].at \in Making => run'[r].version # cleaner'[c].seen
  BY <1>1, <1>3 DEF CleanerSpares, IsMaking
<1>5. ASSUME NEW i \in cleaner'[c].wanted
      PROVE  /\ \A x \in Image : Records(def', cleaner'[c].seen, x) =>
                                     x \notin cleaner'[c].listed[i]
             /\ \E v \in cleaner'[c].listed[i] :
                    /\ Reached(def', v)
                    /\ \A r \in Runs : run'[r].at \in Making => run'[r].version # v
  <2>1. \A x \in Image : Records(def, cleaner[c].seen, x) => x \notin cleaner[c].listed[i]
    BY <1>5 DEF CleanerSpares
  <2>2. PICK v \in cleaner[c].listed[i] :
            /\ Reached(def, v)
            /\ \A r \in Runs : run[r].at \in Making => run[r].version # v
    BY <1>5 DEF CleanerSpares, IsMaking
  <2>3. v \in Nat
    BY <1>1, <1>5
  <2>4. Reached(def', v) /\ \A r \in Runs : run'[r].at \in Making => run'[r].version # v
    BY <1>3, <2>2, <2>3
  <2>5. QED BY <2>1, <2>2, <2>4
<1>6. QED BY <1>2, <1>4, <1>5 DEF CleanerSpares, IsMaking

\* While nothing but the runs changes, and none starts to carry an image, the
\* runs go on to carry the deployed one.
LEMMA CarriersKept ==
    ASSUME UpdatesCarryTheDeployed,
           def' = def, service' = service, owed' = owed, raced' = raced,
           \A r \in Runs : run'[r].at \in Carrying =>
               run[r].at \in Carrying /\ run'[r].image = run[r].image
    PROVE  UpdatesCarryTheDeployed'
BY DEF UpdatesCarryTheDeployed

-----------------------------------------------------------------------------
(* The steps.                                                              *)

Invariants ==
    RecordsMatch /\ BuildsAreUnrecorded /\ CleanersSpare /\ UpdatesCarryTheDeployed

LEMMA StartBuildKeeps ==
    ASSUME ImagesInv, NEW r \in Runs, StartBuild(r)
    PROVE  Invariants'
<1> DEFINE v == NewVersionIndex(def)
<1>0. ImagesTypeOK /\ def \in Definition(Image) /\ Increasing(def) /\ def.deployedVersion \in Nat
  BY VersionsTyped DEF ImagesInv, ImagesTypeOK
<1>1. /\ def'.deployedVersion = def.deployedVersion
      /\ v \in Nat
      /\ Reached(def', v)
      /\ \A w \in Nat : Reached(def, w) => w < v /\ Reached(def', w)
      /\ \A w \in Nat, x \in Image : Records(def', w, x) => Records(def, w, x)
      /\ \A x \in Image : ~Records(def', v, x)
  BY <1>0, CreateRecords DEF StartBuild
<1>2. /\ run'[r].version = v /\ run'[r].at = "building"
      /\ \A q \in Runs \ {r} : run'[q] = run[q]
  BY <1>0 DEF StartBuild, ImagesTypeOK
<1>3. RecordsMatch'
  BY <1>0, <1>1 DEF ImagesInv, RecordsMatch
<1>4. ASSUME NEW q \in Runs, run'[q].at \in Making
      PROVE  /\ Reached(def', run'[q].version)
             /\ \A x \in Image : ~Records(def', run'[q].version, x)
             /\ run'[q].version = def'.deployedVersion =>
                    \A w \in Nat, x \in Image : ~Records(def', w, x)
             /\ \A p \in Runs \ {q} :
                    run'[p].at \in Making => run'[p].version # run'[q].version
  <2>1. \A p \in Runs \ {r} : run'[p].at \in Making =>
            run[p].at \in Making /\ Reached(def, run[p].version)
            /\ run[p].version \in Nat /\ run[p].version # v
    BY <1>0, <1>1, <1>2 DEF ImagesInv, BuildsAreUnrecorded, IsMaking, ImagesTypeOK, RunState
  <2>2. CASE q = r
    <3>1. v = def.deployedVersion => \A w \in Nat, x \in Image : ~Records(def, w, x)
      BY <1>0, <1>1 DEF ImagesInv, RecordsMatch
    <3>2. QED BY <1>1, <1>2, <2>1, <2>2, <3>1
  <2>3. CASE q # r
    <3>1. run'[q] = run[q] /\ run[q].at \in Making /\ run[q].version \in Nat
      BY <1>2, <1>4, <2>1, <2>3
    <3>2. /\ Reached(def, run[q].version)
          /\ \A x \in Image : ~Records(def, run[q].version, x)
          /\ run[q].version = def.deployedVersion =>
                 \A w \in Nat, x \in Image : ~Records(def, w, x)
          /\ \A p \in Runs \ {q} :
                 run[p].at \in Making => run[p].version # run[q].version
      BY <3>1 DEF ImagesInv, BuildsAreUnrecorded, IsMaking
    <3>3. \A p \in Runs \ {q} :
              run'[p].at \in Making => run'[p].version # run'[q].version
      BY <1>2, <2>1, <2>3, <3>1, <3>2, <1>4
    <3>4. QED BY <1>1, <3>1, <3>2, <3>3
  <2>4. QED BY <2>2, <2>3
<1>5. BuildsAreUnrecorded'
  BY <1>4 DEF BuildsAreUnrecorded, IsMaking
<1>6. CleanersSpare'
  <2> SUFFICES ASSUME NEW c \in Cleaners PROVE CleanerSpares(c)'
    BY DEF CleanersSpare
  <2>1. cleaner[c].seen \in Nat
    BY <1>0 DEF ImagesTypeOK, CleanerState
  <2>2. CleanerSpares(c) /\ cleaner'[c] = cleaner[c]
    BY DEF ImagesInv, CleanersSpare, StartBuild
  <2>3. \A w \in Nat : Reached(def, w) => w # v
    BY <1>1
  <2>4. QED BY <1>0, <1>1, <1>2, <2>1, <2>2, <2>3, CleanerKept
<1>7. UpdatesCarryTheDeployed'
  <2>1. \A q \in Runs : run'[q].at \in Carrying => run'[q] = run[q]
    BY <1>2 DEF Carrying
  <2>2. UNCHANGED <<service, owed, raced>>
    BY DEF StartBuild
  <2>3. QED BY <1>0, <1>1, <2>1, <2>2 DEF ImagesInv, UpdatesCarryTheDeployed
<1>8. QED BY <1>3, <1>5, <1>6, <1>7 DEF Invariants

\* A change of the deployed version: no run but the one that made it can carry
\* an image without a race, and an update is owed.
LEMMA DeployedKeeps ==
    ASSUME NEW r \in Runs, Deployed(r), run'[r].at = "ready",
           \A q \in Runs \ {r} : run'[q] = run[q]
    PROVE  UpdatesCarryTheDeployed'
<1>1. ~raced' => \A q \in Runs : run'[q].at \notin Carrying
  BY DEF Deployed, Carrying
<1>2. owed'
  BY DEF Deployed
<1>3. QED BY <1>1, <1>2 DEF UpdatesCarryTheDeployed

LEMMA RecordImageKeeps ==
    ASSUME ImagesInv, NEW r \in Runs, NEW img \in {run[r].version, OtherImage},
           RecordImage(r, img)
    PROVE  Invariants'
<1> DEFINE v == run[r].version
<1>0. /\ ImagesTypeOK /\ def \in Definition(Image) /\ Increasing(def)
      /\ v \in Nat /\ img \in Image /\ HasVersion(def, v)
  BY DEF ImagesInv, ImagesTypeOK, RunState, Image, Tag, RecordImage
<1>1. /\ def'.deployedVersion = v
      /\ Reached(def', v)
      /\ \A w \in Nat : Reached(def, w) => Reached(def', w)
      /\ \A w \in Nat, x \in Image :
             Records(def', w, x) => IF w = v THEN x = img ELSE Records(def, w, x)
  BY <1>0, SetRecords DEF RecordImage
<1>2. /\ run'[r].at = "ready" /\ run[r].at \in Making
      /\ \A q \in Runs \ {r} : run'[q] = run[q]
  BY <1>0 DEF RecordImage, Drop, ImagesTypeOK, Making
<1>3. RecordsMatch'
  BY <1>0, <1>1 DEF ImagesInv, RecordsMatch
<1>4. ASSUME NEW q \in Runs, run'[q].at \in Making
      PROVE  /\ q # r /\ run'[q] = run[q]
             /\ run[q].version \in Nat /\ run[q].version # v
             /\ Reached(def, run[q].version)
             /\ \A x \in Image : ~Records(def, run[q].version, x)
             /\ \A p \in Runs \ {q} :
                    run[p].at \in Making => run[p].version # run[q].version
  <2>1. q # r /\ run'[q] = run[q]
    BY <1>2, <1>4 DEF Making
  <2>2. QED BY <1>0, <1>2, <1>4, <2>1
            DEF ImagesInv, BuildsAreUnrecorded, IsMaking, ImagesTypeOK, RunState
<1>5. BuildsAreUnrecorded'
  <2> SUFFICES ASSUME NEW q \in Runs, run'[q].at \in Making
               PROVE  /\ Reached(def', run'[q].version)
                      /\ \A x \in Image : ~Records(def', run'[q].version, x)
                      /\ run'[q].version # def'.deployedVersion
                      /\ \A p \in Runs \ {q} :
                             run'[p].at \in Making => run'[p].version # run'[q].version
    BY DEF BuildsAreUnrecorded, IsMaking
  <2>1. QED BY <1>1, <1>4
<1>6. CleanersSpare'
  <2> SUFFICES ASSUME NEW c \in Cleaners PROVE CleanerSpares(c)'
    BY DEF CleanersSpare
  <2>1. cleaner[c].seen \in Nat
    BY <1>0 DEF ImagesTypeOK, CleanerState
  <2>2. CleanerSpares(c) /\ cleaner'[c] = cleaner[c]
    BY DEF ImagesInv, CleanersSpare, RecordImage
  <2>3. cleaner[c].at = "deleting" => cleaner[c].seen # v
    BY <1>2, <2>2 DEF CleanerSpares, IsMaking
  <2>4. \A q \in Runs : run'[q].at \in Making => run[q].at \in Making /\ run'[q] = run[q]
    BY <1>4
  <2>5. QED BY <1>0, <1>1, <2>1, <2>2, <2>3, <2>4, CleanerKept
<1>7. UpdatesCarryTheDeployed'
  BY <1>2, DeployedKeeps DEF RecordImage
<1>8. QED BY <1>3, <1>5, <1>6, <1>7 DEF Invariants

LEMMA PutBackKeeps ==
    ASSUME ImagesInv, NEW r \in Runs, PutBack(r)
    PROVE  Invariants'
<1> DEFINE v == def.deployedVersion - 1
<1>0. /\ ImagesTypeOK /\ def \in Definition(Image) /\ Increasing(def)
      /\ v \in Nat /\ CanRollBack(def, v)
  BY VersionsTyped DEF ImagesInv, ImagesTypeOK, PutBack
<1>1. /\ def'.deployedVersion = v
      /\ \A w \in Nat : Reached(def, w) => Reached(def', w)
      /\ \A w \in Nat, x \in Image : Records(def', w, x) => Records(def, w, x)
  BY <1>0, RollBackRecords DEF PutBack
<1>2. /\ run'[r].at = "ready" /\ \A q \in Runs \ {r} : run'[q] = run[q]
  BY <1>0 DEF PutBack, Drop, ImagesTypeOK
<1>3. PICK x \in Image : Records(def, v, x)
  <2>1. PICK n \in DOMAIN def.versions :
            def.versions[n].version = v /\ def.versions[n].image # NoImage
    BY <1>0 DEF CanRollBack, IndexesOf
  <2>2. def.versions[n].image \in Image
    BY <1>0, <2>1, VersionsTyped
  <2>3. QED BY <2>1, <2>2 DEF Records
<1>4. Reached(def, v)
  <2>1. PICK n \in DOMAIN def.versions : def.versions[n].version = v
    BY <1>3 DEF Records
  <2>2. v <= def.versions[n].version
    BY <1>0, <2>1
  <2>3. QED BY <2>2 DEF Reached
<1>5. RecordsMatch'
  BY <1>0, <1>1, <1>4 DEF ImagesInv, RecordsMatch
<1>6. ASSUME NEW q \in Runs, run'[q].at \in Making
      PROVE  /\ run'[q] = run[q]
             /\ run[q].version \in Nat /\ run[q].version # v
             /\ Reached(def, run[q].version)
             /\ \A y \in Image : ~Records(def, run[q].version, y)
             /\ \A p \in Runs \ {q} :
                    run[p].at \in Making => run[p].version # run[q].version
  <2>1. q # r /\ run'[q] = run[q]
    BY <1>2, <1>6 DEF Making
  <2>2. QED BY <1>0, <1>3, <1>6, <2>1
            DEF ImagesInv, BuildsAreUnrecorded, IsMaking, ImagesTypeOK, RunState
<1>7. BuildsAreUnrecorded'
  <2> SUFFICES ASSUME NEW q \in Runs, run'[q].at \in Making
               PROVE  /\ Reached(def', run'[q].version)
                      /\ \A y \in Image : ~Records(def', run'[q].version, y)
                      /\ run'[q].version # def'.deployedVersion
                      /\ \A p \in Runs \ {q} :
                             run'[p].at \in Making => run'[p].version # run'[q].version
    BY DEF BuildsAreUnrecorded, IsMaking
  <2>1. \A p \in Runs : run'[p].at \in Making => run'[p] = run[p]
    BY <1>6
  <2>2. QED BY <1>1, <1>6, <2>1
<1>8. CleanersSpare'
  <2> SUFFICES ASSUME NEW c \in Cleaners PROVE CleanerSpares(c)'
    BY DEF CleanersSpare
  <2>1. cleaner[c].seen \in Nat
    BY <1>0 DEF ImagesTypeOK, CleanerState
  <2>2. CleanerSpares(c) /\ cleaner'[c] = cleaner[c]
    BY DEF ImagesInv, CleanersSpare, PutBack
  <2>3. \A q \in Runs : run'[q].at \in Making => run[q].at \in Making /\ run'[q] = run[q]
    BY <1>6
  <2>4. QED BY <1>0, <1>1, <2>1, <2>2, <2>3, CleanerKept
<1>9. UpdatesCarryTheDeployed'
  BY <1>2, DeployedKeeps DEF PutBack
<1>10. QED BY <1>5, <1>7, <1>8, <1>9 DEF Invariants

\* The steps of a run that leave the definition alone.
PlainStep(r) ==
    \/ \E i \in Ids : MakeImage(r, i)
    \/ BuildEndsBadly(r)
    \/ UpdateApp(r)
    \/ ReadDefinition(r)
    \/ AskForService(r)
    \/ CreateService(r)
    \/ InspectService(r)
    \/ UpdateService(r)
    \/ UpdateEndsBadly(r)
    \/ GiveUp(r)

LEMMA PlainStepUpdates ==
    ASSUME ImagesInv, NEW r \in Runs, PlainStep(r)
    PROVE  UpdatesCarryTheDeployed'
<1>0. /\ ImagesTypeOK /\ run \in [Runs -> RunState] /\ def \in Definition(Image)
      /\ Increasing(def) /\ def.deployedVersion \in Nat /\ UpdatesCarryTheDeployed
  BY VersionsTyped DEF ImagesInv, ImagesTypeOK
<1>1. ASSUME def' = def, service' = service, owed' = owed, raced' = raced,
             \/ \E place \in {"idle", "ready", "failed", "built"} : Drop(r, place)
             \/ MoveTo(r, "built")
             \/ /\ run[r].at \in Carrying
                /\ \E place \in Carrying : MoveTo(r, place)
      PROVE  UpdatesCarryTheDeployed'
  <2>1. \A q \in Runs : run'[q].at \in Carrying =>
            run[q].at \in Carrying /\ run'[q].image = run[q].image
    BY <1>0, <1>1 DEF Drop, MoveTo, Carrying
  <2>2. QED BY <1>0, <1>1, <2>1, CarriersKept
<1>2. CASE (\E i \in Ids : MakeImage(r, i)) \/ BuildEndsBadly(r) \/ UpdateApp(r)
           \/ UpdateEndsBadly(r) \/ GiveUp(r)
  BY <1>1, <1>2 DEF MakeImage, BuildEndsBadly, UpdateApp, UpdateEndsBadly, GiveUp
<1>3. CASE AskForService(r) \/ InspectService(r)
  BY <1>1, <1>3 DEF AskForService, InspectService, Carrying
<1>4. CASE ReadDefinition(r)
  <2>1. \A x \in Image : Records(def, def.deployedVersion, x) => ImageToRun(def) = x
    BY <1>0, ImageIsRecorded DEF ImageToRun
  <2>2. /\ run'[r].image = ImageToRun(def)
        /\ \A q \in Runs \ {r} : run'[q] = run[q]
    BY <1>0, <1>4 DEF ReadDefinition
  <2>3. UNCHANGED <<def, service, owed, raced>>
    BY <1>4 DEF ReadDefinition
  <2>4. QED BY <1>0, <2>1, <2>2, <2>3 DEF UpdatesCarryTheDeployed
<1>5. CASE CreateService(r)
  <2>1. \A q \in Runs : run'[q].at \in Carrying =>
            run[q].at \in Carrying /\ run'[q].image = run[q].image
    BY <1>0, <1>5 DEF CreateService, MoveTo, Carrying
  <2>2. \A x \in Image : service # x
    BY <1>5, ImagesAssumption DEF CreateService, Image, Tag
  <2>3. UNCHANGED <<def, owed, raced>>
    BY <1>5 DEF CreateService
  <2>4. QED BY <1>0, <2>1, <2>2, <2>3 DEF UpdatesCarryTheDeployed
<1>6. CASE UpdateService(r)
  <2>1. run[r].at \in Carrying /\ service' = run[r].image
    BY <1>6 DEF UpdateService, Carrying
  <2>2. \A q \in Runs : run'[q].at \in Carrying =>
            run[q].at \in Carrying /\ run'[q].image = run[q].image
    BY <1>0, <1>6 DEF UpdateService, Drop, Carrying
  <2>3. UNCHANGED <<def, raced>>
    BY <1>6 DEF UpdateService
  <2>4. QED BY <1>0, <2>1, <2>2, <2>3 DEF UpdatesCarryTheDeployed
<1>7. QED BY <1>2, <1>3, <1>4, <1>5, <1>6 DEF PlainStep

LEMMA PlainStepKeeps ==
    ASSUME ImagesInv, NEW r \in Runs, PlainStep(r)
    PROVE  Invariants'
<1>0. ImagesTypeOK /\ run \in [Runs -> RunState]
  BY DEF ImagesInv, ImagesTypeOK
<1>1. def' = def /\ cleaner' = cleaner
  BY DEF PlainStep, MakeImage, BuildEndsBadly, UpdateApp, ReadDefinition,
     AskForService, CreateService, InspectService, UpdateService,
     UpdateEndsBadly, GiveUp
<1>2. NoNewBuild
  <2>1. ASSUME \/ \E place \in {"idle", "ready", "failed"} : Drop(r, place)
               \/ \E place \in Carrying : MoveTo(r, place)
               \/ run[r].at \in Making /\ MoveTo(r, "built")
        PROVE  NoNewBuild
    BY <1>0, <2>1 DEF NoNewBuild, Drop, MoveTo, Making, Carrying
  <2>2. CASE ReadDefinition(r)
    BY <1>0, <2>2 DEF ReadDefinition, NoNewBuild, Making
  <2>3. CASE \E i \in Ids : MakeImage(r, i)
    BY <2>1, <2>3 DEF MakeImage, Making
  <2>4. QED BY <2>1, <2>2, <2>3 DEF PlainStep, BuildEndsBadly, UpdateApp,
        AskForService, CreateService, InspectService, UpdateService,
        UpdateEndsBadly, GiveUp, Carrying
<1>3. RecordsMatch' /\ BuildsAreUnrecorded'
  BY <1>1, <1>2, BuildsKept DEF ImagesInv
<1>4. CleanersSpare'
  <2> SUFFICES ASSUME NEW c \in Cleaners PROVE CleanerSpares(c)'
    BY DEF CleanersSpare
  <2>1. CleanerSpares(c) /\ cleaner'[c] = cleaner[c]
    BY <1>1 DEF ImagesInv, CleanersSpare
  <2>2. QED BY <1>0, <1>1, <1>2, <2>1, CleanerKept DEF NoNewBuild
<1>5. QED BY <1>3, <1>4, PlainStepUpdates DEF Invariants

\* A cleanup step changes neither definition nor runs.  What it may remove it
\* has found unused in the definition it read.
LEMMA AllowedImagesAreUnused ==
    ASSUME ImagesInv, NEW c \in Cleaners, AllowImages(c)
    PROVE  CleanerSpares(c)'
<1> DEFINE allowed == cleaner[c].wanted \cap Unused(cleaner[c].listed, def, 0)
           seen == def.deployedVersion
<1>0. /\ def \in Definition(Image) /\ Increasing(def) /\ seen \in Nat
      /\ cleaner \in [Cleaners -> CleanerState]
  BY VersionsTyped DEF ImagesInv, ImagesTypeOK
<1>1. def' = def /\ run' = run
  BY DEF AllowImages
<1>2. CASE allowed = {}
  <2>1. cleaner'[c].at = "idle"
    BY <1>0, <1>2 DEF AllowImages, Becomes, IdleCleaner, Cleaner
  <2>2. QED BY <2>1 DEF CleanerSpares
<1>3. CASE allowed # {}
  <2>1. /\ cleaner'[c].listed = cleaner[c].listed
        /\ cleaner'[c].wanted = allowed
        /\ cleaner'[c].seen = seen
    BY <1>0, <1>3 DEF AllowImages, Becomes, Cleaner
  <2>2. ASSUME NEW i \in allowed
        PROVE  \E v \in cleaner[c].listed[i] : v \in Nat /\ Records(def, v, v)
    <3>1. PICK x \in cleaner[c].listed[i] : x \in OwnedTags(def)
      BY DEF Unused
    <3>2. PICK n \in DOMAIN def.versions : x = def.versions[n].image
      BY <3>1 DEF OwnedTags
    <3>3. x # NoImage /\ x # OtherImage /\ x \in Image /\ x \in Nat
      BY <1>0, <3>1, <3>2, VersionsTyped DEF OwnedTags, Image, Tag
    <3>4. def.versions[n].version \in Nat /\ Records(def, def.versions[n].version, x)
      BY <1>0, <3>2, <3>3, VersionsTyped DEF Records
    <3>5. x = def.versions[n].version
      BY <3>3, <3>4 DEF ImagesInv, RecordsMatch
    <3>6. QED BY <3>3, <3>4, <3>5
  <2>3. ASSUME NEW v \in Nat, Records(def, v, v)
        PROVE  Reached(def, v) /\ \A r \in Runs : IsMaking(r) => run[r].version # v
    <3>1. PICK n \in DOMAIN def.versions : def.versions[n].version = v
      BY <2>3 DEF Records
    <3>2. v <= def.versions[n].version
      BY <3>1
    <3>3. v \in Image
      BY DEF Image, Tag
    <3>4. QED BY <2>3, <3>2, <3>3 DEF Reached, ImagesInv, BuildsAreUnrecorded
  <2>4. PICK v \in Nat : Records(def, v, v)
    BY <1>3, <2>2
  <2>5. v \in Image
    BY DEF Image, Tag
  <2>6. Reached(def, seen) /\ \A r \in Runs : IsMaking(r) => run[r].version # seen
    BY <1>0, <2>4, <2>5 DEF ImagesInv, RecordsMatch, BuildsAreUnrecorded
  <2>7. ASSUME NEW i \in allowed, NEW x \in Image, Records(def, seen, x)
        PROVE  x \notin cleaner[c].listed[i]
    <3>1. ImageOf(def, seen) = x
      BY <1>0, <2>7, ImageIsRecorded
    <3>2. ~InUse(def, cleaner[c].listed[i], 0)
      BY DEF Unused
    <3>3. 0 \in 0..0 /\ 0 <= seen /\ seen - 0 = seen
      BY <1>0
    <3>4. ImageOf(def, seen - 0) \notin cleaner[c].listed[i]
      BY <3>2, <3>3 DEF InUse
    <3>5. QED BY <3>1, <3>3, <3>4
  <2>8. ASSUME NEW i \in allowed
        PROVE  \E w \in cleaner[c].listed[i] :
                   /\ Reached(def, w)
                   /\ \A r \in Runs : IsMaking(r) => run[r].version # w
    BY <2>2, <2>3
  <2> HIDE DEF allowed, seen
  <2>9. QED BY <1>1, <2>1, <2>6, <2>7, <2>8 DEF CleanerSpares, IsMaking
<1>4. QED BY <1>2, <1>3

LEMMA CleanerStepKeeps ==
    ASSUME ImagesInv, NEW c \in Cleaners, CleanerStep(c)
    PROVE  Invariants'
<1>0. ImagesTypeOK /\ cleaner \in [Cleaners -> CleanerState]
  BY DEF ImagesInv, ImagesTypeOK
<1>1. /\ UNCHANGED <<def, service, run, owed, raced>>
      /\ \A d \in Cleaners \ {c} : cleaner'[d] = cleaner[d]
  BY <1>0 DEF CleanerStep, CleanupCalled, ListImages, PickUnused, DeleteImages,
     ListAgain, AllowImages, RemoveImage, Becomes
<1>2. NoNewBuild
  BY <1>1 DEF NoNewBuild
<1>3. RecordsMatch' /\ BuildsAreUnrecorded' /\ UpdatesCarryTheDeployed'
  BY <1>1, <1>2, BuildsKept, CarriersKept DEF ImagesInv
<1>4. ASSUME NEW d \in Cleaners \ {c}
      PROVE  CleanerSpares(d)'
  <2>1. CleanerSpares(d) /\ cleaner'[d] = cleaner[d]
    BY <1>1 DEF ImagesInv, CleanersSpare
  <2>2. QED BY <1>0, <1>1, <2>1, CleanerKept
<1>5. CleanerSpares(c)'
  <2>1. ASSUME NEW state, Becomes(c, state), state.at # "deleting"
        PROVE  CleanerSpares(c)'
    <3>1. cleaner'[c].at # "deleting"
      BY <1>0, <2>1 DEF Becomes
    <3>2. QED BY <3>1 DEF CleanerSpares
  <2>2. CASE \/ \E limit \in Limits : CleanupCalled(c, limit)
             \/ \E ids \in (SUBSET Ids) \ {{}} : DeleteImages(c, ids)
             \/ ListImages(c) \/ PickUnused(c) \/ ListAgain(c)
    BY <2>1, <2>2 DEF CleanupCalled, DeleteImages, ListImages, PickUnused,
       ListAgain, Cleaner, IdleCleaner
  <2>3. CASE AllowImages(c)
    BY <2>3, AllowedImagesAreUnused
  <2>4. ASSUME NEW i \in Ids, RemoveImage(c, i)
        PROVE  CleanerSpares(c)'
    <3> DEFINE left == cleaner[c].wanted \ {i}
    <3>1. CASE left = {}
      BY <2>1, <2>4, <3>1 DEF RemoveImage, IdleCleaner, Cleaner
    <3>2. CASE left # {}
      <4>1. /\ cleaner'[c].listed = cleaner[c].listed
            /\ cleaner'[c].wanted \subseteq cleaner[c].wanted
            /\ cleaner'[c].seen = cleaner[c].seen
        BY <1>0, <2>4, <3>2 DEF RemoveImage, Becomes, Cleaner
      <4>2. cleaner[c].at = "deleting" /\ CleanerSpares(c)
        BY <2>4 DEF RemoveImage, ImagesInv, CleanersSpare
      <4>3. QED BY <1>1, <4>1, <4>2 DEF CleanerSpares, IsMaking
    <3>3. QED BY <3>1, <3>2
  <2>5. QED BY <2>2, <2>3, <2>4 DEF CleanerStep
<1>6. QED BY <1>3, <1>4, <1>5 DEF Invariants, CleanersSpare

LEMMA RestartKeeps ==
    ASSUME ImagesInv, RestartProcess
    PROVE  ImagesTypeOK' /\ Invariants'
<1>0. /\ UNCHANGED <<def, images, service, owed, raced>>
      /\ inspected' = {}
      /\ \A r \in Runs : run'[r] = IdleRun
      /\ run' = [r \in Runs |-> IdleRun]
      /\ \A c \in Cleaners : cleaner'[c] = IdleCleaner
      /\ cleaner' = [c \in Cleaners |-> IdleCleaner]
  BY DEF RestartProcess
<1>1. IdleRun \in RunState /\ IdleRun.at = "idle"
  BY DEF IdleRun, RunState
<1>2. IdleCleaner \in CleanerState /\ IdleCleaner.at = "idle"
  BY DEF IdleCleaner, Cleaner, CleanerState, NoTags
<1>3. ImagesTypeOK'
  BY <1>0, <1>1, <1>2 DEF ImagesInv, ImagesTypeOK
<1>4. NoNewBuild
  BY <1>0, <1>1 DEF NoNewBuild, Making
<1>5. RecordsMatch' /\ BuildsAreUnrecorded'
  BY <1>0, <1>4, BuildsKept DEF ImagesInv
<1>6. CleanersSpare'
  BY <1>0, <1>2 DEF CleanersSpare, CleanerSpares
<1>7. UpdatesCarryTheDeployed'
  BY <1>0, <1>1, CarriersKept DEF ImagesInv, Carrying
<1>8. QED BY <1>3, <1>5, <1>6, <1>7 DEF Invariants

-----------------------------------------------------------------------------
(* The theorems.                                                           *)

LEMMA InitHolds == ImagesInit => ImagesInv
<1> SUFFICES ASSUME ImagesInit PROVE ImagesInv
  OBVIOUS
<1>1. /\ FreshDefinition \in Definition(Image)
      /\ FreshDefinition.versions = <<>> /\ Increasing(FreshDefinition)
  BY DEF FreshDefinition, Definition, Increasing
<1>2. IdleRun \in RunState /\ IdleRun.at = "idle"
  BY DEF IdleRun, RunState
<1>3. IdleCleaner \in CleanerState /\ IdleCleaner.at = "idle"
  BY DEF IdleCleaner, Cleaner, CleanerState, NoTags
<1>4. ImagesTypeOK
  BY <1>1, <1>2, <1>3 DEF ImagesInit, ImagesTypeOK, NoTags
<1>5. \A v, x : ~Records(def, v, x)
  BY <1>1 DEF ImagesInit, Records
<1>6. RecordsMatch /\ UpdatesCarryTheDeployed
  BY <1>5 DEF RecordsMatch, UpdatesCarryTheDeployed
<1>7. BuildsAreUnrecorded
  BY <1>2 DEF ImagesInit, BuildsAreUnrecorded, IsMaking, Making
<1>8. CleanersSpare
  BY <1>3 DEF ImagesInit, CleanersSpare, CleanerSpares
<1>9. QED BY <1>1, <1>4, <1>6, <1>7, <1>8 DEF ImagesInv, ImagesInit

LEMMA RunStepKeeps == ImagesInv /\ [ImagesNext]_imageVars => ImagesInv'
<1> SUFFICES ASSUME ImagesInv, [ImagesNext]_imageVars PROVE ImagesInv'
  OBVIOUS
<1>0. ImagesTypeOK /\ Increasing(def)
  BY DEF ImagesInv
<1>1. Increasing(def)'
  BY <1>0, DefinitionTyped
<1>2. ASSUME NEW r \in Runs, RunStep(r)
      PROVE  ImagesTypeOK' /\ Invariants'
  <2>1. ImagesTypeOK'
    BY <1>0, <1>2, RunStepTyped
  <2>2. Invariants'
    BY <1>2, StartBuildKeeps, RecordImageKeeps, PutBackKeeps, PlainStepKeeps
       DEF RunStep, PlainStep
  <2>3. QED BY <2>1, <2>2
<1>3. ASSUME NEW c \in Cleaners, CleanerStep(c)
      PROVE  ImagesTypeOK' /\ Invariants'
  BY <1>0, <1>3, CleanerStepTyped, CleanerStepKeeps
<1>4. ASSUME RestartProcess
      PROVE  ImagesTypeOK' /\ Invariants'
  BY <1>4, RestartKeeps
<1>5. ASSUME UNCHANGED imageVars
      PROVE  ImagesTypeOK' /\ Invariants'
  <2>1. ImagesTypeOK'
    BY <1>0, <1>5 DEF imageVars, ImagesTypeOK
  <2>2. Invariants'
    BY <1>5 DEF imageVars, ImagesInv, Invariants, RecordsMatch, BuildsAreUnrecorded,
       IsMaking, CleanersSpare, CleanerSpares, UpdatesCarryTheDeployed
  <2>3. QED BY <2>1, <2>2
<1>6. ImagesTypeOK' /\ Invariants'
  BY <1>2, <1>3, <1>4, <1>5 DEF ImagesNext
<1>7. QED BY <1>1, <1>6 DEF ImagesInv, Invariants

\* Types, for any number of runs and cleanups and any length of the history.
THEOREM ImagesTyped == ImagesSpec => []ImagesTypeOK
<1>1. ImagesInv => ImagesTypeOK
  BY DEF ImagesInv
<1>2. QED BY <1>1, InitHolds, RunStepKeeps, PTL DEF ImagesSpec

\* Whatever overlaps, the service runs the deployed version once it has been
\* updated, unless a run carried an earlier image across the change.
THEOREM ServiceCorrect == ImagesSpec => []ServiceRunsTheDeployed
<1>1. ImagesInv => ServiceRunsTheDeployed
  <2> SUFFICES ASSUME ImagesInv, ~raced, ~owed, DeployedImage(def) # NoImage
               PROVE  service = DeployedImage(def)
    BY DEF ServiceRunsTheDeployed
  <2>1. def \in Definition(Image) /\ Increasing(def) /\ def.deployedVersion \in Nat
    BY VersionsTyped DEF ImagesInv, ImagesTypeOK
  <2>2. /\ DeployedImage(def) \in Image
        /\ Records(def, def.deployedVersion, DeployedImage(def))
    BY <2>1, ImageIsRecorded
  <2>3. QED BY <2>2 DEF ImagesInv, UpdatesCarryTheDeployed
<1>2. QED BY <1>1, InitHolds, RunStepKeeps, PTL DEF ImagesSpec

\* An image leaves Docker through the cleanup that has it on its list.
LEMMA OnlyCleanupsRemove ==
    ASSUME ImagesTypeOK, ImagesNext, NEW c \in Cleaners, NEW i \in Ids, Removes(c, i)
    PROVE  cleaner[c].at = "deleting"
<1>0. /\ images \in [Ids -> SUBSET Tag]
      /\ cleaner \in [Cleaners -> CleanerState]
  BY DEF ImagesTypeOK
<1>1. images'[i] # images[i] /\ images'[i] = {} /\ cleaner'[c] # cleaner[c]
  BY DEF Removes
<1>2. ASSUME NEW r \in Runs, RunStep(r)
      PROVE  FALSE
  <2>1. cleaner' = cleaner
    BY <1>2 DEF RunStep, StartBuild, MakeImage, RecordImage, BuildEndsBadly,
       UpdateApp, ReadDefinition, AskForService, CreateService, InspectService,
       UpdateService, UpdateEndsBadly, PutBack, GiveUp
  <2>2. QED BY <1>1, <2>1
<1>3. ASSUME NEW d \in Cleaners, CleanerStep(d)
      PROVE  cleaner[c].at = "deleting"
  <2>1. PICK j \in Ids : RemoveImage(d, j)
    BY <1>1, <1>3 DEF CleanerStep, CleanupCalled, ListImages, PickUnused,
       DeleteImages, ListAgain, AllowImages
  <2>2. \A e \in Cleaners \ {d} : cleaner'[e] = cleaner[e]
    BY <1>0, <2>1 DEF RemoveImage, Becomes
  <2>3. c = d
    BY <1>1, <2>2
  <2>4. QED BY <2>1, <2>3 DEF RemoveImage
<1>4. CASE RestartProcess
  BY <1>1, <1>4 DEF RestartProcess
<1>5. QED BY <1>2, <1>3, <1>4 DEF ImagesNext

\* What a cleanup removes was neither deployed nor being built as far as its
\* two readings could tell.
THEOREM CleanupCorrect == ImagesSpec => CleanupSparesWhatIsUsed
<1> DEFINE Spares ==
        \A c \in Cleaners, i \in Ids : Removes(c, i) =>
           /\ DeployedImage(def) \in images[i] =>
                  \/ def.deployedVersion # cleaner[c].seen
                  \/ DeployedImage(def) \notin cleaner[c].listed[i]
           /\ images[i] = cleaner[c].listed[i] =>
                  \E v \in images[i] : \A r \in Runs :
                      run[r].at \in Making => run[r].version # v
<1>1. ImagesInv /\ [ImagesNext]_imageVars => [Spares]_imageVars
  <2> SUFFICES ASSUME ImagesInv, ImagesNext, NEW c \in Cleaners, NEW i \in Ids,
                      Removes(c, i)
               PROVE  /\ DeployedImage(def) \in images[i] =>
                            \/ def.deployedVersion # cleaner[c].seen
                            \/ DeployedImage(def) \notin cleaner[c].listed[i]
                      /\ images[i] = cleaner[c].listed[i] =>
                            \E v \in images[i] : \A r \in Runs :
                                run[r].at \in Making => run[r].version # v
    OBVIOUS
  <2>1. cleaner[c].at = "deleting" /\ i \in cleaner[c].wanted /\ CleanerSpares(c)
    BY OnlyCleanupsRemove DEF ImagesInv, CleanersSpare, Removes
  <2>2. def \in Definition(Image) /\ Increasing(def) /\ def.deployedVersion \in Nat
        /\ images[i] \subseteq Nat
    BY VersionsTyped DEF ImagesInv, ImagesTypeOK, Tag
  <2>3. ASSUME DeployedImage(def) \in images[i], def.deployedVersion = cleaner[c].seen
        PROVE  DeployedImage(def) \notin cleaner[c].listed[i]
    <3>1. DeployedImage(def) \in Image
      BY <2>2, <2>3 DEF Image, Tag
    <3>2. Records(def, def.deployedVersion, DeployedImage(def))
      BY <2>2, <3>1, ImageIsRecorded
    <3>3. QED BY <2>1, <2>3, <3>1, <3>2 DEF CleanerSpares
  <2>4. \E v \in cleaner[c].listed[i] :
            \A r \in Runs : run[r].at \in Making => run[r].version # v
    BY <2>1 DEF CleanerSpares, IsMaking
  <2>5. QED BY <2>3, <2>4
<1>2. QED BY <1>1, InitHolds, RunStepKeeps, PTL DEF ImagesSpec, CleanupSparesWhatIsUsed

-----------------------------------------------------------------------------
(***************************************************************************)
(* The monitors, for any tabs and settings.  An update of GoAccess is the   *)
(* only one of GoAccess, unless it is served beside that of a tab that was  *)
(* left; then GoAccess is at each stage as far as the order of              *)
(* updateGoAccessInfo has come.                                             *)
(***************************************************************************)
Served(x) == x.at \notin {"none", "sent"}

ServesGoAccess(x) == x.monitor = "goaccess" /\ Served(x)

\* GoAccess is never sent the mark; NetData has the secret once it is restored.
RealData(x) ==
    x # NoUpdate =>
        /\ x.monitor = "goaccess" => x.to.data \in Settings /\ x.sent.data \in Settings
        /\ x.monitor = "goaccess" => x.at # "restored"
        /\ x.monitor = "netdata" => x.at \notin {"recorded", "scheduled"}
        /\ x.at \notin {"sent", "admitted"} => x.to.data \in Settings

DataInv ==
    /\ \A t \in Viewers : "goaccess" \in Monitors => current[t]["goaccess"].data \in Settings
    /\ \A u \in Users : RealData(update[u])

\* Updates of GoAccess that are served beside each other are known, and the lock
\* is held for a tab that is there.
UpdatesServed ==
    /\ update[Start].at # "sent" /\ update[Start].monitor # "netdata"
    /\ \A u \in Users : Served(update[u]) => serverState = IF u = Start THEN "starting" ELSE "up"
    /\ \A t \in Viewers : Served(update[t]) /\ monitoring[t] = "working" =>
          ~lockFree /\ \A v \in Viewers : Served(update[v]) /\ monitoring[v] = "working" => v = t
    /\ \A u, v \in Users : ServesGoAccess(update[u]) /\ ServesGoAccess(update[v]) /\ u # v => u \in together

\* How far the update has come with GoAccess.
StagesReached(x) ==
    /\ x.at \in {"recorded", "scheduled", "removed", "created"} => info["goaccess"] = x.to
    /\ x.at \in {"scheduled", "removed", "created"} => crontab = x.to.data
    /\ x.at = "created" => container["goaccess"] = RunsWith(x.to)

Stages == \A u \in Users \ together : update[u].monitor = "goaccess" => StagesReached(update[u])

Applied ==
    /\ container["goaccess"] = RunsWith(info["goaccess"])
    /\ crontab = info["goaccess"].data
    /\ accessLogs = info["goaccess"].isEnabled

\* GoAccess has been touched by an update that is served.
Touched(x) == x.monitor = "goaccess" /\ x.at \notin {"sent", "admitted"}

AppliedInv ==
    serverState = "up" /\ ~failed /\ (\A u \in Users : ~Touched(update[u])) => Applied

MonitorsInv ==
    /\ MonitoringTypeOK
    /\ DataInv
    /\ UpdatesServed
    /\ Stages
    /\ AppliedInv

\* What there is of GoAccess, but for the access logs, stays.
GoAccessStays ==
    /\ info'["goaccess"] = info["goaccess"]
    /\ crontab' = crontab
    /\ container'["goaccess"] = container["goaccess"]

LEMMA UpdateMoves ==
    ASSUME MonitoringTypeOK, NEW u \in Users, NEW x \in Update \cup {NoUpdate},
           update' = [update EXCEPT ![u] = x]
    PROVE  /\ update' \in [Users -> Update \cup {NoUpdate}]
           /\ update'[u] = x
           /\ \A v \in Users : v # u => update'[v] = update[v]
BY DEF MonitoringTypeOK

LEMMA NotServedAtAll == ~Served(NoUpdate) /\ NoUpdate.monitor # "goaccess" /\ NoUpdate.at = "none"
BY DEF Served, NoUpdate

LEMMA RestIsNone ==
    ASSUME NEW x \in Update \cup {NoUpdate}
    PROVE  /\ x.at = "none" <=> x = NoUpdate
           /\ x # NoUpdate => x \in Update
           /\ Touched(x) => Served(x)
           /\ ~Served(x) => StagesReached(x) /\ ~Touched(x)
BY DEF Update, NoUpdate, Touched, Served, StagesReached

\* The update that is served reaches its next stage.
LEMMA StageIsReached ==
    ASSUME "goaccess" \in Monitors, MonitorsInv, NEW u \in Users, NEW x \in Update,
           Served(update[u]), Served(x), x.monitor = update[u].monitor,
           update' = [update EXCEPT ![u] = x],
           UNCHANGED <<accessLogs, serverState, monitoringPageVars, lockFree, together, failed>>,
           info' \in [Monitors -> [isEnabled : BOOLEAN, data : Settings]],
           container' \in [Monitors -> 0 .. MaxEdits + 1],
           crontab' \in Settings,
           RealData(x),
           x.monitor = "goaccess" => Touched(x) /\ (u \notin together => StagesReached(x)'),
           x.monitor # "goaccess" => GoAccessStays
    PROVE  MonitorsInv'
<1> USE DEF monitoringPageVars
<1>1. MonitoringTypeOK /\ DataInv /\ UpdatesServed /\ Stages /\ AppliedInv
  BY DEF MonitorsInv
<1>2. /\ update' \in [Users -> Update \cup {NoUpdate}]
      /\ update'[u] = x
      /\ \A v \in Users : v # u => update'[v] = update[v]
  BY <1>1, UpdateMoves
<1>3. \A v \in Users : (Served(update'[v]) <=> Served(update[v])) /\ update'[v].monitor = update[v].monitor
  BY <1>2
<1>4. \A v \in Users : update[v] \in Update \cup {NoUpdate}
  BY <1>1 DEF MonitoringTypeOK
<1>5. MonitoringTypeOK'
  BY <1>1, <1>2 DEF MonitoringTypeOK
<1>6. DataInv'
  <2>1. \A v \in Users : RealData(update[v])'
    BY <1>1, <1>2 DEF DataInv, RealData
  <2> QED BY <2>1, <1>1 DEF DataInv
<1>7. UpdatesServed'
  <2>1. update'[Start].at # "sent" /\ update'[Start].monitor # "netdata"
    BY <1>1, <1>2 DEF UpdatesServed, Served, Users
  <2>2. \A v \in Users : ServesGoAccess(update'[v]) <=> ServesGoAccess(update[v])
    BY <1>3 DEF ServesGoAccess
  <2> QED BY <2>1, <2>2, <1>1, <1>3 DEF UpdatesServed, Users
<1>8. Stages'
  <2> SUFFICES ASSUME NEW v \in Users, v \notin together, update'[v].monitor = "goaccess", Served(update'[v])
               PROVE  StagesReached(update[v])'
    BY DEF Stages, StagesReached, Served
  <2>1. CASE v = u
    BY <2>1, <1>2 DEF StagesReached
  <2>2. CASE v # u
    <3>1. update'[v] = update[v] /\ StagesReached(update[v])
      BY <2>2, <1>1, <1>2 DEF Stages
    <3>2. ~ServesGoAccess(update[u])
      BY <2>2, <3>1, <1>1 DEF UpdatesServed, ServesGoAccess
    <3>3. GoAccessStays
      BY <3>2 DEF ServesGoAccess
    <3> QED BY <3>1, <3>3 DEF StagesReached, GoAccessStays
  <2> QED BY <2>1, <2>2
<1>9. AppliedInv'
  <2>1. CASE x.monitor = "goaccess"
    BY <2>1, <1>2 DEF AppliedInv
  <2>2. CASE x.monitor # "goaccess"
    <3>1. \A v \in Users : Touched(update[v]) => Touched(update'[v])
      BY <2>2, <1>2 DEF Touched
    <3> QED BY <3>1, <2>2, <1>1 DEF AppliedInv, Applied, GoAccessStays
  <2> QED BY <2>1, <2>2
<1> QED BY <1>5, <1>6, <1>7, <1>8, <1>9 DEF MonitorsInv

\* The update that is served ends, well or not.
LEMMA UpdateEnds ==
    ASSUME "goaccess" \in Monitors, MonitorsInv, NEW u \in Users, NEW good \in BOOLEAN,
           Served(update[u]), AnswerUpdate(u, good), UNCHANGED edits,
           info' \in [Monitors -> [isEnabled : BOOLEAN, data : Settings]],
           container' \in [Monitors -> 0 .. MaxEdits + 1],
           crontab' \in Settings, accessLogs' \in BOOLEAN, failed' \in BOOLEAN,
           current' \in [Viewers -> [Monitors -> Info]],
           \A t \in Viewers : current'[t]["goaccess"].data \in Settings,
           \/ /\ u \in Viewers /\ ~Touched(update[u]) /\ failed' = failed
              /\ GoAccessStays /\ accessLogs' = accessLogs
           \/ /\ update[u].monitor = "goaccess"
              /\ serverState' = "up" /\ ~failed' => Applied'
    PROVE  MonitorsInv'
<1>1. MonitoringTypeOK /\ DataInv /\ UpdatesServed /\ Stages /\ AppliedInv
  BY DEF MonitorsInv
<1>2. /\ update' \in [Users -> Update \cup {NoUpdate}]
      /\ update'[u] = NoUpdate
      /\ \A v \in Users : v # u => update'[v] = update[v]
  BY <1>1, UpdateMoves DEF AnswerUpdate
<1>3. /\ ~Served(update'[u]) /\ ~Touched(update'[u])
      /\ \A v \in Users : Served(update'[v]) => v # u /\ update'[v] = update[v]
      /\ together' = together \ {u}
  BY <1>2, NotServedAtAll DEF AnswerUpdate, Touched
<1>4. MonitoringTypeOK'
  <2>1. serverState' \in {"up", "starting", "down"}
    BY <1>1 DEF AnswerUpdate, MonitoringTypeOK
  <2>2. monitoring' \in [Viewers -> {"closed", "ready", "working"}]
    BY <1>1 DEF AnswerUpdate, MonitoringTypeOK
  <2>3. lockFree' \in BOOLEAN
    BY <1>1 DEF AnswerUpdate, MonitoringTypeOK
  <2> QED BY <1>1, <1>2, <1>3, <2>1, <2>2, <2>3 DEF MonitoringTypeOK
<1>5. DataInv'
  <2>1. \A v \in Users : RealData(update[v])'
    BY <1>1, <1>2 DEF DataInv, RealData
  <2> QED BY <2>1 DEF DataInv
<1>6. UpdatesServed'
  <2>1. update'[Start].at # "sent" /\ update'[Start].monitor # "netdata"
    BY <1>1, <1>2 DEF UpdatesServed, Users, NoUpdate
  <2>2. ASSUME NEW v \in Users, Served(update'[v])
        PROVE  serverState' = IF v = Start THEN "starting" ELSE "up"
    <3>1. u # Start
      BY <1>1, <1>3, <2>2, MonitoringAssumption DEF UpdatesServed, Users
    <3> QED BY <3>1, <1>1, <1>3, <2>2 DEF UpdatesServed, AnswerUpdate
  <2>3. ASSUME NEW t \in Viewers, Served(update'[t]), monitoring'[t] = "working"
        PROVE  /\ ~lockFree'
               /\ \A v \in Viewers : Served(update'[v]) /\ monitoring'[v] = "working" => v = t
    <3>1. \A v \in Viewers : Served(update'[v]) /\ monitoring'[v] = "working" =>
                             v # u /\ Served(update[v]) /\ monitoring[v] = "working"
      BY <1>3 DEF AnswerUpdate, Users
    <3>2. ~lockFree /\ \A v \in Viewers : Served(update[v]) /\ monitoring[v] = "working" => v = t
      BY <1>1, <2>3, <3>1 DEF UpdatesServed
    <3> QED BY <2>3, <3>1, <3>2 DEF AnswerUpdate
  <2>4. ASSUME NEW v \in Users, NEW w \in Users, v # w,
               ServesGoAccess(update'[v]), ServesGoAccess(update'[w])
        PROVE  v \in together'
    BY <1>1, <1>3, <2>4 DEF UpdatesServed, ServesGoAccess
  <2> QED BY <2>1, <2>2, <2>3, <2>4 DEF UpdatesServed
<1>7. Stages'
  <2> SUFFICES ASSUME NEW v \in Users, v \notin together', update'[v].monitor = "goaccess", Served(update'[v])
               PROVE  StagesReached(update[v])'
    BY DEF Stages, StagesReached, Served
  <2>1. v # u /\ update'[v] = update[v] /\ v \notin together
    BY <1>3
  <2>2. StagesReached(update[v]) /\ ServesGoAccess(update[v])
    BY <1>1, <2>1 DEF Stages, ServesGoAccess
  <2>3. update[u].monitor # "goaccess"
    BY <1>1, <2>1, <2>2 DEF UpdatesServed, ServesGoAccess
  <2> QED BY <2>1, <2>2, <2>3 DEF StagesReached, GoAccessStays
<1>8. AppliedInv'
  <2>1. CASE update[u].monitor = "goaccess" /\ (serverState' = "up" /\ ~failed' => Applied')
    BY <2>1 DEF AppliedInv
  <2>2. CASE /\ u \in Viewers /\ ~Touched(update[u]) /\ failed' = failed
             /\ GoAccessStays /\ accessLogs' = accessLogs
    <3>1. \A v \in Users : Touched(update[v]) => Touched(update'[v])
      BY <2>2, <1>2
    <3>2. serverState' = serverState
      BY <2>2, MonitoringAssumption DEF AnswerUpdate
    <3> QED BY <2>2, <3>1, <3>2, <1>1 DEF AppliedInv, Applied, GoAccessStays
  <2> QED BY <2>1, <2>2
<1> QED BY <1>4, <1>5, <1>6, <1>7, <1>8 DEF MonitorsInv

ServedStages == {"admitted", "restored", "recorded", "scheduled", "removed", "created"}

\* The update that is served is one, with what it comes to.
LEMMA UpdateServed ==
    ASSUME MonitorsInv, NEW u \in Users, update[u].at \in ServedStages
    PROVE  /\ Served(update[u])
           /\ update[u] \in Update
           /\ RealData(update[u])
           /\ update[u].monitor = "goaccess" /\ u \notin together => StagesReached(update[u])
           /\ update[u].monitor \in {"netdata", "goaccess"}
<1>1. Served(update[u])
  BY DEF Served, ServedStages
<1>2. update[u] \in Update
  BY <1>1, RestIsNone, NotServedAtAll DEF MonitorsInv, MonitoringTypeOK
<1>3. RealData(update[u]) /\ (update[u].monitor = "goaccess" /\ u \notin together => StagesReached(update[u]))
  BY DEF MonitorsInv, DataInv, Stages
<1> QED BY <1>1, <1>2, <1>3, MonitoringAssumption DEF Update

\* A stage changes the record of the update and nothing else of it.
LEMMA StageOf ==
    ASSUME MonitorsInv, NEW u \in Users, update[u].at \in ServedStages,
           NEW stage \in ServedStages, UpdateGoes(u, stage)
    PROVE  \E x \in Update :
              /\ update' = [update EXCEPT ![u] = x]
              /\ x.at = stage
              /\ x.monitor = update[u].monitor /\ x.to = update[u].to /\ x.sent = update[u].sent
<1>1. PICK y \in Update : y = update[u]
  BY UpdateServed
<1>2. [y EXCEPT !.at = stage] \in Update
  BY DEF Update, ServedStages
<1>3. update' = [update EXCEPT ![u] = [y EXCEPT !.at = stage]]
  BY <1>1 DEF UpdateGoes
<1> QED BY <1>1, <1>2, <1>3 DEF Update

LEMMA RunsWithTyped ==
    ASSUME NEW to \in Info, to.data \in Settings
    PROVE  RunsWith(to) \in 0 .. MaxEdits + 1
BY MonitoringAssumption DEF RunsWith, Info, Settings

LEMMA SettingsAreReached ==
    ASSUME "goaccess" \in Monitors, MonitorsInv, NEW u \in Users,
           \/ setGoAccessInfo(u)
           \/ WriteCrontab(u)
    PROVE  MonitorsInv'
<1>0. MonitoringTypeOK
  BY DEF MonitorsInv
<1>1. CASE setGoAccessInfo(u)
  <2>1. update[u].at \in ServedStages
    BY <1>1 DEF setGoAccessInfo, ServedStages
  <2>2. PICK x \in Update : /\ update' = [update EXCEPT ![u] = x]
                            /\ x.at = "recorded"
                            /\ x.monitor = update[u].monitor /\ x.to = update[u].to
                            /\ x.sent = update[u].sent
    BY <1>1, <2>1, StageOf DEF setGoAccessInfo, ServedStages
  <2>3. x.monitor = "goaccess" /\ x.to \in Info /\ x.to.data \in Settings /\ x.sent.data \in Settings
    BY <1>1, <2>1, <2>2, UpdateServed, NotServedAtAll DEF RealData, setGoAccessInfo, Update
  <2>4. info' \in [Monitors -> [isEnabled : BOOLEAN, data : Settings]] /\ info'["goaccess"] = x.to
    <3>1. x.to \in [isEnabled : BOOLEAN, data : Settings]
      BY <2>3 DEF Info
    <3> QED BY <3>1, <1>0, <1>1, <2>2 DEF MonitoringTypeOK, setGoAccessInfo
  <2>5. Served(x) /\ RealData(x) /\ Touched(x) /\ StagesReached(x)'
    BY <2>2, <2>3, <2>4 DEF Served, RealData, Touched, StagesReached
  <2> QED BY <1>0, <1>1, <2>1, <2>2, <2>3, <2>4, <2>5, UpdateServed, StageIsReached
          DEF setGoAccessInfo, MonitoringTypeOK, dockerVars, goAccessHistory
<1>2. CASE WriteCrontab(u)
  <2>1. update[u].at \in ServedStages /\ update[u].at = "recorded"
    BY <1>2 DEF WriteCrontab, ServedStages
  <2>2. PICK x \in Update : /\ update' = [update EXCEPT ![u] = x]
                            /\ x.at = "scheduled"
                            /\ x.monitor = update[u].monitor /\ x.to = update[u].to
                            /\ x.sent = update[u].sent
    BY <1>2, <2>1, StageOf DEF WriteCrontab, ServedStages
  <2>3. x.monitor = "goaccess" /\ x.to \in Info /\ x.to.data \in Settings /\ x.sent.data \in Settings
    BY <1>2, <2>1, <2>2, UpdateServed, NotServedAtAll DEF RealData, WriteCrontab, Update
  <2>4. crontab' = x.to.data /\ (u \notin together => info'["goaccess"] = x.to)
    BY <1>2, <2>1, <2>2, <2>3, UpdateServed DEF StagesReached, WriteCrontab
  <2>5. Served(x) /\ RealData(x) /\ Touched(x) /\ (u \notin together => StagesReached(x)')
    BY <2>2, <2>3, <2>4 DEF Served, RealData, Touched, StagesReached
  <2> QED BY <1>0, <1>2, <2>1, <2>2, <2>3, <2>4, <2>5, UpdateServed, StageIsReached
          DEF WriteCrontab, MonitoringTypeOK, goAccessHistory
<1> QED BY <1>1, <1>2

LEMMA ContainerIsReplaced ==
    ASSUME "goaccess" \in Monitors, MonitorsInv, NEW u \in Users,
           \/ RemoveContainer(u)
           \/ CreateContainer(u)
    PROVE  MonitorsInv'
<1>0. MonitoringTypeOK
  BY DEF MonitorsInv
<1>1. update[u].at \in ServedStages \ {"admitted", "created", "recorded"}
  BY DEF RemoveContainer, CreateContainer, ServedStages
<1>2. PICK stage \in {"removed", "created"} :
        /\ UpdateGoes(u, stage)
        /\ stage = "created" => CreateContainer(u)
        /\ stage = "removed" => RemoveContainer(u)
  BY DEF RemoveContainer, CreateContainer
<1>3. PICK x \in Update : /\ update' = [update EXCEPT ![u] = x]
                          /\ x.at = stage
                          /\ x.monitor = update[u].monitor /\ x.to = update[u].to
                          /\ x.sent = update[u].sent
  BY <1>1, <1>2, StageOf DEF ServedStages
<1>4. x.to \in Info /\ x.to.data \in Settings /\ x.monitor \in Monitors
  BY <1>1, <1>3, UpdateServed, NotServedAtAll DEF RealData, Update, ServedStages
<1>5. PICK c \in 0 .. MaxEdits + 1 : /\ container' = [container EXCEPT ![x.monitor] = c]
                                     /\ stage = "created" => c = RunsWith(x.to)
  <2>1. RunsWith(x.to) \in 0 .. MaxEdits + 1 /\ 0 \in 0 .. MaxEdits + 1
    BY <1>4, RunsWithTyped, MonitoringAssumption
  <2> QED BY <2>1, <1>2, <1>3 DEF RemoveContainer, CreateContainer
<1>6. container' \in [Monitors -> 0 .. MaxEdits + 1]
  BY <1>0, <1>4, <1>5 DEF MonitoringTypeOK
<1>7. UNCHANGED <<info, crontab, accessLogs, serverState, monitoringPageVars, lockFree, together, failed>>
  BY DEF RemoveContainer, CreateContainer, goAccessHistory
<1>8. Served(x) /\ RealData(x)
  <2>1. x.monitor = "goaccess" => x.sent.data \in Settings
    BY <1>1, <1>3, UpdateServed, NotServedAtAll DEF RealData, ServedStages
  <2> QED BY <1>3, <1>4, <2>1 DEF Served, RealData
<1>9. x.monitor = "goaccess" => Touched(x) /\ (u \notin together => StagesReached(x)')
  <2> SUFFICES ASSUME x.monitor = "goaccess" PROVE Touched(x) /\ (u \notin together => StagesReached(x)')
    OBVIOUS
  <2>1. (u \notin together => StagesReached(update[u])) /\ update[u].at \in {"scheduled", "removed"}
    BY <1>1, <1>3, UpdateServed, NotServedAtAll DEF ServedStages, RealData
  <2>2. stage = "created" => container'["goaccess"] = RunsWith(x.to)
    BY <1>0, <1>5 DEF MonitoringTypeOK
  <2>3. u \notin together => info'["goaccess"] = x.to /\ crontab' = x.to.data
    BY <2>1, <1>3, <1>7 DEF StagesReached
  <2> QED BY <1>3, <2>2, <2>3 DEF Touched, StagesReached
<1>10. x.monitor # "goaccess" => GoAccessStays
  BY <1>0, <1>5, <1>7 DEF GoAccessStays, MonitoringTypeOK
<1> QED BY <1>0, <1>1, <1>3, <1>6, <1>7, <1>8, <1>9, <1>10, UpdateServed, StageIsReached
        DEF MonitoringTypeOK

LEMMA SecretIsRestored ==
    ASSUME "goaccess" \in Monitors, MonitorsInv, NEW t \in Viewers, RestoreSecrets(t)
    PROVE  MonitorsInv'
<1>0. MonitoringTypeOK /\ t \in Users
  BY DEF MonitorsInv, Users
<1>1. update[t].at \in ServedStages /\ update[t].monitor = "netdata"
  BY DEF RestoreSecrets, ServedStages
<1>2. PICK y \in Update : y = update[t]
  BY <1>0, <1>1, UpdateServed
<1>3. PICK d \in Settings : d = IF y.to.data = Mark THEN info["netdata"].data ELSE y.to.data
  BY <1>0, <1>1, <1>2, MonitoringAssumption DEF MonitoringTypeOK, Update, Info, Settings, Mark
<1>4. PICK x \in Update : /\ x = [y EXCEPT !.at = "restored", !.to.data = d]
                          /\ x.at = "restored" /\ x.monitor = "netdata" /\ x.to.data = d
  <2>1. [y.to EXCEPT !.data = d] \in Info
    BY <1>3, MonitoringAssumption DEF Update, Info, Settings, Mark
  <2>2. [y EXCEPT !.at = "restored", !.to.data = d] \in Update
    BY <2>1 DEF Update
  <2> QED BY <1>1, <1>2, <2>1, <2>2 DEF Update, Info
<1>5. update' = [update EXCEPT ![t] = x]
  BY <1>0, <1>2, <1>3, <1>4 DEF RestoreSecrets, MonitoringTypeOK
<1>6. Served(x) /\ RealData(x)
  BY <1>3, <1>4 DEF Served, RealData
<1> QED BY <1>0, <1>1, <1>4, <1>5, <1>6, UpdateServed, StageIsReached
        DEF RestoreSecrets, MonitoringTypeOK, dockerVars, goAccessHistory, GoAccessStays

LEMMA StartIsOfGoAccess ==
    ASSUME MonitorsInv, NEW u \in Users, update[u].at \in ServedStages,
           update[u].monitor # "goaccess"
    PROVE  u \in Viewers /\ ~Touched(update[u])
<1>1. update[u].monitor = "netdata"
  BY UpdateServed
<1> QED BY <1>1 DEF Users, Touched, MonitorsInv, UpdatesServed

LEMMA UpdateFailing ==
    ASSUME "goaccess" \in Monitors, MonitorsInv, NEW u \in Users,
           \/ RemovalFails(u)
           \/ CreationFails(u)
           \/ ReloadForGoAccessFails(u)
    PROVE  MonitorsInv'
<1>0. MonitoringTypeOK /\ DataInv
  BY DEF MonitorsInv
<1>1. update[u].at \in ServedStages
  BY DEF RemovalFails, CreationFails, ReloadForGoAccessFails, ServedStages
<1>2. UpdateFails(u)
  BY DEF RemovalFails, CreationFails, ReloadForGoAccessFails
<1>3. /\ container' \in [Monitors -> 0 .. MaxEdits + 1]
      /\ update[u].monitor = "netdata" => container'["goaccess"] = container["goaccess"]
  <2>1. CASE RemovalFails(u)
    <3>1. PICK c \in {0, container[update[u].monitor]} :
             container' = [container EXCEPT ![update[u].monitor] = c]
      BY <2>1 DEF RemovalFails
    <3>2. update[u].monitor \in Monitors
      BY <1>1, UpdateServed DEF Update
    <3>3. container \in [Monitors -> 0 .. MaxEdits + 1]
      BY <1>0 DEF MonitoringTypeOK
    <3>4. container[update[u].monitor] \in 0 .. MaxEdits + 1
      BY <3>2, <3>3
    <3>5. 0 \in 0 .. MaxEdits + 1
      BY MonitoringAssumption
    <3>6. c \in 0 .. MaxEdits + 1
      BY <3>1, <3>4, <3>5
    <3>7. container' \in [Monitors -> 0 .. MaxEdits + 1]
      BY <3>1, <3>6, <3>3
    <3>8. update[u].monitor = "netdata" => container'["goaccess"] = container["goaccess"]
      BY <3>1, <3>3
    <3> QED BY <3>7, <3>8
  <2>2. CASE CreationFails(u) \/ ReloadForGoAccessFails(u)
    BY <1>0, <2>2 DEF CreationFails, ReloadForGoAccessFails, MonitoringTypeOK
  <2> QED BY <2>1, <2>2
<1>4. \/ /\ u \in Viewers /\ ~Touched(update[u]) /\ failed' = failed
         /\ GoAccessStays /\ accessLogs' = accessLogs
      \/ /\ update[u].monitor = "goaccess"
         /\ serverState' = "up" /\ ~failed' => Applied'
  <2>1. CASE update[u].monitor = "goaccess"
    BY <2>1, <1>2 DEF UpdateFails
  <2>2. CASE update[u].monitor # "goaccess"
    <3>1. u \in Viewers /\ ~Touched(update[u]) /\ update[u].monitor = "netdata"
      BY <1>1, <2>2, StartIsOfGoAccess, UpdateServed
    <3>2. failed' = failed /\ UNCHANGED <<info, crontab, accessLogs>>
      BY <1>0, <2>2, <1>2 DEF UpdateFails, MonitoringTypeOK
    <3> QED BY <1>3, <3>1, <3>2 DEF GoAccessStays
  <2> QED BY <2>1, <2>2
<1>5. failed' \in BOOLEAN
  BY <1>0, <1>2 DEF UpdateFails, MonitoringTypeOK
<1> QED BY <1>0, <1>1, <1>2, <1>3, <1>4, <1>5, UpdateServed, UpdateEnds
        DEF UpdateFails, MonitoringTypeOK, DataInv

LEMMA SavedIsShown ==
    ASSUME "goaccess" \in Monitors, MonitorsInv, NEW u \in Users,
           update[u].at \in ServedStages, ShowSaved(u)
    PROVE  /\ current' \in [Viewers -> [Monitors -> Info]]
           /\ \A t \in Viewers : current'[t]["goaccess"].data \in Settings
<1>1. PICK y \in Update : y = update[u] /\ y \in Update /\ (y.monitor = "goaccess" => y.sent.data \in Settings)
  BY UpdateServed, NotServedAtAll DEF RealData
<1>2. y.sent \in Info /\ y.monitor \in Monitors
  BY <1>1 DEF Update
<1>3. \A t \in Viewers : /\ current[t] \in [Monitors -> Info]
                         /\ current[t]["goaccess"].data \in Settings
  BY DEF MonitorsInv, MonitoringTypeOK, DataInv
<1>4. \A t \in Viewers : /\ [current[t] EXCEPT ![y.monitor] = y.sent] \in [Monitors -> Info]
                         /\ [current[t] EXCEPT ![y.monitor] = y.sent]["goaccess"].data \in Settings
  BY <1>1, <1>2, <1>3
<1>5. \A t \in Viewers : current'[t] \in {current[t], [current[t] EXCEPT ![y.monitor] = y.sent]}
  BY <1>1 DEF ShowSaved
<1>6. current' = [t \in Viewers |-> current'[t]]
  BY DEF ShowSaved
<1>7. \A t \in Viewers : /\ current'[t] \in [Monitors -> Info]
                         /\ current'[t]["goaccess"].data \in Settings
  BY <1>3, <1>4, <1>5
<1> QED BY <1>6, <1>7

LEMMA UpdateIsDone ==
    ASSUME "goaccess" \in Monitors, MonitorsInv, NEW u \in Users,
           \/ u \in Viewers /\ RejectUpdate(u)
           \/ u \in Viewers /\ setNetDataInfo(u)
           \/ ReloadForGoAccess(u)
    PROVE  MonitorsInv'
<1>0. MonitoringTypeOK /\ DataInv
  BY DEF MonitorsInv
<1>1. update[u].at \in ServedStages
  BY DEF RejectUpdate, setNetDataInfo, ReloadForGoAccess, ServedStages
<1>2. CASE u \in Viewers /\ RejectUpdate(u)
  <2>1. ~Touched(update[u])
    BY <1>2 DEF RejectUpdate, Touched
  <2> QED BY <1>0, <1>1, <1>2, <2>1, UpdateServed, UpdateEnds
          DEF RejectUpdate, MonitoringTypeOK, DataInv, dockerVars, GoAccessStays
<1>3. CASE u \in Viewers /\ setNetDataInfo(u)
  <2>1. ~Touched(update[u])
    BY <1>3 DEF setNetDataInfo, Touched
  <2>3. PICK y \in Info : y = update[u].to /\ y.data \in Settings
    BY <1>1, <1>3, UpdateServed, NotServedAtAll DEF setNetDataInfo, RealData, Update
  <2>4. /\ info' \in [Monitors -> [isEnabled : BOOLEAN, data : Settings]]
        /\ info'["goaccess"] = info["goaccess"]
    <3>1. y \in [isEnabled : BOOLEAN, data : Settings]
      BY <2>3 DEF Info
    <3> QED BY <3>1, <2>3, <1>0, <1>3 DEF setNetDataInfo, MonitoringTypeOK
  <2>5. /\ current' \in [Viewers -> [Monitors -> Info]]
        /\ \A t \in Viewers : current'[t]["goaccess"].data \in Settings
    BY <1>1, <1>3, SavedIsShown DEF setNetDataInfo
  <2> QED BY <1>0, <1>1, <1>3, <2>1, <2>4, <2>5, UpdateServed, UpdateEnds
          DEF setNetDataInfo, MonitoringTypeOK, dockerVars, GoAccessStays
<1>4. CASE ReloadForGoAccess(u)
  <2>1. (u \notin together => StagesReached(update[u])) /\ update[u].at = "created"
    BY <1>1, <1>4, UpdateServed DEF ReloadForGoAccess
  <2>2. ~failed' => Applied'
    BY <1>0, <1>4, <2>1 DEF ReloadForGoAccess, StagesReached, Applied
  <2>3. /\ current' \in [Viewers -> [Monitors -> Info]]
        /\ \A t \in Viewers : current'[t]["goaccess"].data \in Settings
    BY <1>1, <1>4, SavedIsShown DEF ReloadForGoAccess
  <2>4. accessLogs' \in BOOLEAN /\ failed' \in BOOLEAN
    BY <1>0, <1>4 DEF ReloadForGoAccess, MonitoringTypeOK
  <2> QED BY <1>0, <1>1, <1>4, <2>2, <2>3, <2>4, UpdateServed, UpdateEnds
          DEF ReloadForGoAccess, MonitoringTypeOK
<1> QED BY <1>2, <1>3, <1>4

\* A tab does something by itself: no update that is served is concerned, but
\* the lock is let go when a tab is left that holds it.
LEMMA PageActs ==
    ASSUME "goaccess" \in Monitors, MonitorsInv, NEW t \in Viewers,
           UNCHANGED <<info, dockerVars, serverState, together, failed>>,
           NEW x \in Update \cup {NoUpdate},
           update' = [update EXCEPT ![t] = x],
           NEW page \in {"closed", "ready", "working"},
           monitoring' = [monitoring EXCEPT ![t] = page],
           Served(update[t]) => x = update[t],
           Served(x) => x = update[t],
           lockFree' \in BOOLEAN,
           \/ lockFree' = lockFree
           \/ page # "working" /\ lockFree' = (lockFree \/ (monitoring[t] = "working" /\ Served(update[t]))),
           Served(x) /\ page = "working" => monitoring[t] = "working",
           RealData(x),
           current' \in [Viewers -> [Monitors -> Info]],
           \A v \in Viewers : current'[v]["goaccess"].data \in Settings,
           edits' \in Settings
    PROVE  MonitorsInv'
<1> USE DEF dockerVars
<1>1. MonitoringTypeOK /\ DataInv /\ UpdatesServed /\ Stages /\ AppliedInv /\ t \in Users
  BY DEF MonitorsInv, Users
<1>2. /\ update' \in [Users -> Update \cup {NoUpdate}]
      /\ update'[t] = x
      /\ \A v \in Users : v # t => update'[v] = update[v]
  BY <1>1, UpdateMoves
<1>3. \A v \in Users : /\ update'[v] = update[v] \/ (~Served(update'[v]) /\ ~Served(update[v]))
                       /\ update[v] \in Update \cup {NoUpdate}
                       /\ update'[v] \in Update \cup {NoUpdate}
  BY <1>1, <1>2 DEF MonitoringTypeOK
<1>4. MonitoringTypeOK'
  BY <1>1, <1>2 DEF MonitoringTypeOK
<1>5. DataInv'
  <2>1. \A v \in Users : RealData(update[v])'
    BY <1>1, <1>2 DEF DataInv, RealData
  <2> QED BY <2>1 DEF DataInv
<1>6. UpdatesServed'
  <2>1. update'[Start].at # "sent" /\ update'[Start].monitor # "netdata"
    BY <1>1, <1>2, MonitoringAssumption DEF UpdatesServed, Users
  <2>2. \A v \in Users : Served(update'[v]) => Served(update[v]) /\ update'[v] = update[v]
    BY <1>3
  <2>3. \A v \in Viewers : v # t => monitoring'[v] = monitoring[v]
    BY <1>1 DEF MonitoringTypeOK
  <2>4. monitoring'[t] = page
    BY <1>1 DEF MonitoringTypeOK
  <2>5. \A v \in Viewers : Served(update'[v]) /\ monitoring'[v] = "working" =>
                           Served(update[v]) /\ monitoring[v] = "working"
    BY <1>2, <2>2, <2>3, <2>4 DEF Users
  <2>6. ASSUME NEW v \in Viewers, Served(update'[v]), monitoring'[v] = "working"
        PROVE  /\ ~lockFree'
               /\ \A w \in Viewers : Served(update'[w]) /\ monitoring'[w] = "working" => w = v
    <3>1. /\ ~lockFree
          /\ \A w \in Viewers : Served(update[w]) /\ monitoring[w] = "working" => w = v
      BY <1>1, <2>5, <2>6 DEF UpdatesServed
    <3>2. ~lockFree'
      BY <2>4, <2>6, <3>1
    <3> QED BY <2>5, <3>1, <3>2
  <2>7. \A v \in Users : Served(update'[v]) => serverState' = IF v = Start THEN "starting" ELSE "up"
    BY <1>1, <2>2 DEF UpdatesServed
  <2>8. \A v, w \in Users : ServesGoAccess(update'[v]) /\ ServesGoAccess(update'[w]) /\ v # w => v \in together'
    BY <1>1, <2>2 DEF UpdatesServed, ServesGoAccess
  <2> QED BY <2>1, <2>6, <2>7, <2>8 DEF UpdatesServed
<1>7. Stages'
  <2> SUFFICES ASSUME NEW v \in Users, v \notin together, update'[v].monitor = "goaccess"
               PROVE  StagesReached(update[v])'
    BY DEF Stages
  <2>1. CASE update'[v] = update[v]
    BY <2>1, <1>1 DEF Stages, StagesReached
  <2>2. CASE ~Served(update'[v])
    BY <2>2 DEF StagesReached, Served
  <2> QED BY <2>1, <2>2, <1>3
<1>8. AppliedInv'
  <2>1. \A v \in Users : Touched(update[v]) => Touched(update'[v])
    BY <1>3, RestIsNone
  <2> QED BY <2>1, <1>1 DEF AppliedInv, Applied
<1> QED BY <1>4, <1>5, <1>6, <1>7, <1>8 DEF MonitorsInv

\* What a page is shown is typed, and without the mark for GoAccess.
LEMMA PageLoads ==
    ASSUME "goaccess" \in Monitors, MonitorsInv, NEW t \in Viewers,
           LoadMonitoring(t) \/ LeaveMonitoring(t) \/ RefuseUpdate(t)
    PROVE  MonitorsInv'
<1>0. MonitoringTypeOK /\ DataInv /\ t \in Users /\ update[t] \in Update \cup {NoUpdate} /\ RealData(update[t])
  BY DEF MonitorsInv, Users, MonitoringTypeOK, DataInv
<1>1. PICK x \in Update \cup {NoUpdate} : x = update[t] /\ RealData(x)
  BY <1>0
<1>3. CASE LoadMonitoring(t)
  <2>1. \A m \in Monitors : Disclosed(m) \in Info
    <3>1. /\ Off \in Info
          /\ \A m \in Monitors : info[m] \in [isEnabled : BOOLEAN, data : Settings]
          /\ 0 \in 0 .. Mark /\ Mark \in 0 .. Mark /\ Settings \subseteq 0 .. Mark
      BY <1>0, MonitoringAssumption DEF MonitoringTypeOK, Info, Settings, Off, Mark
    <3>2. \A m \in Monitors : info[m] \in Info
      BY <3>1 DEF Info
    <3>3. getGoAccessInfo \in Info
      BY <3>1, <3>2 DEF getGoAccessInfo
    <3>4. "netdata" \in Monitors => Redacted \in Info
      BY <3>1, <3>2 DEF Redacted, Info
    <3> QED BY <3>3, <3>4, MonitoringAssumption DEF Disclosed
  <2>2. Disclosed("goaccess").data \in Settings
    BY <1>0, MonitoringAssumption DEF Disclosed, getGoAccessInfo, Off, MonitoringTypeOK, Settings
  <2>3. PICK seen \in [Monitors -> Info] : seen = [m \in Monitors |-> Disclosed(m)]
    BY <2>1
  <2>4. seen["goaccess"].data \in Settings
    BY <2>2, <2>3
  <2>5. current' = [current EXCEPT ![t] = seen]
    BY <1>3, <2>3 DEF LoadMonitoring
  <2>6. /\ current' \in [Viewers -> [Monitors -> Info]]
        /\ \A v \in Viewers : current'[v]["goaccess"].data \in Settings
    BY <1>0, <2>4, <2>5 DEF MonitoringTypeOK, DataInv
  <2>7. PICK page \in {"closed", "ready", "working"} :
           page = IF monitoring[t] = "closed" THEN "ready" ELSE monitoring[t]
    BY <1>0 DEF MonitoringTypeOK
  <2>8. monitoring' = [monitoring EXCEPT ![t] = page]
    BY <1>3, <2>7 DEF LoadMonitoring
  <2>9. update' = [update EXCEPT ![t] = x]
    BY <1>0, <1>1, <1>3 DEF LoadMonitoring, MonitoringTypeOK
  <2> QED BY <1>0, <1>1, <1>3, <2>6, <2>7, <2>8, <2>9, PageActs
          DEF LoadMonitoring, MonitoringTypeOK, goAccessHistory
<1>4. CASE LeaveMonitoring(t)
  <2>1. /\ lockFree' = (lockFree \/ (monitoring[t] = "working" /\ Served(update[t])))
        /\ lockFree' \in BOOLEAN
    BY <1>0, <1>4 DEF LeaveMonitoring, UnderWay, Served, MonitoringTypeOK
  <2>2. Off \in Info /\ Off.data \in Settings
    BY MonitoringAssumption DEF Off, Info, Mark, Settings
  <2>3. /\ current' \in [Viewers -> [Monitors -> Info]]
        /\ \A v \in Viewers : current'[v]["goaccess"].data \in Settings
    BY <1>0, <1>4, <2>2 DEF MonitoringTypeOK, DataInv, LeaveMonitoring
  <2>4. update' = [update EXCEPT ![t] = x]
    BY <1>0, <1>1, <1>4 DEF LeaveMonitoring, MonitoringTypeOK
  <2> QED BY <1>0, <1>1, <1>4, <2>1, <2>3, <2>4, PageActs
          DEF LeaveMonitoring, MonitoringTypeOK, goAccessHistory
<1>5. CASE RefuseUpdate(t)
  <2>1. ~Served(update[t])
    BY <1>5 DEF RefuseUpdate, Served
  <2>2. PICK page \in {"closed", "ready", "working"} :
           page = IF monitoring[t] = "working" THEN "ready" ELSE monitoring[t]
    BY <1>0 DEF MonitoringTypeOK
  <2>3. monitoring' = [monitoring EXCEPT ![t] = page]
    BY <1>5, <2>2 DEF RefuseUpdate
  <2> QED BY <1>0, <1>5, <2>1, <2>2, <2>3, NotServedAtAll, PageActs
          DEF RefuseUpdate, MonitoringTypeOK, DataInv, RealData, goAccessHistory
<1> QED BY <1>3, <1>4, <1>5

LEMMA PageSends ==
    ASSUME "goaccess" \in Monitors, MonitorsInv, NEW t \in Viewers, NEW m \in Monitors,
           saveSettings(t, m) \/ toggle(t, m)
    PROVE  MonitorsInv'
<1>0. MonitoringTypeOK /\ DataInv
  BY DEF MonitorsInv
<1>1. /\ current[t][m] \in Info
      /\ m = "goaccess" => current[t][m].data \in Settings
  BY <1>0 DEF MonitoringTypeOK, DataInv
<1>2. \E to \in Info :
        /\ SendUpdate(t, m, to)
        /\ m = "goaccess" => to.data \in Settings
        /\ current' \in {current, [current EXCEPT ![t][m] = to]}
        /\ edits' \in Settings
  <2>1. PICK y \in Info : y = current[t][m]
    BY <1>1
  <2>2. edits \in Settings
    BY <1>0 DEF MonitoringTypeOK
  <2>3. CASE SendUpdate(t, m, y) /\ UNCHANGED edits /\ UNCHANGED current
    BY <2>3, <2>1, <2>2, <1>1
  <2>4. CASE /\ edits < MaxEdits
             /\ edits' = edits + 1
             /\ SendUpdate(t, m, [current[t][m] EXCEPT !.data = edits + 1])
             /\ UNCHANGED current
    <3>1. PICK z \in Info : z = [y EXCEPT !.data = edits + 1] /\ z.data \in Settings
      <4>1. edits + 1 \in Settings /\ edits + 1 \in 0 .. Mark
        BY <2>2, <2>4, MonitoringAssumption DEF Settings, Mark
      <4>2. [y EXCEPT !.data = edits + 1] \in Info
        BY <4>1 DEF Info
      <4> QED BY <4>1, <4>2 DEF Info
    <3>2. SendUpdate(t, m, z)
      BY <2>1, <2>4, <3>1
    <3>3. edits' \in Settings
      BY <2>2, <2>4, MonitoringAssumption DEF Settings
    <3> QED BY <2>4, <3>1, <3>2, <3>3
  <2>5. CASE toggle(t, m)
    <3>1. PICK z \in Info : z = [y EXCEPT !.isEnabled = ~y.isEnabled] /\ z.data = y.data
      <4>1. [y EXCEPT !.isEnabled = ~y.isEnabled] \in Info
        BY DEF Info
      <4>2. [y EXCEPT !.isEnabled = ~y.isEnabled].data = y.data
        BY DEF Info
      <4> QED BY <4>1, <4>2
    <3>2. SendUpdate(t, m, z) /\ current' = [current EXCEPT ![t][m] = z] /\ UNCHANGED edits
      BY <2>1, <2>5, <3>1 DEF toggle
    <3> QED BY <1>1, <2>1, <2>2, <3>1, <3>2
  <2> QED BY <2>1, <2>3, <2>4, <2>5 DEF saveSettings
<1>3. PICK to \in Info :
        /\ SendUpdate(t, m, to)
        /\ m = "goaccess" => to.data \in Settings
        /\ current' \in {current, [current EXCEPT ![t][m] = to]}
        /\ edits' \in Settings
  BY <1>2
<1>4. PICK x \in Update : x = [monitor |-> m, sent |-> to, to |-> to, at |-> "sent"]
  BY DEF Update
<1>5. ~Served(x) /\ RealData(x)
  BY <1>3, <1>4 DEF Served, RealData
<1>6. ~Served(update[t])
  BY <1>3, NotServedAtAll DEF SendUpdate
<1>7. /\ current' \in [Viewers -> [Monitors -> Info]]
      /\ \A v \in Viewers : current'[v]["goaccess"].data \in Settings
  <2>1. CASE current' = current
    BY <2>1, <1>0 DEF MonitoringTypeOK, DataInv
  <2>2. CASE current' = [current EXCEPT ![t][m] = to]
    <3>1. current \in [Viewers -> [Monitors -> Info]]
      BY <1>0 DEF MonitoringTypeOK
    <3>2. PICK seen \in [Monitors -> Info] : seen = [current[t] EXCEPT ![m] = to]
      BY <3>1
    <3>3. current' = [current EXCEPT ![t] = seen]
      BY <2>2, <3>2
    <3>4. seen["goaccess"].data \in Settings
      BY <1>0, <1>3, <3>1, <3>2 DEF DataInv
    <3> QED BY <1>0, <3>1, <3>3, <3>4 DEF DataInv
  <2> QED BY <2>1, <2>2, <1>3
<1> QED BY <1>0, <1>3, <1>4, <1>5, <1>6, <1>7, PageActs DEF SendUpdate, goAccessHistory, MonitoringTypeOK

LEMMA UpdateIsAdmitted ==
    ASSUME "goaccess" \in Monitors, MonitorsInv, NEW t \in Viewers, AdmitUpdate(t)
    PROVE  MonitorsInv'
<1> USE DEF dockerVars, monitoringPageVars
<1>1. MonitoringTypeOK /\ DataInv /\ UpdatesServed /\ Stages /\ AppliedInv /\ t \in Users /\ t # Start
  BY MonitoringAssumption DEF MonitorsInv, Users
<1>2. PICK y \in Update : y = update[t] /\ y.at = "sent" /\ RealData(y)
  BY <1>1, RestIsNone, NotServedAtAll DEF AdmitUpdate, MonitoringTypeOK, DataInv
<1>3. lockFree' = (monitoring[t] # "working") /\ lockFree /\ serverState = "up"
  BY DEF AdmitUpdate
<1>4. PICK x \in Update : x = [y EXCEPT !.at = "admitted"] /\ x.at = "admitted" /\ x.monitor = y.monitor
                          /\ x.to = y.to /\ x.sent = y.sent
  <2>1. [y EXCEPT !.at = "admitted"] \in Update
    BY DEF Update
  <2> QED BY <2>1 DEF Update
<1>5. /\ update' \in [Users -> Update \cup {NoUpdate}]
      /\ update'[t] = x
      /\ \A v \in Users : v # t => update'[v] = update[v]
  <2>1. update' = [update EXCEPT ![t] = x]
    BY <1>1, <1>2, <1>4 DEF AdmitUpdate, UpdateGoes
  <2> QED BY <2>1, <1>1, UpdateMoves
<1>6. /\ \A v \in Users : Served(update[v]) => v \in Viewers /\ v # t /\ monitoring[v] # "working"
      /\ \A v \in Users : ServesGoAccess(update[v]) => v \in LeftUpdates
  <2>1. \A v \in Users : Served(update[v]) => v \in Viewers /\ v # t /\ monitoring[v] # "working"
    BY <1>1, <1>2, <1>3, MonitoringAssumption DEF UpdatesServed, Served, Users
  <2> QED BY <2>1 DEF ServesGoAccess, Served, LeftUpdates, UnderWay
<1>12. /\ together \subseteq together' /\ together' \subseteq Viewers /\ failed' \in BOOLEAN
       /\ ~failed' => ~failed
       /\ y.monitor = "goaccess" /\ LeftUpdates # {} => LeftUpdates \cup {t} \subseteq together'
  BY <1>1, <1>2 DEF AdmitUpdate, goAccessHistory, LeftUpdates, MonitoringTypeOK
<1>7. MonitoringTypeOK'
  BY <1>1, <1>3, <1>5, <1>12 DEF MonitoringTypeOK, AdmitUpdate
<1>8. DataInv'
  <2>1. RealData(x)
    BY <1>2, <1>4, NotServedAtAll DEF RealData
  <2>2. \A v \in Users : RealData(update[v])'
    BY <1>1, <1>5, <2>1 DEF DataInv, RealData
  <2> QED BY <2>2, <1>1 DEF DataInv, AdmitUpdate
<1>9. UpdatesServed'
  <2>1. update'[Start].at # "sent" /\ update'[Start].monitor # "netdata"
    BY <1>1, <1>5 DEF UpdatesServed, Users
  <2>2. \A v \in Users : Served(update'[v]) => v = t \/ (Served(update[v]) /\ v # t)
    BY <1>5
  <2>3. \A v \in Users : Served(update'[v]) => serverState' = IF v = Start THEN "starting" ELSE "up"
    BY <1>1, <1>3, <1>6, <2>2, MonitoringAssumption DEF AdmitUpdate
  <2>4. \A v \in Viewers : Served(update'[v]) /\ monitoring'[v] = "working" => v = t /\ ~lockFree'
    BY <1>3, <1>6, <2>2 DEF AdmitUpdate, Users
  <2>5. ASSUME NEW v \in Users, NEW w \in Users, v # w,
               ServesGoAccess(update'[v]), ServesGoAccess(update'[w])
        PROVE  v \in together'
    <3>1. \A z \in Users : ServesGoAccess(update'[z]) => z = t \/ z \in LeftUpdates
      BY <1>5, <1>6
    <3>2. t \in {v, w} => y.monitor = "goaccess"
      BY <1>4, <1>5, <2>5 DEF ServesGoAccess
    <3>3. CASE t \in {v, w}
      BY <1>12, <2>5, <3>1, <3>2, <3>3
    <3>4. CASE t \notin {v, w}
      BY <1>1, <1>5, <1>12, <2>5, <3>4 DEF UpdatesServed
    <3> QED BY <3>3, <3>4
  <2> QED BY <2>1, <2>3, <2>4, <2>5 DEF UpdatesServed
<1>10. Stages'
  <2> SUFFICES ASSUME NEW v \in Users, v \notin together', update'[v].monitor = "goaccess"
               PROVE  StagesReached(update[v])'
    BY DEF Stages
  <2>1. CASE v = t
    BY <1>4, <1>5, <2>1 DEF StagesReached
  <2>2. CASE v # t
    <3>1. v \notin together /\ update'[v] = update[v]
      BY <1>5, <1>12, <2>2
    <3> QED BY <1>1, <3>1 DEF Stages, StagesReached, AdmitUpdate
  <2> QED BY <2>1, <2>2
<1>11. AppliedInv'
  <2>1. \A v \in Users : Touched(update[v]) => Touched(update'[v])
    BY <1>2, <1>5 DEF Touched
  <2> QED BY <2>1, <1>1, <1>12 DEF AppliedInv, Applied, AdmitUpdate
<1> QED BY <1>7, <1>8, <1>9, <1>10, <1>11 DEF MonitorsInv

LEMMA ServerEndsOrStarts ==
    ASSUME "goaccess" \in Monitors, MonitorsInv, OtherReload \/ CaptainEnds \/ StartAgain
    PROVE  MonitorsInv'
<1> USE DEF dockerVars, monitoringPageVars
<1>1. MonitoringTypeOK /\ DataInv /\ UpdatesServed /\ Stages /\ AppliedInv
  BY DEF MonitorsInv
<1>2. CASE OtherReload
  <2>1. MonitoringTypeOK'
    BY <1>1, <1>2 DEF OtherReload, MonitoringTypeOK, goAccessHistory
  <2>2. DataInv' /\ UpdatesServed'
    BY <1>1, <1>2 DEF OtherReload, DataInv, UpdatesServed, goAccessHistory
  <2>3. Stages'
    BY <1>1, <1>2 DEF OtherReload, Stages, StagesReached, goAccessHistory
  <2>4. AppliedInv'
    BY <1>1, <1>2 DEF OtherReload, AppliedInv, Applied, goAccessHistory
  <2> QED BY <2>1, <2>2, <2>3, <2>4 DEF MonitorsInv
<1>3. CASE CaptainEnds
  <2>1. \A v \in Users : /\ update'[v] \in {update[v], NoUpdate}
                         /\ ~Served(update'[v])
    BY <1>3, NotServedAtAll DEF CaptainEnds, Served
  <2>2. update' \in [Users -> Update \cup {NoUpdate}]
    <3>1. update' = [v \in Users |-> update'[v]]
      BY <1>3 DEF CaptainEnds
    <3>2. \A v \in Users : update'[v] \in Update \cup {NoUpdate}
      BY <1>1, <2>1 DEF MonitoringTypeOK
    <3> QED BY <3>1, <3>2
  <2>3. MonitoringTypeOK'
    BY <1>1, <1>3, <2>2 DEF CaptainEnds, MonitoringTypeOK
  <2>4. DataInv'
    <3>1. \A v \in Users : RealData(update[v])'
      BY <1>1, <2>1 DEF DataInv, RealData
    <3> QED BY <3>1, <1>1, <1>3 DEF DataInv, CaptainEnds
  <2>5. UpdatesServed'
    <3>1. update'[Start].at # "sent" /\ update'[Start].monitor # "netdata"
      BY <1>1, <2>1 DEF UpdatesServed, Users, NoUpdate
    <3> QED BY <3>1, <2>1 DEF UpdatesServed, ServesGoAccess, Users
  <2>6. Stages' /\ AppliedInv'
    BY <1>3, <2>1 DEF Stages, StagesReached, Served, AppliedInv, CaptainEnds
  <2> QED BY <2>3, <2>4, <2>5, <2>6 DEF MonitorsInv
<1>4. CASE StartAgain
  <2>1. PICK y \in Info : y = getGoAccessInfo /\ y.data \in Settings
    <3>1. Off \in [isEnabled : BOOLEAN, data : Settings]
      BY MonitoringAssumption DEF Off, Settings
    <3>2. getGoAccessInfo \in [isEnabled : BOOLEAN, data : Settings]
      BY <1>1, <3>1 DEF MonitoringTypeOK, getGoAccessInfo
    <3>3. Settings \subseteq 0 .. Mark
      BY MonitoringAssumption DEF Settings, Mark
    <3> QED BY <3>2, <3>3 DEF Info
  <2>2. PICK x \in Update : x = [monitor |-> "goaccess", sent |-> y, to |-> y, at |-> "admitted"]
    BY <2>1 DEF Update
  <2>3. Start \in Users /\ update' = [update EXCEPT ![Start] = x]
    BY <1>4, <2>1, <2>2 DEF StartAgain, Users
  <2>4. /\ update' \in [Users -> Update \cup {NoUpdate}]
        /\ update'[Start] = x
        /\ \A v \in Users : v # Start => update'[v] = update[v]
    BY <1>1, <2>3, UpdateMoves
  <2>5. \A v \in Users : ~Served(update[v])
    BY <1>1, <1>4 DEF StartAgain, UpdatesServed
  <2>6. MonitoringTypeOK'
    BY <1>1, <1>4, <2>4 DEF StartAgain, MonitoringTypeOK, goAccessHistory
  <2>7. DataInv'
    <3>1. RealData(x)
      BY <2>1, <2>2 DEF RealData
    <3>2. \A v \in Users : RealData(update[v])'
      BY <1>1, <2>4, <3>1 DEF DataInv, RealData
    <3> QED BY <3>2, <1>1, <1>4 DEF DataInv, StartAgain
  <2>8. UpdatesServed'
    <3>1. \A v \in Users : Served(update'[v]) => v = Start
      BY <2>4, <2>5
    <3> QED BY <1>4, <2>2, <2>4, <3>1, MonitoringAssumption
            DEF UpdatesServed, StartAgain, ServesGoAccess, Users
  <2>9. Stages'
    <3> SUFFICES ASSUME NEW v \in Users PROVE StagesReached(update[v])'
      BY DEF Stages
    <3> QED BY <2>2, <2>4, <2>5 DEF StagesReached, Served
  <2>10. AppliedInv'
    BY <1>4 DEF AppliedInv, StartAgain
  <2> QED BY <2>6, <2>7, <2>8, <2>9, <2>10 DEF MonitorsInv
<1> QED BY <1>2, <1>3, <1>4

LEMMA MonitorsInvHolds ==
    ASSUME "goaccess" \in Monitors
    PROVE  MonitoringSpec => []MonitorsInv
<1>1. MonitoringInit => MonitorsInv
  <2> SUFFICES ASSUME MonitoringInit PROVE MonitorsInv
    OBVIOUS
  <2> USE DEF MonitoringInit
  <2>1. Off \in Info /\ Off \in [isEnabled : BOOLEAN, data : Settings] /\ Off.data = 0 /\ ~Off.isEnabled
    BY MonitoringAssumption DEF Off, Info, Mark, Settings
  <2>2. 0 \in Settings /\ 0 \in 0 .. MaxEdits + 1
    BY MonitoringAssumption DEF Settings
  <2>3. MonitoringTypeOK
    BY <2>1, <2>2 DEF MonitoringTypeOK
  <2>4. DataInv
    BY <2>1, <2>2 DEF DataInv, RealData
  <2>5. UpdatesServed
    BY NotServedAtAll DEF UpdatesServed, ServesGoAccess, Users, NoUpdate
  <2>6. Stages
    BY NotServedAtAll DEF Stages
  <2>7. AppliedInv
    BY <2>1 DEF AppliedInv, Applied, RunsWith
  <2> QED BY <2>3, <2>4, <2>5, <2>6, <2>7 DEF MonitorsInv
<1>2. MonitorsInv /\ [MonitoringNext]_monitoringVars => MonitorsInv'
  <2> SUFFICES ASSUME MonitorsInv, [MonitoringNext]_monitoringVars PROVE MonitorsInv'
    OBVIOUS
  <2>1. ASSUME NEW t \in Viewers,
               LoadMonitoring(t) \/ LeaveMonitoring(t) \/ RefuseUpdate(t)
        PROVE  MonitorsInv'
    BY <2>1, PageLoads
  <2>2. ASSUME NEW t \in Viewers, NEW m \in Monitors, saveSettings(t, m) \/ toggle(t, m)
        PROVE  MonitorsInv'
    BY <2>2, PageSends
  <2>3. ASSUME NEW t \in Viewers, AdmitUpdate(t)
        PROVE  MonitorsInv'
    BY <2>3, UpdateIsAdmitted
  <2>4. ASSUME NEW t \in Viewers, RestoreSecrets(t)
        PROVE  MonitorsInv'
    BY <2>4, SecretIsRestored
  <2>5. ASSUME NEW t \in Viewers, RejectUpdate(t) \/ setNetDataInfo(t)
        PROVE  MonitorsInv'
    BY <2>5, UpdateIsDone DEF Users
  <2>6. ASSUME NEW u \in Users, setGoAccessInfo(u) \/ WriteCrontab(u)
        PROVE  MonitorsInv'
    BY <2>6, SettingsAreReached
  <2>7. ASSUME NEW u \in Users, RemoveContainer(u) \/ CreateContainer(u)
        PROVE  MonitorsInv'
    BY <2>7, ContainerIsReplaced
  <2>8. ASSUME NEW u \in Users, RemovalFails(u) \/ CreationFails(u) \/ ReloadForGoAccessFails(u)
        PROVE  MonitorsInv'
    BY <2>8, UpdateFailing
  <2>9. ASSUME NEW u \in Users, ReloadForGoAccess(u)
        PROVE  MonitorsInv'
    BY <2>9, UpdateIsDone
  <2>10. CASE OtherReload \/ CaptainEnds \/ StartAgain
    BY <2>10, ServerEndsOrStarts
  <2>11. CASE UNCHANGED monitoringVars
    <3> USE <2>11 DEF monitoringVars, dockerVars, monitoringPageVars, goAccessHistory
    <3>1. MonitoringTypeOK'
      BY DEF MonitorsInv, MonitoringTypeOK
    <3>2. DataInv' /\ UpdatesServed'
      BY DEF MonitorsInv, DataInv, UpdatesServed
    <3>3. Stages' /\ AppliedInv'
      BY DEF MonitorsInv, Stages, StagesReached, AppliedInv, Applied
    <3> QED BY <3>1, <3>2, <3>3 DEF MonitorsInv
  <2> QED BY <2>1, <2>2, <2>3, <2>4, <2>5, <2>6, <2>7, <2>8, <2>9, <2>10, <2>11
          DEF MonitoringNext
<1> QED BY <1>1, <1>2, PTL DEF MonitoringSpec

\* GoAccess is what the data store says of it whenever no update is under way,
\* whatever the tabs ask, whether or not they are left, and wherever the process
\* ends (updateGoAccessInfo, the start of CaptainManager); unless the last
\* update has failed, or was served beside that of a tab that had been left.
THEOREM GoAccessCorrect ==
    ASSUME "goaccess" \in Monitors
    PROVE  MonitoringSpec => []GoAccessAsRecorded
<1>1. MonitorsInv => GoAccessAsRecorded
  <2> SUFFICES ASSUME MonitorsInv, AtRest, ~failed PROVE Applied
    BY DEF GoAccessAsRecorded, Applied
  <2>1. \A u \in Users : ~Touched(update[u])
    BY DEF AtRest, UnderWay, Touched, MonitorsInv, MonitoringTypeOK, Update, NoUpdate
  <2> QED BY <2>1 DEF AtRest, MonitorsInv, AppliedInv
<1> QED BY <1>1, MonitorsInvHolds, PTL

=============================================================================
