----------------------------- MODULE Restoration -----------------------------
(***************************************************************************)
(* Installing CapRover on a machine, from nothing or from a backup:        *)
(* CaptainInstaller and the part of BackupManager that runs before there   *)
(* is a captain service.                                                   *)
(*                                                                         *)
(* The installer is a container that is run once and ends, with an error   *)
(* or without; the user may run it again.  What it leaves behind is on the *)
(* disk and in Docker.  A backup holds the ids that the nodes had in the   *)
(* swarm it was made in; a new swarm gives new ones.                       *)
(***************************************************************************)
EXTENDS Naturals

CONSTANTS
    Machines, Main,  \* the machines, and the one that is being installed
    Apps,
    None,
    MaxSwarms,       \* bound: swarms that are started
    MaxFailures      \* bound: steps that fail, processes that are killed

ASSUME MachinesAssumption ==
    /\ Main \in Machines
    /\ None \notin Machines \cup Apps \cup Nat
    /\ MaxSwarms \in Nat \ {0}
    /\ MaxFailures \in Nat

VARIABLES
    tar,        \* backup.tar, placed by the user
    restoring,  \* the directory "restoring"
    data,       \* the directory "data"
    swarm,
    captain,    \* the captain service: its network and its secret
    installer,  \* the step the installer is at
    failures

diskVars == <<tar, restoring, data>>

restorationVars == <<diskVars, swarm, captain, installer, failures>>

\* Swarms are numbered; the backup a user may bring was made in number 0.
Node == (0 .. MaxSwarms) \X Machines

\* A uuid: the one drawn in a swarm is known by its number.
Salt == 0 .. MaxSwarms

\* salt: what the encrypted fields are encrypted with, if there are any; built:
\* the apps whose deployed version has an image; pins: the nodeId of each app;
\* own: history, the data began here; brought: history, the apps that came with
\* the backup if it did not.
Data == [salt : Salt \cup {None}, apps : SUBSET Apps, built : SUBSET Apps,
         pins : [Apps -> Node \cup {None}], own : BOOLEAN, brought : SUBSET Apps]

\* flat: whether the archive has the data where the restoration looks for it.
Archive == [salt : Salt, nodes : SUBSET Node, data : Data, flat : BOOLEAN]

Answer == {"current", "placeholder", "empty"} \cup (Machines \ {Main})

\* nodesMapping: None while there is no instruction file.  A node that the
\* backup does not know has no answer that counts.
Instructions == [Node -> Answer]

Restoring == [salt : Salt, nodes : SUBSET Node, data : Data \cup {None},
              map : Instructions \cup {None}]

Swarm == [number : 0 .. MaxSwarms, joined : SUBSET Machines, salt : Salt \cup {None}]

InstallerSteps == {"idle", "archive", "staged", "untar", "instructions", "check", "swarm",
                   "join", "remap", "secret", "move", "create"}

Captain == [network : BOOLEAN, secret : BOOLEAN]

ASSUME NoneAssumption == None \notin Data \cup Archive \cup Instructions \cup Restoring \cup Captain

RestorationTypeOK ==
    /\ tar \in Archive \cup {None}
    /\ restoring \in Restoring \cup {None}
    /\ data \in Data \cup {None}
    /\ swarm \in Swarm
    /\ captain \in Captain \cup {None}
    /\ installer \in InstallerSteps
    /\ failures \in 0 .. MaxFailures

NoPins == [a \in Apps |-> None]

EmptyData == [salt |-> None, apps |-> {}, built |-> {}, pins |-> NoPins, own |-> TRUE,
              brought |-> {}]

\* The backups a user may bring: of one node or of all, with and without
\* encrypted fields, apps pinned to nodes of that cluster, packed as the
\* restoration expects it or not, and with an image for the deployed version of
\* every app or of none, whose builds failed or left the history.
Brought ==
    LET Backup(M, flat, salt, built, pins) ==
            [salt |-> 0, nodes |-> {<<0, m>> : m \in M}, flat |-> flat,
             data |-> [salt |-> salt, apps |-> Apps, built |-> built, pins |-> pins,
                       own |-> FALSE, brought |-> Apps]]
        Backups(M) == {Backup(M, flat, salt, built, pins) :
                          flat \in BOOLEAN, salt \in {0, None}, built \in {Apps, {}},
                          pins \in [Apps -> {None} \cup {<<0, m>> : m \in M}]}
    IN  Backups({Main}) \cup Backups(Machines)

\* An existing swarm may have the secret of an earlier installation.
RestorationInit ==
    /\ tar \in Brought \cup {None}
    /\ restoring = None
    /\ data = None
    /\ swarm \in {[number |-> 0, joined |-> {}, salt |-> None],
                  [number |-> 1, joined |-> {Main}, salt |-> None],
                  [number |-> 1, joined |-> {Main}, salt |-> 1]}
    /\ captain = None
    /\ installer = "idle"
    /\ failures = 0

NodeOf(m) == <<swarm.number, m>>

HasInstructions == restoring # None /\ restoring.map # None

-----------------------------------------------------------------------------
(* BackupManager: the archive and the instructions                         *)

\* The three ports answer with the installer's own word: no captain listens.
PortsAreFree == captain = None

Install ==
    /\ installer = "idle"
    /\ PortsAreFree
    /\ installer' = IF tar # None THEN "archive" ELSE "check"
    /\ UNCHANGED <<diskVars, swarm, captain, failures>>

\* Mutant: the archive is removed before its content is in place.
RemoveTarFirst ==
    /\ installer = "archive"
    /\ tar.flat
    /\ tar' = None
    /\ restoring' = None
    /\ installer' = "staged"
    /\ UNCHANGED <<data, swarm, captain, failures>>

\* The archive is extracted to a staging directory and looked at; the directory
\* of an earlier attempt is removed, and the new one takes its place.
ExtractBackupContent ==
    /\ installer = "archive"
    /\ tar.flat
    /\ restoring' = None
    /\ installer' = "staged"
    /\ UNCHANGED <<tar, data, swarm, captain, failures>>

ExposeBackupContent ==
    /\ installer = "staged"
    /\ restoring' = [salt |-> tar.salt, nodes |-> tar.nodes, data |-> tar.data, map |-> None]
    /\ installer' = "untar"
    /\ UNCHANGED <<tar, data, swarm, captain, failures>>

RemoveTar ==
    /\ installer = "untar"
    /\ tar' = None
    /\ installer' = "instructions"
    /\ UNCHANGED <<restoring, data, swarm, captain, failures>>

CreateRestorationInstructionFile ==
    /\ installer = "instructions"
    /\ restoring' = [restoring EXCEPT !.map =
                        [n \in Node |-> IF n[2] = Main THEN "current" ELSE "placeholder"]]
    /\ installer' = "check"
    /\ UNCHANGED <<tar, data, swarm, captain, failures>>

\* The user writes into the instructions which machine replaces a node.
EditInstructions(n, answer) ==
    /\ installer = "idle"
    /\ HasInstructions
    /\ n \in restoring.nodes
    /\ n[2] # Main
    /\ answer # "current"
    /\ restoring' = [restoring EXCEPT !.map = [@ EXCEPT ![n] = answer]]
    /\ UNCHANGED <<tar, data, swarm, captain, installer, failures>>

\* root on that machine says that its swarm is inactive.
CheckSshRoot(machine) == machine \notin swarm.joined

\* The machines of the instructions are there, each once, and in no swarm.
AccessToAllNodes ==
    \A n \in restoring.nodes :
        LET answer == restoring.map[n]
        IN  /\ answer # "placeholder"
            /\ answer \in Machines =>
                 /\ CheckSshRoot(answer)
                 /\ \A k \in restoring.nodes : restoring.map[k] = answer => k = n

CheckAndPrepareRestoration ==
    /\ installer = "check"
    /\ HasInstructions => AccessToAllNodes
    /\ installer' = "swarm"
    /\ UNCHANGED <<diskVars, swarm, captain, failures>>

-----------------------------------------------------------------------------
(* The swarm and the first phase                                           *)

Phase1 == IF HasInstructions THEN "join" ELSE "create"

InitSwarm ==
    /\ installer = "swarm"
    /\ swarm.joined = {}
    /\ swarm.number < MaxSwarms
    /\ swarm' = [number |-> swarm.number + 1, joined |-> {Main}, salt |-> None]
    /\ installer' = Phase1
    /\ UNCHANGED <<diskVars, captain, failures>>

\* useExistingSwarm of the configuration.
EnsureSwarmExists ==
    /\ installer = "swarm"
    /\ Main \in swarm.joined
    /\ installer' = Phase1
    /\ UNCHANGED <<diskVars, swarm, captain, failures>>

\* The nodes whose machine has to join.  An emptied answer is not left out.
ToJoin ==
    {n \in restoring.nodes : /\ restoring.map[n] # "current"
                             /\ restoring.map[n] \notin swarm.joined}

JoinDockerNode(n) ==
    /\ installer = "join"
    /\ n \in ToJoin
    /\ restoring.map[n] \in Machines
    /\ swarm' = [swarm EXCEPT !.joined = @ \cup {restoring.map[n]}]
    /\ UNCHANGED <<diskVars, captain, installer, failures>>

AllJoined ==
    /\ installer = "join"
    /\ ToJoin = {}
    /\ installer' = "remap"
    /\ UNCHANGED <<diskVars, swarm, captain, failures>>

\* The node that replaces an old one.
Replacement(n) ==
    CASE restoring.map[n] = "current" -> NodeOf(Main)
      [] restoring.map[n] = "empty" -> None
      [] OTHER -> NodeOf(restoring.map[n])

\* Every app that was bound to a node is bound to its replacement; an id that
\* the backup does not list is an error.
RemapNodes ==
    /\ installer = "remap"
    /\ restoring.data # None
    /\ \A a \in restoring.data.apps :
          restoring.data.pins[a] \in restoring.nodes \cup {None}
    /\ restoring' = [restoring EXCEPT !.data.pins =
           [a \in Apps |-> IF a \in restoring.data.apps /\ @[a] # None
                           THEN Replacement(@[a])
                           ELSE @[a]]]
    /\ installer' = "secret"
    /\ UNCHANGED <<tar, data, swarm, captain, failures>>

\* DockerApi.ensureSecret: a secret that is there already stays what it is.
EnsureSecret(salt) ==
    swarm' = [swarm EXCEPT !.salt = IF @ = None THEN salt ELSE @]

RestoreSecret ==
    /\ installer = "secret"
    /\ EnsureSecret(restoring.salt)
    /\ installer' = "move"
    /\ UNCHANGED <<diskVars, captain, failures>>

MoveData ==
    /\ installer = "move"
    /\ data' = restoring.data
    /\ restoring' = [restoring EXCEPT !.data = None]
    /\ installer' = "create"
    /\ UNCHANGED <<tar, swarm, captain, failures>>

CreateCaptainService ==
    /\ installer = "create"
    /\ captain = None
    /\ captain' = [network |-> FALSE, secret |-> FALSE]
    /\ installer' = "idle"
    /\ UNCHANGED <<diskVars, swarm, failures>>

-----------------------------------------------------------------------------

\* A step fails for a reason that it finds on the disk or in Docker.
Refused ==
    \/ installer = "archive" /\ ~tar.flat
    \/ installer = "check" /\ HasInstructions /\ ~AccessToAllNodes
    \/ installer = "swarm" /\ (Main \in swarm.joined \/ swarm.number = MaxSwarms)
    \/ installer = "join" /\ \E n \in ToJoin : restoring.map[n] = "empty"
    \/ installer = "remap" /\ \/ restoring.data = None
                              \/ \E a \in restoring.data.apps :
                                    restoring.data.pins[a] \notin restoring.nodes \cup {None}

\* The installer ends with an error, or is stopped: any step may fail.
InstallationFails ==
    /\ installer # "idle"
    /\ ~Refused => failures < MaxFailures
    /\ failures' = IF Refused THEN failures ELSE failures + 1
    /\ installer' = "idle"
    /\ UNCHANGED <<diskVars, swarm, captain>>

\* The user makes the machines leave the swarm, as another attempt needs it.
LeaveSwarm ==
    /\ installer = "idle"
    /\ captain = None
    /\ swarm.joined # {}
    /\ swarm' = [swarm EXCEPT !.joined = {}, !.salt = None]
    /\ UNCHANGED <<diskVars, captain, installer, failures>>

InstallerStep ==
    \/ ExtractBackupContent
    \/ ExposeBackupContent
    \/ RemoveTar
    \/ CreateRestorationInstructionFile
    \/ CheckAndPrepareRestoration
    \/ InitSwarm
    \/ EnsureSwarmExists
    \/ \E n \in Node : JoinDockerNode(n)
    \/ AllJoined
    \/ RemapNodes
    \/ RestoreSecret
    \/ MoveData
    \/ CreateCaptainService

=============================================================================
