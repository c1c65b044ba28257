------------------------------ MODULE Domains -------------------------------
(***************************************************************************)
(* Domains and certificates: the root domain and its SSL flags             *)
(* (CaptainManager), the domains of apps and their flags (ServiceManager,  *)
(* AppsDataStore), the self-hosted registry (Registries), and the one      *)
(* certbot that serves them all (CertbotManager), whose lock refuses       *)
(* instead of waiting.  nginx is told to use a certificate wherever a flag *)
(* says that there is one.                                                 *)
(*                                                                         *)
(* A mutating request of the dashboard holds the lock of UserRouter until  *)
(* its response is finished.  The response of a client that has left is    *)
(* finished too, while the request goes on: so two may overlap.            *)
(***************************************************************************)
EXTENDS Registries, TLC

CONSTANTS
    Requests,    \* what may be in progress at once
    Renewal,     \* the timer of LoadBalancerManager
    Apps,        \* app names
    Customs,     \* custom domains
    FirstRoot,   \* the root domain of a new installation
    Kinds,       \* the operations of this instance
    MaxRequests, MaxDisconnects, MaxRestarts, MaxRenewals

AllKinds == {"rootssl", "forcessl", "changeroot", "appssl", "customssl", "addcustom",
             "removecustom", "rename", "remove", "enableregistry", "disableregistry",
             "addregistry", "updateregistry", "deleteregistry", "setpush", "backup"}

ASSUME DomainsAssumption ==
    /\ Renewal \notin Requests
    /\ FirstRoot \in Roots
    /\ None \notin Requests \cup Apps \cup Customs \cup Roots
    /\ Kinds \subseteq AllKinds

VARIABLES
    root,          \* the custom domain of the data store
    hasRootSsl, forceSsl,
    apps,          \* the apps there are
    subSsl,        \* the apps with hasDefaultSubDomainSsl
    custom,        \* the custom domains of apps: pairs of an app and a domain
    customSsl,     \* those of them with hasSsl
    certs,         \* the domains certbot has a certificate for
    inProcess,     \* isOperationInProcess of CertbotManager
    threadLock,    \* threadLockNamespace of UserRouter
    op,            \* what each request, and the renewal, is doing
    overlapped,    \* history: a request began while another was in progress
    begun, left, restarts, renewals

domainVars == <<root, hasRootSsl, forceSsl, apps, subSsl, custom, customSsl>>

certbotVars == <<certs, inProcess>>

bounds == <<begun, left, restarts, renewals>>

vars == <<registryVars, domainVars, certbotVars, threadLock, op, overlapped, bounds>>

Slots == Requests \cup {Renewal}

Captain(r) == <<"captain", r>>

RegistryOf(r) == <<"registry", r>>

SubDomain(a, r) == <<a, r>>

Domain == ({"captain", "registry"} \cup Apps) \X Roots \cup {<<c>> : c \in Customs}

\* Stages of an operation: it waits for Docker or the registry ("docker"), for
\* the check of a domain ("verify"), to run certbot ("certbot"), for certbot
\* ("command"), for the file system ("file"), or for the copy of a backup
\* ("copy").
Stages == {"idle", "docker", "verify", "certbot", "command", "file", "copy"}

\* force: what a request was told; again: the second wait of its kind.
Op == [kind : AllKinds \cup {"none", "renew"}, stage : Stages, app : Apps \cup {None},
       to : Apps \cup Roots \cup Customs \cup {None}, force : BOOLEAN,
       again : BOOLEAN, domain : Domain \cup {None}, id : Nat, connected : BOOLEAN]

NoOp == [kind |-> "none", stage |-> "idle", app |-> None, to |-> None,
         force |-> FALSE, again |-> FALSE, domain |-> None, id |-> 0,
         connected |-> FALSE]

TypeOK ==
    /\ RegistriesTypeOK
    /\ root \in Roots
    /\ {hasRootSsl, forceSsl, inProcess, threadLock, overlapped} \subseteq BOOLEAN
    /\ apps \in SUBSET Apps
    /\ subSsl \in SUBSET apps
    /\ custom \in SUBSET (apps \X Customs)
    /\ customSsl \in SUBSET custom
    /\ certs \in SUBSET Domain
    /\ op \in [Slots -> Op]

Init ==
    /\ RegistriesInit
    /\ root = FirstRoot
    /\ hasRootSsl = FALSE
    /\ forceSsl = FALSE
    /\ apps \in {{a} : a \in Apps}
    /\ subSsl = {}
    /\ custom = {}
    /\ customSsl = {}
    /\ certs = {}
    /\ inProcess = FALSE
    /\ threadLock = FALSE
    /\ op = [s \in Slots |-> NoOp]
    /\ overlapped = FALSE
    /\ begun = 0
    /\ left = 0
    /\ restarts = 0
    /\ renewals = 0

-----------------------------------------------------------------------------
(* Requests                                                                *)

Active == {r \in Requests : op[r].stage # "idle"}

\* The operation of s goes on waiting, as f.
GoesOn(s, f) ==
    /\ op' = [op EXCEPT ![s] = f]
    /\ UNCHANGED <<threadLock, overlapped, bounds>>

\* The operation of s ends, with or without success; a client that is still
\* there gets its answer, which releases the lock.
Ends(s) ==
    /\ op' = [op EXCEPT ![s] = NoOp]
    /\ threadLock' = (threadLock /\ ~op[s].connected)
    /\ UNCHANGED <<overlapped, bounds>>

At(s, kind, stage) == op[s].kind = kind /\ op[s].stage = stage

\* A request that finds the lock free starts to wait.
Begins(r, kind, stage, a, to, force) ==
    /\ kind \in Kinds
    /\ op[r].stage = "idle"
    /\ ~threadLock
    /\ begun < MaxRequests
    /\ begun' = begun + 1
    /\ threadLock' = TRUE
    /\ overlapped' = (overlapped \/ Active # {})
    /\ op' = [op EXCEPT ![r] = [kind |-> kind, stage |-> stage, app |-> a, to |-> to,
                                force |-> force, again |-> FALSE, domain |-> None,
                                id |-> begun + 1, connected |-> TRUE]]
    /\ UNCHANGED <<left, restarts, renewals>>

\* A request that waits for nothing.
AtOnce(kind) ==
    /\ kind \in Kinds
    /\ ~threadLock
    /\ begun < MaxRequests
    /\ begun' = begun + 1
    /\ overlapped' = (overlapped \/ Active # {})
    /\ UNCHANGED <<threadLock, op, left, restarts, renewals>>

\* The client leaves: onFinished releases the lock, the operation goes on.
Disconnect(r) ==
    /\ op[r].connected
    /\ left < MaxDisconnects
    /\ left' = left + 1
    /\ threadLock' = FALSE
    /\ op' = [op EXCEPT ![r].connected = FALSE]
    /\ UNCHANGED <<registryVars, domainVars, certbotVars, overlapped, begun, restarts, renewals>>

-----------------------------------------------------------------------------
(* Certbot                                                                 *)

\* runCommand: lock throws if an operation is in process, and its caller
\* fails; renewAllCerts only logs that.
RunCommand(s) ==
    /\ op[s].stage = "certbot"
    /\ IF inProcess THEN Ends(s) /\ UNCHANGED inProcess
       ELSE inProcess' = TRUE /\ GoesOn(s, [op[s] EXCEPT !.stage = "command"])
    /\ UNCHANGED <<registryVars, domainVars, certs>>

\* The command of s ends.
CommandEnds(s) == op[s].stage = "command" /\ inProcess' = FALSE

\* Mutant: the lock is only released by a command that succeeds.
FailsLocked(s) ==
    /\ op[s].stage = "command"
    /\ Ends(s)
    /\ UNCHANGED <<registryVars, domainVars, certs, inProcess>>

CommandFails(s) ==
    /\ CommandEnds(s)
    /\ Ends(s)
    /\ UNCHANGED <<registryVars, domainVars, certs>>

Obtained(s) == certs' = certs \cup {op[s].domain}

\* ensureDomainHasDirectory comes before certbot.
Requested(f, domain) == [f EXCEPT !.stage = "certbot", !.domain = domain]

\* renewAllCertsAndReload: certbot certificates, then certbot renew.
StartRenewal ==
    /\ op[Renewal].stage = "idle"
    /\ renewals < MaxRenewals
    /\ renewals' = renewals + 1
    /\ op' = [op EXCEPT ![Renewal] = [NoOp EXCEPT !.kind = "renew", !.stage = "certbot"]]
    /\ UNCHANGED <<registryVars, domainVars, certbotVars, threadLock, overlapped,
                   begun, left, restarts>>

Renewed ==
    /\ op[Renewal].kind = "renew"
    /\ CommandEnds(Renewal)
    /\ IF op[Renewal].again THEN Ends(Renewal)
       ELSE GoesOn(Renewal, [op[Renewal] EXCEPT !.stage = "certbot", !.again = TRUE])
    /\ UNCHANGED <<registryVars, domainVars, certs>>

\* createBackup holds the lock of Certbot while it copies the data.
StartBackup(r) ==
    /\ Begins(r, "backup", "copy", None, None, FALSE)
    /\ ~inProcess
    /\ inProcess' = TRUE
    /\ UNCHANGED <<registryVars, domainVars, certs>>

BackupEnds(r) ==
    /\ At(r, "backup", "copy")
    /\ inProcess' = FALSE
    /\ Ends(r)
    /\ UNCHANGED <<registryVars, domainVars, certs>>

-----------------------------------------------------------------------------
(* The root domain                                                         *)

\* enableSsl: certbot register, then a certificate for captain.
StartRootSsl(r) ==
    /\ Begins(r, "rootssl", "certbot", None, None, FALSE)
    /\ UNCHANGED <<registryVars, domainVars, certbotVars>>

Registered(r) ==
    /\ op[r].kind = "rootssl" /\ op[r].domain = None
    /\ CommandEnds(r)
    /\ GoesOn(r, Requested(op[r], Captain(root)))
    /\ UNCHANGED <<registryVars, domainVars, certs>>

RootSslEnabled(r) ==
    /\ op[r].kind = "rootssl" /\ op[r].domain # None
    /\ CommandEnds(r)
    /\ Obtained(r)
    /\ hasRootSsl' = TRUE
    /\ Ends(r)
    /\ UNCHANGED <<registryVars, root, forceSsl, apps, subSsl, custom, customSsl>>

ForceSsl(isEnabled) ==
    /\ AtOnce("forcessl")
    /\ isEnabled => hasRootSsl
    /\ forceSsl' = isEnabled
    /\ UNCHANGED <<registryVars, root, hasRootSsl, apps, subSsl, custom, customSsl, certbotVars>>

\* changeCaptainRootDomain asks first whether the domain leads here.
StartChangeRoot(r, to, force) ==
    /\ Begins(r, "changeroot", "verify", None, to, force)
    /\ UNCHANGED <<registryVars, domainVars, certbotVars>>

\* Force disables SSL of the root and of the default domains of all apps.
DisableSsl(force) ==
    /\ hasRootSsl' = (hasRootSsl /\ ~force)
    /\ forceSsl' = (forceSsl /\ ~force)
    /\ subSsl' = IF force THEN {} ELSE subSsl

\* Mutant: the root moves away from the self-hosted registry.
MovesAlways(to) == to

\* A self-hosted registry forbids any change.
RootAfter(to) == IF Local = {} THEN to ELSE root

\* A root with SSL is not changed without force.  SSL is disabled before the
\* registries are looked at.
ChangeRoot(r) ==
    LET o == op[r] IN
    /\ At(r, "changeroot", "verify")
    /\ \/ /\ hasRootSsl /\ root # o.to /\ ~o.force
          /\ UNCHANGED <<root, hasRootSsl, forceSsl, subSsl>>
       \/ /\ o.force \/ ~hasRootSsl \/ root = o.to
          /\ DisableSsl(o.force)
          /\ root' = RootAfter(o.to)
    /\ Ends(r)
    /\ UNCHANGED <<registryVars, apps, custom, customSsl, certbotVars>>

-----------------------------------------------------------------------------
(* The domains of apps                                                     *)

\* enableSslForApp and enableCustomDomainSsl need SSL of the root, and verify
\* that the domain leads here.
StartAppSsl(r, a) ==
    /\ hasRootSsl /\ a \in apps
    /\ Begins(r, "appssl", "verify", a, None, FALSE)
    /\ UNCHANGED <<registryVars, domainVars, certbotVars>>

StartCustomSsl(r, a, c) ==
    /\ hasRootSsl
    /\ Begins(r, "customssl", "verify", a, c, FALSE)
    /\ UNCHANGED <<registryVars, domainVars, certbotVars>>

\* The domain is known after the verification: an app of that name must be
\* there, a custom domain must belong to the app.
RequestCertificate(r) ==
    LET o == op[r] IN
    /\ \/ /\ At(r, "appssl", "verify") /\ o.app \in apps
          /\ GoesOn(r, Requested(o, SubDomain(o.app, root)))
       \/ /\ At(r, "customssl", "verify") /\ <<o.app, o.to>> \in custom
          /\ GoesOn(r, Requested(o, <<o.to>>))
    /\ UNCHANGED <<registryVars, domainVars, certbotVars>>

\* Mutant: nobody looks whether the app is still there.
FlagsAnyApp(r) ==
    /\ At(r, "appssl", "command")
    /\ CommandEnds(r)
    /\ Obtained(r)
    /\ subSsl' = subSsl \cup {op[r].app}
    /\ Ends(r)
    /\ UNCHANGED <<registryVars, root, hasRootSsl, forceSsl, apps, custom, customSsl>>

\* setSslForDefaultSubDomain; it fails if the app is gone.
AppSslEnabled(r) ==
    /\ At(r, "appssl", "command")
    /\ CommandEnds(r)
    /\ Obtained(r)
    /\ subSsl' = subSsl \cup ({op[r].app} \cap apps)
    /\ Ends(r)
    /\ UNCHANGED <<registryVars, root, hasRootSsl, forceSsl, apps, custom, customSsl>>

\* enableCustomDomainSsl of AppsDataStore; it fails if the domain was removed.
CustomSslEnabled(r) ==
    /\ At(r, "customssl", "command")
    /\ CommandEnds(r)
    /\ Obtained(r)
    /\ customSsl' = customSsl \cup ({<<op[r].app, op[r].to>>} \cap custom)
    /\ Ends(r)
    /\ UNCHANGED <<registryVars, root, hasRootSsl, forceSsl, apps, subSsl, custom>>

StartAddCustom(r, a, c) ==
    /\ Begins(r, "addcustom", "verify", a, c, FALSE)
    /\ UNCHANGED <<registryVars, domainVars, certbotVars>>

AddCustomDomain(r) ==
    LET o == op[r] IN
    /\ At(r, "addcustom", "verify")
    /\ o.app \in apps
    /\ custom' = custom \cup {<<o.app, o.to>>}
    /\ Ends(r)
    /\ UNCHANGED <<registryVars, root, hasRootSsl, forceSsl, apps, subSsl, customSsl, certbotVars>>

RemoveCustomDomain(a, c) ==
    /\ <<a, c>> \in custom
    /\ AtOnce("removecustom")
    /\ custom' = custom \ {<<a, c>>}
    /\ customSsl' = customSsl \ {<<a, c>>}
    /\ UNCHANGED <<registryVars, root, hasRootSsl, forceSsl, apps, subSsl, certbotVars>>

\* removeApps and renameApp have Docker remove the service.
StartRemove(r, a) ==
    /\ a \in apps
    /\ Begins(r, "remove", "docker", a, None, FALSE)
    /\ UNCHANGED <<registryVars, domainVars, certbotVars>>

StartRename(r, a, to) ==
    /\ a \in apps /\ to \notin apps
    /\ Begins(r, "rename", "docker", a, to, a \in subSsl)
    /\ UNCHANGED <<registryVars, domainVars, certbotVars>>

Of(a, pairs) == {p \in pairs : p[1] = a}

RemoveApp(r) ==
    LET a == op[r].app IN
    /\ At(r, "remove", "docker")
    /\ apps' = apps \ {a}
    /\ subSsl' = subSsl \ {a}
    /\ custom' = custom \ Of(a, custom)
    /\ customSsl' = customSsl \ Of(a, customSsl)
    /\ Ends(r)
    /\ UNCHANGED <<registryVars, root, hasRootSsl, forceSsl, certbotVars>>

\* Mutant: the flag of the default domain moves along.
MovedFlags(a, b) == IF a \in subSsl THEN (subSsl \ {a}) \cup {b} ELSE subSsl

\* The default domain is another one now: it has no certificate yet.
FlagsAfterRename(a, b) == subSsl \ {a}

\* renameApp of AppsDataStore, when its second check of the name passes; then
\* the new service is created.
RenameApp(r) ==
    LET a == op[r].app
        b == op[r].to
        Moved(pairs) == (pairs \ Of(a, pairs)) \cup {<<b, p[2]>> : p \in Of(a, pairs)}
    IN
    /\ At(r, "rename", "docker") /\ ~op[r].again
    /\ a \in apps /\ b \notin apps
    /\ apps' = (apps \ {a}) \cup {b}
    /\ subSsl' = FlagsAfterRename(a, b)
    /\ custom' = Moved(custom)
    /\ customSsl' = Moved(customSsl)
    /\ GoesOn(r, [op[r] EXCEPT !.again = TRUE])
    /\ UNCHANGED <<registryVars, root, hasRootSsl, forceSsl, certbotVars>>

\* An app that had SSL goes through enableSslForApp under its new name.
Renamed(r) ==
    LET o == op[r] IN
    /\ At(r, "rename", "docker") /\ o.again
    /\ IF o.force /\ hasRootSsl
       THEN GoesOn(r, [o EXCEPT !.kind = "appssl", !.stage = "verify", !.app = o.to,
                                !.to = None, !.force = FALSE, !.again = FALSE])
       ELSE Ends(r)
    /\ UNCHANGED <<registryVars, domainVars, certbotVars>>

-----------------------------------------------------------------------------
(* The registries                                                          *)

\* /enableregistry begins with enableRegistrySsl, for the root of that moment.
StartEnableRegistry(r) ==
    /\ hasRootSsl
    /\ Begins(r, "enableregistry", "file", None, root, FALSE)
    /\ UNCHANGED <<registryVars, domainVars, certbotVars>>

RequestRegistryCertificate(r) ==
    /\ At(r, "enableregistry", "file") /\ ~op[r].again
    /\ GoesOn(r, Requested(op[r], RegistryOf(op[r].to)))
    /\ UNCHANGED <<registryVars, domainVars, certbotVars>>

RegistryCertified(r) ==
    /\ At(r, "enableregistry", "command")
    /\ CommandEnds(r)
    /\ Obtained(r)
    /\ RegistrySslEnabled
    /\ GoesOn(r, [op[r] EXCEPT !.stage = "file", !.again = TRUE])
    /\ UNCHANGED domainVars

RegistryAuthWritten(r) ==
    /\ At(r, "enableregistry", "file") /\ op[r].again
    /\ WriteAuthFile(op[r].id)
    /\ GoesOn(r, [op[r] EXCEPT !.stage = "docker"])
    /\ UNCHANGED <<domainVars, certbotVars>>

RegistryRuns(r) ==
    /\ At(r, "enableregistry", "docker")
    /\ \/ AddLocalRegistry(op[r].id, root)
       \/ Local # {} /\ UNCHANGED registryVars
    /\ Ends(r)
    /\ UNCHANGED <<domainVars, certbotVars>>

\* The removal of the service that follows changes nothing here.
Disable ==
    /\ AtOnce("disableregistry")
    /\ DisableRegistry
    /\ UNCHANGED <<domainVars, certbotVars>>

StartAddRegistry(r) ==
    /\ Begins(r, "addregistry", "docker", None, None, FALSE)
    /\ UNCHANGED <<registryVars, domainVars, certbotVars>>

\* Docker accepts the credentials of a remote registry.
RegistryAdded(r) ==
    /\ At(r, "addregistry", "docker")
    /\ AddRegistry([id |-> op[r].id, local |-> FALSE, address |-> None, password |-> 0])
    /\ Ends(r)
    /\ UNCHANGED <<hasRegistrySsl, authFile, domainVars, certbotVars>>

StartUpdateRegistry(r) ==
    /\ Begins(r, "updateregistry", "docker", None, None, FALSE)
    /\ UNCHANGED <<registryVars, domainVars, certbotVars>>

\* ... and the new ones of a registry that is there already.
RegistryUpdated(r, id) ==
    /\ At(r, "updateregistry", "docker")
    /\ UpdateRegistry(id, op[r].id)
    /\ Ends(r)
    /\ UNCHANGED <<domainVars, certbotVars>>

Delete(id) ==
    /\ AtOnce("deleteregistry")
    /\ DeleteRegistry(id)
    /\ UNCHANGED <<domainVars, certbotVars>>

SetPush(id) ==
    /\ AtOnce("setpush")
    /\ SetDefaultPushRegistry(id)
    /\ UNCHANGED <<domainVars, certbotVars>>

-----------------------------------------------------------------------------
\* What a request waits for fails: it answers an error.
Fails(r) ==
    /\ op[r].stage \in {"docker", "verify", "file"}
    /\ Ends(r)
    /\ UNCHANGED <<registryVars, domainVars, certbotVars>>

\* The process dies and starts again.
Restart ==
    /\ restarts < MaxRestarts
    /\ restarts' = restarts + 1
    /\ op' = [s \in Slots |-> NoOp]
    /\ inProcess' = FALSE
    /\ threadLock' = FALSE
    /\ RestartRegistry
    /\ UNCHANGED <<domainVars, certs, overlapped, begun, left, renewals>>

Start(r) ==
    \/ StartBackup(r)
    \/ StartRootSsl(r)
    \/ StartEnableRegistry(r)
    \/ StartAddRegistry(r)
    \/ StartUpdateRegistry(r)
    \/ \E to \in Roots, force \in BOOLEAN : StartChangeRoot(r, to, force)
    \/ \E a \in Apps :
          \/ StartAppSsl(r, a)
          \/ StartRemove(r, a)
          \/ \E b \in Apps : StartRename(r, a, b)
          \/ \E c \in Customs : StartCustomSsl(r, a, c) \/ StartAddCustom(r, a, c)

Step(r) ==
    \/ BackupEnds(r)
    \/ Registered(r)
    \/ RootSslEnabled(r)
    \/ ChangeRoot(r)
    \/ RequestCertificate(r)
    \/ AppSslEnabled(r)
    \/ CustomSslEnabled(r)
    \/ AddCustomDomain(r)
    \/ RemoveApp(r)
    \/ RenameApp(r)
    \/ Renamed(r)
    \/ RequestRegistryCertificate(r)
    \/ RegistryCertified(r)
    \/ RegistryAuthWritten(r)
    \/ RegistryRuns(r)
    \/ RegistryAdded(r)
    \/ \E id \in RegistryIds : RegistryUpdated(r, id)
    \/ Fails(r)
    \/ Disconnect(r)

Next ==
    \/ \E r \in Requests : Start(r) \/ Step(r)
    \/ \E s \in Slots : RunCommand(s) \/ CommandFails(s)
    \/ StartRenewal
    \/ Renewed
    \/ \E e \in BOOLEAN : ForceSsl(e)
    \/ \E a \in Apps, c \in Customs : RemoveCustomDomain(a, c)
    \/ Disable
    \/ \E id \in RegistryIds : Delete(id)
    \/ \E id \in RegistryIds \cup {0} : SetPush(id)
    \/ Restart

Spec == Init /\ [][Next]_vars

-----------------------------------------------------------------------------
(* Properties                                                              *)

\* Certbot runs one command at a time, never beside a backup, and its lock is
\* not left behind by whatever fails.
CertbotIsExclusive ==
    LET holders == {s \in Slots : op[s].stage \in {"command", "copy"}} IN
    /\ Cardinality(holders) <= 1
    /\ inProcess <=> holders # {}

\* Where nginx is told to use a certificate there is one, unless a request
\* went on after its client had left and another overlapped it; and SSL is not
\* forced on visitors of a root domain without it.  (The flag of
\* the self-hosted registry is only covered while there is such a registry.)
FlagsHaveCertificates ==
    /\ forceSsl => hasRootSsl
    /\ overlapped \/
        /\ hasRootSsl => Captain(root) \in certs
        /\ hasRootSsl => \A a \in subSsl : SubDomain(a, root) \in certs
        /\ \A p \in customSsl : <<p[2]>> \in certs

\* However two attempts to enable it overlap there is one self-hosted registry
\* at most; it is at the address in the list and in the names of the images
\* pushed to it, and nginx serves it there with SSL (unless requests
\* overlapped).
LocalRegistryIsServed ==
    \A r \in Local :
        /\ Local = {r}
        /\ r.address = root
        /\ ~overlapped => hasRegistrySsl /\ RegistryOf(root) \in certs
=============================================================================
