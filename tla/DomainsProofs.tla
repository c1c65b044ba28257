---------------------------- MODULE DomainsProofs -----------------------------
(***************************************************************************)
(* Domains and certificates, for any requests, apps and domains, and any   *)
(* number of renewals, restarts and clients that leave.                    *)
(***************************************************************************)
EXTENDS Domains, FiniteSetTheorems, TLAPS

-----------------------------------------------------------------------------
(* The invariant.                                                          *)

Asks(o) == o.stage \in {"certbot", "command"}

\* What the parts of an operation are, by its kind: a certificate is asked for
\* a domain.
Shaped(o) ==
    /\ o.stage = "idle" => o = NoOp
    /\ o.kind = "changeroot" => o.to \in Roots
    /\ o.kind = "enableregistry" => o.to \in Roots
    /\ o.kind = "rename" => o.to \in Apps
    /\ o.kind = "addcustom" => o.to \in Customs
    /\ o.kind \in {"appssl", "customssl", "enableregistry"} /\ Asks(o) => o.domain \in Domain
    /\ o.kind = "customssl" /\ Asks(o) => o.domain = <<o.to>>

OpsOK ==
    /\ op \in [Slots -> Op]
    /\ \A s \in Slots : Shaped(op[s])
    /\ threadLock \in BOOLEAN
    /\ overlapped \in BOOLEAN
    /\ begun \in Nat

DomainsOK ==
    /\ root \in Roots
    /\ hasRootSsl \in BOOLEAN
    /\ forceSsl \in BOOLEAN
    /\ apps \subseteq Apps
    /\ subSsl \subseteq apps
    /\ custom \subseteq apps \X Customs
    /\ customSsl \subseteq custom

CertsOK == certs \subseteq Domain /\ inProcess \in BOOLEAN

DomainTypes == OpsOK /\ DomainsOK /\ CertsOK /\ RegistriesTypeOK

\* Who is in the lock of certbot.
Holds(o) == o.stage \in {"command", "copy"}

LockInv ==
    /\ \A s, q \in Slots : Holds(op[s]) /\ Holds(op[q]) => s = q
    /\ inProcess <=> \E s \in Slots : Holds(op[s])

\* An operation that nobody overlaps works for the root domain there is, and
\* finds what it has done before.
Certified(o) == o.stage = "docker" \/ (o.stage = "file" /\ o.again)

InStep(o) ==
    /\ o.kind = "rootssl" /\ o.domain # None => o.domain = Captain(root)
    /\ o.kind = "appssl" =>
           /\ hasRootSsl
           /\ Asks(o) => o.domain = SubDomain(o.app, root)
    /\ o.kind = "enableregistry" =>
           /\ o.to = root
           /\ Asks(o) => o.domain = RegistryOf(root)
           /\ Certified(o) => hasRegistrySsl /\ RegistryOf(root) \in certs

Alone ==
    /\ \A r, q \in Active : r = q
    /\ \A r \in Requests : InStep(op[r])
    /\ hasRootSsl => Captain(root) \in certs
    /\ hasRootSsl => \A a \in subSsl : SubDomain(a, root) \in certs
    /\ ~hasRootSsl => subSsl = {}

FlagsInv ==
    /\ forceSsl => hasRootSsl
    /\ \A p \in customSsl : <<p[2]>> \in certs
    /\ ~overlapped => Alone

DomainsInv == DomainTypes /\ LockInv /\ FlagsInv /\ LocalRegistryIsServed

-----------------------------------------------------------------------------
(* Types.                                                                  *)

LEMMA TypesAreRight == DomainTypes => TypeOK
BY DEF DomainTypes, OpsOK, DomainsOK, CertsOK, TypeOK

LEMMA NoOpFits == NoOp \in Op /\ Shaped(NoOp)
BY DEF NoOp, Op, Shaped, Asks, Stages

LEMMA RequestsAreSlots == Requests \subseteq Slots /\ Renewal \in Slots
BY DEF Slots

LEMMA GoesOnOK ==
    ASSUME OpsOK, NEW s \in Slots, NEW f, f \in Op, Shaped(f), GoesOn(s, f)
    PROVE  OpsOK'
BY DEF OpsOK, GoesOn, bounds

LEMMA EndsOK ==
    ASSUME OpsOK, NEW s \in Slots, Ends(s)
    PROVE  OpsOK'
<1>1. op' = [op EXCEPT ![s] = NoOp] /\ UNCHANGED <<overlapped, begun>>
  BY DEF Ends, bounds
<1>2. threadLock' \in BOOLEAN
  BY DEF Ends
<1>3. QED BY <1>1, <1>2, NoOpFits DEF OpsOK

\* A request begins, at a stage at which no certificate is asked for.
LEMMA BeginsOK ==
    ASSUME OpsOK, NEW r \in Requests, NEW kind, NEW stage \in Stages, NEW a \in Apps \cup {None},
           NEW to \in Apps \cup Roots \cup Customs \cup {None}, NEW force \in BOOLEAN,
           Begins(r, kind, stage, a, to, force),
           stage # "idle",
           kind \in {"changeroot", "enableregistry"} => to \in Roots,
           kind = "rename" => to \in Apps,
           kind = "addcustom" => to \in Customs,
           stage \in {"certbot", "command"} =>
               kind \notin {"appssl", "customssl", "enableregistry"}
    PROVE  OpsOK'
<1> DEFINE o == [kind |-> kind, stage |-> stage, app |-> a, to |-> to,
                 force |-> force, again |-> FALSE, domain |-> None,
                 id |-> begun + 1, connected |-> TRUE]
<1>1. o \in Op
  BY DomainsAssumption DEF Begins, Op, OpsOK
<1>2. Shaped(o)
  BY DEF Shaped, Asks
<1>3. op' = [op EXCEPT ![r] = o] /\ begun' = begun + 1 /\ threadLock' = TRUE
      /\ overlapped' \in BOOLEAN
  BY DEF Begins, OpsOK
<1> HIDE DEF o
<1>4. QED BY <1>1, <1>2, <1>3, RequestsAreSlots DEF OpsOK

LEMMA AtOnceOK ==
    ASSUME OpsOK, NEW kind, AtOnce(kind)
    PROVE  OpsOK'
BY DEF AtOnce, OpsOK

\* What the operators on the registries keep.
LEMMA RegistriesKept ==
    ASSUME RegistriesTypeOK
    PROVE  /\ UNCHANGED registryVars => RegistriesTypeOK'
           /\ \A id \in RegistryIds \cup {0} : SetDefaultPushRegistry(id) => RegistriesTypeOK'
           /\ \A id : DeleteRegistry(id) => RegistriesTypeOK'
           /\ \A id : \A password \in Nat : UpdateRegistry(id, password) => RegistriesTypeOK'
           /\ RegistrySslEnabled => RegistriesTypeOK'
           /\ \A password \in Nat : WriteAuthFile(password) => RegistriesTypeOK'
           /\ \A id \in Nat : \A r \in Roots : AddLocalRegistry(id, r) => RegistriesTypeOK'
           /\ DisableRegistry => RegistriesTypeOK'
           /\ RestartRegistry => RegistriesTypeOK'
<1>1. UNCHANGED registryVars => RegistriesTypeOK'
  BY DEF registryVars, RegistriesTypeOK
<1>2. \A r \in registries : r.id \in Nat /\ r.password \in Nat
  BY DEF RegistriesTypeOK, Registry
<1>3. ASSUME NEW id \in RegistryIds \cup {0}, SetDefaultPushRegistry(id)
      PROVE  RegistriesTypeOK'
  BY <1>2, <1>3 DEF SetDefaultPushRegistry, RegistriesTypeOK, RegistryIds
<1>4. ASSUME NEW id, RemoveRegistry(id), hasRegistrySsl' \in BOOLEAN, authFile' = authFile
      PROVE  RegistriesTypeOK'
  BY <1>4 DEF RemoveRegistry, RegistriesTypeOK
<1>5. ASSUME NEW id, DeleteRegistry(id)
      PROVE  RegistriesTypeOK'
  BY <1>4, <1>5 DEF DeleteRegistry, RegistriesTypeOK
<1>6. ASSUME NEW id, NEW password \in Nat, UpdateRegistry(id, password)
      PROVE  RegistriesTypeOK'
  <2>1. PICK r \in registries :
            /\ registries' = (registries \ {r}) \cup {[r EXCEPT !.password = password]}
            /\ UNCHANGED <<defaultPush, hasRegistrySsl, authFile>>
    BY <1>6 DEF UpdateRegistry, Local
  <2>2. [r EXCEPT !.password = password] \in Registry
    BY DEF Registry, RegistriesTypeOK
  <2>3. QED BY <2>1, <2>2 DEF RegistriesTypeOK
<1>7. RegistrySslEnabled => RegistriesTypeOK'
  BY DEF RegistrySslEnabled, RegistriesTypeOK
<1>8. ASSUME NEW password \in Nat, WriteAuthFile(password)
      PROVE  RegistriesTypeOK'
  BY <1>8 DEF WriteAuthFile, RegistriesTypeOK
<1>9. ASSUME NEW id \in Nat, NEW r \in Roots, AddLocalRegistry(id, r)
      PROVE  RegistriesTypeOK'
  <2>1. SelfHosted(id, r) \in Registry /\ SelfHosted(id, r).id = id
    BY DEF SelfHosted, Registry
  <2>2. QED BY <1>9, <2>1 DEF AddLocalRegistry, AddRegistry, RegistriesTypeOK
<1>10. DisableRegistry => RegistriesTypeOK'
  BY <1>4 DEF DisableRegistry, RegistriesTypeOK
<1>11. RestartRegistry => RegistriesTypeOK'
  <2>1. Local # {} => (CHOOSE r \in Local : TRUE) \in registries
    BY DEF Local
  <2>2. QED BY <1>2, <2>1 DEF RestartRegistry, RegistriesTypeOK
<1>12. QED BY <1>1, <1>3, <1>5, <1>6, <1>7, <1>8, <1>9, <1>10, <1>11

\* A request that begins changes what it waits for, and nothing else.
LEMMA StartTypes ==
    ASSUME DomainTypes, NEW r \in Requests, Start(r)
    PROVE  DomainTypes'
<1>1. /\ UNCHANGED <<registryVars, domainVars, certs>>
      /\ inProcess' \in BOOLEAN
  BY DEF Start, StartBackup, StartRootSsl, StartEnableRegistry, StartAddRegistry,
         StartUpdateRegistry, StartChangeRoot, StartAppSsl, StartRemove, StartRename,
         StartCustomSsl, StartAddCustom, certbotVars, DomainTypes, CertsOK
<1>2. DomainsOK' /\ CertsOK' /\ RegistriesTypeOK'
  BY <1>1, RegistriesKept DEF DomainTypes, DomainsOK, CertsOK, domainVars
<1>3. OpsOK /\ root \in Roots
  BY DEF DomainTypes, DomainsOK
<1>4. {"docker", "verify", "certbot", "file", "copy"} \subseteq Stages
  BY DEF Stages
<1>5. CASE StartBackup(r)
  BY <1>3, <1>4, <1>5, BeginsOK, <1>2 DEF StartBackup, DomainTypes
<1>6. CASE StartRootSsl(r)
  BY <1>3, <1>4, <1>6, BeginsOK, <1>2 DEF StartRootSsl, DomainTypes
<1>7. CASE StartEnableRegistry(r)
  <2>1. Begins(r, "enableregistry", "file", None, root, FALSE)
    BY <1>7 DEF StartEnableRegistry
  <2>2. QED BY <1>2, <1>3, <1>4, <2>1, BeginsOK DEF DomainTypes
<1>8. CASE StartAddRegistry(r)
  BY <1>3, <1>4, <1>8, BeginsOK, <1>2 DEF StartAddRegistry, DomainTypes
<1>9. CASE StartUpdateRegistry(r)
  BY <1>3, <1>4, <1>9, BeginsOK, <1>2 DEF StartUpdateRegistry, DomainTypes
<1>10. ASSUME NEW to \in Roots, NEW force \in BOOLEAN, StartChangeRoot(r, to, force)
       PROVE  DomainTypes'
  BY <1>3, <1>4, <1>10, BeginsOK, <1>2 DEF StartChangeRoot, DomainTypes
<1>11. ASSUME NEW a \in Apps, StartAppSsl(r, a)
       PROVE  DomainTypes'
  BY <1>3, <1>4, <1>11, BeginsOK, <1>2 DEF StartAppSsl, DomainTypes
<1>12. ASSUME NEW a \in Apps, StartRemove(r, a)
       PROVE  DomainTypes'
  BY <1>3, <1>4, <1>12, BeginsOK, <1>2 DEF StartRemove, DomainTypes
<1>13. ASSUME NEW a \in Apps, NEW b \in Apps, StartRename(r, a, b)
       PROVE  DomainTypes'
  <2>1. PICK force \in BOOLEAN : force = (a \in subSsl)
    <3>1. (a \in subSsl) \in BOOLEAN
      OBVIOUS
    <3>2. QED BY <3>1, Zenon
  <2>2. Begins(r, "rename", "docker", a, b, force)
    BY <1>13, <2>1 DEF StartRename
  <2>3. QED BY <1>2, <1>3, <1>4, <2>2, BeginsOK DEF DomainTypes
<1>14. ASSUME NEW a \in Apps, NEW c \in Customs, StartCustomSsl(r, a, c) \/ StartAddCustom(r, a, c)
       PROVE  DomainTypes'
  BY <1>3, <1>4, <1>14, BeginsOK, <1>2 DEF StartCustomSsl, StartAddCustom, DomainTypes
<1>15. QED BY <1>5, <1>6, <1>7, <1>8, <1>9, <1>10, <1>11, <1>12, <1>13, <1>14 DEF Start

\* The certificate an operation asked for.
LEMMA ObtainedOK ==
    ASSUME DomainTypes, NEW s \in Slots, Obtained(s), op[s].domain \in Domain
    PROVE  certs' \subseteq Domain
BY DEF DomainTypes, OpsOK, CertsOK, Obtained, Op

LEMMA CommandTypes ==
    ASSUME DomainTypes, NEW s \in Slots, RunCommand(s) \/ CommandFails(s)
    PROVE  DomainTypes'
<1>1. OpsOK /\ op[s] \in Op /\ Shaped(op[s])
  BY DEF DomainTypes, OpsOK
<1>2. UNCHANGED <<registryVars, domainVars, certs>> /\ inProcess' \in BOOLEAN
  BY DEF RunCommand, CommandFails, CommandEnds, DomainTypes, CertsOK
<1>3. CASE GoesOn(s, [op[s] EXCEPT !.stage = "command"]) /\ op[s].stage = "certbot"
  <2>1. PICK o : o = [op[s] EXCEPT !.stage = "command"]
    OBVIOUS
  <2>2. o \in Op /\ Shaped(o)
    BY <1>1, <1>3, <2>1 DEF Op, Stages, Shaped, Asks
  <2>3. OpsOK'
    BY <1>1, <1>3, <2>1, <2>2, GoesOnOK
  <2>4. QED BY <1>2, <2>3, RegistriesKept DEF DomainTypes, DomainsOK, CertsOK, domainVars
<1>4. CASE Ends(s)
  BY <1>1, <1>2, <1>4, EndsOK, RegistriesKept DEF DomainTypes, DomainsOK, CertsOK, domainVars
<1>5. QED BY <1>3, <1>4 DEF RunCommand, CommandFails

LEMMA RenewalTypes ==
    ASSUME DomainTypes, StartRenewal \/ Renewed
    PROVE  DomainTypes'
<1>1. OpsOK /\ op[Renewal] \in Op /\ Shaped(op[Renewal]) /\ Renewal \in Slots
  BY RequestsAreSlots DEF DomainTypes, OpsOK
<1>2. UNCHANGED <<registryVars, domainVars, certs>> /\ inProcess' \in BOOLEAN
  BY DEF StartRenewal, Renewed, CommandEnds, certbotVars, DomainTypes, CertsOK
<1>3. DomainsOK' /\ CertsOK' /\ RegistriesTypeOK'
  BY <1>2, RegistriesKept DEF DomainTypes, DomainsOK, CertsOK, domainVars
<1>4. CASE StartRenewal
  <2>1. PICK o : o = [NoOp EXCEPT !.kind = "renew", !.stage = "certbot"]
    OBVIOUS
  <2>2. o \in Op /\ Shaped(o)
    BY <2>1 DEF NoOp, Op, Stages, Shaped, Asks
  <2>3. op' = [op EXCEPT ![Renewal] = o]
    BY <1>4, <2>1 DEF StartRenewal
  <2>4. OpsOK'
    BY <1>1, <1>4, <2>2, <2>3 DEF StartRenewal, OpsOK
  <2>5. QED BY <1>3, <2>4 DEF DomainTypes
<1>5. CASE Renewed /\ op[Renewal].again
  BY <1>1, <1>3, <1>5, EndsOK DEF Renewed, DomainTypes
<1>6. CASE Renewed /\ ~op[Renewal].again
  <2>1. PICK o : o = [op[Renewal] EXCEPT !.stage = "certbot", !.again = TRUE]
    OBVIOUS
  <2>2. o \in Op /\ Shaped(o)
    BY <1>1, <1>6, <2>1 DEF Renewed, Op, Stages, Shaped, Asks
  <2>3. QED BY <1>1, <1>3, <1>6, <2>1, <2>2, GoesOnOK DEF Renewed, DomainTypes
<1>7. QED BY <1>4, <1>5, <1>6

LEMMA AtOnceTypes ==
    ASSUME DomainTypes,
           \/ \E e \in BOOLEAN : ForceSsl(e)
           \/ \E a \in Apps, c \in Customs : RemoveCustomDomain(a, c)
           \/ Disable
           \/ \E id \in RegistryIds : Delete(id)
           \/ \E id \in RegistryIds \cup {0} : SetPush(id)
    PROVE  DomainTypes'
<1>1. OpsOK'
  BY AtOnceOK DEF DomainTypes, ForceSsl, RemoveCustomDomain, Disable, Delete, SetPush
<1>2. CertsOK'
  BY DEF DomainTypes, CertsOK, ForceSsl, RemoveCustomDomain, Disable, Delete, SetPush, certbotVars
<1>3. CASE \E e \in BOOLEAN : ForceSsl(e)
  BY <1>1, <1>2, <1>3, RegistriesKept DEF DomainTypes, DomainsOK, ForceSsl
<1>4. CASE \E a \in Apps, c \in Customs : RemoveCustomDomain(a, c)
  BY <1>1, <1>2, <1>4, RegistriesKept DEF DomainTypes, DomainsOK, RemoveCustomDomain
<1>5. CASE \/ Disable
           \/ \E id \in RegistryIds : Delete(id)
           \/ \E id \in RegistryIds \cup {0} : SetPush(id)
  <2>1. UNCHANGED domainVars /\ RegistriesTypeOK'
    BY <1>5, RegistriesKept DEF Disable, Delete, SetPush, DomainTypes
  <2>2. QED BY <1>1, <1>2, <2>1 DEF DomainTypes, DomainsOK, domainVars
<1>6. QED BY <1>3, <1>4, <1>5

LEMMA RestartTypes == DomainTypes /\ Restart => DomainTypes'
<1> SUFFICES ASSUME DomainTypes, Restart PROVE DomainTypes'
  OBVIOUS
<1>1. OpsOK'
  BY NoOpFits DEF DomainTypes, OpsOK, Restart
<1>2. RegistriesTypeOK'
  BY RegistriesKept DEF Restart, DomainTypes
<1>3. QED BY <1>1, <1>2 DEF DomainTypes, DomainsOK, CertsOK, Restart, domainVars

\* A step that leaves the domains and the registries to themselves.
LEMMA QuietTypes ==
    ASSUME DomainTypes, OpsOK', UNCHANGED <<registryVars, domainVars>>,
           certs' \subseteq Domain, inProcess' \in BOOLEAN
    PROVE  DomainTypes'
BY RegistriesKept DEF DomainTypes, DomainsOK, CertsOK, domainVars

LEMMA RootStepTypes ==
    ASSUME DomainTypes, NEW r \in Requests,
           \/ BackupEnds(r)
           \/ Registered(r)
           \/ RootSslEnabled(r)
           \/ ChangeRoot(r)
           \/ Fails(r)
           \/ Disconnect(r)
    PROVE  DomainTypes'
<1>1. /\ OpsOK /\ op[r] \in Op /\ Shaped(op[r]) /\ r \in Slots
      /\ root \in Roots /\ certs \subseteq Domain /\ inProcess \in BOOLEAN
  BY RequestsAreSlots DEF DomainTypes, OpsOK, DomainsOK, CertsOK
<1>2. CASE BackupEnds(r) \/ Fails(r)
  BY <1>1, <1>2, EndsOK, QuietTypes DEF BackupEnds, Fails, certbotVars
<1>3. CASE Registered(r)
  <2>1. PICK o : o = Requested(op[r], Captain(root))
    OBVIOUS
  <2>2. Captain(root) \in Domain /\ op[r].kind = "rootssl"
    BY <1>1, <1>3 DEF Captain, Domain, Registered
  <2>3. o \in Op /\ Shaped(o)
    BY <1>1, <2>1, <2>2 DEF Requested, Op, Stages, Shaped, Asks
  <2>4. OpsOK'
    BY <1>1, <1>3, <2>1, <2>3, GoesOnOK DEF Registered
  <2>5. QED BY <1>1, <1>3, <2>4, QuietTypes DEF Registered, CommandEnds
<1>4. CASE RootSslEnabled(r)
  <2>1. op[r].domain \in Domain
    BY <1>1, <1>4 DEF RootSslEnabled, Op
  <2>2. OpsOK' /\ certs' \subseteq Domain /\ inProcess' \in BOOLEAN /\ UNCHANGED registryVars
    BY <1>1, <1>4, <2>1, EndsOK, ObtainedOK DEF RootSslEnabled, CommandEnds
  <2>3. DomainsOK'
    BY <1>4 DEF DomainTypes, DomainsOK, RootSslEnabled
  <2>4. QED BY <2>2, <2>3, RegistriesKept DEF DomainTypes, CertsOK
<1>5. CASE ChangeRoot(r)
  <2>1. op[r].to \in Roots
    BY <1>1, <1>5 DEF ChangeRoot, At, Shaped
  <2>2. OpsOK' /\ UNCHANGED <<registryVars, certbotVars>>
    BY <1>1, <1>5, EndsOK DEF ChangeRoot
  <2>3. DomainsOK'
    BY <1>5, <2>1 DEF DomainTypes, DomainsOK, ChangeRoot, DisableSsl, RootAfter
  <2>4. QED BY <2>2, <2>3, RegistriesKept DEF DomainTypes, CertsOK, certbotVars
<1>6. CASE Disconnect(r)
  <2>1. PICK o : o = [op[r] EXCEPT !.connected = FALSE]
    OBVIOUS
  <2>2. op[r].connected
    BY <1>6 DEF Disconnect
  <2>3. op[r].stage # "idle"
    BY <1>1, <2>2 DEF Shaped, NoOp
  <2>4. o \in Op /\ Shaped(o)
    BY <1>1, <2>1, <2>3 DEF Op, Shaped, Asks
  <2>5. op' = [op EXCEPT ![r] = o] /\ UNCHANGED <<overlapped, begun>> /\ threadLock' \in BOOLEAN
    BY <1>6, <2>1 DEF Disconnect
  <2>6. OpsOK'
    BY <1>1, <2>4, <2>5 DEF OpsOK
  <2>7. QED BY <1>1, <1>6, <2>6, QuietTypes DEF Disconnect, certbotVars
<1>7. QED BY <1>2, <1>3, <1>4, <1>5, <1>6

LEMMA AppStepTypes ==
    ASSUME DomainTypes, NEW r \in Requests,
           \/ RequestCertificate(r)
           \/ AppSslEnabled(r)
           \/ CustomSslEnabled(r)
           \/ AddCustomDomain(r)
           \/ RemoveApp(r)
           \/ RenameApp(r)
           \/ Renamed(r)
    PROVE  DomainTypes'
<1>1. /\ OpsOK /\ op[r] \in Op /\ Shaped(op[r]) /\ r \in Slots
      /\ DomainsOK /\ certs \subseteq Domain /\ inProcess \in BOOLEAN
  BY RequestsAreSlots DEF DomainTypes, OpsOK, CertsOK
<1>2. CASE RequestCertificate(r)
  <2>0. PICK domain \in Domain :
           /\ GoesOn(r, Requested(op[r], domain))
           /\ op[r].kind # "rootssl"
           /\ op[r].kind # "enableregistry"
           /\ op[r].stage = "verify"
           /\ op[r].kind = "customssl" => domain = <<op[r].to>>
    <3>1. CASE At(r, "appssl", "verify") /\ op[r].app \in apps
      <4>1. SubDomain(op[r].app, root) \in Domain
        BY <1>1, <3>1 DEF SubDomain, Domain, DomainsOK
      <4>2. QED BY <1>2, <3>1, <4>1 DEF RequestCertificate, At
    <3>2. CASE At(r, "customssl", "verify") /\ <<op[r].app, op[r].to>> \in custom
      <4>1. <<op[r].to>> \in Domain
        BY <1>1, <3>2 DEF Domain, DomainsOK
      <4>2. QED BY <1>2, <3>2, <4>1 DEF RequestCertificate, At
    <3>3. QED BY <1>2, <3>1, <3>2 DEF RequestCertificate
  <2>1. PICK o : o = Requested(op[r], domain)
    OBVIOUS
  <2>2. o \in Op /\ Shaped(o)
    BY <1>1, <2>0, <2>1 DEF Requested, Op, Stages, Shaped, Asks
  <2>3. OpsOK'
    BY <1>1, <2>0, <2>1, <2>2, GoesOnOK
  <2>4. QED BY <1>1, <1>2, <2>3, QuietTypes DEF RequestCertificate, certbotVars
<1>3. CASE AppSslEnabled(r)
  <2>1. op[r].domain \in Domain
    BY <1>1, <1>3 DEF AppSslEnabled, At, Shaped, Asks
  <2>2. OpsOK' /\ certs' \subseteq Domain /\ inProcess' \in BOOLEAN /\ UNCHANGED registryVars
    BY <1>1, <1>3, <2>1, EndsOK, ObtainedOK DEF AppSslEnabled, CommandEnds
  <2>3. DomainsOK'
    BY <1>1, <1>3 DEF DomainsOK, AppSslEnabled
  <2>4. QED BY <2>2, <2>3, RegistriesKept DEF DomainTypes, CertsOK
<1>4. CASE CustomSslEnabled(r)
  <2>1. op[r].domain \in Domain
    BY <1>1, <1>4 DEF CustomSslEnabled, At, Shaped, Asks
  <2>2. OpsOK' /\ certs' \subseteq Domain /\ inProcess' \in BOOLEAN /\ UNCHANGED registryVars
    BY <1>1, <1>4, <2>1, EndsOK, ObtainedOK DEF CustomSslEnabled, CommandEnds
  <2>3. DomainsOK'
    BY <1>1, <1>4 DEF DomainsOK, CustomSslEnabled
  <2>4. QED BY <2>2, <2>3, RegistriesKept DEF DomainTypes, CertsOK
<1>5. CASE AddCustomDomain(r)
  <2>1. op[r].to \in Customs
    BY <1>1, <1>5 DEF AddCustomDomain, At, Shaped
  <2>2. DomainsOK'
    BY <1>1, <1>5, <2>1 DEF DomainsOK, AddCustomDomain
  <2>3. QED BY <1>1, <1>5, <2>2, EndsOK, RegistriesKept
            DEF AddCustomDomain, DomainTypes, CertsOK, certbotVars
<1>6. CASE RemoveApp(r)
  <2>1. DomainsOK'
    BY <1>1, <1>6 DEF DomainsOK, RemoveApp, Of
  <2>2. QED BY <1>1, <1>6, <2>1, EndsOK, RegistriesKept
            DEF RemoveApp, DomainTypes, CertsOK, certbotVars
<1>7. CASE RenameApp(r)
  <2>1. op[r].to \in Apps
    BY <1>1, <1>7 DEF RenameApp, At, Shaped
  <2>2. DomainsOK'
    BY <1>1, <1>7, <2>1 DEF DomainsOK, RenameApp, Of, FlagsAfterRename
  <2>3. PICK o : o = [op[r] EXCEPT !.again = TRUE]
    OBVIOUS
  <2>4. o \in Op /\ Shaped(o)
    BY <1>1, <1>7, <2>1, <2>3 DEF Op, RenameApp, At, Shaped, Asks
  <2>5. OpsOK'
    BY <1>1, <1>7, <2>3, <2>4, GoesOnOK DEF RenameApp
  <2>6. QED BY <1>1, <1>7, <2>2, <2>5, RegistriesKept
            DEF RenameApp, DomainTypes, CertsOK, certbotVars
<1>8. CASE Renamed(r)
  <2>1. OpsOK'
    <3>1. PICK o : o = [op[r] EXCEPT !.kind = "appssl", !.stage = "verify", !.app = op[r].to,
                                     !.to = None, !.force = FALSE, !.again = FALSE]
      OBVIOUS
    <3>2. op[r].to \in Apps
      BY <1>1, <1>8 DEF Renamed, At, Shaped
    <3>3. o \in Op
      BY <1>1, <3>1, <3>2 DEF Op, AllKinds, Stages
    <3>4. o.kind = "appssl" /\ o.stage = "verify"
      BY <1>1, <3>1 DEF Op
    <3>5. Shaped(o)
      BY <3>4 DEF Shaped, Asks
    <3>6. CASE GoesOn(r, o)
      BY <1>1, <3>3, <3>5, <3>6, GoesOnOK
    <3>7. CASE Ends(r)
      BY <1>1, <3>7, EndsOK
    <3>8. QED BY <1>8, <3>1, <3>6, <3>7 DEF Renamed
  <2>2. QED BY <1>1, <1>8, <2>1, QuietTypes DEF Renamed, certbotVars
<1>9. QED BY <1>2, <1>3, <1>4, <1>5, <1>6, <1>7, <1>8

LEMMA RegistryStepTypes ==
    ASSUME DomainTypes, NEW r \in Requests,
           \/ RequestRegistryCertificate(r)
           \/ RegistryCertified(r)
           \/ RegistryAuthWritten(r)
           \/ RegistryRuns(r)
           \/ RegistryAdded(r)
           \/ \E id \in RegistryIds : RegistryUpdated(r, id)
    PROVE  DomainTypes'
<1>1. /\ OpsOK /\ op[r] \in Op /\ Shaped(op[r]) /\ r \in Slots /\ op[r].id \in Nat
      /\ DomainsOK /\ certs \subseteq Domain /\ inProcess \in BOOLEAN /\ RegistriesTypeOK
      /\ root \in Roots
  BY RequestsAreSlots DEF DomainTypes, OpsOK, CertsOK, DomainsOK, Op
<1>2. CASE RequestRegistryCertificate(r)
  <2>1. PICK o : o = Requested(op[r], RegistryOf(op[r].to))
    OBVIOUS
  <2>2. op[r].kind = "enableregistry" /\ RegistryOf(op[r].to) \in Domain
    BY <1>1, <1>2 DEF RequestRegistryCertificate, At, Shaped, RegistryOf, Domain
  <2>3. o \in Op /\ Shaped(o)
    BY <1>1, <2>1, <2>2 DEF Requested, Op, Stages, Shaped, Asks
  <2>4. OpsOK'
    BY <1>1, <1>2, <2>1, <2>3, GoesOnOK DEF RequestRegistryCertificate
  <2>5. QED BY <1>1, <1>2, <2>4, QuietTypes DEF RequestRegistryCertificate, certbotVars
<1>3. CASE RegistryCertified(r)
  <2>1. PICK o : o = [op[r] EXCEPT !.stage = "file", !.again = TRUE]
    OBVIOUS
  <2>2. o \in Op /\ Shaped(o) /\ op[r].domain \in Domain
    BY <1>1, <1>3, <2>1 DEF RegistryCertified, At, Op, Stages, Shaped, Asks
  <2>3. OpsOK'
    BY <1>1, <1>3, <2>1, <2>2, GoesOnOK DEF RegistryCertified
  <2>4. certs' \subseteq Domain /\ inProcess' \in BOOLEAN /\ RegistriesTypeOK'
    BY <1>1, <1>3, <2>2, ObtainedOK, RegistriesKept DEF RegistryCertified, CommandEnds
  <2>5. QED BY <1>1, <1>3, <2>3, <2>4
            DEF RegistryCertified, DomainTypes, CertsOK, DomainsOK, domainVars
<1>4. CASE RegistryAuthWritten(r)
  <2>1. PICK o : o = [op[r] EXCEPT !.stage = "docker"]
    OBVIOUS
  <2>2. o \in Op /\ Shaped(o)
    BY <1>1, <1>4, <2>1 DEF RegistryAuthWritten, At, Op, Stages, Shaped, Asks
  <2>3. OpsOK' /\ RegistriesTypeOK' /\ UNCHANGED <<domainVars, certbotVars>>
    BY <1>1, <1>4, <2>1, <2>2, GoesOnOK, RegistriesKept DEF RegistryAuthWritten
  <2>4. QED BY <1>1, <2>3 DEF DomainTypes, CertsOK, DomainsOK, domainVars, certbotVars
<1>5. CASE RegistryRuns(r)
  <2>1. OpsOK' /\ RegistriesTypeOK' /\ UNCHANGED <<domainVars, certbotVars>>
    BY <1>1, <1>5, EndsOK, RegistriesKept DEF RegistryRuns
  <2>2. QED BY <1>1, <2>1 DEF DomainTypes, CertsOK, DomainsOK, domainVars, certbotVars
<1>6. CASE RegistryAdded(r)
  <2>1. PICK x : x = [id |-> op[r].id, local |-> FALSE, address |-> None, password |-> 0]
    OBVIOUS
  <2>2. x \in Registry /\ x.id \in Nat
    BY <1>1, <2>1 DEF Registry
  <2>3. AddRegistry(x) /\ UNCHANGED <<hasRegistrySsl, authFile, domainVars, certbotVars>>
    BY <1>6, <2>1 DEF RegistryAdded
  <2>4. RegistriesTypeOK'
    BY <1>1, <2>2, <2>3 DEF AddRegistry, RegistriesTypeOK
  <2>5. OpsOK'
    BY <1>1, <1>6, EndsOK DEF RegistryAdded
  <2>6. QED BY <1>1, <2>3, <2>4, <2>5 DEF DomainTypes, CertsOK, DomainsOK, domainVars, certbotVars
<1>7. CASE \E id \in RegistryIds : RegistryUpdated(r, id)
  <2>1. OpsOK' /\ RegistriesTypeOK' /\ UNCHANGED <<domainVars, certbotVars>>
    BY <1>1, <1>7, EndsOK, RegistriesKept DEF RegistryUpdated
  <2>2. QED BY <1>1, <2>1 DEF DomainTypes, CertsOK, DomainsOK, domainVars, certbotVars
<1>8. QED BY <1>2, <1>3, <1>4, <1>5, <1>6, <1>7

LEMMA InitTypes == Init => DomainTypes
<1> SUFFICES ASSUME Init PROVE DomainTypes
  OBVIOUS
<1>1. OpsOK
  BY NoOpFits DEF Init, OpsOK
<1>2. DomainsOK /\ CertsOK /\ RegistriesTypeOK
  BY DomainsAssumption DEF Init, DomainsOK, CertsOK, RegistriesInit, RegistriesTypeOK
<1>3. QED BY <1>1, <1>2 DEF DomainTypes

LEMMA NextTypes == DomainTypes /\ [Next]_vars => DomainTypes'
<1> SUFFICES ASSUME DomainTypes, [Next]_vars PROVE DomainTypes'
  OBVIOUS
<1>1. CASE UNCHANGED vars
  BY <1>1, RegistriesKept
     DEF DomainTypes, OpsOK, DomainsOK, CertsOK, vars, domainVars, certbotVars, bounds
<1>2. ASSUME NEW r \in Requests, Step(r)
      PROVE  DomainTypes'
  BY <1>2, RootStepTypes, AppStepTypes, RegistryStepTypes DEF Step
<1>3. QED BY <1>1, <1>2, StartTypes, CommandTypes, RenewalTypes, AtOnceTypes, RestartTypes DEF Next

\* The root domain, apps, certificates, registries and what every request
\* does stay well typed, for any number of requests, clients and restarts.
THEOREM DomainsTyped == Spec => []TypeOK
<1>1. QED BY InitTypes, NextTypes, TypesAreRight, PTL DEF Spec

-----------------------------------------------------------------------------
(* The lock of certbot.  Who takes it finds it free, who holds it is the   *)
(* one that frees it, and nobody else's step touches it.                   *)

LEMMA LockKept ==
    ASSUME LockInv, NEW s \in Slots, \A q \in Slots \ {s} : op'[q] = op[q],
           \/ inProcess' = inProcess /\ (Holds(op'[s]) <=> Holds(op[s]))
           \/ ~inProcess /\ inProcess' /\ Holds(op'[s])
           \/ Holds(op[s]) /\ ~inProcess' /\ ~Holds(op'[s])
    PROVE  LockInv'
BY DEF LockInv, Holds

LEMMA NoOpHoldsNothing == ~Holds(NoOp)
BY DEF NoOp, Holds

\* What a step of s does to the operations.
LEMMA OneMoves ==
    ASSUME OpsOK, NEW s \in Slots
    PROVE  /\ Ends(s) => op'[s] = NoOp /\ \A q \in Slots \ {s} : op'[q] = op[q]
           /\ \A f : GoesOn(s, f) => op'[s] = f /\ \A q \in Slots \ {s} : op'[q] = op[q]
           /\ \A kind, stage, a, to, force :
                 Begins(s, kind, stage, a, to, force) =>
                     /\ op'[s].kind = kind
                     /\ op'[s].stage = stage
                     /\ op'[s].to = to
                     /\ op'[s].domain = None
                     /\ op'[s].again = FALSE
                     /\ op[s].stage = "idle"
                     /\ \A q \in Slots \ {s} : op'[q] = op[q]
<1>1. Ends(s) => op'[s] = NoOp /\ \A q \in Slots \ {s} : op'[q] = op[q]
  BY DEF Ends, OpsOK
<1>2. ASSUME NEW f, GoesOn(s, f)
      PROVE  op'[s] = f /\ \A q \in Slots \ {s} : op'[q] = op[q]
  BY <1>2 DEF GoesOn, OpsOK
<1>3. ASSUME NEW kind, NEW stage, NEW a, NEW to, NEW force,
             Begins(s, kind, stage, a, to, force)
      PROVE  /\ op'[s].kind = kind
             /\ op'[s].stage = stage
             /\ op'[s].to = to
             /\ op'[s].domain = None
             /\ op'[s].again = FALSE
             /\ op[s].stage = "idle"
             /\ \A q \in Slots \ {s} : op'[q] = op[q]
  BY <1>3 DEF Begins, OpsOK
<1>4. QED BY <1>1, <1>2, <1>3

LEMMA GoingOnKeepsLock ==
    ASSUME OpsOK, LockInv, NEW s \in Slots, NEW f, GoesOn(s, f),
           \/ inProcess' = inProcess /\ (Holds(f) <=> Holds(op[s]))
           \/ ~inProcess /\ inProcess' /\ Holds(f)
           \/ Holds(op[s]) /\ ~inProcess' /\ ~Holds(f)
    PROVE  LockInv'
<1>1. op'[s] = f /\ \A q \in Slots \ {s} : op'[q] = op[q]
  BY OneMoves
<1>2. QED BY <1>1, LockKept

LEMMA EndingHoldsNothing ==
    ASSUME OpsOK, NEW s \in Slots, Ends(s)
    PROVE  /\ ~Holds(op'[s])
           /\ \A q \in Slots \ {s} : op'[q] = op[q]
<1>1. op'[s] = NoOp /\ \A q \in Slots \ {s} : op'[q] = op[q]
  BY OneMoves
<1>2. QED BY <1>1, NoOpHoldsNothing

LEMMA StartKeepsLock ==
    ASSUME DomainTypes, LockInv, NEW r \in Requests, Start(r)
    PROVE  LockInv'
<1>1. OpsOK /\ r \in Slots
  BY RequestsAreSlots DEF DomainTypes
<1>2. CASE StartBackup(r)
  <2>1. Begins(r, "backup", "copy", None, None, FALSE) /\ ~inProcess /\ inProcess'
    BY <1>2 DEF StartBackup
  <2>2. op'[r].stage = "copy" /\ \A q \in Slots \ {r} : op'[q] = op[q]
    BY <1>1, <2>1 DEF Begins, OpsOK
  <2>3. Holds(op'[r])
    BY <2>2 DEF Holds
  <2>4. QED BY <1>1, <2>1, <2>2, <2>3, LockKept
<1>3. CASE ~StartBackup(r)
  <2>1. PICK kind, stage, a, to :
            /\ \E force : Begins(r, kind, stage, a, to, force)
            /\ stage \in {"certbot", "docker", "file", "verify"}
    BY <1>3 DEF Start, StartRootSsl, StartEnableRegistry, StartAddRegistry, StartUpdateRegistry,
                StartChangeRoot, StartAppSsl, StartRemove, StartRename, StartCustomSsl, StartAddCustom
  <2>2. inProcess' = inProcess
    BY <1>3 DEF Start, StartRootSsl, StartEnableRegistry, StartAddRegistry, StartUpdateRegistry,
                StartChangeRoot, StartAppSsl, StartRemove, StartRename, StartCustomSsl, StartAddCustom,
                certbotVars
  <2>3. ~Holds(op[r]) /\ ~Holds(op'[r]) /\ \A q \in Slots \ {r} : op'[q] = op[q]
    BY <1>1, <2>1, OneMoves DEF Holds
  <2>4. QED BY <1>1, <2>2, <2>3, LockKept
<1>4. QED BY <1>2, <1>3

LEMMA CommandKeepsLock ==
    ASSUME DomainTypes, LockInv, NEW s \in Slots, RunCommand(s) \/ CommandFails(s)
    PROVE  LockInv'
<1>1. OpsOK /\ op[s] \in Op /\ inProcess \in BOOLEAN
  BY DEF DomainTypes, OpsOK, CertsOK
<1>2. CASE RunCommand(s) /\ inProcess
  <2>1. Ends(s) /\ inProcess' = inProcess /\ ~Holds(op[s])
    BY <1>2 DEF RunCommand, Holds
  <2>2. ~Holds(op'[s]) /\ \A q \in Slots \ {s} : op'[q] = op[q]
    BY <1>1, <2>1, EndingHoldsNothing
  <2>3. QED BY <1>1, <2>1, <2>2, LockKept
<1>3. CASE RunCommand(s) /\ ~inProcess
  <2>1. PICK o : o = [op[s] EXCEPT !.stage = "command"]
    OBVIOUS
  <2>2. Holds(o)
    BY <1>1, <2>1 DEF Holds, Op
  <2>3. inProcess' /\ GoesOn(s, o)
    BY <1>3, <2>1 DEF RunCommand
  <2>4. QED BY <1>1, <1>3, <2>2, <2>3, GoingOnKeepsLock
<1>4. CASE CommandFails(s)
  <2>1. Ends(s) /\ ~inProcess' /\ Holds(op[s])
    BY <1>4 DEF CommandFails, CommandEnds, Holds
  <2>2. ~Holds(op'[s]) /\ \A q \in Slots \ {s} : op'[q] = op[q]
    BY <1>1, <2>1, EndingHoldsNothing
  <2>3. QED BY <1>1, <2>1, <2>2, LockKept
<1>5. QED BY <1>2, <1>3, <1>4

LEMMA RenewalKeepsLock ==
    ASSUME DomainTypes, LockInv, StartRenewal \/ Renewed
    PROVE  LockInv'
<1>1. OpsOK /\ op[Renewal] \in Op /\ inProcess \in BOOLEAN /\ Renewal \in Slots
  BY RequestsAreSlots DEF DomainTypes, OpsOK, CertsOK
<1>2. CASE StartRenewal
  <2>1. PICK o : o = [NoOp EXCEPT !.kind = "renew", !.stage = "certbot"]
    OBVIOUS
  <2>2. ~Holds(o) /\ ~Holds(op[Renewal]) /\ inProcess' = inProcess
    BY <1>2, <2>1 DEF Holds, NoOp, StartRenewal, certbotVars
  <2>3. op'[Renewal] = o /\ \A q \in Slots \ {Renewal} : op'[q] = op[q]
    BY <1>1, <1>2, <2>1 DEF StartRenewal, OpsOK
  <2>4. QED BY <1>1, <2>2, <2>3, LockKept
<1>3. CASE Renewed
  <2>1. Holds(op[Renewal]) /\ ~inProcess'
    BY <1>3 DEF Renewed, CommandEnds, Holds
  <2>2. ~Holds(op'[Renewal]) /\ \A q \in Slots \ {Renewal} : op'[q] = op[q]
    <3>1. CASE op[Renewal].again
      <4>1. Ends(Renewal)
        BY <1>3, <3>1 DEF Renewed
      <4>2. QED BY <1>1, <4>1, EndingHoldsNothing
    <3>2. CASE ~op[Renewal].again
      <4>1. PICK o : o = [op[Renewal] EXCEPT !.stage = "certbot", !.again = TRUE]
        OBVIOUS
      <4>2. ~Holds(o)
        BY <1>1, <4>1 DEF Holds, Op
      <4>3. QED BY <1>1, <1>3, <3>2, <4>1, <4>2, OneMoves DEF Renewed
    <3>3. QED BY <3>1, <3>2
  <2>3. QED BY <1>1, <2>1, <2>2, LockKept
<1>4. QED BY <1>2, <1>3

\* Every step of a request that goes on ends its turn with the lock, or does
\* not touch it.
LEMMA StepKeepsLock ==
    ASSUME DomainTypes, LockInv, NEW r \in Requests, Step(r)
    PROVE  LockInv'
<1>1. OpsOK /\ op[r] \in Op /\ inProcess \in BOOLEAN /\ r \in Slots
  BY RequestsAreSlots DEF DomainTypes, OpsOK, CertsOK
<1>2. CASE BackupEnds(r) \/ RootSslEnabled(r) \/ AppSslEnabled(r) \/ CustomSslEnabled(r)
  <2>1. Ends(r) /\ ~inProcess' /\ Holds(op[r])
    BY <1>2 DEF BackupEnds, RootSslEnabled, AppSslEnabled, CustomSslEnabled, CommandEnds, Holds, At
  <2>2. ~Holds(op'[r]) /\ \A q \in Slots \ {r} : op'[q] = op[q]
    BY <1>1, <2>1, EndingHoldsNothing
  <2>3. QED BY <1>1, <2>1, <2>2, LockKept
<1>3. CASE \/ ChangeRoot(r) \/ AddCustomDomain(r) \/ RemoveApp(r) \/ RegistryRuns(r)
           \/ RegistryAdded(r) \/ (\E id \in RegistryIds : RegistryUpdated(r, id)) \/ Fails(r)
  <2>1. Ends(r) /\ inProcess' = inProcess /\ ~Holds(op[r])
    BY <1>3 DEF ChangeRoot, AddCustomDomain, RemoveApp, RegistryRuns, RegistryAdded,
                RegistryUpdated, Fails, At, Holds, certbotVars
  <2>2. ~Holds(op'[r]) /\ \A q \in Slots \ {r} : op'[q] = op[q]
    BY <1>1, <2>1, EndingHoldsNothing
  <2>3. QED BY <1>1, <2>1, <2>2, LockKept
<1>4. CASE Registered(r)
  <2>1. PICK o : o = Requested(op[r], Captain(root))
    OBVIOUS
  <2>2. ~Holds(o)
    BY <1>1, <2>1 DEF Holds, Op, Requested
  <2>3. Holds(op[r]) /\ ~inProcess' /\ GoesOn(r, o)
    BY <1>4, <2>1 DEF Registered, CommandEnds, Holds
  <2>4. QED BY <1>1, <2>2, <2>3, GoingOnKeepsLock
<1>5. CASE RequestCertificate(r) \/ RequestRegistryCertificate(r)
  <2>1. PICK domain : GoesOn(r, Requested(op[r], domain))
    BY <1>5 DEF RequestCertificate, RequestRegistryCertificate
  <2>2. PICK o : o = Requested(op[r], domain)
    OBVIOUS
  <2>3. ~Holds(o)
    BY <1>1, <2>2 DEF Holds, Op, Requested
  <2>4. ~Holds(op[r]) /\ inProcess' = inProcess /\ GoesOn(r, o)
    BY <1>5, <2>1, <2>2
       DEF RequestCertificate, RequestRegistryCertificate, At, certbotVars, Holds
  <2>5. QED BY <1>1, <2>3, <2>4, GoingOnKeepsLock
<1>6. CASE RenameApp(r)
  <2>1. PICK o : o = [op[r] EXCEPT !.again = TRUE]
    OBVIOUS
  <2>2. ~Holds(o) /\ ~Holds(op[r])
    BY <1>1, <1>6, <2>1 DEF Holds, Op, RenameApp, At
  <2>3. inProcess' = inProcess /\ GoesOn(r, o)
    BY <1>6, <2>1 DEF RenameApp, certbotVars
  <2>4. QED BY <1>1, <2>2, <2>3, GoingOnKeepsLock
<1>7. CASE Renamed(r)
  <2>1. PICK o : o = [op[r] EXCEPT !.kind = "appssl", !.stage = "verify", !.app = op[r].to,
                                   !.to = None, !.force = FALSE, !.again = FALSE]
    OBVIOUS
  <2>2. ~Holds(o) /\ ~Holds(op[r])
    BY <1>1, <1>7, <2>1 DEF Holds, Op, Renamed, At
  <2>3. inProcess' = inProcess /\ (GoesOn(r, o) \/ Ends(r))
    BY <1>7, <2>1 DEF Renamed, certbotVars
  <2>4. CASE Ends(r)
    <3>1. ~Holds(op'[r]) /\ \A q \in Slots \ {r} : op'[q] = op[q]
      BY <1>1, <2>4, EndingHoldsNothing
    <3>2. QED BY <1>1, <2>2, <2>3, <3>1, LockKept
  <2>5. QED BY <1>1, <2>2, <2>3, <2>4, GoingOnKeepsLock
<1>8. CASE RegistryCertified(r)
  <2>1. PICK o : o = [op[r] EXCEPT !.stage = "file", !.again = TRUE]
    OBVIOUS
  <2>2. ~Holds(o)
    BY <1>1, <2>1 DEF Holds, Op
  <2>3. Holds(op[r]) /\ ~inProcess' /\ GoesOn(r, o)
    BY <1>8, <2>1 DEF RegistryCertified, CommandEnds, At, Holds
  <2>4. QED BY <1>1, <2>2, <2>3, GoingOnKeepsLock
<1>9. CASE RegistryAuthWritten(r)
  <2>1. PICK o : o = [op[r] EXCEPT !.stage = "docker"]
    OBVIOUS
  <2>2. ~Holds(o) /\ ~Holds(op[r])
    BY <1>1, <1>9, <2>1 DEF Holds, Op, RegistryAuthWritten, At
  <2>3. inProcess' = inProcess /\ GoesOn(r, o)
    BY <1>9, <2>1 DEF RegistryAuthWritten, certbotVars
  <2>4. QED BY <1>1, <2>2, <2>3, GoingOnKeepsLock
<1>10. CASE Disconnect(r)
  <2>1. PICK o : o = [op[r] EXCEPT !.connected = FALSE]
    OBVIOUS
  <2>2. Holds(o) <=> Holds(op[r])
    BY <1>1, <2>1 DEF Holds, Op
  <2>3. inProcess' = inProcess /\ op' = [op EXCEPT ![r] = o]
    BY <1>10, <2>1 DEF Disconnect, certbotVars
  <2>4. op'[r] = o /\ \A q \in Slots \ {r} : op'[q] = op[q]
    BY <1>1, <2>3 DEF OpsOK
  <2>5. QED BY <1>1, <2>2, <2>3, <2>4, LockKept
<1>11. QED BY <1>2, <1>3, <1>4, <1>5, <1>6, <1>7, <1>8, <1>9, <1>10 DEF Step

LEMMA NextKeepsLock == DomainTypes /\ LockInv /\ [Next]_vars => LockInv'
<1> SUFFICES ASSUME DomainTypes, LockInv, [Next]_vars PROVE LockInv'
  OBVIOUS
<1>1. CASE \/ UNCHANGED vars
           \/ \E e \in BOOLEAN : ForceSsl(e)
           \/ \E a \in Apps, c \in Customs : RemoveCustomDomain(a, c)
           \/ Disable
           \/ \E id \in RegistryIds : Delete(id)
           \/ \E id \in RegistryIds \cup {0} : SetPush(id)
  <2>1. UNCHANGED <<op, inProcess>>
    BY <1>1 DEF vars, ForceSsl, RemoveCustomDomain, Disable, Delete, SetPush, AtOnce, certbotVars
  <2>2. QED BY <2>1 DEF LockInv, Holds
<1>2. CASE Restart
  BY <1>2, NoOpHoldsNothing DEF Restart, LockInv, Holds
<1>3. QED BY <1>1, <1>2, StartKeepsLock, CommandKeepsLock, RenewalKeepsLock, StepKeepsLock DEF Next

LEMMA LockIsExclusive == LockInv => CertbotIsExclusive
<1> SUFFICES ASSUME LockInv PROVE CertbotIsExclusive
  OBVIOUS
<1> DEFINE holders == {s \in Slots : op[s].stage \in {"command", "copy"}}
<1>1. inProcess <=> holders # {}
  BY DEF LockInv, Holds
<1>2. \A s, q \in holders : s = q
  BY DEF LockInv, Holds
<1>3. Cardinality(holders) <= 1
  <2>1. CASE holders = {}
    <3>1. Cardinality(holders) = 0
      BY <2>1, FS_EmptySet, Zenon
    <3>2. QED BY <3>1
  <2>2. CASE holders # {}
    <3>1. PICK s \in holders : TRUE
      BY <2>2
    <3>2. holders = {s}
      BY <1>2, <3>1
    <3>3. Cardinality({s}) = 1
      BY FS_Singleton
    <3>4. Cardinality(holders) = 1
      BY <3>2, <3>3, Zenon
    <3>5. QED BY <3>4
  <2>3. QED BY <2>1, <2>2
<1>4. QED BY <1>1, <1>3 DEF CertbotIsExclusive

\* Certbot runs one command at a time and never beside a backup, and its lock
\* is held exactly while one of them runs: whatever fails, whoever leaves, and
\* however often the process starts again.
THEOREM CertbotCorrect == Spec => []CertbotIsExclusive
<1>1. Init => LockInv
  BY NoOpHoldsNothing DEF Init, LockInv, Holds
<1>2. QED BY <1>1, InitTypes, NextTypes, NextKeepsLock, LockIsExclusive, PTL DEF Spec

-----------------------------------------------------------------------------
(* The flags.  While nobody overlaps, the only request under way works for *)
(* the root domain there is; and what it has certified stays certified.    *)

LEMMA NoOpInStep == InStep(NoOp)
BY DEF InStep, NoOp

\* Another request than the one that is under way has nothing in hand.
LEMMA IdleInStep ==
    ASSUME OpsOK, NEW q \in Requests, q \notin Active
    PROVE  op[q] = NoOp
BY RequestsAreSlots DEF Active, OpsOK, Shaped

LEMMA OthersAlone ==
    ASSUME OpsOK, NEW r \in Requests, \A p, q \in Active : p = q, r \in Active,
           \A q \in Slots \ {r} : op'[q] = op[q],
           InStep(op[r])'
    PROVE  /\ (\A p, q \in Active : p = q)'
           /\ (\A q \in Requests : InStep(op[q]))'
<1>1. \A q \in Requests \ {r} : op[q] = NoOp /\ op'[q] = NoOp
  BY IdleInStep, RequestsAreSlots
<1>2. \A q \in Requests \ {r} : InStep(op[q])'
  BY <1>1, NoOpInStep DEF InStep, NoOp
<1>3. (\A q \in Requests : InStep(op[q]))'
  BY <1>2
<1>4. \A q \in Requests \ {r} : ~(q \in Active)'
  BY <1>1 DEF Active, NoOp
<1>5. QED BY <1>3, <1>4 DEF Active

\* What a step of a request that leaves the domains alone has to keep.
LEMMA QuietFlags ==
    ASSUME OpsOK, FlagsInv, UNCHANGED <<domainVars, overlapped>>, certs \subseteq certs',
           hasRegistrySsl => hasRegistrySsl',
           NEW r \in Requests, r \in Active, \A q \in Slots \ {r} : op'[q] = op[q],
           ~overlapped => InStep(op[r])'
    PROVE  FlagsInv'
<1>1. (forceSsl => hasRootSsl)' /\ (\A p \in customSsl : <<p[2]>> \in certs)'
  BY DEF FlagsInv, domainVars
<1>2. ASSUME ~overlapped PROVE Alone'
  <2>1. Alone
    BY <1>2 DEF FlagsInv
  <2>2. (\A p, q \in Active : p = q)' /\ (\A q \in Requests : InStep(op[q]))'
    BY <1>2, <2>1, OthersAlone DEF Alone
  <2>3. /\ (hasRootSsl => Captain(root) \in certs)'
        /\ (hasRootSsl => \A a \in subSsl : SubDomain(a, root) \in certs)'
        /\ (~hasRootSsl => subSsl = {})'
    BY <2>1 DEF Alone, domainVars, Captain, SubDomain
  <2>4. QED BY <2>2, <2>3 DEF Alone
<1>3. QED BY <1>1, <1>2 DEF FlagsInv

LEMMA EndsFlags ==
    ASSUME OpsOK, FlagsInv, UNCHANGED domainVars, certs \subseteq certs',
           hasRegistrySsl => hasRegistrySsl',
           NEW r \in Requests, r \in Active, Ends(r)
    PROVE  FlagsInv'
<1>1. op'[r] = NoOp /\ \A q \in Slots \ {r} : op'[q] = op[q]
  BY OneMoves, RequestsAreSlots
<1>2. InStep(op[r])'
  BY <1>1 DEF InStep, NoOp
<1>3. QED BY <1>1, <1>2, QuietFlags DEF Ends

LEMMA BeginsFlags ==
    ASSUME OpsOK, FlagsInv, UNCHANGED <<domainVars, certs, hasRegistrySsl>>,
           NEW r \in Requests, NEW kind, NEW stage, NEW a, NEW to, NEW force,
           Begins(r, kind, stage, a, to, force),
           kind = "appssl" => hasRootSsl /\ stage = "verify",
           kind = "enableregistry" => to = root /\ stage = "file"
    PROVE  FlagsInv'
<1>1. (forceSsl => hasRootSsl)' /\ (\A p \in customSsl : <<p[2]>> \in certs)'
  BY DEF FlagsInv, domainVars
<1>2. ASSUME ~overlapped' PROVE Alone'
  <2>1. ~overlapped /\ Active = {}
    BY <1>2 DEF Begins
  <2>2. Alone
    BY <2>1 DEF FlagsInv
  <2>3. \A q \in Requests \ {r} : op[q] = NoOp /\ op'[q] = NoOp
    BY <2>1, IdleInStep, OneMoves, RequestsAreSlots
  <2>4. \A q \in Requests \ {r} : InStep(op[q])' /\ ~(q \in Active)'
    BY <2>3 DEF InStep, NoOp, Active
  <2>5. /\ op'[r].kind = kind
        /\ op'[r].stage = stage
        /\ op'[r].to = to
        /\ op'[r].domain = None
        /\ op'[r].again = FALSE
    BY RequestsAreSlots DEF Begins, OpsOK
  <2>6. root' = root /\ hasRootSsl' = hasRootSsl
    BY DEF domainVars
  <2>7. InStep(op[r])'
    BY <2>5, <2>6 DEF InStep, Asks, Certified
  <2>8. /\ (hasRootSsl => Captain(root) \in certs)'
        /\ (hasRootSsl => \A x \in subSsl : SubDomain(x, root) \in certs)'
        /\ (~hasRootSsl => subSsl = {})'
    BY <2>2 DEF Alone, domainVars, Captain, SubDomain
  <2>9. (\A p, q \in Active : p = q)'
    BY <2>4 DEF Active
  <2>10. (\A q \in Requests : InStep(op[q]))'
    BY <2>4, <2>7
  <2>11. QED BY <2>8, <2>9, <2>10 DEF Alone
<1>3. QED BY <1>1, <1>2 DEF FlagsInv

LEMMA StartKeepsFlags ==
    ASSUME DomainTypes, FlagsInv, NEW r \in Requests, Start(r)
    PROVE  FlagsInv'
<1>1. UNCHANGED <<domainVars, certs, hasRegistrySsl>> /\ OpsOK
  BY DEF Start, StartBackup, StartRootSsl, StartEnableRegistry, StartAddRegistry,
         StartUpdateRegistry, StartChangeRoot, StartAppSsl, StartRemove, StartRename,
         StartCustomSsl, StartAddCustom, certbotVars, registryVars, DomainTypes
<1>2. CASE StartEnableRegistry(r)
  <2>1. Begins(r, "enableregistry", "file", None, root, FALSE)
    BY <1>2 DEF StartEnableRegistry
  <2>2. QED BY <1>1, <2>1, BeginsFlags
<1>3. ASSUME NEW a \in Apps, StartAppSsl(r, a)
      PROVE  FlagsInv'
  <2>1. Begins(r, "appssl", "verify", a, None, FALSE) /\ hasRootSsl
    BY <1>3 DEF StartAppSsl
  <2>2. QED BY <1>1, <2>1, BeginsFlags
<1>4. CASE StartBackup(r) \/ StartRootSsl(r) \/ StartAddRegistry(r) \/ StartUpdateRegistry(r)
  BY <1>1, <1>4, BeginsFlags DEF StartBackup, StartRootSsl, StartAddRegistry, StartUpdateRegistry
<1>5. ASSUME NEW to, NEW force, StartChangeRoot(r, to, force)
      PROVE  FlagsInv'
  BY <1>1, <1>5, BeginsFlags DEF StartChangeRoot
<1>6. ASSUME NEW a, StartRemove(r, a)
      PROVE  FlagsInv'
  BY <1>1, <1>6, BeginsFlags DEF StartRemove
<1>7. ASSUME NEW a, NEW b, StartRename(r, a, b)
      PROVE  FlagsInv'
  <2>1. PICK force : force = (a \in subSsl)
    OBVIOUS
  <2>2. Begins(r, "rename", "docker", a, b, force)
    BY <1>7, <2>1 DEF StartRename
  <2>3. QED BY <1>1, <2>2, BeginsFlags
<1>8. ASSUME NEW a, NEW c, StartCustomSsl(r, a, c) \/ StartAddCustom(r, a, c)
      PROVE  FlagsInv'
  BY <1>1, <1>8, BeginsFlags DEF StartCustomSsl, StartAddCustom
<1>9. QED BY <1>2, <1>3, <1>4, <1>5, <1>6, <1>7, <1>8 DEF Start

\* The steps of the renewal, and what is done at once, when requests stay
\* where they are.
LEMMA RequestsStay ==
    ASSUME OpsOK, Alone, \A q \in Requests : op'[q] = op[q],
           UNCHANGED <<root, hasRootSsl, hasRegistrySsl, certs>>
    PROVE  (\A p, q \in Active : p = q)' /\ (\A q \in Requests : InStep(op[q]))'
<1>1. (\A p, q \in Active : p = q)'
  BY DEF Active, Alone
<1>2. ASSUME NEW q \in Requests PROVE InStep(op[q])'
  <2>1. InStep(op[q]) /\ op'[q] = op[q]
    BY DEF Alone
  <2>2. QED BY <2>1 DEF InStep, Captain, SubDomain, RegistryOf
<1>3. QED BY <1>1, <1>2

LEMMA CommandKeepsFlags ==
    ASSUME DomainTypes, FlagsInv, NEW s \in Slots, RunCommand(s) \/ CommandFails(s)
    PROVE  FlagsInv'
<1>1. OpsOK /\ op[s] \in Op /\ op[s].stage # "idle"
  BY DEF DomainTypes, OpsOK, RunCommand, CommandFails, CommandEnds
<1>2. UNCHANGED <<domainVars, certs, hasRegistrySsl, overlapped>>
  BY DEF RunCommand, CommandFails, registryVars, GoesOn, Ends
<1>3. \A q \in Slots \ {s} : op'[q] = op[q]
  BY <1>1, OneMoves DEF RunCommand, CommandFails
<1>4. CASE s \notin Requests
  <2>1. \A q \in Requests : op'[q] = op[q]
    BY <1>3, <1>4, RequestsAreSlots
  <2>2. QED BY <1>1, <1>2, <2>1, RequestsStay DEF FlagsInv, Alone, domainVars, Captain, SubDomain
<1>5. CASE s \in Requests
  <2>1. s \in Active
    BY <1>1, <1>5 DEF Active
  <2>2. CASE Ends(s)
    BY <1>1, <1>2, <1>5, <2>1, <2>2, EndsFlags
  <2>3. CASE op[s].stage = "certbot" /\ GoesOn(s, [op[s] EXCEPT !.stage = "command"])
    <3>1. op'[s] = [op[s] EXCEPT !.stage = "command"]
      BY <1>1, <2>3, OneMoves
    <3>2. ~overlapped => InStep(op[s])
      BY <1>5 DEF FlagsInv, Alone
    <3>3. /\ op'[s].kind = op[s].kind /\ op'[s].to = op[s].to /\ op'[s].domain = op[s].domain
          /\ op'[s].app = op[s].app /\ op'[s].stage = "command"
      BY <1>1, <3>1 DEF Op
    <3>4. ~overlapped => InStep(op[s])'
      BY <1>2, <2>3, <3>2, <3>3
         DEF InStep, Asks, Certified, domainVars, Captain, SubDomain, RegistryOf
    <3>5. QED BY <1>1, <1>2, <1>3, <1>5, <2>1, <3>4, QuietFlags
  <2>4. QED BY <2>2, <2>3 DEF RunCommand, CommandFails
<1>6. QED BY <1>4, <1>5

LEMMA RenewalKeepsFlags ==
    ASSUME DomainTypes, FlagsInv, StartRenewal \/ Renewed
    PROVE  FlagsInv'
<1>1. OpsOK
  BY DEF DomainTypes
<1>2. UNCHANGED <<domainVars, certs, hasRegistrySsl, overlapped>>
  BY DEF StartRenewal, Renewed, registryVars, certbotVars, GoesOn, Ends
<1>3. \A q \in Slots \ {Renewal} : op'[q] = op[q]
  <2>1. CASE StartRenewal
    BY <1>1, <2>1 DEF StartRenewal, OpsOK
  <2>2. CASE Renewed
    BY <1>1, <2>2, OneMoves, RequestsAreSlots DEF Renewed
  <2>3. QED BY <2>1, <2>2
<1>4. \A q \in Requests : op'[q] = op[q]
  BY <1>3, RequestsAreSlots, DomainsAssumption
<1>5. QED BY <1>1, <1>2, <1>4, RequestsStay DEF FlagsInv, Alone, domainVars, Captain, SubDomain

LEMMA AtOnceKeepsFlags ==
    ASSUME DomainTypes, FlagsInv,
           \/ \E e \in BOOLEAN : ForceSsl(e)
           \/ \E a \in Apps, c \in Customs : RemoveCustomDomain(a, c)
           \/ Disable
           \/ \E id \in RegistryIds : Delete(id)
           \/ \E id \in RegistryIds \cup {0} : SetPush(id)
    PROVE  FlagsInv'
<1>1. OpsOK /\ UNCHANGED <<op, certs, root, hasRootSsl, subSsl>> /\ customSsl' \subseteq customSsl
  BY DEF DomainTypes, ForceSsl, RemoveCustomDomain, Disable, Delete, SetPush, AtOnce, domainVars,
         certbotVars
<1>2. overlapped' <=> (overlapped \/ Active # {})
  BY DEF ForceSsl, RemoveCustomDomain, Disable, Delete, SetPush, AtOnce
<1>3. (forceSsl => hasRootSsl)'
  BY DEF FlagsInv, ForceSsl, RemoveCustomDomain, Disable, Delete, SetPush, domainVars
<1>4. (\A p \in customSsl : <<p[2]>> \in certs)'
  BY <1>1 DEF FlagsInv
<1>5. ASSUME ~overlapped' PROVE Alone'
  <2>1. ~overlapped /\ Active = {} /\ Alone
    BY <1>2, <1>5 DEF FlagsInv
  <2>2. \A q \in Requests : op'[q] = NoOp
    BY <1>1, <2>1, IdleInStep
  <2>3. (\A q \in Requests : InStep(op[q]))'
    BY <2>2 DEF InStep, NoOp
  <2>4. (\A p, q \in Active : p = q)'
    BY <2>2 DEF Active, NoOp
  <2>5. QED BY <1>1, <2>1, <2>3, <2>4 DEF Alone, Captain, SubDomain
<1>6. QED BY <1>3, <1>4, <1>5 DEF FlagsInv

LEMMA RestartKeepsFlags ==
    ASSUME DomainTypes, FlagsInv, Restart
    PROVE  FlagsInv'
<1>1. UNCHANGED <<domainVars, certs, overlapped>> /\ \A q \in Requests : op'[q] = NoOp
  BY RequestsAreSlots DEF Restart
<1>2. (\A q \in Requests : InStep(op[q]))'
  BY <1>1 DEF InStep, NoOp
<1>3. (\A p, q \in Active : p = q)'
  BY <1>1 DEF Active, NoOp
<1>4. QED BY <1>1, <1>2, <1>3 DEF FlagsInv, Alone, domainVars, Captain, SubDomain

\* A step that keeps an operation going, or ends it, and is quiet.
LEMMA QuietStepsKeepFlags ==
    ASSUME DomainTypes, FlagsInv, NEW r \in Requests,
           \/ BackupEnds(r) \/ Fails(r)
           \/ RegistryRuns(r) \/ RegistryAdded(r)
           \/ \E id \in RegistryIds : RegistryUpdated(r, id)
    PROVE  FlagsInv'
<1>1. /\ Ends(r) /\ op[r].stage # "idle"
      /\ UNCHANGED <<domainVars, certs, hasRegistrySsl>>
  BY DEF BackupEnds, Fails, RegistryRuns, RegistryAdded, RegistryUpdated, At, certbotVars,
         registryVars, AddLocalRegistry, UpdateRegistry
<1>2. QED BY <1>1, EndsFlags DEF DomainTypes, Active

LEMMA GoingOnFlags ==
    ASSUME OpsOK, FlagsInv, UNCHANGED domainVars, certs \subseteq certs',
           hasRegistrySsl => hasRegistrySsl',
           NEW r \in Requests, op[r].stage # "idle", NEW f, GoesOn(r, f),
           ~overlapped => InStep(f)'
    PROVE  FlagsInv'
<1>1. op'[r] = f /\ \A q \in Slots \ {r} : op'[q] = op[q]
  BY OneMoves, RequestsAreSlots
<1>2. ~overlapped => InStep(op[r])'
  BY <1>1 DEF InStep, Asks, Certified, Captain, SubDomain, RegistryOf
<1>3. r \in Active /\ UNCHANGED overlapped
  BY DEF Active, GoesOn
<1>4. QED BY <1>1, <1>2, <1>3, QuietFlags

LEMMA AskingKeepsFlags ==
    ASSUME DomainTypes, FlagsInv, NEW r \in Requests,
           Registered(r) \/ RequestCertificate(r) \/ RequestRegistryCertificate(r)
    PROVE  FlagsInv'
<1>1. OpsOK /\ op[r] \in Op /\ op[r].stage # "idle"
  BY RequestsAreSlots
     DEF DomainTypes, OpsOK, Registered, RequestCertificate, RequestRegistryCertificate, At, CommandEnds
<1>2. UNCHANGED <<domainVars, certs, hasRegistrySsl>>
  BY DEF Registered, RequestCertificate, RequestRegistryCertificate, registryVars, certbotVars
<1>3. ~overlapped => InStep(op[r])
  BY DEF FlagsInv, Alone
<1>4. PICK domain, f : /\ f = Requested(op[r], domain)
                       /\ GoesOn(r, f)
                       /\ op[r].kind = "rootssl" => domain = Captain(root)
                       /\ op[r].kind = "appssl" => domain = SubDomain(op[r].app, root)
                       /\ op[r].kind = "enableregistry" => domain = RegistryOf(op[r].to)
  BY DEF Registered, RequestCertificate, RequestRegistryCertificate, At
<1>5. /\ f.kind = op[r].kind /\ f.stage = "certbot" /\ f.domain = domain
      /\ f.to = op[r].to /\ f.app = op[r].app
  BY <1>1, <1>4 DEF Requested, Op
<1>6. ~overlapped => InStep(f)'
  BY <1>2, <1>3, <1>4, <1>5 DEF InStep, Asks, Certified, domainVars, Captain, SubDomain, RegistryOf
<1>7. QED BY <1>1, <1>2, <1>4, <1>6, GoingOnFlags

LEMMA RegistryStepsKeepFlags ==
    ASSUME DomainTypes, FlagsInv, NEW r \in Requests,
           RegistryCertified(r) \/ RegistryAuthWritten(r)
    PROVE  FlagsInv'
<1>1. OpsOK /\ op[r] \in Op /\ op[r].stage # "idle"
  BY RequestsAreSlots DEF DomainTypes, OpsOK, RegistryCertified, RegistryAuthWritten, At
<1>2. ~overlapped => InStep(op[r])
  BY DEF FlagsInv, Alone
<1>3. op[r].kind = "enableregistry" /\ UNCHANGED domainVars
  BY DEF RegistryCertified, RegistryAuthWritten, At
<1>4. CASE RegistryCertified(r)
  <2>1. PICK f : f = [op[r] EXCEPT !.stage = "file", !.again = TRUE]
    OBVIOUS
  <2>2. f.kind = "enableregistry" /\ f.stage = "file" /\ f.to = op[r].to
    BY <1>1, <1>3, <2>1 DEF Op
  <2>3. certs' = certs \cup {op[r].domain} /\ hasRegistrySsl' /\ GoesOn(r, f)
    BY <1>4, <2>1 DEF RegistryCertified, Obtained, RegistrySslEnabled
  <2>4. ~overlapped => op[r].to = root /\ op[r].domain = RegistryOf(root)
    BY <1>2, <1>3, <1>4 DEF InStep, RegistryCertified, At, Asks
  <2>5. ~overlapped => InStep(f)'
    BY <1>3, <2>2, <2>3, <2>4 DEF InStep, Asks, domainVars, RegistryOf
  <2>6. QED BY <1>1, <1>3, <2>3, <2>5, GoingOnFlags
<1>5. CASE RegistryAuthWritten(r)
  <2>1. PICK f : f = [op[r] EXCEPT !.stage = "docker"]
    OBVIOUS
  <2>2. f.kind = "enableregistry" /\ f.stage = "docker" /\ f.to = op[r].to
    BY <1>1, <1>3, <2>1 DEF Op
  <2>3. UNCHANGED <<certs, hasRegistrySsl>> /\ GoesOn(r, f)
    BY <1>5, <2>1 DEF RegistryAuthWritten, WriteAuthFile, certbotVars
  <2>4. ~overlapped => op[r].to = root /\ hasRegistrySsl /\ RegistryOf(root) \in certs
    BY <1>2, <1>3, <1>5 DEF InStep, RegistryAuthWritten, At, Certified
  <2>5. ~overlapped => InStep(f)'
    BY <1>3, <2>2, <2>3, <2>4 DEF InStep, Asks, domainVars, RegistryOf
  <2>6. QED BY <1>1, <1>3, <2>3, <2>5, GoingOnFlags
<1>6. QED BY <1>4, <1>5

LEMMA RenamedKeepsFlags ==
    ASSUME DomainTypes, FlagsInv, NEW r \in Requests, Renamed(r)
    PROVE  FlagsInv'
<1>1. /\ OpsOK /\ op[r] \in Op /\ op[r].stage # "idle"
      /\ UNCHANGED <<domainVars, certs, hasRegistrySsl>>
  BY RequestsAreSlots DEF DomainTypes, OpsOK, Renamed, At, registryVars, certbotVars
<1>2. CASE Ends(r)
  BY <1>1, <1>2, EndsFlags DEF Active
<1>3. PICK f : f = [op[r] EXCEPT !.kind = "appssl", !.stage = "verify", !.app = op[r].to,
                                 !.to = None, !.force = FALSE, !.again = FALSE]
  OBVIOUS
<1>4. f.kind = "appssl" /\ f.stage = "verify"
  BY <1>1, <1>3 DEF Op
<1>5. CASE GoesOn(r, f) /\ hasRootSsl
  <2>1. InStep(f)'
    BY <1>1, <1>4, <1>5 DEF InStep, Asks, domainVars
  <2>2. QED BY <1>1, <1>5, <2>1, GoingOnFlags
<1>6. QED BY <1>2, <1>3, <1>5 DEF Renamed

LEMMA DisconnectKeepsFlags ==
    ASSUME DomainTypes, FlagsInv, NEW r \in Requests, Disconnect(r)
    PROVE  FlagsInv'
<1>1. OpsOK /\ op[r] \in Op /\ Shaped(op[r]) /\ r \in Slots
  BY RequestsAreSlots DEF DomainTypes, OpsOK
<1>2. UNCHANGED <<domainVars, certs, hasRegistrySsl, overlapped>>
  BY DEF Disconnect, registryVars, certbotVars
<1>3. r \in Active
  BY <1>1 DEF Disconnect, Shaped, NoOp, Active
<1>4. /\ op'[r].kind = op[r].kind /\ op'[r].stage = op[r].stage /\ op'[r].domain = op[r].domain
      /\ op'[r].to = op[r].to /\ op'[r].app = op[r].app /\ op'[r].again = op[r].again
      /\ \A q \in Slots \ {r} : op'[q] = op[q]
  BY <1>1 DEF Disconnect, OpsOK, Op
<1>5. ~overlapped => InStep(op[r])
  BY DEF FlagsInv, Alone
<1>6. ~overlapped => InStep(op[r])'
  BY <1>2, <1>4, <1>5 DEF InStep, Asks, Certified, domainVars, Captain, SubDomain, RegistryOf
<1>7. QED BY <1>1, <1>2, <1>3, <1>4, <1>6, QuietFlags

\* The end of an operation, whatever it has changed: nobody is left.
LEMMA EndsAlone ==
    ASSUME OpsOK, NEW r \in Requests, op[r].stage # "idle", Ends(r), Alone
    PROVE  (\A p, q \in Active : p = q)' /\ (\A q \in Requests : InStep(op[q]))'
<1>1. op'[r] = NoOp /\ \A q \in Slots \ {r} : op'[q] = op[q]
  BY OneMoves, RequestsAreSlots
<1>2. \A q \in Requests \ {r} : op[q] = NoOp
  BY IdleInStep DEF Alone, Active
<1>3. \A q \in Requests : op'[q] = NoOp
  BY <1>1, <1>2, RequestsAreSlots
<1>4. QED BY <1>3 DEF InStep, NoOp, Active

LEMMA RootStepsKeepFlags ==
    ASSUME DomainTypes, FlagsInv, NEW r \in Requests, RootSslEnabled(r) \/ ChangeRoot(r)
    PROVE  FlagsInv'
<1>1. /\ OpsOK /\ op[r].stage # "idle" /\ Ends(r) /\ overlapped' = overlapped
      /\ DomainsOK /\ UNCHANGED customSsl
  BY DEF DomainTypes, RootSslEnabled, ChangeRoot, At, CommandEnds, Ends
<1>2. ~overlapped =>
          /\ Alone
          /\ InStep(op[r])
          /\ (\A p, q \in Active : p = q)'
          /\ (\A q \in Requests : InStep(op[q]))'
  BY <1>1, EndsAlone DEF FlagsInv, Alone
<1>3. CASE RootSslEnabled(r)
  <2>1. /\ hasRootSsl' = TRUE /\ UNCHANGED <<root, subSsl>>
        /\ certs' = certs \cup {op[r].domain}
    BY <1>3 DEF RootSslEnabled, Obtained
  <2>2. ~overlapped => op[r].domain = Captain(root)
    BY <1>2, <1>3 DEF InStep, RootSslEnabled
  <2>3. ~overlapped => \A a \in subSsl : SubDomain(a, root) \in certs
    BY <1>1, <1>2 DEF Alone, DomainsOK
  <2>4. ~overlapped => Alone'
    BY <1>2, <2>1, <2>2, <2>3 DEF Alone, Captain, SubDomain
  <2>5. QED BY <1>1, <2>1, <2>4 DEF FlagsInv
<1>4. CASE ChangeRoot(r)
  <2>1. UNCHANGED certs /\ (forceSsl => hasRootSsl)
    BY <1>4 DEF ChangeRoot, certbotVars, FlagsInv
  <2>2. CASE hasRootSsl /\ root # op[r].to /\ ~op[r].force
             /\ UNCHANGED <<root, hasRootSsl, forceSsl, subSsl>>
    BY <1>1, <1>2, <2>1, <2>2 DEF FlagsInv, Alone, Captain, SubDomain
  <2>3. CASE /\ op[r].force \/ ~hasRootSsl \/ root = op[r].to
             /\ DisableSsl(op[r].force)
             /\ root' = RootAfter(op[r].to)
    <3>1. CASE op[r].force
      <4>1. hasRootSsl' = FALSE /\ forceSsl' = FALSE /\ subSsl' = {}
        BY <2>3, <3>1 DEF DisableSsl
      <4>2. QED BY <1>1, <1>2, <2>1, <4>1 DEF FlagsInv, Alone
    <3>2. CASE ~op[r].force
      <4>1. UNCHANGED <<hasRootSsl, forceSsl, subSsl>>
        BY <1>1, <2>3, <3>2 DEF DisableSsl, DomainsOK
      <4>2. hasRootSsl => root' = root
        BY <2>3, <3>2 DEF RootAfter
      <4>3. QED BY <1>1, <1>2, <2>1, <4>1, <4>2 DEF FlagsInv, Alone, Captain, SubDomain
    <3>3. QED BY <3>1, <3>2
  <2>4. QED BY <1>4, <2>2, <2>3 DEF ChangeRoot
<1>5. QED BY <1>3, <1>4

LEMMA AppStepsKeepFlags ==
    ASSUME DomainTypes, FlagsInv, NEW r \in Requests,
           \/ AppSslEnabled(r)
           \/ CustomSslEnabled(r)
           \/ AddCustomDomain(r)
           \/ RemoveApp(r)
    PROVE  FlagsInv'
<1>1. /\ OpsOK /\ op[r].stage # "idle" /\ Ends(r) /\ overlapped' = overlapped
      /\ DomainsOK /\ UNCHANGED <<root, hasRootSsl, forceSsl>>
  BY DEF DomainTypes, AppSslEnabled, CustomSslEnabled, AddCustomDomain, RemoveApp, At, Ends
<1>2. ~overlapped =>
          /\ Alone
          /\ InStep(op[r])
          /\ (\A p, q \in Active : p = q)'
          /\ (\A q \in Requests : InStep(op[q]))'
  BY <1>1, EndsAlone DEF FlagsInv, Alone
<1>3. CASE AppSslEnabled(r)
  <2>1. /\ certs' = certs \cup {op[r].domain} /\ UNCHANGED customSsl
        /\ subSsl' \subseteq subSsl \cup {op[r].app}
    BY <1>3 DEF AppSslEnabled, Obtained
  <2>2. ~overlapped => hasRootSsl /\ op[r].domain = SubDomain(op[r].app, root)
    BY <1>2, <1>3 DEF InStep, AppSslEnabled, At, Asks
  <2>3. ~overlapped => Alone'
    BY <1>1, <1>2, <2>1, <2>2 DEF Alone, Captain, SubDomain
  <2>4. QED BY <1>1, <2>1, <2>3 DEF FlagsInv
<1>4. CASE CustomSslEnabled(r)
  <2>1. /\ certs' = certs \cup {op[r].domain} /\ UNCHANGED subSsl
        /\ customSsl' \subseteq customSsl \cup {<<op[r].app, op[r].to>>}
    BY <1>4 DEF CustomSslEnabled, Obtained
  <2>2. op[r].domain = <<op[r].to>>
    BY <1>1, <1>4, RequestsAreSlots DEF OpsOK, Shaped, CustomSslEnabled, At, Asks
  <2>3. ASSUME NEW p \in customSsl' PROVE <<p[2]>> \in certs'
    <3>1. CASE p \in customSsl
      BY <2>1, <3>1 DEF FlagsInv
    <3>2. CASE p = <<op[r].app, op[r].to>>
      <4>1. p[2] = op[r].to
        BY <3>2
      <4>2. QED BY <2>1, <2>2, <4>1
    <3>3. QED BY <2>1, <3>1, <3>2
  <2>4. ~overlapped => Alone'
    BY <1>1, <1>2, <2>1 DEF Alone, Captain, SubDomain
  <2>5. QED BY <1>1, <2>3, <2>4 DEF FlagsInv
<1>5. CASE AddCustomDomain(r) \/ RemoveApp(r)
  <2>1. UNCHANGED certs /\ subSsl' \subseteq subSsl /\ customSsl' \subseteq customSsl
    BY <1>5 DEF AddCustomDomain, RemoveApp, certbotVars
  <2>2. ~overlapped => Alone'
    BY <1>1, <1>2, <2>1 DEF Alone, Captain, SubDomain
  <2>3. QED BY <1>1, <2>1, <2>2 DEF FlagsInv
<1>6. QED BY <1>3, <1>4, <1>5

\* A renamed app keeps the certificates of its custom domains.
LEMMA RenameKeepsFlags ==
    ASSUME DomainTypes, FlagsInv, NEW r \in Requests, RenameApp(r)
    PROVE  FlagsInv'
<1>1. /\ OpsOK /\ op[r] \in Op /\ op[r].stage # "idle" /\ r \in Active
      /\ DomainsOK /\ UNCHANGED <<root, hasRootSsl, forceSsl, certs>>
      /\ subSsl' \subseteq subSsl
  BY RequestsAreSlots
     DEF DomainTypes, OpsOK, RenameApp, At, certbotVars, FlagsAfterRename, Active
<1>2. PICK f : f = [op[r] EXCEPT !.again = TRUE]
  OBVIOUS
<1>3. GoesOn(r, f) /\ f.kind = "rename"
  BY <1>1, <1>2 DEF RenameApp, At, Op
<1>4. op'[r] = f /\ (\A q \in Slots \ {r} : op'[q] = op[q]) /\ overlapped' = overlapped
  <2>1. overlapped' = overlapped
    BY <1>3 DEF GoesOn
  <2>2. QED BY <1>1, <1>3, <2>1, OneMoves, RequestsAreSlots
<1>5. InStep(op[r])'
  BY <1>3, <1>4 DEF InStep
<1>6. ASSUME NEW p \in customSsl' PROVE \E q \in customSsl : p[2] = q[2]
  BY DEF RenameApp, Of
<1>7. (\A p \in customSsl : <<p[2]>> \in certs)'
  BY <1>1, <1>6 DEF FlagsInv
<1>8. ASSUME ~overlapped PROVE Alone'
  <2>1. Alone
    BY <1>8 DEF FlagsInv
  <2>2. (\A p, q \in Active : p = q)' /\ (\A q \in Requests : InStep(op[q]))'
    BY <1>1, <1>4, <1>5, <2>1, OthersAlone DEF Alone
  <2>3. QED BY <1>1, <2>1, <2>2 DEF Alone, Captain, SubDomain
<1>9. QED BY <1>1, <1>4, <1>7, <1>8 DEF FlagsInv

LEMMA NextKeepsFlags == DomainTypes /\ FlagsInv /\ [Next]_vars => FlagsInv'
<1> SUFFICES ASSUME DomainTypes, FlagsInv, [Next]_vars PROVE FlagsInv'
  OBVIOUS
<1>1. CASE UNCHANGED vars
  <2>1. UNCHANGED <<op, root, hasRootSsl, forceSsl, subSsl, customSsl, certs, overlapped, hasRegistrySsl>>
    BY <1>1 DEF vars, domainVars, certbotVars, registryVars
  <2>2. QED BY <2>1, RequestsStay DEF FlagsInv, Alone, Captain, SubDomain, DomainTypes
<1>2. ASSUME NEW r \in Requests, Step(r)
      PROVE  FlagsInv'
  BY <1>2, QuietStepsKeepFlags, AskingKeepsFlags, RegistryStepsKeepFlags, RenamedKeepsFlags,
     DisconnectKeepsFlags, RootStepsKeepFlags, AppStepsKeepFlags, RenameKeepsFlags DEF Step
<1>3. QED BY <1>1, <1>2, StartKeepsFlags, CommandKeepsFlags, RenewalKeepsFlags,
             AtOnceKeepsFlags, RestartKeepsFlags DEF Next

LEMMA InitFlags == Init => FlagsInv
<1> SUFFICES ASSUME Init PROVE FlagsInv
  OBVIOUS
<1>1. \A r \in Requests : op[r] = NoOp
  BY RequestsAreSlots DEF Init
<1>2. Active = {}
  BY <1>1 DEF Active, NoOp
<1>3. \A r \in Requests : InStep(op[r])
  BY <1>1, NoOpInStep
<1>4. QED BY <1>2, <1>3 DEF Init, FlagsInv, Alone

\* Where nginx is told to use a certificate there is one, for every instance,
\* unless requests overlapped; and SSL is only forced where there is SSL.
THEOREM FlagsCorrect == Spec => []FlagsHaveCertificates
<1>1. FlagsInv => FlagsHaveCertificates
  BY DEF FlagsInv, Alone, FlagsHaveCertificates
<1>2. QED BY <1>1, InitFlags, InitTypes, NextTypes, NextKeepsFlags, PTL DEF Spec

-----------------------------------------------------------------------------
(* The self-hosted registry.                                               *)

LEMMA LocalKept ==
    ASSUME LocalRegistryIsServed, Local' \subseteq Local, overlapped => overlapped',
           Local' # {} => /\ root' = root
                          /\ certs \subseteq certs'
                          /\ hasRegistrySsl => hasRegistrySsl'
    PROVE  LocalRegistryIsServed'
<1> SUFFICES ASSUME NEW r \in Local'
             PROVE  /\ Local' = {r}
                    /\ r.address = root'
                    /\ ~overlapped' => hasRegistrySsl' /\ RegistryOf(root') \in certs'
  BY DEF LocalRegistryIsServed, RegistryOf
<1>1. r \in Local /\ Local = {r} /\ r.address = root
  BY DEF LocalRegistryIsServed
<1>2. ~overlapped => hasRegistrySsl /\ RegistryOf(root) \in certs
  BY <1>1 DEF LocalRegistryIsServed
<1>3. QED BY <1>1, <1>2

LEMMA LocalStays ==
    ASSUME LocalRegistryIsServed, UNCHANGED <<registries, root>>, overlapped => overlapped',
           certs \subseteq certs', hasRegistrySsl => hasRegistrySsl'
    PROVE  LocalRegistryIsServed'
<1>1. Local' = Local
  BY DEF Local
<1>2. QED BY <1>1, LocalKept

\* A request that begins, and the steps that only ask or answer.
LEMMA OthersKeepLocal ==
    ASSUME LocalRegistryIsServed,
           \/ UNCHANGED vars
           \/ \E r \in Requests : Start(r)
           \/ \E s \in Slots : RunCommand(s) \/ CommandFails(s)
           \/ StartRenewal
           \/ Renewed
           \/ \E e \in BOOLEAN : ForceSsl(e)
           \/ \E a \in Apps, c \in Customs : RemoveCustomDomain(a, c)
           \/ \E id \in RegistryIds \cup {0} : SetPush(id)
           \/ Restart
    PROVE  LocalRegistryIsServed'
<1>1. UNCHANGED <<registries, hasRegistrySsl, root, certs>>
  BY DEF vars, Start, StartBackup, StartRootSsl, StartEnableRegistry, StartAddRegistry,
         StartUpdateRegistry, StartChangeRoot, StartAppSsl, StartRemove, StartRename,
         StartCustomSsl, StartAddCustom, RunCommand, CommandFails, StartRenewal, Renewed, ForceSsl,
         RemoveCustomDomain, SetPush, SetDefaultPushRegistry, Restart, RestartRegistry,
         registryVars, domainVars, certbotVars
<1>2. overlapped => overlapped'
  <2>1. ASSUME NEW r \in Requests, Start(r)
        PROVE  overlapped => overlapped'
    BY <2>1 DEF Start, StartBackup, StartRootSsl, StartEnableRegistry, StartAddRegistry,
                StartUpdateRegistry, StartChangeRoot, StartAppSsl, StartRemove, StartRename,
                StartCustomSsl, StartAddCustom, Begins
  <2>2. CASE \/ UNCHANGED vars
             \/ \E s \in Slots : RunCommand(s) \/ CommandFails(s)
             \/ StartRenewal
             \/ Renewed
             \/ Restart
    BY <2>2 DEF vars, RunCommand, CommandFails, StartRenewal, Renewed, Ends, GoesOn, Restart
  <2>3. CASE \/ \E e \in BOOLEAN : ForceSsl(e)
             \/ \E a \in Apps, c \in Customs : RemoveCustomDomain(a, c)
             \/ \E id \in RegistryIds \cup {0} : SetPush(id)
    BY <2>3 DEF ForceSsl, RemoveCustomDomain, SetPush, AtOnce
  <2>4. QED BY <2>1, <2>2, <2>3
<1>3. QED BY <1>1, <1>2, LocalStays

\* The steps of a request that are not about registries.
LEMMA DomainStepsKeepLocal ==
    ASSUME LocalRegistryIsServed, NEW r \in Requests,
           \/ BackupEnds(r) \/ Registered(r) \/ RootSslEnabled(r)
           \/ RequestCertificate(r) \/ AppSslEnabled(r) \/ CustomSslEnabled(r)
           \/ AddCustomDomain(r) \/ RemoveApp(r) \/ RenameApp(r) \/ Renamed(r)
           \/ RequestRegistryCertificate(r) \/ Fails(r) \/ Disconnect(r)
           \/ RegistryCertified(r) \/ RegistryAuthWritten(r)
    PROVE  LocalRegistryIsServed'
<1>1. UNCHANGED <<registries, root, overlapped>>
  BY DEF BackupEnds, Registered, RootSslEnabled, RequestCertificate, AppSslEnabled,
         CustomSslEnabled, AddCustomDomain, RemoveApp, RenameApp, Renamed,
         RequestRegistryCertificate, Fails, Disconnect, RegistryCertified, RegistrySslEnabled,
         RegistryAuthWritten, WriteAuthFile, Ends, GoesOn, registryVars, domainVars
<1>2. certs \subseteq certs'
  BY DEF BackupEnds, Registered, RootSslEnabled, RequestCertificate, AppSslEnabled,
         CustomSslEnabled, AddCustomDomain, RemoveApp, RenameApp, Renamed,
         RequestRegistryCertificate, Fails, Disconnect, RegistryCertified, RegistryAuthWritten,
         Obtained, certbotVars
<1>3. hasRegistrySsl => hasRegistrySsl'
  BY DEF BackupEnds, Registered, RootSslEnabled, RequestCertificate, AppSslEnabled,
         CustomSslEnabled, AddCustomDomain, RemoveApp, RenameApp, Renamed,
         RequestRegistryCertificate, Fails, Disconnect, RegistryCertified, RegistrySslEnabled,
         RegistryAuthWritten, WriteAuthFile, registryVars
<1>4. QED BY <1>1, <1>2, <1>3, LocalStays

\* The root domain stays while there is a self-hosted registry; other
\* registries come, change and go; and disabling leaves none.
LEMMA RegistryStepsKeepLocal ==
    ASSUME DomainTypes, LocalRegistryIsServed,
           \/ \E r \in Requests : ChangeRoot(r) \/ RegistryAdded(r)
           \/ \E r \in Requests : \E id \in RegistryIds : RegistryUpdated(r, id)
           \/ \E id \in RegistryIds : Delete(id)
           \/ Disable
    PROVE  LocalRegistryIsServed'
<1>1. (overlapped => overlapped') /\ UNCHANGED certs
  <2>1. CASE \E r \in Requests : Ends(r) /\ UNCHANGED certbotVars
    BY <2>1 DEF Ends, certbotVars
  <2>2. CASE (\E kind : AtOnce(kind)) /\ UNCHANGED certbotVars
    BY <2>2 DEF AtOnce, certbotVars
  <2>3. QED BY <2>1, <2>2 DEF ChangeRoot, RegistryAdded, RegistryUpdated, Delete, Disable
<1>2. CASE \E r \in Requests : ChangeRoot(r)
  <2>1. UNCHANGED <<registries, hasRegistrySsl>> /\ (Local # {} => root' = root)
    BY <1>2 DEF ChangeRoot, RootAfter, registryVars
  <2>2. Local' = Local
    BY <2>1 DEF Local
  <2>3. QED BY <1>1, <2>1, <2>2, LocalKept
<1>3. CASE \E r \in Requests : RegistryAdded(r)
  <2>1. PICK x : ~x.local /\ registries' = registries \cup {x}
    BY <1>3 DEF RegistryAdded, AddRegistry
  <2>2. UNCHANGED <<hasRegistrySsl, root>>
    BY <1>3 DEF RegistryAdded, domainVars
  <2>3. Local' \subseteq Local
    BY <2>1 DEF Local
  <2>4. QED BY <1>1, <2>2, <2>3, LocalKept
<1>4. CASE \E r \in Requests : \E id \in RegistryIds : RegistryUpdated(r, id)
  <2>1. PICK x \in registries \ Local :
            \E password : registries' = (registries \ {x}) \cup {[x EXCEPT !.password = password]}
    BY <1>4 DEF RegistryUpdated, UpdateRegistry
  <2>2. \A password : ~[x EXCEPT !.password = password].local
    BY <2>1 DEF Local, DomainTypes, RegistriesTypeOK, Registry
  <2>3. UNCHANGED <<hasRegistrySsl, root>>
    BY <1>4 DEF RegistryUpdated, UpdateRegistry, domainVars
  <2>4. Local' \subseteq Local
    BY <2>1, <2>2 DEF Local
  <2>5. QED BY <1>1, <2>3, <2>4, LocalKept
<1>5. CASE \E id \in RegistryIds : Delete(id)
  <2>1. UNCHANGED <<hasRegistrySsl, root>> /\ registries' \subseteq registries
    BY <1>5 DEF Delete, DeleteRegistry, RemoveRegistry, domainVars
  <2>2. Local' \subseteq Local
    BY <2>1 DEF Local
  <2>3. QED BY <1>1, <2>1, <2>2, LocalKept
<1>6. CASE Disable
  <2>1. PICK r \in Local : registries' = {x \in registries : x.id # r.id}
    BY <1>6 DEF Disable, DisableRegistry, RemoveRegistry
  <2>2. Local = {r}
    BY DEF LocalRegistryIsServed
  <2>3. Local' = {}
    BY <2>1, <2>2 DEF Local
  <2>4. QED BY <1>1, <2>3, LocalKept
<1>7. QED BY <1>2, <1>3, <1>4, <1>5, <1>6

\* The one step that makes a self-hosted registry finds none, and was
\* certified for the root domain there is if nobody has overlapped it.
LEMMA RegistryRunsServed ==
    ASSUME DomainTypes, FlagsInv, LocalRegistryIsServed, NEW r \in Requests, RegistryRuns(r)
    PROVE  LocalRegistryIsServed'
<1>1. UNCHANGED <<hasRegistrySsl, root, certs, overlapped>>
  BY DEF RegistryRuns, AddLocalRegistry, domainVars, certbotVars, registryVars, Ends
<1>2. CASE UNCHANGED registryVars
  BY <1>1, <1>2, LocalStays DEF registryVars
<1>3. CASE AddLocalRegistry(op[r].id, root)
  <2>1. PICK x : x = SelfHosted(op[r].id, root)
    OBVIOUS
  <2>2. x.address = root
    BY <2>1 DEF SelfHosted
  <2>3. Local = {} /\ registries' = registries \cup {x}
    BY <1>3, <2>1 DEF AddLocalRegistry, AddRegistry
  <2>4. Local' \subseteq {x}
    BY <2>3 DEF Local
  <2>5. ~overlapped => hasRegistrySsl /\ RegistryOf(root) \in certs
    BY DEF FlagsInv, Alone, InStep, RegistryRuns, At, Certified
  <2>6. QED BY <1>1, <2>2, <2>4, <2>5 DEF LocalRegistryIsServed, RegistryOf
<1>4. QED BY <1>2, <1>3 DEF RegistryRuns

LEMMA NextKeepsLocal ==
    DomainTypes /\ FlagsInv /\ LocalRegistryIsServed /\ [Next]_vars => LocalRegistryIsServed'
BY OthersKeepLocal, DomainStepsKeepLocal, RegistryStepsKeepLocal, RegistryRunsServed DEF Next, Step

\* There is at most one self-hosted registry, however many attempts to enable
\* it overlap; it is at the root domain there is, and served there with SSL.
THEOREM RegistryCorrect == Spec => []LocalRegistryIsServed
<1>1. Init => LocalRegistryIsServed
  BY DEF Init, RegistriesInit, LocalRegistryIsServed, Local
<1>2. QED BY <1>1, InitTypes, InitFlags, NextTypes, NextKeepsFlags, NextKeepsLocal, PTL DEF Spec
=============================================================================
