----------------------------- MODULE Registries -----------------------------
(***************************************************************************)
(* Docker registries: DockerRegistryHelper and RegistriesDataStore, the    *)
(* list of registries with its default for pushes, and what                *)
(* SelfHostedDockerRegistry keeps outside the list: the password file of   *)
(* the registry service and whether nginx serves it with SSL.  The data    *)
(* store answers within one turn of the event loop, so an operation that   *)
(* waits for nothing else is one step.  Domains runs these steps.          *)
(***************************************************************************)
EXTENDS Integers, FiniteSets

CONSTANTS
    Roots,    \* root domains: the self-hosted registry has its address in one
    None

VARIABLES
    registries,      \* dockerRegistries
    defaultPush,     \* defaultDockerRegId, or 0
    hasRegistrySsl,
    authFile         \* the password in the file the registry service reads

registryVars == <<registries, defaultPush, hasRegistrySsl, authFile>>

\* A registry and a password are known by the request that made them.
Registry == [id : Nat, local : BOOLEAN, address : Roots \cup {None}, password : Nat]

RegistriesTypeOK ==
    /\ registries \in SUBSET Registry
    /\ defaultPush \in Nat
    /\ hasRegistrySsl \in BOOLEAN
    /\ authFile \in Nat

RegistriesInit ==
    /\ registries = {}
    /\ defaultPush = 0
    /\ hasRegistrySsl = FALSE
    /\ authFile = 0

RegistryIds == {r.id : r \in registries}

Local == {r \in registries : r.local}

-----------------------------------------------------------------------------
\* The first registry becomes the default one.
AddRegistry(r) ==
    /\ registries' = registries \cup {r}
    /\ defaultPush' = IF registries = {} THEN r.id ELSE defaultPush

SetDefaultPushRegistry(id) ==
    /\ id \in RegistryIds \cup {0}
    /\ defaultPush' = id
    /\ UNCHANGED <<registries, hasRegistrySsl, authFile>>

\* Mutant: the default registry may go.
RemoveAnyRegistry(id) ==
    /\ id \in RegistryIds
    /\ registries' = {r \in registries : r.id # id}
    /\ UNCHANGED defaultPush

\* deleteRegistry refuses the default for pushes.
RemoveRegistry(id) ==
    /\ id \in RegistryIds
    /\ id # defaultPush
    /\ registries' = {r \in registries : r.id # id}
    /\ UNCHANGED defaultPush

\* ... and the self-hosted one, unless it is being disabled.
DeleteRegistry(id) ==
    /\ RemoveRegistry(id)
    /\ \A r \in Local : r.id # id
    /\ UNCHANGED <<hasRegistrySsl, authFile>>

\* updateRegistry changes the credentials of a remote registry.
UpdateRegistry(id, password) ==
    /\ \E r \in registries \ Local :
          /\ r.id = id
          /\ registries' = (registries \ {r}) \cup {[r EXCEPT !.password = password]}
    /\ UNCHANGED <<defaultPush, hasRegistrySsl, authFile>>

\* setHasRegistrySsl(true), at the end of enableRegistrySsl.
RegistrySslEnabled ==
    /\ hasRegistrySsl' = TRUE
    /\ UNCHANGED <<registries, defaultPush, authFile>>

\* ensureDockerRegistryRunningOnThisNode writes the file first.
WriteAuthFile(password) ==
    /\ authFile' = password
    /\ UNCHANGED <<registries, defaultPush, hasRegistrySsl>>

SelfHosted(id, root) == [id |-> id, local |-> TRUE, address |-> root, password |-> id]

\* The end of /enableregistry: an error if there is a local registry.
AddLocalRegistry(id, root) ==
    /\ Local = {}
    /\ AddRegistry(SelfHosted(id, root))
    /\ UNCHANGED <<hasRegistrySsl, authFile>>

\* /disableregistry, up to the removal of the service.
DisableRegistry ==
    /\ \E r \in Local : RemoveRegistry(r.id)
    /\ hasRegistrySsl' = FALSE
    /\ UNCHANGED authFile

\* A start of the process runs the service with the password of the list.
RestartRegistry ==
    /\ authFile' = IF Local = {} THEN authFile ELSE (CHOOSE r \in Local : TRUE).password
    /\ UNCHANGED <<registries, defaultPush, hasRegistrySsl>>

-----------------------------------------------------------------------------
\* What a push goes to is always there: the default is one of the list.
DefaultPushExists == defaultPush \in RegistryIds \cup {0}

\* addRegistry does not check the credentials of the self-hosted registry:
\* "We create it, we know it's correct!" (DockerRegistryHelper.ts).
LocalRegistryIsAuthorized == \A r \in Local : r.password = authFile
=============================================================================
