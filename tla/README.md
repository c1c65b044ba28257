# CapRover Next: verification project

CapRover is a control plane for Docker Swarm: one Node process that builds images, updates services,
renders the nginx configuration and keeps its state in JSON files. "CapRover Next" adds a channel through
which agents, authenticated by API keys, ask for deployments that an administrator approves.

This directory holds TLA+ modules translated from the backend under `src/src/` and from the pages of the
dashboard under `src/frontend/`, TLC configurations that check them on small instances, and TLAPS proofs.
Source paths below are relative to `src/src/`.

* `tlc -config <cfg> <MC module>` checks a run; `PROJECT.json` lists which module goes with which cfg.
* `tlapm <module>.tla` checks the proofs of the `...Proofs` modules.
* `PROJECT.json` maps every definition to the source lines it stands for, lists the hazards of the code,
  a mutant for every property, and what was found.

## 1. The system

### How the process runs

There is one thread. A turn of the event loop runs from one completed I/O or timer to the next, and every
promise callback that becomes due in it (a microtask) runs before the turn ends. The configuration store
(`configstore`) reads and writes synchronously, so a chain of `.then`s that only touches the data store
happens in a single turn, and other work gets in between only at a call of Docker, of a build or of the
file system. Two chains of one turn do interleave, callback by callback, and because every operation on an
app reads, changes and writes its *whole* definition, that can lose a write. Everything that is not in the data store
or in Docker is lost when the process restarts; the health check of `CaptainManager` may restart it at
any time.

### Components

| Component | State | Operations | Hard part |
| --- | --- | --- | --- |
| Build scheduling: `user/ServiceManager.ts`, `user/ImageMaker.ts` | `activeOrScheduledBuilds`, `queuedBuilds`, promises of queued builds, all in memory | `scheduleDeployNewVersion`, `startDeployingNewVersion`, `onBuildFinished`, `ensureServiceInitedAndUpdated`, `removeApps` | builds overlap with deploys, deletes and restarts; the wake-up of the queue is a callback of its own |
| App definitions: `datastore/AppsDataStore.ts` | per app: versions, deployed version, instances, settings | register, create version, set deployed version, roll back, pause, rename, delete | numbering in a bounded history; whole-record writes |
| Agent access: `user/agents/AgentAccessManager.ts`, `routes/agent`, `routes/user/agents`, `AgentMcpManager` | keys, deployment requests (at most 500), in the data store | authenticate, create, approve, reject, start, poll, pause/resume/revoke/rotate a key | handlers race across awaits; windows of time; retries; the cap |
| Agent deployment: `runAgentDeployment` | a promise chain in memory | register or note the version, schedule, await, mark, pause or roll back | waits on a build, undoes after other builds have run |
| Data store: `datastore/DataStore.ts` | JSON file | get and set of lists, pruning, migration | read-modify-write under `withStoreMutation` |
| App operations: `user/ServiceManager.ts` | definitions, services, certificates | rename, update, enable SSL, add domain, remove volumes | several external calls after one check |
| nginx reload: `user/system/LoadBalancerManager.ts` | one "in process" flag, a stack of requests | `rePopulateNginxConfigFile`, validate and reload | last in first out; file replaced before validation |
| Certificates: `user/system/CertbotManager.ts` | a lock that refuses | enable SSL, renew | one step of several fails |
| Login and sessions: `user/AuthSessionManager.ts`, `routes/login`, `user/Authenticator.ts`, `utils/RateLimiter.ts` | refresh sessions (at most 10), token version, rate buckets | login, refresh with rotation, logout, change of password | lost answers, two tabs, windows |
| One-click apps: `user/oneclick/*` | jobs (in memory, mirrored), a chain of steps | start, progress, hydrate, clean up | restart in the middle; a step that never ends |
| Projects: `datastore/ProjectsDataStore.ts` | a tree by parent id | save, delete several | cycles, order of deletes |
| Registries: `user/DockerRegistryHelper.ts`, `datastore/RegistriesDataStore.ts` | list and default push registry | add, edit, delete, set default | checks that await Docker |
| Start-up and health: `user/system/CaptainManager.ts` | flags and a fail counter | initialise, health check, reset | long sequence, restart |
| Images and cleanup: `ServiceManager`, `user/system/DiskCleanupManager.ts` | Docker's images and services | build, update a service, list and remove images | everybody acts on what was read before a call of Docker |
| Installer, backup and restore: `utils/CaptainInstaller.ts`, `user/system/BackupManager.ts` | archive, restoring directory, instruction file, secret of the swarm | install, edit the instructions, two phases of a restoration, back up | stopped and repeated anywhere |
| Pro features and the second factor: `user/pro/*` | API key, secret, alert configuration, here and at the vendor | connect, enable, verify, configure | logins run beside the changes |
| Monitors: NetData, GoAccess in `CaptainManager.ts` | settings, containers, crontab, access logs | update | several systems, one record |
| Themes: `user/ThemeManager.ts` | the themes and the name of the current one | save, delete, select | two writes |
| Frontend: `frontend/components/*`, `frontend/lib/api-client.ts` | what a page shows, edits and has asked for | load, edit, save, poll | answers in any order, several tabs |
| Audit log, events, templates, version check | a file or a request each | | mostly I/O, not modelled |

Calls between them: routers call the managers; `AgentRouter`, `AgentAccessRouter` and `AgentMcpManager` call
`AgentAccessManager`, whose `runAgentDeployment` calls `AppDefinitionHandler.registerAppDefinition`,
`AppDataHandler.uploadCaptainDefinitionContent` and then `AppsDataStore` and `ServiceManager`. Both handlers end in
`ServiceManager.scheduleDeployNewVersion`, the build in `AppsDataStore` and `DockerApi`. The components share
the definitions and the two maps of `ServiceManager`, and are woken through promises.

### What makes each correct

* Scheduling: no source is dropped silently, no queued build waits for ever, an app is not blocked for
  ever by its mark, callers learn how their build ended.
* Versions: numbers increase, concurrent builds never share one, the deployed version names its own image.
* Agent access: a request is launched at most once and only from "pending", never for a revoked key, never by the agent alone when its role
  asks for approval; retries and duplicates are recognised; every open request is closed in the end.
* Agent deployment: ends with an answer; undoing it takes back nothing that somebody else deployed.
* Configuration: a change that is answered is in what nginx runs, a file behind its definition is about to be rewritten, every change ends, and no
  change undoes another.
* Domains and certificates: nginx is never told of a certificate that is not there, and the registry that images name keeps its address.
* Sessions: a login has one record, ends in time, and ends with the password it was made with.
* Keys: what an administrator was told of a key stays true, and an ended token is refused.
* One-click apps: services come after what they need, a client is told of its job what stays true; the tree of projects holds together.
* Images: the service runs what was deployed last, and the cleanup takes nothing that is used.
* Control plane: it comes to serve, with the salt of its data and all its services; a backup is never lost on the way.
* Pages: what was saved stays, what is applied is what was chosen.

## 2. Modules

```
AppVersions ─┬─ BuildQueue ─┬─ AgentDeploy ── MCAgentDeploy
             │              │       └─ BuildQueueProofs (of both)
             │              └─ MCBuildQueue
             ├─ ServiceImages ── MCServiceImages
             └─ SharedLemmas (used by the proofs of several)

AgentAccess ── refines ── RequestLifecycle          Sessions ── MCSessions, SessionsProofs
     └─ MCAgentAccess, AgentAccessProofs
                                                    Registries ── Domains ── MCDomains, DomainsProofs
NginxReload ── AppConfig ── MCAppConfig             Projects ── OneClick ── MCOneClick
                                                    Restoration ── ControlPlane ── MCControlPlane

AgentKeys, RateLimiter, ProFeatures, BuildSources,
AppPage, OneClickPage, Monitoring, Themes ── MCParts    (JavaScript: undefined, filter)

AppConfigProofs: AppConfig, AppPage, OneClickPage     ControlPlaneProofs: ServiceImages, ControlPlane, Monitoring
AgentAccessProofs: AgentAccess, AgentKeys             SessionsProofs: Sessions, ProFeatures, RateLimiter, Themes
OneClickProofs: OneClick, BuildSources
```

**`AppVersions`** holds the operations of the store on one definition as pure operators: the bounded list of versions
(`CreateNewVersion`, with `NewVersionIndex` one above every number kept), `SetDeployedVersionAndImage`, `RollBack`, `Pause`,
and `DeployedImage`, which is what `ensureServiceInitedAndUpdated` looks up. An image is the number of the call whose source
it was built from, so a version says whose build it holds.

**`BuildQueue`** is `ServiceManager`'s scheduler. An action is one turn of the event loop:

| Action | Code |
| --- | --- |
| `Schedule`, `Register` | `scheduleDeployNewVersion` (start, replace the queued source, or enqueue), `registerAppDefinition` |
| `ImageReady`, `BuildFails` | end of `ensureImage`: `setDeployedVersionAndImage` and `onBuildFinished`, or the catch |
| `ServiceUpdated`, `ServiceUpdateFails` | end of `ensureServiceInitedAndUpdated`; its failure runs `onBuildFinished` a second time |
| `ShiftQueue` | the callback `onBuildFinished` leaves behind; it runs before anything else (`Quiet`) |
| `RemoveStart`, `RemoveInspect`, `RemoveFinish`, `RemoveFails` | `removeApps`: one check, two calls of Docker |
| `Restart` | the maps, the queue and the promises are gone, definitions and services stay |

`promise` follows the promise created by each call: `attached` calls hold the chain of the build itself, the others the
promise stored in the queue entry, which no code settles.

**`AgentAccess`** is the channel. Under `withStoreMutation` an operation on the keys or the requests reads and writes in one
go and is one action; between two of them a handler awaits, and its local copies grow old. `HandlerStep` walks an HTTP
request (`Authenticate`, `CreateRequest`, `StartGet`, `StartKey`, `StartUpdate`, `Respond`; `Approve` for an administrator), `RunStep` walks
`runAgentDeployment`, and `Poll`, `Reject`, `KeyStep`, `Expires`, `Ages`, `Restart` are everybody else. Today's data store resolves at once,
so some of these interleavings cannot occur with it; the code is written for an asynchronous store, and the
model takes it at its word: it has a superset of the behaviours. `newer` records the order of `updatedAt`, which is all that the cap looks
at; `overdue` and `aged` record which of its two time limits a request has passed.

**`RequestLifecycle`** is the promise the channel makes, in three phases and no data: *waiting*, *launched*, *ended*, or *declined*, with the
store free to forget. `AgentAccess!RequestsFollowLifecycle` maps the stored requests to it.

**`AgentDeploy`** puts `runAgentDeployment` on top of `BuildQueue`: which promise the agent's call gets (`PromiseFor`, or the promise of the
placeholder's entry), and what happens when it is told. Two places need the order of microtasks, read off the number of promise
callbacks between a read and its write (the build target is ES2018, with native `await`):

* `markAppCreatedByAgent` and the `createNewVersion` of the placeholder's build read the definition in the same tick, and `createNewVersion` writes
  first: its version is overwritten (`NewStartsPlaceholder`).
* a failed service update wakes the queue and rejects the job's promise in one turn. The job reads the definition before, and
  writes it after, the `createNewVersion` of the build just taken off the queue: that version is lost. `before` holds what the job reads.

A consequence worth knowing: `BuildsHoldDistinctVersions` holds for the scheduler alone but not here. The lost version 0 of a placeholder is given
again to the agent's own build when the failing update of another app wakes the queue early.

**`NginxReload`** is `LoadBalancerManager`'s reload: `reload` holds the flag and the stack, with the stage the reload in process has reached. A request is pushed
(`RePopulateNginxConfigFile`) and popped when nothing is in process (`ConsumeQueue`), which is tried at each push and at the end of each reload (`Unlock`). The
reload renders the apps' file, `nginx.conf` and `captain-root.conf` (`RenderApps`, `EnsureBaseNginxConf`, `CreateRootConfFile`) from the definitions of that moment, and then nginx tests all of
them (`ValidateNginxConfigAndReload`, `ValidationFails`); anything may break (`Breaks`). The apps share one file in the code; the model
keeps its part per app, so that an app's definition and its part can be compared. A configuration is known by the change whose text it holds, by whether nginx accepts
it, and by a revision that counts the writes of its definition.

**`AppConfig`** adds those who ask for reloads. A change is `checking` (Docker is asked about nodes), `updating` (the definition is
written, Docker is updating the service), `reloading`, and then `ok` or `failed`:

| Action | Code |
| --- | --- |
| `StartUpdate`, `StartPatch`, `CheckFails` | `AppDefinitionHandler.updateAppDefinition` and `patchAppDefinition`, up to `ServiceManager.updateAppDefinition`'s questions to Docker |
| `SaveDefinition`, `ServiceUpdated`, `ServiceUpdateFails` | the write in the store and `ensureServiceInitedAndUpdated` |
| `SetNginxConfig`, `ChangeDomain` | `CaptainManager.setNginxConfig`; the domain and certificate operations from their write on |
| `RenderStep`, `Succeeds`, `Refuses`, `ReloadBreaks` | the steps of a reload, with what its end does to whom it serves: only a refusal by nginx reverts, and only an update, a patch or the system configs |
| `Restart`, `Initialize`, `RenewAllCertsAndReload` | the process ends; `CaptainManager.initialize` empties the generated files and waits for a reload, and ends the process if that fails; the renewal timer |

`copy` is what a change holds in its chain: first the text to write (for a patch, read when it arrived), then the definition found, which a revert writes
back. `wrote` and `saved` remember what properties compare with. `missed` names the parts for which a step failed and no reload was asked: a Docker failure leaves the
definition changed and the files behind, by design of the code, until the next reload.

The order inside a failing reload is the code's: the flag is cleared and the next request popped before the rejected
change's `catch` runs, so the reload of a revert waits behind a reload that is already in process (`Revert`). A request
that arrives first may be served last: that is why `AnswersAreFresh` cannot be read off the code. What saves it is that a
reload reads the definitions itself, so a request is answered by a later reading whoever comes first.

**`ServiceImages`** follows the images of one app. A run (`RunStep`) builds (`building`, `built`), records and deploys its version, and then is a call of
`ensureServiceInitedAndUpdated`: it reads the definition, carries that image through Docker's calls, and updates the service if Docker's version index has not moved since it
inspected it. A cleaner (`CleanerStep`) lists the images, reads the definitions, and removes one image per step; scheduled, it does so twice.
Images are content ids with tags, since that is what Docker removes by.

**`Sessions`** is a login from the cookies' point of view: `jar` is what a browser holds, `flight` the fetch of each call and of each tab's shared
`refreshPromise`, with the cookies of the moment it was sent. The server serves a call in one turn (`Serve...`), but a login in two: it reads the saved hash (`ReadHash`), has the one-time password verified by the account service, and only then compares the hash
it read and issues tokens of that later moment (`FinishLogin`, `RefuseLogin`), while a password change may be served and answered in between. Answers arrive or are lost (`Deliver`, `Lose`), and `DieInChange`
ends the process between the writes of a password change.

**`Registries`** and **`Domains`**: what a request of the dashboard does with domains, SSL flags, certificates and registries, step by step between its calls of Certbot, DNS and Docker
(`Start`, `Step`, `RunCommand`, `CommandFails`), under the lock of `UserRouter` that a leaving client releases, beside the renewal timer, a backup and a restart. Operations that wait for nothing are one action
(`ForceSsl`, `RemoveCustomDomain`, `Delete`, `SetPush`).

**`Projects`** and **`OneClick`**: the tree of projects with its saves and deletions, and the deployments of templates, each a chain of steps (`ChainStep`: create the project, register, configure and deploy
each service in an order computed by passes over what they need) whose job is recorded in memory, written to the store and polled. `read` is what a chain has read of each of its apps and will write back.

**`Restoration`** and **`ControlPlane`**: the installer, run and run again, with or without a backup (`InstallerStep`, `InstallationFails`, `EditInstructions`), and then the captain
service: each `ProcessStep` is one call of `CaptainManager.initialize` or of the second phase of a restoration; `ProcessEnds` and `DockerReplaces` restart it,
`PerformHealthCheck` halts it, `Request` and `FinishBackup` are a served captain's work. An app is registered first (`RegisterApp`); its image comes of a build that may fail or die with the process (`DeployApp`, `BuildEnds`: `data.built`),
and its service of an update that may fail too (`SaveApp`, `ServiceUpdateEnds`: `running`). `data.brought` are the apps that came with a backup.

**`AgentKeys`** is what `AgentAccess` takes for granted: the creation, rotation, pause and revocation of keys. An operation is two steps under its turn of the queue (read the
whole list, write it back); an authentication (`AgentComes`, `Authenticated`) is one too, since it notes the time of use. `Serve` works with the copy of the key it was given.

**`RateLimiter`** is `consume` on its Map of windows, in the order of its keys, with what nginx and other clients say of themselves. **`ProFeatures`** is the API key, the second factor and
the alert configuration, each handler step by step between its questions to the account service, beside logins. **`BuildSources`** takes one deployment from the upload to the image: the archive,
the directory named by the version, the key of a clone.

**`AppPage`**, **`OneClickPage`**, **`Monitoring`** and **`Themes`** are pages of the dashboard with the routes behind them. A page keeps a copy of what it was shown and what
was typed; its requests are on their way, admitted or refused by the lock, served step by step, answered and taken in by the page, in any order the flags that disable
its buttons leave. `Monitoring` includes what applies the settings: container, crontab and access logs. In `AppPage` and `Monitoring` a tab may be left while its request is served: the request goes on, and the lock is open for the next one.
History variables tell the properties what was changed that way: `beside` (tabs whose request is served beside one that was left) and `raced` (the fields, or the token, that such requests change, until one is changed alone);
`together` and `failed` do the same for updates of GoAccess.

**`MCParts`** puts these eight modules beside each other: a behaviour is one of any of them (`part` says which), so that one run checks them all. Two of them are there twice: `AppPage` with values that are typed while the token
is left alone ("app page"), and with tokens while nothing is typed ("deploy token"); `Monitoring` with both monitors turned on and off, and with GoAccess and its settings.

## 3. Runs

| Run | Shows | Bounds |
| --- | --- | --- |
| `build_schedule` | `NoStrandedBuild`, `BuildsHoldDistinctVersions`, and under fairness `QueuedBuildsStart` | 2 apps, one of them removable, 3 calls, 1 restart, history of 2 |
| `build_promises` (violation) | the promise of a queued build is never settled (`PromisesSettle`) | as above |
| `access_starts` | `LaunchedAtMostOnce`, `RevokedKeysStartNothing`, under fairness `OpenRequestsClose`, the refinement `RequestsFollowLifecycle` | 2 handlers, a deploy and an approval key, 1 request, 1 event |
| `deploy_undo` | `UndoKeepsLaterDeploys`, `StartedReplacementsAreAnswered` | 1 job, 4 calls, 2 apps, 1 restart, history of 3 |
| `config_changes` | `AnswersAreFresh`, `StaleFilesAreDue`, and under fairness `ChangesEnd` | 1 app and the system configs, 2 changes, 2 restarts or renewals |
| `sessions` | `OneSessionPerLogin`, `SessionsEndInTime`, `OldLoginsAreRefused` | 1 browser with a tab of 2 calls (a login can meet the change), 2 sessions, 3 tokens, 1 change, 1 crash |
| `domains` | `FlagsHaveCertificates`, `LocalRegistryIsServed`, `CertbotIsExclusive` | 2 apps, 2 roots, 1 custom domain, 4 requests of which 2 overlap, 1 renewal, 1 restart |
| `oneclick` | `ServicesComeAfterTheirNeeds`, `UnfinishedJobsRun`, `VerdictsStay`, `ProjectsStayWhole` | 2 jobs of 4 templates of up to 2 services, 1 fault |
| `images` | `ServiceRunsTheDeployed`, `CleanupSparesWhatIsUsed` | 2 runs, 1 cleaner, 2 contents, version 2, history of 2 |
| `control_plane` | `ServesWithTheSaltOfItsData`, `ServesWithItsServices`, `BackupIsKept`, and under fairness `CreatedCaptainServes` | 2 machines, 2 swarms, 1 failure, 1 backup; 2 apps, of which users register and change 1 (`UserApps`); 1,046,212 states |
| `backup_archive` (violation) | a backup cannot be restored (`BackupsCanBeRestored`) | as above |
| `parts` | `KeyChangesAreKept`, `EndedTokensAreRefused`; `RefusedHaveUsedTheirWindow`; `LoginsAreVerified`, `SavedConfigStays`; `BuildsReadTheirSource`, `ArchiveOutlivesItsBuild`; `SavedValuesStay`, `RevokedTokensStayRevoked`; `SelectedIsDeployed`; `GoAccessAsRecorded`; `CurrentThemeExists` | `Parts_each.cfg`: 2 callers of the keys, 3 clients in 2 windows, 2 requests of the Pro page, 3 deployments (1 app made again), 2 tabs of the app page, left at any time (1 typed value, or 2 tokens), 2 requests of the catalog, 2 viewers of the monitors, left at any time, with 1 edit of GoAccess; 2 theme requests, 2 names that users give, 2 stored themes, 3 contents; 1,762,434 states |

### By hand

The project keeps twelve runs. These properties are checked by hand, with the configuration named or, where none is, by adding the property to the run's own.

* They hold: `MarkedAppsHaveABuild`, `QueueHoldsTheQueued`, `OneQueueEntryPerApp`, `VersionsIncrease` (all four proved), `OnePendingRequestPerNewApp` and
  `IdempotencyKeyNamesOneRequest` (proved), `CapDropsTheOldest` (`AgentAccess_cap.cfg`: 3 requests in a store of 2), `RunsWereStarted` (proved), `WaitersHaveARefresh`, `OnlyNewerSessionsPushOut`, `DefaultPushExists`,
  `OperationsEnd` of `AgentKeys` under `KeysFairSpec`, `AnswersStayInScope`, `PreviewsAgree`, `EnabledSecretIsProved`, `ProgressNeverGoesBack` (these four proved), `LeftoversAreKnown`, `BucketsAreBounded` (proved), and the type invariant of every module.
* Larger instances, with the same results: three changes without events in `config_changes`; three versions or two cleaners in `images`; two failures in `control_plane`; the catalog with a page that may be left (`MayGo` true);
  four requests beside one job of a template with two services in `oneclick`.
* They are violated: section 4.

### Bounds

* *Apps*: two are needed for one app to make the other one queue; the scheduler compares apps only for equality, so a third adds a third
  queue entry and no new kind of step. `SYMMETRY` is used where every app plays the same part, and in no run with a liveness property.
* *Calls*: three give a running, a queued and a replacing source; four allow two builds of one app at once with a third queued, and a rollback with a
  later deploy behind it (versions 0, 1, 2 and another app).
* *MaxVersionHistory* (50 in the code) is 2 or 3, so that versions drop out.
* *Handlers*: two, since each race of `startAgentDeployment` is between two starts, or a start and a rejection, which needs no
  handler. *MaxStored* (500 in the code) is 2 where the cap matters and at least the number of requests where it does not.
* *MaxEvents* bounds changes to keys and apps, agings and restarts together.
* *Changes*: two changes and two renewals put up to three requests on the stack behind the one in process, with every order of service, and a refused change
  beside another of the same or the other part. One app is enough beside the system's part: the apps' parts are rendered in one step.
* *Sessions*: the second session pushes out the first after a third token; `MaxTime` 2 lets tokens and sessions lapse. *Images*: two runs overlap in every way, and two contents let a build repeat one. *Control plane*: two machines make a swarm
  with a node to remap, one failure at any place is followed by a repetition.
* *Parts*: two of each actor give every race of a pair (also of a request that was left with the one that is let in beside it); the catalog's answers overtake each other with two, and so do the requests for themes, where two names let a name be given twice or taken over by an update; three deployments put one behind two that run.
  The values of an app and its deploy token have no step in common but reading and writing the whole app, so each is a part of its own; so have NetData and the settings of GoAccess nothing but the lock. One typed value tells what was saved from what a tab loaded before; two tokens tell one that was replaced from the one that replaced it.
  The two addresses of the account service are alike, so that a behaviour begins with the first.
  The view of `MCParts` leaves out which of several alike callers, requests, tabs or deployments is which, since a permutation of them gives the same future, and what no later step or property reads (each is named there).
* The proofs cover the same invariants for all values of these constants.

`CHECK_DEADLOCK FALSE` is set where the inputs are bounded and a server that has answered its last call rests; `images` and `control_plane` do not need it.

### Fairness

* `BuildQueue`: Docker and builds answer, one way or the other (every call has an error path), and the event loop runs the callbacks it holds. No fairness is
  assumed for users, so nobody has to deploy again to free the queue.
* `AgentAccess`: time passes (`Expires`) and somebody reads each request now and then (`Poll`): agents poll their id, and the Agents page lists
  all requests. Deployments, handlers and administrators may stop for ever; `OpenRequestsClose` holds all the same, and that is the point of the window.
* `AppConfig`: Docker, nginx and the file system answer each step of a reload and of a change, with success or an error, and Docker starts a process that has ended.
  No fairness is assumed for users, the renewal timer or the health check.
* `ControlPlane`: a process that runs goes on, Docker starts one that has ended and carries out a change of the service, and a start that cannot go on (`CannotGoOn`) ends. Other failures are bounded (`MaxFailures`); without that bound
  nothing would have to come up. A start that cannot go on is not counted: it may repeat for ever, and `CannotBeRestored` names the restorations where it does. Nothing is assumed of the installer: the property begins when it has made the captain.
* The other modules state no fairness.

## 4. What the code does not keep

Where a comment or a document says something that the code does not do there is a run that ends in a counterexample, and a finding in `PROJECT.json`:

1. The promise of a queued build is stored "for attached builds" and nobody settles it (`build_promises`). Attached deploys, one-click steps and agent
   deployments that were queued wait for ever.
2. `createBackup` makes the directory `data` and then copies the data directory into it, so the archive has `data/data`; the restoration looks for `data/config-captain.json` and refuses it (`backup_archive`).

Met while modelling, and shown by hand where a property is named:

*Builds and apps.* An agent's deployment of a new app queues behind its own placeholder and never returns (`NewAppDeploymentsEnd`, `AgentDeploy_new.cfg`). A replacement that fails is not put back if the version before it is 0, or after any failed
build (`FailedReplacementsRestore`: the instance of `AgentDeploy_new.cfg` with `DeploySpec`; `AgentAccessManager.ts:1091`). A patch writes the fields it leaves out as it read them before Docker was asked about nodes (`SavedUpdatesStay`: `AppConfig_changes.cfg` with
`Spec` and `MaxEvents` 0). A refused update reverts only the definition. The mark that `ensureNotBuilding` looks at is cleared by the first build of the app that ends and not set for a build that comes off the queue. Overlapping calls of `ensureService...` can
leave the older image; the version that is deployed leaves the history after enough failed builds, and then every update of the service throws; images of versions that left it are never cleaned. The archive of a build that another replaced in the queue
stays (`ArchivesAreRemoved`), as does that of a detached build whose definition path is refused; an app that is deleted and made again twice may build from the older app's directory (`RecreatedAppsBuildTheirSource`, 4 deployments).

*Agents.* Idempotency keys stop matching 30 minutes after the first call, whatever became of it (`RetriesDoNotDuplicate`: `AgentAccess_cap.cfg` with two keys and two requests). `GET /` tells a key that it may create apps and build Dockerfiles where its policy says nothing,
which `assertAgentPolicy` refuses (`CapabilitiesHold`). A request that a poll marked failed becomes succeeded when its build ends, and keeps the text; a request evicted while it runs cannot be updated any more.

*Login.* `LoginRouter` reads the hash, then has the one-time password verified, and then compares and issues (`LoginRouter.ts:129`, `OtpAuthenticator.ts:86`): a change of the password answered in between leaves a login by the old password
with a session and tokens of the new version, although "Changing the administrator password revokes every session" (`src/README.md:188`): `OldPasswordsAreRefused`, added to `Sessions_login.cfg`. What the run keeps, `OldLoginsAreRefused`, is about the logins that ended before the change was written. Setting a window again keeps the key's place in the Map, so the window that goes first need not be the oldest (`OldestWindowGoes`). A refused new API key clears the one that was set (`OtherKeyStays`). A login that meets a refused key while an
alert configuration is being saved lets the revert write over it.

*Domains.* A second attempt to enable the self-hosted registry replaces the password file of the one in the list (`LocalRegistryIsAuthorized`, `Domains_registry.cfg`). A forced change of the root domain clears the SSL flags before it finds the local registry and
throws; `hasRegistrySsl` stays after a failed attempt and a forced change. The lock of `UserRouter` is released when a client disconnects.

*Projects and one-click apps.* Two legal saves make two projects each other's parent, whose deletion is answered and does nothing (`DeletedProjectsAreGone`, `OneClick_cycle.cfg`). The second failing deletion of several ends the process. The configure step can put an app back into
a project that was deleted. A template without instructions leaves a job unfinished for ever.

*Control plane.* An installer stopped after the nodes were remapped cannot be run again (`RestorationCanBeResumed`), and one stopped between the removal of the archive and the instruction file makes the next a fresh installation (`NoBackupIsForgotten`); both:
`ControlPlane_life.cfg` with `Spec`. An existing secret in an existing swarm makes phase 2 refuse at every start; so does an app in the backup whose deployed version has no image, because its placeholder could not be built or the version left the history: `ServiceManager.ts:962` throws, and `BackupManager.ts:267` ends
the process each time. Registration does not promise a service: `AppDefinitionHandler.ts:46` stores the definition and then only logs a failed build. A local registry or GoAccess that fails at a start keeps the dashboard down.

*Pages.* What was typed and not saved is lost when something else is saved (`DraftsStay`). Two tabs that save the same group overwrite each other's fields, by design of the request. A page of an app that is left and opened again while its save is under way
shows, and may then send, what was before; and a save that is let in beside one whose tab was left writes what it read over what the other saved, or brings a revoked token back (`AllSavedValuesStay`, `AllRevokedTokensStayRevoked`; `UserRouter.ts:100`). In the catalog two clicks may start two deployments (`DeployedOnce`), an older list may come last (`ListIsCurrent`), and a repository may be inserted twice after a disconnect (`RepositoriesAreDistinct`, `MayGo` true).
NetData is recorded as running after an update that removed its container and failed (`NetDataAsRecorded`); a tab that toggles it sends the settings it shows (`TypedSettingsStay`, two viewers); two updates of GoAccess that overlap after a disconnect can end in two settings,
until the next update alone; that is what `failed` exempts. A theme update that is cut leaves the name of a theme that is gone (`CurrentThemeAlwaysExists`); the applied theme depends on the order of answers (`CurrentThemeIsApplied`); a theme given another's name is not the one that becomes current (`SavedThemeIsCurrent`).

A consequence worth knowing for readers of the models: `BuildsHoldDistinctVersions` exempts apps that may be removed and does not hold in `AgentDeploy`.

## 5. Proofs

Everything here holds for arbitrary constants under the named assumptions (`HistoryAssumption`: the history holds at least two versions; the others say that sentinels such as
`NoApp`, `NoImage` or `None` are no member of the sets they stand beside, and that bounds are numbers).

* **`SharedLemmas`**: `CreateNewVersionCorrect` (well formed, increasing, bounded, the new number above all kept), `SetDeployedCorrect`.
  Numbers are bounded through the maximum over the kept positions (`NewVersionIndexAbove`), without induction over the list.
  Below, what folds and recursive functions compute. The library's induction theorems cannot be used here, since they take a predicate; `AllNumbers` does the same for a *set* of numbers, from the well-foundedness of `<`. On it rest `FoldExists` (a fold over a finite set has
  a value for each subset, by induction on cardinality) and `RecursionExists`; they turn the `CHOOSE` in the definitions of `FoldLeft`, `FoldFunction` and of a recursive function into equations that the provers can use.
* **`BuildQueueProofs`**: `TypeCorrect` (types and increasing numbers), `QueueCorrect` (`MarkedAppsHaveABuild`, `NoStrandedBuild`, `OneQueueEntryPerApp`,
  `QueueHoldsTheQueued`) and `NumbersCorrect` (`BuildsHoldDistinctVersions`). `QueueInv` is the inductive form of the second: every entry's source is queued for the entry's app, every queued source has an entry,
  sources of calls not yet made are unused, and every mark belongs to a queued or a building source of that app. Without "calls not yet made are unused" a new call could collide with a source already in the queue;
  without the source and app of an entry agreeing, `ReplaceQueuedSource` and `ShiftQueue` would lose a mark's build. `NumbersInv` adds `NumbersReached`: the app of a build under way, if it cannot be
  removed, has a version of that build's number or a higher one. The version itself may have left the history, but the next number is above the highest one there.
  On top of it, for `AgentDeploy`: `DeploysTyped`, `ReplacementsAnswered` and `UndoingSparesLaterDeploys` (an action property). `DeployInv` says of every job under way what it holds (`JobOK`): a replacement whose failure it can be told
  was started at once, so the definition has reached `previous + 1`, and every image up to that number was built for its call or an earlier one, in the app as it is and as it was `before` (`Numbered`). A call that is queued
  has a promise nobody is attached to, so the new app's second call never tells its job; that is why the undoing of a new app needs no such bound. The queue's invariant is used as it stands: `DeployInv` includes it.
* **`AgentAccessProofs`**: `AccessTypeCorrect`, `LaunchCorrect`, `RevocationCorrect`, `RequestsUnique`, `LifecycleCorrect`, `CapCorrect`. Every action is shown once to make a `Step`: types are kept, a request's status moves only along the
  allowed edges and is launched only when it leaves "pending" (`RequestStep`), requests and their descriptions only grow and the store, unless a request is created, only shrinks (`GrowStep`), and no late start gets
  past the key (`LateStep`). `AccessInv` is the inductive invariant: `RequestsOK` ties `launches` and `run` to the status (a pending
  request was never launched, one that runs has left "pending" for good), `LateOK` says that a start remembered as late has a revoked key, and
  revocation is for ever. `NoRivals` then follows from the search in `createAgentDeploymentRequest` and the fact that nothing but creation adds to the store.
  `LifecycleCorrect` is the refinement of `RequestLifecycle`: each action makes no move (`QuietStep`), a submission (`SubmitStep`) or one move of one request (`MoveStep`) of the abstract specification, under the mapping `Phase`/`Gate` of `AgentAccess`;
  what it needs of the invariant is that a handler in mid-start took a request through the gate its role has (`StartersOK`). `CapCorrect` is an action property of the bounded store: it stays ordered by last update, and a counting argument shows that only
  a full store drops anything.
  The second part is about `AgentKeys`: `KeysAreTyped`, `KeyChangesCorrect` (`KeyChangesAreKept`), `EndedTokensCorrect` (`EndedTokensAreRefused`), `ScopeCorrect` (`AnswersStayInScope`), `PreviewsCorrect` (`PreviewsAgree`). `KeysInv`: whoever has read stands first
  in the queue and has read what is stored (`InTurn`), so a write changes one key and nothing else; a key that is to be added, and its API key, are nobody else's yet (`ToAdd`), and no two keys share one (`TokensDistinct`), so a token that has ended when it comes belongs to no key, or
  to a revoked one, for good (`Ended`). For the scope: a key's input never changes, so the record a handler serves with has the input that is stored (`Served`), and every request is about an app of it (`Scoped`).
* **`AppConfigProofs`**: `ConfigTypeCorrect`, `StaleFilesWillBeRewritten`, `ConfigAnswersAreFresh`. `QueueInv` adds to the types that a change waits in one place only (`Once`), that whoever the queue still owes an
  answer is `reloading` (`AskedAreReloading`), and that a process that is down has nothing under way. `PushRequest`, `UnlockQueue` and `FrontLast` say once what a push and the end of a reload do to the stack; every action is
  then an arrival, an end, a move of the queue, or the death of the process. `FreshInv` adds two facts. `WrittenIsThere`: what an open change wrote is in the definitions, in its
  revision or a later one, and, if the reload in process serves it, in every file already rendered; this holds when a request is taken up because nothing is rendered then, and revisions only grow. `BaseIsDue`: between
  `nginx.conf` and `captain-root.conf`, a change of the system configs has asked for another reload; without it the step that clears `missed` would lose the first of the two files.
  The second part is about `AppPage`: `SavedCorrect` and `RevokedCorrect`, for tabs that may be left at any time. `PageInv`: one request whose tab is there is served at a time, under the lock (`LockHeld`); requests that are served beside each other are all in `beside`, and
  what they change is in `raced` (`BesideTold`), so a request outside it is the only one there was since it was admitted. Hence what such a request has written is there (`WrittenAlone`), and a field that is not raced was read, and is now, as it was last saved, but for the request that has just
  written it (`FieldsKept`); the same of the token (`TokenKept`). The two last hold for a field, or the token, whatever became of the others, since a save of one group by itself is what ends the exemption. A page that does not know of a token has none to send (`TokensShown`).
  The third is about `OneClickPage`: `CatalogCorrect` (`SelectedIsDeployed`) and the action property `ProgressCorrect` (`ProgressNeverGoesBack`), from what every answer on its way was asked for.
* **`ControlPlaneProofs`**, first part, about `ServiceImages`: `ImagesTyped`, `ServiceCorrect`, `CleanupCorrect`. The argument rests on what a definition records. `RecordsMatch`: a recorded image was built for its version; `BuildsAreUnrecorded`: the builds under way have numbers of
  their own, without an image yet; `CleanersSpare`: an image a cleanup is about to remove was not in use when it read the definition, and has a tag that no build will be given; `UpdatesCarryTheDeployed`: unless updates raced, every run carries the image of the
  deployed version, and the service has it as soon as one of them has come through.
  Second part, about `ControlPlane`: `PlaneTyped`, `PlaneServesWithSalt`, `PlaneServesWithServices`, `BackupKept`. The invariant says for each program counter what is known there: of the installer (`InstallerKnows`), of the data directory (`DataKnows`) and of the captain
  process (`ProcessKnows`); each action has its lemma. That a backup is kept is an argument about one step, from what is known before it. That a captain serves with the services of all apps it was brought rests on phase 2 having seen each of them before the directory goes, and on no later step taking
  a service away or adding to `brought`; nothing of the kind holds of the apps that users register.
  Third part, about `Monitoring`: `GoAccessCorrect` (`GoAccessAsRecorded`), if GoAccess is one of the monitors looked at. `MonitorsInv`: an update is served by a process that is up if a tab asked for it and starting if the start did, and two of GoAccess that are served at once are both in `together`
  (`UpdatesServed`); at each stage of an update outside it the record, the crontab and the container are as far as the stage says (`Stages`); and with no update past its first stage, and none failed or overtaken last, they agree (`AppliedInv`), which a start restores by going through all stages.
* **`SessionsProofs`**: `SessionsTyped`, `SessionsUnique` (`OneSessionPerLogin`), `LoginsEnd` (`SessionsEndInTime`), `ChangesEndLogins` (`OldLoginsAreRefused`). `SessionsInv` states of every record and of every access token, wherever it is (in a jar, on its way
  there or back), that its login is an earlier one, that its deadline comes from that login, and that one of the current version is of a password no older than the last change answered. The password meant is the one at the moment the tokens are issued, since a change may overtake a login that waits for its one-time password. Without "of no later version than the process's" a crash
  between the two writes of a change could make an old token current again; that `version` is what is on disk is what the restart needs. `TokensStay` is what all steps have in common: tokens only get more, a login's record is never rewritten, and the version only grows.
  The second part is about `ProFeatures`: `ProTyped`, `TwoFactorCorrect` (`LoginsAreVerified`), `SecretCorrect` (`EnabledSecretIsProved`), `ConfigCorrect` (`SavedConfigStays`). `ProInv`: while changing requests do not overlap, at most one is under way (`OneChange`), what each has seen still holds when it
  goes on (`CallFine`), and what is stored is what was proved and saved last (`StoreFine`).
  The third is about `RateLimiter`: `LimiterTyped`, `RefusalsCorrect` (`RefusedHaveUsedTheirWindow`), `LimiterBounded` (`BucketsAreBounded`). `LimiterInv`: a window that is *n* ticks old has counted no more than its client's attempts of the last *n* + 1 ticks (`Covered`); whatever `evictIfNeeded` drops, the windows left are old ones
  (`EvictIs`, from what `filter` leaves, `FilteredIs`). That the attempts of all ticks are the sum the property speaks of is `SumIs`: a sum does not depend on the order of its terms (`AnyOrder`).
  The fourth is about `Themes`: `CurrentThemeCorrect` (`CurrentThemeExists`). `ThemesInv`: one call at most is between its two writes (`ThemesCore`), and the one write fits the other that is owed: an update's theme is stored before its name is made current, a deletion has freed the name before its theme goes.
  What a cut update leaves is in `replaced` until the name is next written.
* **`DomainsProofs`**: `DomainsTyped`, `CertbotCorrect` (`CertbotIsExclusive`), `FlagsCorrect` (`FlagsHaveCertificates`), `RegistryCorrect` (`LocalRegistryIsServed`). `LockInv` is the lock of Certbot: at most one holder, and the lock is taken exactly while
  there is one; every action finds it free and takes it, holds it and gives it back, or leaves it alone. `FlagsInv` is about the requests that nobody overlapped: then only one is active (`Alone`), it works for the root domain there is, and a request
  past its certificate has it on disk (`Certified`, `InStep`). Without the last part the step that writes a flag after a wait would rest on nothing; with an overlap it does, which is why both properties exempt it.
* **`OneClickProofs`**: `JobsCorrect` (`UnfinishedJobsRun`), `VerdictsCorrect` (`VerdictsStay`). `RunningInv`: a chain runs only in a process whose registry is filled, and its job is recorded and told as unfinished. `StoreInv`: the store has the same jobs as the
  registry once that is filled, has dropped only what `MAX_JOBS` newer jobs pushed out, and repeats every verdict that was told.
  The second part is about `BuildSources`: `SourcesCorrect` (`BuildsReadTheirSource`) and `ArchivesCorrect` (`ArchiveOutlivesItsBuild`). `NumbersInv`: the builds under way have distinct numbers, none above `latest`, and `latest` counts builds, so that each
  number has its directory; `DirectoryInv`: what the stages of a build have left in its directory and its image. Both hold until the app is created again: then numbers repeat, and section 4 has what follows.
  The third part, again about `OneClick` and `Projects`, needs induction: `OrderCorrect` (`ServicesComeAfterTheirNeeds`) and `ProjectsCorrect` (`ProjectsStayWhole`). Along the passes of `InOrder`, an array in which every service comes after what it needs stays one (`AddedOrdered`, `PassOrdered`, `OrderSteps`), and it is complete
  or the deployment is refused (`ResolvedIff`). `StepsAre` says what the flattened list of steps is: three for each service in that order, behind the step that makes the project. `ChainsInv`: a chain has the list of its template (`AsOrdered`), has read the app it is waiting for (`HasRead`), and only reads more (`ReadsMore`). For the tree,
  `DeletionKeeps`: a deletion of several projects from the leaves up leaves every parent in place, whichever of its steps are refused. `TreeInv` and `AppsFollow` carry that through all requests: what becomes of an app's project is that it is there, or that a chain has written back what it had read, which is the one exemption of the property.

### Corrected by the proofs

* `ProjectsStayWhole` was stated, and `OneClick` modelled, with the project that a chain had read of its *last* app. The proof failed for a template with two services, and TLC confirmed it on a larger instance: the configure step writes back what it read of each app. `read` is now a function of the apps.
* Two facts that the instances satisfied became assumptions: `None` is no address (`RateLimiter`), and the services of a template have distinct names, being the keys of an object (`OneClick`).

### Model-checked only

* Liveness (`QueuedBuildsStart`, `OpenRequestsClose`, `ChangesEnd`, `CreatedCaptainServes`) and everything else under fairness: the prover has no rules for `ENABLED`.
* Of what is checked by hand (section 3), what is not marked there as proved.

## 6. Not modelled

* `AgentAccess`, `AgentKeys`: the quota per day and the audit log. `AgentAccess` has a key's role and scope only; its policy is in `AgentKeys`.
* `AgentDeploy`: an upload or registration that fails before its build is scheduled; deletion of the app meanwhile, which is no action of it. A source's content is what its git hash or image name compares as.
* `BuildQueue`: how `ensureImage` builds (`BuildSources` has its files), Docker's own state beyond the image of each service. `ServiceImages` has one app that is never removed, and any failed run may roll back.
* `NginxReload`, `AppConfig`: the text of the configurations beyond being sound or not, the settings of a service that a refused update leaves behind, and how nginx is created at start.
* `BuildSources`: restarts, the limits of `SafeTar`, environment variables and the choice of credentials.
* `Restoration`, `ControlPlane`: ssh to the nodes; the deletion of apps; which version of an app is deployed (`built` says whether it has an image); the checks of the local and default registry within a start; a machine is fresh, and the removal of a directory is one step.
* `RateLimiter`: clients that reach the port directly have public addresses. `Monitoring`: the reports of GoAccess (whose generation ignores a failed catch-up) and the proxy of NetData. `Themes`: the built-in themes are one.
* `app.ts` with its order of middleware, `SafeUrl`, `VersionManager`, `EventLogger`, the templates of generated files, the resolution of domains; the lists and maintenance pages of the dashboard and the legacy dashboard. They are pure input and output, or
  keep no state that another part reads; `PROJECT.json` names each with its reason.

## 7. Plan

Done, in this order: `AppVersions`, `BuildQueue` and their proofs; `AgentAccess`, `RequestLifecycle` and proofs; `AgentDeploy`; `NginxReload`, `AppConfig` and proofs; `Sessions`; `Registries`, `Domains`; `Projects`, `OneClick`;
`ServiceImages` and proofs; `Restoration`, `ControlPlane` and proofs; the eight parts; the proofs about `Sessions`, `AgentDeploy`, `Domains`, the jobs of `OneClick`, the eight parts, and of the refinement and the cap of `AgentAccess`; the proofs by induction, about `OneClick`, `Projects`, `RateLimiter` and `Themes`.

Every safety property of the runs is now a theorem, for the constants' assumptions alone and, about GoAccess, for monitors that include it. What could follow: the exemptions that the properties carry after overlapping requests
(of `Domains` and `ProFeatures`), stated per field as in `AppPage`; and the deletion of apps in `ControlPlane`.
