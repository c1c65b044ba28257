-------------------------- MODULE BuildQueueProofs ---------------------------
(***************************************************************************)
(* The scheduler's invariants, for any set of apps and any number of       *)
(* builds, restarts and deletions; then what an agent's deployment and its *)
(* undoing keep, over the same queue.                                      *)
(***************************************************************************)
EXTENDS AgentDeploy, SharedLemmas

\* The definitions are well formed and their version numbers increase; the
\* second is what makes the first inductive (NewVersionIndex has a value).
DefsOK(defs) ==
    /\ defs \in [Apps -> Definition(Images) \cup {NoApp}]
    /\ \A a \in Apps : defs[a] # NoApp => Increasing(defs[a])

IsDef(d) == d \in Definition(Images) /\ Increasing(d)

\* What registerAppDefinition stores is a well-formed definition.
LEMMA FreshIsDef == IsDef(FreshDefinition)
<1>1. FreshDefinition \in Definition(Images)
  BY DEF FreshDefinition, Definition
<1>2. QED BY <1>1 DEF IsDef, Increasing, FreshDefinition

\* Writing a well-formed definition, or deleting one, keeps the store well
\* formed.
LEMMA DefsUpdate ==
    ASSUME NEW defs, DefsOK(defs), NEW a \in Apps, NEW d, IsDef(d) \/ d = NoApp
    PROVE  DefsOK([defs EXCEPT ![a] = d])
BY DEF DefsOK, IsDef

\* A definition that is there is well formed.
LEMMA DefsMember ==
    ASSUME NEW defs, DefsOK(defs), NEW a \in Apps, defs[a] # NoApp
    PROVE  IsDef(defs[a])
BY DEF DefsOK, IsDef

\* The part of the type invariant that startDeployingNewVersion can disturb.
StartTypes ==
    /\ DefsOK(apps)
    /\ phase \in [Builds -> Phases]
    /\ version \in [Builds -> Nat]
    /\ shifts \in Nat

\* startDeployingNewVersion keeps what it writes well typed.
LEMMA StartTyped ==
    ASSUME StartTypes, NEW b \in Builds, NEW a \in Apps,
           NEW defs, DefsOK(defs), NEW n \in Nat,
           StartDeployingNewVersion(b, a, defs, n)
    PROVE  StartTypes'
<1>1. CASE defs[a] # NoApp
  <2>1. IsDef(defs[a])
    BY <1>1, DefsMember
  <2>2. IsDef(CreateNewVersion(defs[a])) /\ NewVersionIndex(defs[a]) \in Nat
    BY <2>1, CreateNewVersionCorrect, NewVersionIndexAbove DEF IsDef
  <2>3. apps' = [defs EXCEPT ![a] = CreateNewVersion(defs[a])]
    BY <1>1 DEF StartDeployingNewVersion
  <2>4. DefsOK([defs EXCEPT ![a] = CreateNewVersion(defs[a])])
    BY <2>2, DefsUpdate
  <2>5. DefsOK(apps)'
    BY <2>3, <2>4 DEF DefsOK
  <2>6. /\ version' = [version EXCEPT ![b] = NewVersionIndex(defs[a])]
        /\ phase' = [phase EXCEPT ![b] = "building"]
        /\ shifts' = n
    BY <1>1 DEF StartDeployingNewVersion
  <2>7. QED BY <2>2, <2>5, <2>6 DEF StartTypes, Phases
<1>2. CASE defs[a] = NoApp
  <2>1. apps' = defs /\ version' = version /\ shifts' = n + 1
        /\ phase' = [phase EXCEPT ![b] = "failed"]
    BY <1>2 DEF StartDeployingNewVersion
  <2>2. QED BY <2>1 DEF StartTypes, Phases, DefsOK
<1>3. QED BY <1>1, <1>2

\* What the two properties of the same kind have in common.
TypeInv == TypeOK /\ VersionsIncrease

\* The two parts of the invariant, said of the store as a whole.
LEMMA TypeInvDefs == TypeInv <=> TypeOK /\ DefsOK(apps)
BY DEF TypeInv, TypeOK, VersionsIncrease, DefsOK

\* The numbers of the calls, and the images built from their sources.
LEMMA BuildsFacts ==
    /\ \A b \in Builds : b \in Nat /\ b \in Images
    /\ Placeholder \in Images
    /\ \A c \in 0..MaxBuilds : c < MaxBuilds => c + 1 \in Builds
BY BoundsAssumption DEF Builds, Images

\* Every branch of scheduleDeployNewVersion is well typed.
LEMMA ScheduleTyped ==
    ASSUME TypeOK, DefsOK(apps), NEW a \in Apps, NEW defs, DefsOK(defs),
           Quiet, ScheduleDeployNewVersion(a, defs)
    PROVE  /\ DefsOK(apps)'
           /\ active' \in [Apps -> BOOLEAN]
           /\ queue' \in Seq(QueueEntry)
           /\ shifts' \in Nat
           /\ calls' \in 0..MaxBuilds
           /\ appOf' \in [Builds -> Apps \cup {NoApp}]
           /\ phase' \in [Builds -> Phases]
           /\ version' \in [Builds -> Nat]
           /\ attached' \subseteq Builds
           /\ promise' \in [Builds -> PromiseStates]
<1> DEFINE b == calls + 1
<1>1. b \in Builds /\ b \in 0..MaxBuilds
  BY BuildsFacts, BoundsAssumption DEF TypeOK, ScheduleDeployNewVersion
<1>2. calls' \in 0..MaxBuilds /\ appOf' \in [Builds -> Apps \cup {NoApp}]
  BY <1>1 DEF ScheduleDeployNewVersion, TypeOK
<1>3. StartTypes
  BY DEF StartTypes, TypeOK
<1>4. CASE StartAtOnce(b, a, defs)
  <2>1. StartTypes'
    BY <1>1, <1>3, <1>4, StartTyped DEF StartAtOnce
  <2>2. active' \in [Apps -> BOOLEAN] /\ queue' = queue
        /\ attached' = attached \cup {b}
        /\ promise' \in [Builds -> PromiseStates]
    BY <1>4 DEF StartAtOnce, TypeOK, PromiseStates
  <2>3. QED BY <1>1, <1>2, <2>1, <2>2 DEF StartTypes, TypeOK
<1>5. CASE ReplaceQueuedSource(b, a, defs)
  <2>1. PICK i \in DOMAIN queue :
            /\ queue' = [queue EXCEPT ![i].source = b]
            /\ phase' = [phase EXCEPT ![queue[i].source] = "replaced",
                                      ![b] = "queued"]
    BY <1>5 DEF ReplaceQueuedSource
  <2>2. queue' \in Seq(QueueEntry)
    <3>1. queue \in Seq(QueueEntry) /\ i \in 1..Len(queue)
      BY <2>1 DEF TypeOK
    <3>2. queue[i] \in QueueEntry
      BY <3>1
    <3>3. [queue[i] EXCEPT !.source = b] \in QueueEntry
      BY <3>2, <1>1 DEF QueueEntry
    <3>4. QED BY <2>1, <3>1, <3>3
  <2>3. phase' \in [Builds -> Phases]
    BY <2>1 DEF TypeOK, Phases
  <2>4. /\ active' \in [Apps -> BOOLEAN]
        /\ apps' = defs
        /\ UNCHANGED <<shifts, version, attached, promise>>
    BY <1>5 DEF ReplaceQueuedSource, TypeOK
  <2>5. QED BY <1>2, <2>2, <2>3, <2>4 DEF TypeOK, DefsOK
<1>6. CASE Enqueue(b, a, defs)
  <2>1. [app |-> a, source |-> b, promise |-> b] \in QueueEntry
    BY <1>1 DEF QueueEntry
  <2>2. queue' \in Seq(QueueEntry)
    BY <1>6, <2>1 DEF Enqueue, TypeOK
  <2>3. phase' \in [Builds -> Phases] /\ promise' \in [Builds -> PromiseStates]
    BY <1>6 DEF Enqueue, TypeOK, Phases, PromiseStates
  <2>4. /\ active' \in [Apps -> BOOLEAN]
        /\ apps' = defs
        /\ UNCHANGED <<shifts, version, attached>>
    BY <1>6 DEF Enqueue, TypeOK
  <2>5. QED BY <1>2, <2>2, <2>3, <2>4 DEF TypeOK, DefsOK
<1>7. QED BY <1>4, <1>5, <1>6 DEF ScheduleDeployNewVersion

\* So is the callback that takes the next build off the queue.
LEMMA ShiftTyped ==
    ASSUME TypeOK, DefsOK(apps), ShiftQueue
    PROVE  TypeOK' /\ DefsOK(apps)'
<1>1. UNCHANGED <<service, calls, appOf, attached, promise, removal, restarts>>
  BY DEF ShiftQueue
<1>2. CASE queue = <<>>
  <2>1. shifts' = shifts - 1 /\ shifts > 0
        /\ UNCHANGED <<apps, active, queue, phase, version>>
    BY <1>2 DEF ShiftQueue
  <2>2. QED BY <1>1, <2>1 DEF TypeOK, DefsOK
<1>3. CASE queue # <<>>
  <2> DEFINE head == Head(queue)
  <2>1. /\ shifts > 0
        /\ queue' = Tail(queue)
        /\ StartDeployingNewVersion(head.source, head.app, apps, shifts - 1)
        /\ active' = IF apps[head.app] = NoApp
                     THEN [active EXCEPT ![head.app] = FALSE]
                     ELSE active
    BY <1>3 DEF ShiftQueue
  <2>2. queue \in Seq(QueueEntry)
    BY DEF TypeOK
  <2>3. head \in QueueEntry /\ Tail(queue) \in Seq(QueueEntry)
    BY <1>3, <2>2
  <2>4. head.source \in Builds /\ head.app \in Apps
    BY <2>3 DEF QueueEntry
  <2>5. StartTypes /\ shifts - 1 \in Nat
    BY <2>1 DEF StartTypes, TypeOK
  <2>6. StartTypes'
    BY <2>1, <2>4, <2>5, StartTyped
  <2>7. active' \in [Apps -> BOOLEAN]
    BY <2>1 DEF TypeOK
  <2>8. QED BY <1>1, <2>1, <2>3, <2>6, <2>7 DEF StartTypes, TypeOK, DefsOK
<1>4. QED BY <1>2, <1>3

\* So is setDeployedVersionAndImage with onBuildFinished behind it.
LEMMA ImageReadyTyped ==
    ASSUME TypeOK, DefsOK(apps), NEW b \in Builds, ImageReady(b)
    PROVE  TypeOK' /\ DefsOK(apps)'
<1> DEFINE a == appOf[b]
           new == SetDeployedVersionAndImage(apps[a], version[b], b)
<1>1. /\ apps[a] # NoApp
      /\ HasVersion(apps[a], version[b])
      /\ apps' = [apps EXCEPT ![a] = new]
      /\ phase' = [phase EXCEPT ![b] = "deploying"]
      /\ version' = [version EXCEPT ![b] = 0]
      /\ active' = [active EXCEPT ![a] = FALSE]
      /\ shifts' = shifts + 1
      /\ UNCHANGED <<service, queue, calls, appOf, attached, promise, removal,
                     restarts>>
  BY DEF ImageReady, OnBuildFinished
<1>2. DefsOK(apps)'
  <2>1. CASE a \in Apps
    <3>1. IsDef(apps[a])
      BY <1>1, <2>1, DefsMember
    <3>2. b \in Images /\ version[b] \in Nat
      BY BuildsFacts DEF TypeOK
    <3>3. IsDef(new)
      BY <1>1, <3>1, <3>2, SetDeployedCorrect DEF IsDef
    <3>4. QED BY <1>1, <2>1, <3>3, DefsUpdate DEF DefsOK
  <2>2. CASE a \notin Apps
    <3>1. apps' = apps BY <1>1, <2>2 DEF TypeOK
    <3>2. QED BY <3>1 DEF DefsOK
  <2>3. QED BY <2>1, <2>2
<1>3. QED BY <1>1, <1>2 DEF TypeOK, DefsOK, Phases

\* onBuildFinished and the settling of a promise are well typed.
LEMMA FinishTyped ==
    ASSUME TypeOK, NEW a, OnBuildFinished(a)
    PROVE  active' \in [Apps -> BOOLEAN] /\ shifts' \in Nat
<1>1. shifts' \in Nat
  BY DEF OnBuildFinished, TypeOK
<1>2. active \in [Apps -> BOOLEAN] /\ active' = [active EXCEPT ![a] = FALSE]
  BY DEF OnBuildFinished, TypeOK
<1>3. FALSE \in BOOLEAN
  OBVIOUS
<1>4. active' \in [Apps -> BOOLEAN]
  BY <1>2, <1>3, Zenon
<1>5. QED BY <1>1, <1>4

\* So is every way in which a build ends.
LEMMA BuildEndTyped ==
    ASSUME TypeOK, DefsOK(apps), NEW b \in Builds,
           BuildFails(b) \/ ServiceUpdated(b) \/ ServiceUpdateFails(b)
    PROVE  TypeOK' /\ DefsOK(apps)'
<1>1. ASSUME NEW outcome \in PromiseStates, Settle(b, outcome)
      PROVE  promise' \in [Builds -> PromiseStates]
  BY <1>1 DEF Settle, TypeOK
<1>2. "rejected" \in PromiseStates /\ "resolved" \in PromiseStates
  BY DEF PromiseStates
<1>3. CASE BuildFails(b)
  <2>1. promise' \in [Builds -> PromiseStates]
    BY <1>1, <1>2, <1>3 DEF BuildFails
  <2>2. active' \in [Apps -> BOOLEAN] /\ shifts' \in Nat
    BY <1>3, FinishTyped DEF BuildFails
  <2>3. phase' \in [Builds -> Phases] /\ version' \in [Builds -> Nat]
    BY <1>3 DEF BuildFails, TypeOK, Phases
  <2>4. UNCHANGED <<apps, service, queue, calls, appOf, attached, removal,
                    restarts>>
    BY <1>3 DEF BuildFails
  <2>5. QED BY <2>1, <2>2, <2>3, <2>4 DEF TypeOK, DefsOK
<1>4. CASE ServiceUpdated(b)
  <2>1. promise' \in [Builds -> PromiseStates]
    BY <1>1, <1>2, <1>4 DEF ServiceUpdated
  <2>2. service' \in [Apps -> Images \cup {NoService}]
    BY <1>4, BuildsFacts DEF ServiceUpdated, TypeOK
  <2>3. QED BY <1>4, <2>1, <2>2 DEF ServiceUpdated, TypeOK, DefsOK, Phases
<1>5. CASE ServiceUpdateFails(b)
  <2>1. promise' \in [Builds -> PromiseStates]
    BY <1>1, <1>2, <1>5 DEF ServiceUpdateFails
  <2>2. service' \in [Apps -> Images \cup {NoService}]
    <3> DEFINE a == appOf[b]
    <3>1. \/ service' = service
          \/ service' = [service EXCEPT ![a] = b]
          \/ service' = [service EXCEPT ![a] = Placeholder]
          \/ service' = [service EXCEPT ![a] = service[a]]
      BY <1>5 DEF ServiceUpdateFails
    <3>2. [service EXCEPT ![a] = service[a]] = service
      BY DEF TypeOK
    <3>3. QED BY <3>1, <3>2, BuildsFacts DEF TypeOK
  <2>3. active' \in [Apps -> BOOLEAN] /\ shifts' \in Nat
    BY <1>5, FinishTyped DEF ServiceUpdateFails
  <2>4. phase' \in [Builds -> Phases]
    BY <1>5 DEF ServiceUpdateFails, TypeOK, Phases
  <2>5. UNCHANGED <<apps, queue, calls, appOf, version, attached, removal,
                    restarts>>
    BY <1>5 DEF ServiceUpdateFails
  <2>6. QED BY <2>1, <2>2, <2>3, <2>4, <2>5 DEF TypeOK, DefsOK
<1>6. QED BY <1>3, <1>4, <1>5

\* removeApps is well typed.
LEMMA RemovalTyped ==
    ASSUME TypeOK, DefsOK(apps), NEW a \in Apps,
           \/ RemoveStart(a) \/ RemoveInspect(a)
           \/ RemoveFinish(a) \/ RemoveFails(a)
    PROVE  TypeOK' /\ DefsOK(apps)'
<1>1. CASE RemoveStart(a)
  BY <1>1 DEF RemoveStart, buildVars, TypeOK, DefsOK, RemovalStates
<1>2. CASE RemoveInspect(a)
  BY <1>2 DEF RemoveInspect, buildVars, TypeOK, DefsOK, RemovalStates
<1>3. CASE RemoveFinish(a)
  BY <1>3 DEF RemoveFinish, buildVars, TypeOK, DefsOK, RemovalStates
<1>5. CASE RemoveFails(a)
  BY <1>5 DEF RemoveFails, buildVars, TypeOK, DefsOK, RemovalStates
<1>4. QED BY <1>1, <1>2, <1>3, <1>5

\* A restart is well typed.
LEMMA RestartTyped ==
    ASSUME TypeOK, DefsOK(apps), Restart
    PROVE  TypeOK' /\ DefsOK(apps)'
<1>1. restarts' \in 0..MaxRestarts
  BY BoundsAssumption DEF Restart, TypeOK
<1>2. phase' \in [Builds -> Phases] /\ promise' \in [Builds -> PromiseStates]
  BY DEF Restart, TypeOK, Phases, PromiseStates
<1>3. QED BY <1>1, <1>2 DEF Restart, TypeOK, DefsOK, RemovalStates

\* The process starts well typed.
LEMMA InitTyped == Init => TypeOK /\ DefsOK(apps)
<1> SUFFICES ASSUME Init PROVE TypeOK /\ DefsOK(apps) OBVIOUS
<1>1. DefsOK(apps)
  BY DEF Init, DefsOK
<1>2. queue \in Seq(QueueEntry)
  BY DEF Init
<1>3. calls \in 0..MaxBuilds /\ restarts \in 0..MaxRestarts
  BY BoundsAssumption DEF Init
<1>4. QED BY <1>1, <1>2, <1>3
          DEF Init, TypeOK, DefsOK, Phases, PromiseStates, RemovalStates

\* Every step keeps the types and the order of the versions.
LEMMA NextTyped ==
    ASSUME TypeOK, DefsOK(apps), [Next]_vars
    PROVE  TypeOK' /\ DefsOK(apps)'
<1>1. ASSUME NEW a \in Apps, Schedule(a)
      PROVE  TypeOK' /\ DefsOK(apps)'
  <2>1. Quiet /\ ScheduleDeployNewVersion(a, apps)
        /\ UNCHANGED <<service, removal, restarts>>
    BY <1>1 DEF Schedule
  <2>2. QED BY <2>1, ScheduleTyped DEF TypeOK, DefsOK
<1>2. ASSUME NEW a \in Apps, Register(a)
      PROVE  TypeOK' /\ DefsOK(apps)'
  <2> DEFINE defs == [apps EXCEPT ![a] = FreshDefinition]
  <2>1. Quiet /\ ScheduleDeployNewVersion(a, defs)
        /\ UNCHANGED <<service, removal, restarts>>
    BY <1>2 DEF Register
  <2>2. DefsOK(defs)
    BY FreshIsDef, DefsUpdate
  <2>3. QED BY <2>1, <2>2, ScheduleTyped DEF TypeOK, DefsOK
<1>3. CASE UNCHANGED vars
  BY <1>3 DEF vars, buildVars, TypeOK, DefsOK
<1>4. QED
  BY <1>1, <1>2, <1>3, RemovalTyped, ImageReadyTyped, BuildEndTyped, ShiftTyped,
     RestartTyped DEF Next

\* Every state is well typed, and the version numbers of every app increase,
\* for any number of apps, builds, deletions and restarts.
THEOREM TypeCorrect == Spec => [](TypeOK /\ VersionsIncrease)
<1>1. Init => TypeInv
  BY InitTyped, TypeInvDefs
<1>2. TypeInv /\ [Next]_vars => TypeInv'
  <2> SUFFICES ASSUME TypeInv, [Next]_vars PROVE TypeInv' OBVIOUS
  <2>1. TypeOK' /\ DefsOK(apps)'
    BY TypeInvDefs, NextTyped
  <2>2. QED BY <2>1 DEF TypeInv, TypeOK, VersionsIncrease, DefsOK
<1>3. TypeInv => TypeOK /\ VersionsIncrease
  BY DEF TypeInv
<1>4. QED BY <1>1, <1>2, <1>3, PTL DEF Spec

-----------------------------------------------------------------------------
(* The queue.  NoStrandedBuild rests on MarkedAppsHaveABuild (when the      *)
(* queue is empty a marked app is being built, so a call that queues has a  *)
(* build to wait for), which rests on the entries of the queue being those  *)
(* of calls that are queued, for the app they name.                         *)

EntriesAreQueued ==
    \A i \in 1..Len(queue) :
        /\ phase[queue[i].source] = "queued"
        /\ appOf[queue[i].source] = queue[i].app

QueuedHaveEntries ==
    \A b \in Builds : phase[b] = "queued" =>
        \E i \in 1..Len(queue) : queue[i].source = b

LaterCallsUnused == \A b \in Builds : b > calls => phase[b] = "unused"

Marked ==
    \A a \in Apps : active[a] =>
        \/ \E i \in 1..Len(queue) : queue[i].app = a
        \/ \E b \in Builds : phase[b] = "building" /\ appOf[b] = a

NotStranded ==
    Len(queue) > 0 =>
        (\E b \in Builds : phase[b] = "building") \/ shifts > 0

OneEntry ==
    \A i, j \in 1..Len(queue) : queue[i].app = queue[j].app => i = j

QueueInv ==
    /\ EntriesAreQueued
    /\ QueuedHaveEntries
    /\ LaterCallsUnused
    /\ Marked
    /\ NotStranded
    /\ OneEntry

\* What a well-typed queue holds, entry by entry.
LEMMA QueueTyped ==
    ASSUME TypeOK
    PROVE  /\ queue \in Seq(QueueEntry) /\ Len(queue) \in Nat
           /\ DOMAIN queue = 1..Len(queue)
           /\ \A i \in 1..Len(queue) :
                  /\ queue[i].app \in Apps
                  /\ queue[i].source \in Builds
                  /\ queue[i] = [app |-> queue[i].app, source |-> queue[i].source,
                                 promise |-> queue[i].promise]
<1>1. queue \in Seq(QueueEntry)
  BY DEF TypeOK
<1>2. \A i \in 1..Len(queue) : queue[i] \in QueueEntry
  BY <1>1
<1>3. QED BY <1>1, <1>2 DEF QueueEntry

\* The named properties follow.
LEMMA QueueInvImplies ==
    ASSUME TypeOK, QueueInv
    PROVE  /\ MarkedAppsHaveABuild /\ NoStrandedBuild
           /\ OneQueueEntryPerApp /\ QueueHoldsTheQueued
<1>1. /\ DOMAIN queue = 1..Len(queue) /\ Len(queue) \in Nat
      /\ \A i \in 1..Len(queue) : queue[i].source \in Builds
  BY QueueTyped
<1>2. MarkedAppsHaveABuild
  BY <1>1 DEF QueueInv, Marked, MarkedAppsHaveABuild, QueuedApps, BuildingApps,
              InPhase
<1>3. NoStrandedBuild
  <2>1. queue # <<>> => Len(queue) > 0
    BY QueueTyped
  <2>2. (\E b \in Builds : phase[b] = "building") => BuildingApps # {}
    BY DEF BuildingApps, InPhase
  <2>3. QED BY <2>1, <2>2 DEF QueueInv, NotStranded, NoStrandedBuild
<1>4. OneQueueEntryPerApp
  BY <1>1 DEF QueueInv, OneEntry, OneQueueEntryPerApp
<1>5. QueueHoldsTheQueued
  <2>1. \A b : b \in {queue[i].source : i \in DOMAIN queue} <=> b \in InPhase("queued")
    BY <1>1 DEF QueueInv, EntriesAreQueued, QueuedHaveEntries, InPhase
  <2>2. \A i, j \in DOMAIN queue : queue[i].source = queue[j].source => i = j
    BY <1>1 DEF QueueInv, EntriesAreQueued, OneEntry
  <2>3. QED BY <2>1, <2>2 DEF QueueHoldsTheQueued
<1>6. QED BY <1>2, <1>3, <1>4, <1>5

\* The process starts with an empty queue.
LEMMA InitQueueInv == Init => QueueInv
BY DEF Init, QueueInv, EntriesAreQueued, QueuedHaveEntries, LaterCallsUnused,
       Marked, NotStranded, OneEntry

\* A turn that leaves the queue alone and ends or advances one build, which is
\* not queued before or after.
LEMMA BuildStepKeepsQueue ==
    ASSUME TypeOK, QueueInv, NEW b \in Builds, NEW p \in Phases,
           phase[b] \in {"building", "deploying"}, p # "queued", p # "unused",
           phase' = [phase EXCEPT ![b] = p],
           UNCHANGED <<queue, calls, appOf>>, shifts' \in Nat,
           \/ /\ phase[b] = "deploying"
              /\ shifts' >= shifts
              /\ \A a \in Apps : active'[a] => active[a]
           \/ /\ shifts' > 0
              /\ \A a \in Apps : active'[a] => active[a] /\ a # appOf[b]
    PROVE  QueueInv'
<1>1. \A i \in 1..Len(queue) : queue[i].source # b
  BY DEF QueueInv, EntriesAreQueued
<1>2. \A c \in Builds : phase'[c] = IF c = b THEN p ELSE phase[c]
  BY DEF TypeOK
<1>3. EntriesAreQueued'
  BY <1>1, <1>2, QueueTyped DEF QueueInv, EntriesAreQueued
<1>4. QueuedHaveEntries' /\ LaterCallsUnused'
  BY <1>2 DEF QueueInv, QueuedHaveEntries, LaterCallsUnused
<1>5. Marked'
  BY <1>2 DEF QueueInv, Marked
<1>6. NotStranded'
  <2>1. CASE shifts' > 0
    BY <2>1 DEF NotStranded
  <2>2. CASE phase[b] = "deploying" /\ shifts' >= shifts
    <3>1. \A c \in Builds : phase[c] = "building" => phase'[c] = "building"
      BY <1>2, <2>2
    <3>2. shifts \in Nat /\ (shifts > 0 => shifts' > 0)
      BY <2>2 DEF TypeOK
    <3>3. QED BY <3>1, <3>2 DEF QueueInv, NotStranded
  <2>3. QED BY <2>1, <2>2
<1>7. OneEntry'
  BY DEF QueueInv, OneEntry
<1>8. QED BY <1>3, <1>4, <1>5, <1>6, <1>7 DEF QueueInv

\* scheduleDeployNewVersion keeps the invariant of the queue.
LEMMA ScheduleKeepsQueue ==
    ASSUME TypeOK, QueueInv, NEW a \in Apps, NEW defs,
           Quiet, ScheduleDeployNewVersion(a, defs)
    PROVE  QueueInv'
<1> DEFINE b == calls + 1
<1>1. b \in Builds /\ calls \in Nat /\ calls' = b
  BY BuildsFacts, BoundsAssumption DEF TypeOK, ScheduleDeployNewVersion
<1>2. phase[b] = "unused"
  BY <1>1, BuildsFacts DEF QueueInv, LaterCallsUnused
<1>3. \A c \in Builds : appOf'[c] = IF c = b THEN a ELSE appOf[c]
  BY <1>1 DEF ScheduleDeployNewVersion, TypeOK
<1>4. \A i \in 1..Len(queue) : queue[i].source # b
  BY <1>2 DEF QueueInv, EntriesAreQueued
<1>5. shifts = 0
  BY DEF Quiet
<1>6. CASE StartAtOnce(b, a, defs)
  <2>1. /\ queue' = queue
        /\ active' = [active EXCEPT ![a] = (defs[a] # NoApp)]
        /\ StartDeployingNewVersion(b, a, defs, 0)
    BY <1>6 DEF StartAtOnce
  <2>2. PICK p \in {"building", "failed"} :
            /\ phase' = [phase EXCEPT ![b] = p]
            /\ p = "building" => defs[a] # NoApp
            /\ p = "failed" => defs[a] = NoApp /\ shifts' = 1
    BY <2>1 DEF StartDeployingNewVersion
  <2>3. \A c \in Builds : phase'[c] = IF c = b THEN p ELSE phase[c]
    BY <2>2 DEF TypeOK
  <2>4. EntriesAreQueued'
    BY <1>3, <1>4, <2>1, <2>3, QueueTyped DEF QueueInv, EntriesAreQueued
  <2>5. QueuedHaveEntries' /\ LaterCallsUnused'
    BY <1>1, <2>1, <2>3, BuildsFacts DEF QueueInv, QueuedHaveEntries, LaterCallsUnused
  <2>6. Marked'
    <3> SUFFICES ASSUME NEW x \in Apps, active'[x]
                 PROVE  \/ \E i \in 1..Len(queue) : queue[i].app = x
                        \/ \E c \in Builds : phase'[c] = "building" /\ appOf'[c] = x
      BY <2>1 DEF Marked
    <3>1. CASE x = a
      <4>1. defs[a] # NoApp
        BY <2>1, <3>1 DEF TypeOK
      <4>2. p = "building"
        BY <2>2, <4>1
      <4>3. QED BY <1>1, <1>3, <2>3, <3>1, <4>2
    <3>2. CASE x # a
      <4>1. active[x]
        BY <2>1, <3>2 DEF TypeOK
      <4>2. QED BY <1>2, <1>3, <2>3, <4>1 DEF QueueInv, Marked
    <3>3. QED BY <3>1, <3>2
  <2>7. NotStranded'
    BY <1>1, <2>2, <2>3 DEF NotStranded
  <2>8. OneEntry'
    BY <2>1 DEF QueueInv, OneEntry
  <2>9. QED BY <2>4, <2>5, <2>6, <2>7, <2>8 DEF QueueInv
<1>7. CASE ReplaceQueuedSource(b, a, defs)
  <2>1. PICK i \in 1..Len(queue) :
            /\ queue[i].app = a
            /\ queue' = [queue EXCEPT ![i].source = b]
            /\ phase' = [phase EXCEPT ![queue[i].source] = "replaced",
                                      ![b] = "queued"]
    BY <1>7, QueueTyped DEF ReplaceQueuedSource
  <2>2. active' = [active EXCEPT ![a] = TRUE] /\ shifts' = shifts
    BY <1>7 DEF ReplaceQueuedSource
  <2> DEFINE old == queue[i].source
  <2>3. old \in Builds /\ old # b /\ phase[old] = "queued"
    BY <1>4, QueueTyped DEF QueueInv, EntriesAreQueued
  <2>4. \A c \in Builds : phase'[c] = IF c = b THEN "queued"
                                      ELSE IF c = old THEN "replaced" ELSE phase[c]
    BY <2>1, <2>3 DEF TypeOK
  <2>5. /\ Len(queue') = Len(queue)
        /\ \A j \in 1..Len(queue) :
              /\ queue'[j].app = queue[j].app
              /\ queue'[j].source = IF j = i THEN b ELSE queue[j].source
    BY <2>1, QueueTyped
  <2>6. \A j \in 1..Len(queue) : j # i => queue[j].source # old
    BY QueueTyped DEF QueueInv, EntriesAreQueued, OneEntry
  <2>7. EntriesAreQueued'
    <3> SUFFICES ASSUME NEW j \in 1..Len(queue)
                 PROVE  /\ phase'[queue'[j].source] = "queued"
                        /\ appOf'[queue'[j].source] = queue'[j].app
      BY <2>5 DEF EntriesAreQueued
    <3>1. CASE j = i
      <4>1. queue'[j].source = b /\ queue'[j].app = a
        BY <2>1, <2>5, <3>1
      <4>2. phase'[b] = "queued" /\ appOf'[b] = a
        BY <1>1, <1>3, <2>4
      <4>3. QED BY <4>1, <4>2
    <3>2. CASE j # i
      <4> DEFINE c == queue[j].source
      <4>1. queue'[j].source = c /\ queue'[j].app = queue[j].app
        BY <2>5, <3>2
      <4>2. c \in Builds /\ c # b /\ c # old
        BY <1>4, <2>6, <3>2, QueueTyped
      <4>3. phase[c] = "queued" /\ appOf[c] = queue[j].app
        BY DEF QueueInv, EntriesAreQueued
      <4>4. phase'[c] = "queued" /\ appOf'[c] = queue[j].app
        BY <1>3, <2>4, <4>2, <4>3
      <4>5. QED BY <4>1, <4>4
    <3>3. QED BY <3>1, <3>2
  <2>8. QueuedHaveEntries'
    <3> SUFFICES ASSUME NEW c \in Builds, phase'[c] = "queued"
                 PROVE  \E j \in 1..Len(queue) : queue'[j].source = c
      BY <2>5 DEF QueuedHaveEntries
    <3>1. CASE c = b
      BY <2>5, <3>1
    <3>2. CASE c # b
      <4>1. c # old /\ phase[c] = "queued"
        BY <2>4, <3>2
      <4>2. PICK j \in 1..Len(queue) : queue[j].source = c
        BY <4>1 DEF QueueInv, QueuedHaveEntries
      <4>3. QED BY <2>5, <4>1, <4>2
    <3>3. QED BY <3>1, <3>2
  <2>9. LaterCallsUnused'
    BY <1>1, <2>3, <2>4, BuildsFacts DEF QueueInv, LaterCallsUnused
  <2>10. Marked'
    <3> SUFFICES ASSUME NEW x \in Apps, active'[x]
                 PROVE  \/ \E j \in 1..Len(queue) : queue'[j].app = x
                        \/ \E c \in Builds : phase'[c] = "building" /\ appOf'[c] = x
      BY <2>5 DEF Marked
    <3>1. CASE x = a
      BY <2>1, <2>5, <3>1
    <3>2. CASE x # a
      <4>1. active[x]
        BY <2>2, <3>2 DEF TypeOK
      <4>2. CASE \E j \in 1..Len(queue) : queue[j].app = x
        BY <2>5, <4>2
      <4>3. CASE \E c \in Builds : phase[c] = "building" /\ appOf[c] = x
        <5>1. PICK c \in Builds : phase[c] = "building" /\ appOf[c] = x
          BY <4>3
        <5>2. c # b /\ c # old
          BY <1>2, <2>3, <5>1
        <5>3. QED BY <1>3, <2>4, <5>1, <5>2
      <4>4. QED BY <4>1, <4>2, <4>3 DEF QueueInv, Marked
    <3>3. QED BY <3>1, <3>2
  <2>11. NotStranded'
    <3>1. Len(queue) > 0 /\ \E c \in Builds : phase[c] = "building"
      BY <1>5, QueueTyped DEF QueueInv, NotStranded
    <3>2. PICK c \in Builds : phase[c] = "building"
      BY <3>1
    <3>3. c # b /\ c # old
      BY <1>2, <2>3, <3>2
    <3>4. phase'[c] = "building"
      BY <2>4, <3>2, <3>3
    <3>5. QED BY <3>4 DEF NotStranded
  <2>12. OneEntry'
    BY <2>5 DEF QueueInv, OneEntry
  <2>13. QED BY <2>7, <2>8, <2>9, <2>10, <2>11, <2>12 DEF QueueInv
<1>8. CASE Enqueue(b, a, defs)
  <2> DEFINE n == Len(queue)
             e == [app |-> a, source |-> b, promise |-> b]
  <2>1. /\ isAnyBuildRunning
        /\ \A i \in 1..n : queue[i].app # a
        /\ queue' = Append(queue, e)
        /\ phase' = [phase EXCEPT ![b] = "queued"]
        /\ active' = [active EXCEPT ![a] = TRUE]
        /\ shifts' = shifts
    BY <1>8, QueueTyped DEF Enqueue
  <2>2. /\ Len(queue') = n + 1 /\ n \in Nat
        /\ \A i \in 1..n : queue'[i] = queue[i]
        /\ queue'[n + 1] = e
    BY <2>1, QueueTyped
  <2>3. e.app = a /\ e.source = b
    OBVIOUS
  <2>4. \A c \in Builds : phase'[c] = IF c = b THEN "queued" ELSE phase[c]
    BY <2>1 DEF TypeOK
  <2>5. EntriesAreQueued'
    <3> SUFFICES ASSUME NEW i \in 1..(n + 1)
                 PROVE  /\ phase'[queue'[i].source] = "queued"
                        /\ appOf'[queue'[i].source] = queue'[i].app
      BY <2>2 DEF EntriesAreQueued
    <3>1. CASE i = n + 1
      BY <1>1, <1>3, <2>2, <2>3, <2>4, <3>1
    <3>2. CASE i \in 1..n
      BY <1>3, <1>4, <2>2, <2>4, <3>2, QueueTyped DEF QueueInv, EntriesAreQueued
    <3>3. QED BY <2>2, <3>1, <3>2
  <2>6. QueuedHaveEntries'
    <3> SUFFICES ASSUME NEW c \in Builds, phase'[c] = "queued"
                 PROVE  \E i \in 1..(n + 1) : queue'[i].source = c
      BY <2>2 DEF QueuedHaveEntries
    <3>1. CASE c = b
      BY <2>2, <2>3, <3>1
    <3>2. CASE c # b
      <4>1. PICK i \in 1..n : queue[i].source = c
        BY <2>4, <3>2 DEF QueueInv, QueuedHaveEntries
      <4>2. i \in 1..(n + 1) /\ queue'[i].source = c
        BY <2>2, <4>1
      <4>3. QED BY <4>2
    <3>3. QED BY <3>1, <3>2
  <2>7. LaterCallsUnused'
    BY <1>1, <2>4, BuildsFacts DEF QueueInv, LaterCallsUnused
  <2>8. Marked'
    <3> SUFFICES ASSUME NEW x \in Apps, active'[x]
                 PROVE  \/ \E i \in 1..(n + 1) : queue'[i].app = x
                        \/ \E c \in Builds : phase'[c] = "building" /\ appOf'[c] = x
      BY <2>2 DEF Marked
    <3>1. CASE x = a
      BY <2>2, <2>3, <3>1
    <3>2. CASE x # a
      <4>1. active[x]
        BY <2>1, <3>2 DEF TypeOK
      <4>2. CASE \E i \in 1..n : queue[i].app = x
        BY <2>2, <4>2
      <4>3. CASE \E c \in Builds : phase[c] = "building" /\ appOf[c] = x
        BY <1>2, <1>3, <2>4, <4>3
      <4>4. QED BY <4>1, <4>2, <4>3 DEF QueueInv, Marked
    <3>3. QED BY <3>1, <3>2
  <2>9. NotStranded'
    <3>1. PICK x \in Apps : active[x]
      BY <2>1 DEF isAnyBuildRunning
    <3>2. \E c \in Builds : phase[c] = "building"
      <4>1. CASE \E i \in 1..n : queue[i].app = x
        <5>1. n > 0 BY <4>1, <2>2
        <5>2. QED BY <5>1, <1>5 DEF QueueInv, NotStranded
      <4>2. CASE \E c \in Builds : phase[c] = "building" /\ appOf[c] = x
        BY <4>2
      <4>3. QED BY <3>1, <4>1, <4>2 DEF QueueInv, Marked
    <3>3. QED BY <1>2, <2>4, <3>2 DEF NotStranded
  <2>10. OneEntry'
    BY <2>1, <2>2, <2>3 DEF QueueInv, OneEntry
  <2>11. QED BY <2>5, <2>6, <2>7, <2>8, <2>9, <2>10 DEF QueueInv
<1>9. QED BY <1>6, <1>7, <1>8 DEF ScheduleDeployNewVersion

\* Taking the next build off the queue keeps it.
LEMMA ShiftKeepsQueue ==
    ASSUME TypeOK, QueueInv, ShiftQueue
    PROVE  QueueInv'
<1>1. UNCHANGED <<calls, appOf>> /\ shifts \in Nat /\ shifts > 0
  BY DEF ShiftQueue, TypeOK
<1>2. CASE queue = <<>>
  <2>1. Len(queue) = 0 /\ UNCHANGED <<active, queue, phase>>
    BY <1>2 DEF ShiftQueue
  <2>2. NotStranded'
    BY <2>1 DEF NotStranded
  <2>3. QED BY <1>1, <2>1, <2>2
            DEF QueueInv, EntriesAreQueued, QueuedHaveEntries, LaterCallsUnused,
                Marked, OneEntry
<1>3. CASE queue # <<>>
  <2> DEFINE n == Len(queue)
             b == queue[1].source
             a == queue[1].app
  <2>1. n \in Nat /\ n > 0 /\ Head(queue) = queue[1]
    BY <1>3, QueueTyped
  <2>2. /\ queue' = Tail(queue)
        /\ StartDeployingNewVersion(b, a, apps, shifts - 1)
        /\ active' = IF apps[a] = NoApp THEN [active EXCEPT ![a] = FALSE]
                     ELSE active
    BY <1>3, <2>1 DEF ShiftQueue
  <2>3. /\ Len(queue') = n - 1
        /\ \A i \in 1..(n - 1) : queue'[i] = queue[i + 1] /\ i + 1 \in 1..n
    BY <2>1, <2>2, QueueTyped
  <2>4. /\ b \in Builds /\ a \in Apps /\ 1 \in 1..n
        /\ phase[b] = "queued" /\ appOf[b] = a
    BY <2>1, QueueTyped DEF QueueInv, EntriesAreQueued
  <2>5. PICK p \in {"building", "failed"} :
            /\ phase' = [phase EXCEPT ![b] = p]
            /\ p = "building" => apps[a] # NoApp
            /\ p = "failed" => apps[a] = NoApp /\ shifts' = shifts - 1 + 1
    BY <2>2 DEF StartDeployingNewVersion
  <2>6. \A c \in Builds : phase'[c] = IF c = b THEN p ELSE phase[c]
    BY <2>5 DEF TypeOK
  <2>7. \A i \in 1..n : i # 1 => queue[i].source # b /\ queue[i].app # a
    BY <2>4, QueueTyped DEF QueueInv, EntriesAreQueued, OneEntry
  <2>8. EntriesAreQueued'
    <3> SUFFICES ASSUME NEW i \in 1..(n - 1)
                 PROVE  /\ phase'[queue'[i].source] = "queued"
                        /\ appOf'[queue'[i].source] = queue'[i].app
      BY <2>3 DEF EntriesAreQueued
    <3> DEFINE c == queue[i + 1].source
    <3>1. i + 1 \in 1..n /\ i + 1 # 1 /\ queue'[i] = queue[i + 1]
      BY <2>1, <2>3
    <3>2. c \in Builds /\ c # b /\ phase[c] = "queued"
          /\ appOf[c] = queue[i + 1].app
      BY <3>1, <2>7, QueueTyped DEF QueueInv, EntriesAreQueued
    <3>3. QED BY <1>1, <2>6, <3>1, <3>2
  <2>9. QueuedHaveEntries'
    <3> SUFFICES ASSUME NEW c \in Builds, phase'[c] = "queued"
                 PROVE  \E i \in 1..(n - 1) : queue'[i].source = c
      BY <2>3 DEF QueuedHaveEntries
    <3>1. c # b /\ phase[c] = "queued"
      BY <2>6
    <3>2. PICK i \in 1..n : queue[i].source = c
      BY <3>1 DEF QueueInv, QueuedHaveEntries
    <3>3. i # 1 BY <3>1, <3>2
    <3>4. i - 1 \in 1..(n - 1) /\ queue'[i - 1] = queue[i]
      BY <2>1, <2>3, <3>3
    <3>5. QED BY <3>2, <3>4
  <2>10. LaterCallsUnused'
    BY <1>1, <2>4, <2>6 DEF QueueInv, LaterCallsUnused
  <2>11. Marked'
    <3> SUFFICES ASSUME NEW x \in Apps, active'[x]
                 PROVE  \/ \E i \in 1..(n - 1) : queue'[i].app = x
                        \/ \E c \in Builds : phase'[c] = "building" /\ appOf[c] = x
      BY <1>1, <2>3 DEF Marked
    <3>1. CASE x = a
      <4>1. apps[a] # NoApp
        BY <2>2, <3>1 DEF TypeOK
      <4>2. p = "building"
        BY <2>5, <4>1
      <4>3. QED BY <2>4, <2>6, <3>1, <4>2
    <3>2. CASE x # a
      <4>1. active[x]
        BY <2>2, <3>2 DEF TypeOK
      <4>2. CASE \E i \in 1..n : queue[i].app = x
        <5>1. PICK i \in 1..n : queue[i].app = x
          BY <4>2
        <5>2. i # 1 BY <3>2, <5>1
        <5>3. i - 1 \in 1..(n - 1) /\ queue'[i - 1] = queue[i]
          BY <2>1, <2>3, <5>2
        <5>4. QED BY <5>1, <5>3
      <4>3. CASE \E c \in Builds : phase[c] = "building" /\ appOf[c] = x
        BY <2>4, <2>6, <4>3
      <4>4. QED BY <4>1, <4>2, <4>3 DEF QueueInv, Marked
    <3>3. QED BY <3>1, <3>2
  <2>12. NotStranded'
    <3>1. CASE p = "building"
      BY <2>4, <2>6, <3>1 DEF NotStranded
    <3>2. CASE p = "failed"
      BY <1>1, <2>5, <3>2 DEF NotStranded
    <3>3. QED BY <3>1, <3>2
  <2>13. OneEntry'
    <3> SUFFICES ASSUME NEW i \in 1..(n - 1), NEW j \in 1..(n - 1),
                        queue'[i].app = queue'[j].app
                 PROVE  i = j
      BY <2>3 DEF OneEntry
    <3>1. i + 1 \in 1..n /\ j + 1 \in 1..n /\ queue[i + 1].app = queue[j + 1].app
      BY <2>3
    <3>2. i + 1 = j + 1
      BY <3>1 DEF QueueInv, OneEntry
    <3>3. QED BY <3>2
  <2>14. QED BY <2>8, <2>9, <2>10, <2>11, <2>12, <2>13 DEF QueueInv
<1>4. QED BY <1>2, <1>3

\* The end of a build keeps it.
LEMMA BuildEndKeepsQueue ==
    ASSUME TypeOK, QueueInv, NEW b \in Builds,
           \/ ImageReady(b) \/ BuildFails(b)
           \/ ServiceUpdated(b) \/ ServiceUpdateFails(b)
    PROVE  QueueInv'
<1>1. ASSUME NEW a, OnBuildFinished(a)
      PROVE  /\ shifts' > 0 /\ shifts' \in Nat
             /\ \A x \in Apps : active'[x] => active[x] /\ x # a
  BY <1>1 DEF OnBuildFinished, TypeOK
<1>2. CASE ImageReady(b)
  <2>1. /\ phase[b] = "building"
        /\ phase' = [phase EXCEPT ![b] = "deploying"]
        /\ OnBuildFinished(appOf[b])
        /\ UNCHANGED <<queue, calls, appOf>>
    BY <1>2 DEF ImageReady
  <2>2. QED BY <1>1, <2>1, BuildStepKeepsQueue DEF Phases
<1>3. CASE BuildFails(b)
  <2>1. /\ phase[b] = "building"
        /\ phase' = [phase EXCEPT ![b] = "failed"]
        /\ OnBuildFinished(appOf[b])
        /\ UNCHANGED <<queue, calls, appOf>>
    BY <1>3 DEF BuildFails
  <2>2. QED BY <1>1, <2>1, BuildStepKeepsQueue DEF Phases
<1>4. CASE ServiceUpdated(b)
  <2>1. /\ phase[b] = "deploying"
        /\ phase' = [phase EXCEPT ![b] = "done"]
        /\ UNCHANGED <<active, shifts, queue, calls, appOf>>
        /\ shifts' \in Nat /\ shifts' >= shifts
    BY <1>4 DEF ServiceUpdated, TypeOK
  <2>2. QED BY <2>1, BuildStepKeepsQueue DEF Phases
<1>5. CASE ServiceUpdateFails(b)
  <2>1. /\ phase[b] = "deploying"
        /\ phase' = [phase EXCEPT ![b] = "failed"]
        /\ OnBuildFinished(appOf[b])
        /\ UNCHANGED <<queue, calls, appOf>>
    BY <1>5 DEF ServiceUpdateFails
  <2>2. QED BY <1>1, <2>1, BuildStepKeepsQueue DEF Phases
<1>6. QED BY <1>2, <1>3, <1>4, <1>5

\* A restart empties the queue and the marks together.
LEMMA RestartKeepsQueue ==
    ASSUME TypeOK, QueueInv, Restart
    PROVE  QueueInv'
<1>1. /\ queue' = <<>> /\ Len(queue') = 0 /\ calls' = calls
      /\ \A a \in Apps : active'[a] = FALSE
      /\ \A b \in Builds : /\ phase'[b] # "queued"
                           /\ phase[b] = "unused" => phase'[b] = "unused"
  BY DEF Restart
<1>2. QED BY <1>1 DEF QueueInv, EntriesAreQueued, QueuedHaveEntries,
                      LaterCallsUnused, Marked, NotStranded, OneEntry

\* Every step keeps the invariant of the queue.
LEMMA NextKeepsQueue ==
    ASSUME TypeOK, QueueInv, [Next]_vars
    PROVE  QueueInv'
<1>1. CASE \E a \in Apps : Schedule(a) \/ Register(a)
  BY <1>1, ScheduleKeepsQueue DEF Schedule, Register
<1>2. CASE UNCHANGED buildVars
  BY <1>2 DEF buildVars, QueueInv, EntriesAreQueued, QueuedHaveEntries,
              LaterCallsUnused, Marked, NotStranded, OneEntry
<1>3. CASE \E a \in Apps : \/ RemoveStart(a) \/ RemoveInspect(a)
                          \/ RemoveFinish(a) \/ RemoveFails(a)
  BY <1>2, <1>3 DEF RemoveStart, RemoveInspect, RemoveFinish, RemoveFails
<1>4. CASE UNCHANGED vars
  BY <1>2, <1>4 DEF vars
<1>5. QED
  BY <1>1, <1>3, <1>4, BuildEndKeepsQueue, ShiftKeepsQueue, RestartKeepsQueue
     DEF Next

\* No queued build is left without one that will start it, an app marked as
\* building has a build, and the queue holds each waiting source once and each
\* app at most once.
THEOREM QueueCorrect ==
    Spec => [](/\ MarkedAppsHaveABuild /\ NoStrandedBuild
               /\ OneQueueEntryPerApp /\ QueueHoldsTheQueued)
<1> DEFINE I == TypeOK /\ DefsOK(apps) /\ QueueInv
<1>1. Init => I
  BY InitTyped, InitQueueInv
<1>2. I /\ [Next]_vars => I'
  BY NextTyped, NextKeepsQueue
<1>3. I => /\ MarkedAppsHaveABuild /\ NoStrandedBuild
           /\ OneQueueEntryPerApp /\ QueueHoldsTheQueued
  BY QueueInvImplies
<1>4. QED BY <1>1, <1>2, <1>3, PTL DEF Spec

-----------------------------------------------------------------------------
(* The version numbers of builds under way.  The app of such a build, if it *)
(* cannot be removed, has a version of that number or a higher one, so that *)
(* the next number createNewVersion gives is none of theirs.                *)

Held(b) == phase[b] = "building" /\ appOf[b] \notin Removable

Reaches(def, v) == \E w \in Nat : HasVersion(def, w) /\ v <= w

NumbersReached ==
    \A b \in Builds : Held(b) =>
        /\ appOf[b] \in Apps
        /\ apps[appOf[b]] # NoApp
        /\ Reaches(apps[appOf[b]], version[b])

NotRemoved == \A a \in Apps \ Removable : removal[a] = "idle"

NumbersDiffer ==
    \A b, c \in Builds :
        Held(b) /\ Held(c) /\ appOf[b] = appOf[c] /\ version[b] = version[c] => b = c

NumbersInv == NotRemoved /\ NumbersReached /\ NumbersDiffer

\* A number that a definition reaches is below the next one, and the new
\* version reaches it too.
LEMMA NextNumberIsAbove ==
    ASSUME NEW def, IsDef(def), NEW v \in Nat, Reaches(def, v)
    PROVE  v < NewVersionIndex(def) /\ Reaches(CreateNewVersion(def), v)
<1>1. PICK w \in Nat : HasVersion(def, w) /\ v <= w
  BY DEF Reaches
<1>2. PICK i \in 1..Len(def.versions) : def.versions[i].version = w
  <2>1. DOMAIN def.versions = 1..Len(def.versions)
    BY DEF IsDef, Definition
  <2>2. QED BY <1>1, <2>1 DEF HasVersion, IndexesOf
<1>3. w < NewVersionIndex(def) /\ NewVersionIndex(def) \in Nat
  BY <1>2, NewVersionIndexAbove DEF IsDef
<1>4. HasVersion(CreateNewVersion(def), NewVersionIndex(def))
  BY CreateNewVersionCorrect DEF IsDef
<1>5. QED BY <1>1, <1>3, <1>4 DEF Reaches

\* The new version is reached by its own number.
LEMMA NewNumberIsReached ==
    ASSUME NEW def, IsDef(def)
    PROVE  /\ NewVersionIndex(def) \in Nat
           /\ Reaches(CreateNewVersion(def), NewVersionIndex(def))
<1>1. NewVersionIndex(def) \in Nat
  BY NewVersionIndexAbove DEF IsDef
<1>2. HasVersion(CreateNewVersion(def), NewVersionIndex(def))
  BY CreateNewVersionCorrect DEF IsDef
<1>3. QED BY <1>1, <1>2 DEF Reaches

\* A turn that starts no build, and lets the apps that cannot be removed reach
\* what they reached.
LEMMA OthersKeepNumbers ==
    ASSUME TypeOK, NumbersInv,
           \A c \in Builds : phase'[c] = "building" =>
               phase[c] = "building" /\ version'[c] = version[c] /\ appOf'[c] = appOf[c],
           \A a \in Apps \ Removable : apps[a] # NoApp =>
               apps'[a] # NoApp /\ \A v \in Nat : Reaches(apps[a], v) => Reaches(apps'[a], v),
           \A a \in Apps \ Removable : removal'[a] = "idle"
    PROVE  NumbersInv'
<1>1. \A c \in Builds : Held(c)' =>
          Held(c) /\ version'[c] = version[c] /\ appOf'[c] = appOf[c] /\ version[c] \in Nat
  BY DEF Held, TypeOK
<1>2. NumbersReached'
  <2> SUFFICES ASSUME NEW c \in Builds, Held(c)'
               PROVE  /\ appOf'[c] \in Apps
                      /\ apps'[appOf'[c]] # NoApp
                      /\ Reaches(apps'[appOf'[c]], version'[c])
    BY DEF NumbersReached, Reaches
  <2>1. appOf[c] \in Apps \ Removable /\ apps[appOf[c]] # NoApp
        /\ Reaches(apps[appOf[c]], version[c])
    BY <1>1 DEF NumbersInv, NumbersReached, Held
  <2>2. QED BY <1>1, <2>1
<1>3. NumbersDiffer'
  BY <1>1 DEF NumbersInv, NumbersDiffer
<1>4. NotRemoved'
  BY DEF NotRemoved
<1>5. QED BY <1>2, <1>3, <1>4 DEF NumbersInv

\* startDeployingNewVersion gives its build a number that no other build of the
\* app has.
LEMMA StartKeepsNumbers ==
    ASSUME TypeOK, NumbersInv, NEW b \in Builds, NEW a \in Apps,
           NEW defs, DefsOK(defs), NEW n,
           \A x \in Apps \ Removable : apps[x] # NoApp => defs[x] = apps[x],
           phase[b] # "building",
           StartDeployingNewVersion(b, a, defs, n),
           \A c \in Builds : appOf'[c] = IF c = b THEN a ELSE appOf[c],
           removal' = removal
    PROVE  NumbersInv'
<1>1. NotRemoved'
  BY DEF NumbersInv, NotRemoved
<1>2. CASE defs[a] = NoApp
  <2>1. apps' = defs /\ version' = version
        /\ \A c \in Builds : phase'[c] = IF c = b THEN "failed" ELSE phase[c]
    BY <1>2 DEF StartDeployingNewVersion, TypeOK
  <2>2. QED BY <2>1, OthersKeepNumbers DEF NumbersInv, NotRemoved
<1>3. CASE defs[a] # NoApp
  <2> DEFINE v == NewVersionIndex(defs[a])
  <2>1. IsDef(defs[a])
    BY <1>3, DefsMember
  <2>2. /\ apps' = [defs EXCEPT ![a] = CreateNewVersion(defs[a])]
        /\ \A c \in Builds : phase'[c] = IF c = b THEN "building" ELSE phase[c]
        /\ \A c \in Builds : version'[c] = IF c = b THEN v ELSE version[c]
    BY <1>3 DEF StartDeployingNewVersion, TypeOK
  <2>3. \A x \in Apps : apps'[x] = IF x = a THEN CreateNewVersion(defs[a]) ELSE defs[x]
    BY <2>2 DEF DefsOK
  <2>4. CreateNewVersion(defs[a]) # NoApp
    BY <2>1, CreateNewVersionCorrect, NoAppAssumption DEF IsDef
  <2>5. \A c \in Builds : c # b /\ Held(c)' =>
            /\ Held(c) /\ appOf'[c] = appOf[c] /\ version'[c] = version[c]
            /\ appOf[c] \in Apps \ Removable /\ apps[appOf[c]] # NoApp
            /\ Reaches(apps[appOf[c]], version[c]) /\ version[c] \in Nat
            /\ defs[appOf[c]] = apps[appOf[c]]
    BY <2>2 DEF Held, NumbersInv, NumbersReached, TypeOK
  <2>6. \A c \in Builds : c # b /\ Held(c)' /\ appOf[c] = a =>
            version[c] < v /\ Reaches(CreateNewVersion(defs[a]), version[c])
    BY <2>1, <2>5, NextNumberIsAbove
  <2>7. NumbersReached'
    <3> SUFFICES ASSUME NEW c \in Builds, Held(c)'
                 PROVE  /\ appOf'[c] \in Apps
                        /\ apps'[appOf'[c]] # NoApp
                        /\ Reaches(apps'[appOf'[c]], version'[c])
      BY DEF NumbersReached, Reaches
    <3>1. CASE c = b
      <4>1. appOf'[c] = a /\ version'[c] = v /\ apps'[a] = CreateNewVersion(defs[a])
        BY <2>2, <2>3, <3>1
      <4>2. QED BY <2>1, <2>4, <4>1, NewNumberIsReached
    <3>2. CASE c # b /\ appOf[c] = a
      BY <2>3, <2>4, <2>5, <2>6, <3>2
    <3>3. CASE c # b /\ appOf[c] # a
      BY <2>3, <2>5, <3>3
    <3>4. QED BY <3>1, <3>2, <3>3
  <2>8. NumbersDiffer'
    <3>1. v \in Nat
      BY <2>1, NewNumberIsReached
    <3>2. \A c \in Builds : c # b /\ Held(c)' /\ appOf'[c] = a => version'[c] # v
      BY <2>5, <2>6, <3>1
    <3>3. version'[b] = v /\ appOf'[b] = a
      BY <2>2
    <3> SUFFICES ASSUME NEW c \in Builds, NEW d \in Builds, Held(c)', Held(d)',
                        appOf'[c] = appOf'[d], version'[c] = version'[d]
                 PROVE  c = d
      BY DEF NumbersDiffer
    <3>4. CASE c = b \/ d = b
      BY <3>2, <3>3, <3>4
    <3>5. CASE c # b /\ d # b
      BY <2>5, <3>5 DEF NumbersInv, NumbersDiffer
    <3>6. QED BY <3>4, <3>5
  <2>9. QED BY <1>1, <2>7, <2>8 DEF NumbersInv
<1>4. QED BY <1>2, <1>3

\* scheduleDeployNewVersion keeps the numbers apart.
LEMMA ScheduleKeepsNumbers ==
    ASSUME TypeOK, QueueInv, NumbersInv, NEW a \in Apps, NEW defs, DefsOK(defs),
           \A x \in Apps \ Removable : apps[x] # NoApp => defs[x] = apps[x],
           ScheduleDeployNewVersion(a, defs), removal' = removal
    PROVE  NumbersInv'
<1> DEFINE b == calls + 1
<1>1. b \in Builds /\ calls \in Nat
  BY BuildsFacts, BoundsAssumption DEF TypeOK, ScheduleDeployNewVersion
<1>2. phase[b] = "unused"
  BY <1>1, BuildsFacts DEF QueueInv, LaterCallsUnused
<1>3. \A c \in Builds : appOf'[c] = IF c = b THEN a ELSE appOf[c]
  BY <1>1 DEF ScheduleDeployNewVersion, TypeOK
<1>4. CASE StartAtOnce(b, a, defs)
  BY <1>1, <1>2, <1>3, <1>4, StartKeepsNumbers DEF StartAtOnce
<1>5. CASE ReplaceQueuedSource(b, a, defs) \/ Enqueue(b, a, defs)
  <2>1. apps' = defs /\ version' = version
    BY <1>5 DEF ReplaceQueuedSource, Enqueue
  <2>2. \A c \in Builds : phase'[c] = "building" => phase[c] = "building" /\ c # b
    BY <1>2, <1>5 DEF ReplaceQueuedSource, Enqueue, TypeOK
  <2>3. QED BY <1>3, <2>1, <2>2, OthersKeepNumbers DEF NumbersInv, NotRemoved
<1>6. QED BY <1>4, <1>5 DEF ScheduleDeployNewVersion

\* So does taking the next build off the queue.
LEMMA ShiftKeepsNumbers ==
    ASSUME TypeOK, DefsOK(apps), QueueInv, NumbersInv, ShiftQueue
    PROVE  NumbersInv'
<1>1. UNCHANGED <<appOf, removal>>
  BY DEF ShiftQueue
<1>2. CASE queue = <<>>
  <2>1. UNCHANGED <<apps, phase, version>>
    BY <1>2 DEF ShiftQueue
  <2>2. QED BY <1>1, <2>1, OthersKeepNumbers DEF NumbersInv, NotRemoved
<1>3. CASE queue # <<>>
  <2> DEFINE b == queue[1].source
             a == queue[1].app
  <2>1. 1 \in 1..Len(queue) /\ Head(queue) = queue[1]
    BY <1>3, QueueTyped
  <2>2. StartDeployingNewVersion(b, a, apps, shifts - 1)
    BY <1>3, <2>1 DEF ShiftQueue
  <2>3. b \in Builds /\ a \in Apps /\ phase[b] = "queued" /\ appOf[b] = a
    BY <2>1, QueueTyped DEF QueueInv, EntriesAreQueued
  <2>4. \A c \in Builds : appOf'[c] = IF c = b THEN a ELSE appOf[c]
    BY <1>1, <2>3
  <2>5. QED BY <1>1, <2>2, <2>3, <2>4, StartKeepsNumbers
<1>4. QED BY <1>2, <1>3

\* So does recording the image that was built.
LEMMA ImageReadyKeepsNumbers ==
    ASSUME TypeOK, DefsOK(apps), NumbersInv, NEW b \in Builds, ImageReady(b)
    PROVE  NumbersInv'
<1> DEFINE a == appOf[b]
           new == SetDeployedVersionAndImage(apps[a], version[b], b)
<1>1. /\ apps[a] # NoApp
      /\ HasVersion(apps[a], version[b])
      /\ apps' = [apps EXCEPT ![a] = new]
      /\ phase' = [phase EXCEPT ![b] = "deploying"]
      /\ version' = [version EXCEPT ![b] = 0]
      /\ UNCHANGED <<appOf, removal>>
  BY DEF ImageReady
<1>2. \A c \in Builds : phase'[c] = "building" =>
          phase[c] = "building" /\ version'[c] = version[c] /\ appOf'[c] = appOf[c]
  BY <1>1 DEF TypeOK
<1>3. ASSUME NEW x \in Apps, apps[x] # NoApp
      PROVE  apps'[x] # NoApp /\ \A v \in Nat : Reaches(apps[x], v) => Reaches(apps'[x], v)
  <2>1. CASE x = a
    <3>1. IsDef(apps[a]) /\ a \in Apps
      BY <1>1, <1>3, <2>1, DefsMember
    <3>2. b \in Images /\ version[b] \in Nat
      BY BuildsFacts DEF TypeOK
    <3>3. /\ new \in Definition(Images)
          /\ \A w : HasVersion(new, w) <=> HasVersion(apps[a], w)
      BY <1>1, <3>1, <3>2, SetDeployedCorrect DEF IsDef
    <3>4. apps'[x] = new
      BY <1>1, <2>1, <3>1 DEF TypeOK
    <3>5. new # NoApp
      BY <3>3, NoAppAssumption
    <3>6. QED BY <2>1, <3>3, <3>4, <3>5 DEF Reaches
  <2>2. CASE x # a
    BY <1>1, <1>3, <2>2 DEF TypeOK
  <2>3. QED BY <2>1, <2>2
<1>4. QED BY <1>1, <1>2, <1>3, OthersKeepNumbers DEF NumbersInv, NotRemoved

\* Every step keeps the numbers apart.
LEMMA NextKeepsNumbers ==
    ASSUME TypeOK, DefsOK(apps), QueueInv, NumbersInv, [Next]_vars
    PROVE  NumbersInv'
<1>1. ASSUME NEW a \in Apps, Schedule(a) PROVE NumbersInv'
  BY <1>1, ScheduleKeepsNumbers DEF Schedule
<1>2. ASSUME NEW a \in Apps, Register(a) PROVE NumbersInv'
  <2> DEFINE defs == [apps EXCEPT ![a] = FreshDefinition]
  <2>1. ScheduleDeployNewVersion(a, defs) /\ removal' = removal /\ apps[a] = NoApp
    BY <1>2 DEF Register
  <2>2. DefsOK(defs)
    BY FreshIsDef, DefsUpdate
  <2>3. \A x \in Apps \ Removable : apps[x] # NoApp => defs[x] = apps[x]
    BY <2>1 DEF TypeOK
  <2>4. QED BY <2>1, <2>2, <2>3, ScheduleKeepsNumbers
<1>3. ASSUME NEW a \in Apps, \/ RemoveStart(a) \/ RemoveInspect(a)
                             \/ RemoveFinish(a) \/ RemoveFails(a)
      PROVE  NumbersInv'
  <2>1. UNCHANGED <<phase, version, appOf>> /\ a \in Removable
    BY <1>3 DEF RemoveStart, RemoveInspect, RemoveFinish, RemoveFails, buildVars,
                NumbersInv, NotRemoved
  <2>2. \A x \in Apps \ Removable : apps'[x] = apps[x] /\ removal'[x] = removal[x]
    BY <1>3, <2>1 DEF RemoveStart, RemoveInspect, RemoveFinish, RemoveFails, TypeOK
  <2>3. QED BY <2>1, <2>2, OthersKeepNumbers DEF NumbersInv, NotRemoved
<1>4. ASSUME NEW b \in Builds, ImageReady(b) PROVE NumbersInv'
  BY <1>4, ImageReadyKeepsNumbers
<1>5. ASSUME NEW b \in Builds,
             BuildFails(b) \/ ServiceUpdated(b) \/ ServiceUpdateFails(b)
      PROVE  NumbersInv'
  <2>1. UNCHANGED <<apps, appOf, removal>>
    BY <1>5 DEF BuildFails, ServiceUpdated, ServiceUpdateFails
  <2>2. \A c \in Builds : phase'[c] = "building" =>
            phase[c] = "building" /\ version'[c] = version[c]
    BY <1>5 DEF BuildFails, ServiceUpdated, ServiceUpdateFails, TypeOK
  <2>3. QED BY <2>1, <2>2, OthersKeepNumbers DEF NumbersInv, NotRemoved
<1>6. CASE ShiftQueue
  BY <1>6, ShiftKeepsNumbers
<1>7. CASE Restart
  <2>1. /\ \A c \in Builds : phase'[c] # "building"
        /\ \A x \in Apps : removal'[x] = "idle"
        /\ apps' = apps
    BY <1>7 DEF Restart
  <2>2. QED BY <2>1, OthersKeepNumbers
<1>8. CASE UNCHANGED vars
  BY <1>8, OthersKeepNumbers DEF vars, buildVars, NumbersInv, NotRemoved
<1>9. QED BY <1>1, <1>2, <1>3, <1>4, <1>5, <1>6, <1>7, <1>8 DEF Next

\* Two builds of an app never hold one version number, however many old
\* versions were dropped in between: setDeployedVersionAndImage writes the image
\* of each build to a version of its own.
THEOREM NumbersCorrect == Spec => []BuildsHoldDistinctVersions
<1> DEFINE I == TypeOK /\ DefsOK(apps) /\ QueueInv /\ NumbersInv
<1>1. Init => I
  <2>1. Init => NumbersInv
    BY DEF Init, NumbersInv, NotRemoved, NumbersReached, NumbersDiffer, Held
  <2>2. QED BY <2>1, InitTyped, InitQueueInv
<1>2. I /\ [Next]_vars => I'
  BY NextTyped, NextKeepsQueue, NextKeepsNumbers
<1>3. I => BuildsHoldDistinctVersions
  BY DEF NumbersInv, NumbersDiffer, Held, BuildsHoldDistinctVersions, InPhase
<1>4. QED BY <1>1, <1>2, <1>3, PTL DEF Spec

-----------------------------------------------------------------------------
(* Agent deployments.  A replacement that can fail was started at once, and *)
(* its build has a number above the one it noted.  Of the versions up to    *)
(* that number none is ever built by a later call, in the definitions on    *)
(* disk or as the jobs of this turn read them.                              *)

VersionsOf(def) == {def.versions[i] : i \in DOMAIN def.versions}

Known(def) ==
    /\ def.deployedVersion # 0 => Reaches(def, def.deployedVersion)
    /\ \A x \in VersionsOf(def) : x.image \in Builds => x.image <= calls

ReadsOK ==
    \A a \in Apps :
        /\ apps[a] = NoApp <=> before[a] = NoApp
        /\ apps[a] # NoApp =>
               /\ apps[a].deployedVersion = before[a].deployedVersion
               /\ Known(apps[a])
               /\ Known(before[a])

HaveDefs ==
    /\ \A i \in 1..Len(queue) : apps[queue[i].app] # NoApp
    /\ \A b \in Builds : phase[b] = "building" =>
           appOf[b] \in Apps /\ apps[appOf[b]] # NoApp

ChainsOK ==
    /\ \A b \in attached :
           /\ b <= calls
           /\ promise[b] # "none"
           /\ promise[b] = "pending" => phase[b] \in {"building", "deploying"}
    /\ \A b \in Builds : promise[b] \in {"resolved", "rejected"} => b \in attached
    /\ \A i \in 1..Len(queue) :
           queue[i].promise <= calls /\ queue[i].promise \notin attached

\* The versions of def up to number v, which it reaches, were built for call s
\* or an earlier one.
BuiltBy(def, v, s) ==
    /\ Reaches(def, v)
    /\ \A x \in VersionsOf(def) : x.version <= v /\ x.image \in Builds => x.image <= s

Numbered(a, v, s) ==
    /\ BuiltBy(apps[a], v, s)
    /\ BuiltBy(before[a], v, s)
    /\ \A b \in Builds :
           phase[b] = "building" /\ appOf[b] = a /\ version[b] <= v => b <= s

UnderWay(d) == job[d] \in {"new", "replacing", "undoing"}

JobOK(d) ==
    /\ source[d] \in Builds /\ source[d] <= calls
    /\ awaits[d] \in Builds /\ awaits[d] <= calls
    /\ AppOf(d) \in Apps /\ apps[AppOf(d)] # NoApp
    /\ job[d] = "new" => awaits[d] \notin attached
    /\ job[d] = "replacing" => previous[d] \in Nat
    /\ job[d] = "replacing" /\ awaits[d] \in attached =>
           /\ promise[awaits[d]] # "lost"
           /\ previous[d] # 0 => Numbered(AppOf(d), previous[d] + 1, source[d])

JobsOK == \A d \in Jobs : UnderWay(d) => JobOK(d)

DeployTypes == DeployTypeOK /\ DefsOK(apps) /\ DefsOK(before)

DeployInv ==
    /\ DeployTypes
    /\ QueueInv
    /\ ReadsOK
    /\ HaveDefs
    /\ ChainsOK
    /\ JobsOK

-----------------------------------------------------------------------------
(* What the operators of the store do to the versions.                     *)

\* The versions of a definition have a number, and an image or none.
LEMMA VersionsTyped ==
    ASSUME NEW def, IsDef(def)
    PROVE  \A x \in VersionsOf(def) : x \in Version(Images) /\ x.version \in Nat
<1>1. def.versions \in Seq(Version(Images))
  BY DEF IsDef, Definition
<1>2. \A i \in DOMAIN def.versions : def.versions[i] \in Version(Images)
  BY <1>1
<1>3. QED BY <1>2 DEF VersionsOf, Version

\* A new version has no image, the others were there.
LEMMA CreateVersions ==
    ASSUME NEW def, IsDef(def)
    PROVE  /\ IsDef(CreateNewVersion(def))
           /\ CreateNewVersion(def).deployedVersion = def.deployedVersion
           /\ \A x \in VersionsOf(CreateNewVersion(def)) :
                  x \in VersionsOf(def) \/ x.image = NoImage
<1> DEFINE s == def.versions
           n == MaxVersionHistory - 1
           r == Kept(def)
           v == [version |-> NewVersionIndex(def), image |-> NoImage]
           d == IF Len(s) <= n THEN 0 ELSE Len(s) - n
           new == CreateNewVersion(def)
<1>1. s \in Seq(Version(Images)) /\ n \in Nat
  BY HistoryAssumption DEF IsDef, Definition
<1>2. /\ r \in Seq(Version(Images))
      /\ Len(r) = Len(s) - d
      /\ \A i \in 1..Len(r) : r[i] = s[i + d]
  BY <1>1, DropFirstSuffix DEF Kept
<1>3. d \in Nat /\ Len(s) \in Nat /\ Len(r) \in Nat
  <2>1. Len(s) \in Nat BY <1>1
  <2>2. Len(r) \in Nat BY <1>2
  <2>3. d \in Nat BY <2>1, <1>1
  <2>4. QED BY <2>1, <2>2, <2>3
<1>4. new.versions = Append(r, v)
  BY DEF CreateNewVersion, IsDef, Definition
<1>5. ASSUME NEW x \in VersionsOf(new)
      PROVE  x \in VersionsOf(def) \/ x.image = NoImage
  <2>1. PICK i \in DOMAIN Append(r, v) : x = Append(r, v)[i]
    BY <1>4, <1>5 DEF VersionsOf
  <2>2. i \in 1..(Len(r) + 1) /\ DOMAIN s = 1..Len(s)
    BY <2>1, <1>1, <1>2
  <2>3. CASE i = Len(r) + 1
    <3>1. x = v
      BY <2>1, <2>3, <1>2
    <3>2. QED BY <3>1
  <2>4. CASE i \in 1..Len(r)
    <3>1. x = s[i + d]
      BY <2>1, <2>4, <1>2
    <3>2. i + d \in DOMAIN s
      BY <2>2, <2>4, <1>2, <1>3
    <3>3. QED BY <3>1, <3>2 DEF VersionsOf
  <2>5. QED BY <2>2, <2>3, <2>4, <1>3
<1>6. IsDef(new) /\ new.deployedVersion = def.deployedVersion
  BY CreateNewVersionCorrect DEF IsDef
<1>7. QED BY <1>5, <1>6

\* The place of a version is one of those with its number: there is no other.
LEMMA OnlyIndex ==
    ASSUME NEW def, IsDef(def), NEW w \in Nat, HasVersion(def, w)
    PROVE  Min(IndexesOf(def, w)) \in IndexesOf(def, w)
<1> DEFINE s == def.versions
<1>1. s \in Seq(Version(Images)) /\ DOMAIN s = 1..Len(s)
  BY DEF IsDef, Definition
<1>2. PICK i \in IndexesOf(def, w) : TRUE
  BY DEF HasVersion
<1>3. \A j \in IndexesOf(def, w) : j = i
  <2> SUFFICES ASSUME NEW j \in IndexesOf(def, w) PROVE j = i
    OBVIOUS
  <2>1. /\ i \in 1..Len(s) /\ j \in 1..Len(s) /\ Len(s) \in Nat
        /\ s[i].version = w /\ s[j].version = w
    BY <1>1, <1>2 DEF IndexesOf
  <2>2. ~(i < j) /\ ~(j < i)
    BY <2>1, <1>1 DEF IsDef, Increasing
  <2>3. QED BY <2>1, <2>2
<1>4. i \in Int
  BY <1>1, <1>2 DEF IndexesOf
<1>5. IndexesOf(def, w) = {i}
  BY <1>2, <1>3
<1>6. QED BY <1>4, <1>5 DEF Min

\* Recording an image changes the version it is recorded for.
LEMMA SetVersions ==
    ASSUME NEW def, IsDef(def), NEW w \in Nat, HasVersion(def, w), NEW c \in Images
    PROVE  LET new == SetDeployedVersionAndImage(def, w, c)
           IN  /\ IsDef(new)
               /\ new.deployedVersion = w
               /\ \A u : HasVersion(new, u) <=> HasVersion(def, u)
               /\ \A x \in VersionsOf(new) :
                      x \in VersionsOf(def) \/ (x.version = w /\ x.image = c)
<1> DEFINE s == def.versions
           k == Min(IndexesOf(def, w))
           new == SetDeployedVersionAndImage(def, w, c)
<1>1. s \in Seq(Version(Images)) /\ DOMAIN s = 1..Len(s)
  BY DEF IsDef, Definition
<1>2. k \in IndexesOf(def, w)
  BY OnlyIndex
<1>3. k \in DOMAIN s /\ s[k].version = w /\ s[k] \in Version(Images)
  <2>1. k \in DOMAIN s /\ s[k].version = w
    BY <1>2 DEF IndexesOf
  <2>2. QED BY <1>1, <2>1
<1>4. new.versions = [s EXCEPT ![k].image = c] /\ new.deployedVersion = w
  BY DEF SetDeployedVersionAndImage
<1>5. ASSUME NEW x \in VersionsOf(new)
      PROVE  x \in VersionsOf(def) \/ (x.version = w /\ x.image = c)
  <2>1. PICK i \in DOMAIN s : x = [s EXCEPT ![k].image = c][i]
    BY <1>4, <1>5 DEF VersionsOf
  <2>2. CASE i = k
    <3>1. x = [s[k] EXCEPT !.image = c]
      BY <2>1, <2>2
    <3>2. x.version = w /\ x.image = c
      BY <3>1, <1>3 DEF Version
    <3>3. QED BY <3>2
  <2>3. CASE i # k
    BY <2>1, <2>3 DEF VersionsOf
  <2>4. QED BY <2>2, <2>3
<1>6. IsDef(new) /\ \A u : HasVersion(new, u) <=> HasVersion(def, u)
  BY SetDeployedCorrect DEF IsDef
<1>7. QED BY <1>4, <1>5, <1>6

\* A rollback and a pause change no version.
LEMMA UndoVersions ==
    ASSUME NEW def, IsDef(def), NEW v \in Nat
    PROVE  /\ IsDef(RollBack(def, v)) /\ IsDef(Pause(def))
           /\ RollBack(def, v).deployedVersion = v
           /\ Pause(def).deployedVersion = def.deployedVersion
           /\ \A new \in {RollBack(def, v), Pause(def)} :
                  /\ VersionsOf(new) = VersionsOf(def)
                  /\ \A u : HasVersion(new, u) <=> HasVersion(def, u)
<1>1. \A new \in {RollBack(def, v), Pause(def)} :
          new \in Definition(Images) /\ new.versions = def.versions
  BY DEF RollBack, Pause, IsDef, Definition
<1>2. QED
  BY <1>1 DEF IsDef, RollBack, Pause, Definition, Increasing, VersionsOf, HasVersion,
              IndexesOf

\* The image that is deployed is that of a version of the deployed number.
LEMMA DeployedIsAVersion ==
    ASSUME NEW def, IsDef(def), DeployedImage(def) \in Builds
    PROVE  \E x \in VersionsOf(def) :
               x.version = def.deployedVersion /\ x.image = DeployedImage(def)
<1> DEFINE w == def.deployedVersion
           k == Min(IndexesOf(def, w))
           s == def.versions
<1>1. NoImage \notin Builds
  BY ImageAssumption
<1>2. HasVersion(def, w) /\ DeployedImage(def) = s[k].image
  BY <1>1 DEF DeployedImage
<1>3. s \in Seq(Version(Images)) /\ DOMAIN s = 1..Len(s)
  BY DEF IsDef, Definition
<1>4. k \in IndexesOf(def, w)
  <2>1. w \in Nat
    BY DEF IsDef, Definition
  <2>2. QED BY <1>2, <2>1, OnlyIndex
<1>5. k \in DOMAIN s /\ s[k].version = w
  BY <1>4 DEF IndexesOf
<1>6. QED BY <1>2, <1>5 DEF VersionsOf

-----------------------------------------------------------------------------
(* What the steps of the scheduler have in common: definitions get new      *)
(* versions or the image of a build under way, and builds that start get    *)
(* the next number.                                                        *)

DefsGrow ==
    \A a \in Apps :
        \/ apps'[a] = apps[a]
        \/ apps[a] = NoApp /\ apps'[a] \in {FreshDefinition, CreateNewVersion(FreshDefinition)}
        \/ apps[a] # NoApp /\ apps'[a] = CreateNewVersion(apps[a])
        \/ /\ apps[a] # NoApp
           /\ \E b \in Builds :
                 /\ phase[b] = "building" /\ appOf[b] = a
                 /\ HasVersion(apps[a], version[b])
                 /\ apps'[a] = SetDeployedVersionAndImage(apps[a], version[b], b)

Continues(b) ==
    phase[b] = "building" /\ version'[b] = version[b] /\ appOf'[b] = appOf[b]

Begins(b) ==
    /\ appOf'[b] \in Apps
    /\ apps'[appOf'[b]] # NoApp
    /\ apps[appOf'[b]] # NoApp => version'[b] = NewVersionIndex(apps[appOf'[b]])

BuildsGrow == \A b \in Builds : phase'[b] = "building" => Continues(b) \/ Begins(b)

QueueGrows ==
    \A i \in 1..Len(queue') :
        /\ apps'[queue'[i].app] # NoApp
        /\ \/ queue'[i].promise > calls /\ queue'[i].promise <= calls'
              /\ queue'[i].promise \notin attached'
           \/ \E j \in 1..Len(queue) : queue'[i].promise = queue[j].promise

CallsGrow ==
    /\ calls <= calls' /\ calls' \in Nat
    /\ \A b \in Builds : b <= calls =>
           /\ b \in attached' <=> b \in attached
           /\ appOf'[b] = appOf[b]
           /\ promise'[b] = "lost" => promise[b] = "lost"

Grows == DefsGrow /\ BuildsGrow /\ QueueGrows /\ CallsGrow

\* A definition is well formed after each of these changes, and keeps what it
\* reaches.
LEMMA GrownDefs ==
    ASSUME DefsOK(apps), version \in [Builds -> Nat], DefsGrow, NEW a \in Apps
    PROVE  /\ apps'[a] # NoApp => IsDef(apps'[a])
           /\ apps[a] # NoApp =>
                  /\ IsDef(apps[a])
                  /\ apps'[a] # NoApp
                  /\ \A v \in Nat : Reaches(apps[a], v) => Reaches(apps'[a], v)
<1>1. \A def : IsDef(def) => def # NoApp
  BY NoAppAssumption DEF IsDef
<1>2. apps[a] # NoApp => IsDef(apps[a])
  BY DefsMember
<1>3. CASE apps'[a] = apps[a]
  BY <1>2, <1>3
<1>4. CASE apps[a] = NoApp /\ apps'[a] \in {FreshDefinition, CreateNewVersion(FreshDefinition)}
  BY <1>4, FreshIsDef, CreateVersions
<1>5. CASE apps[a] # NoApp /\ apps'[a] = CreateNewVersion(apps[a])
  BY <1>1, <1>2, <1>5, CreateVersions, NextNumberIsAbove
<1>6. ASSUME apps[a] # NoApp, NEW b \in Builds, HasVersion(apps[a], version[b]),
             apps'[a] = SetDeployedVersionAndImage(apps[a], version[b], b)
      PROVE  /\ IsDef(apps'[a])
             /\ \A v \in Nat : Reaches(apps[a], v) => Reaches(apps'[a], v)
  <2>1. b \in Images /\ version[b] \in Nat
    BY BuildsFacts
  <2>2. IsDef(apps'[a]) /\ \A u : HasVersion(apps'[a], u) <=> HasVersion(apps[a], u)
    BY <1>2, <1>6, <2>1, SetVersions
  <2>3. QED BY <2>2 DEF Reaches
<1>7. QED BY <1>1, <1>2, <1>3, <1>4, <1>5, <1>6 DEF DefsGrow

\* The builds up to a number stay those of early calls.
LEMMA NumberedStays ==
    ASSUME DeployTypes, DefsGrow, BuildsGrow, before' \in {before, apps'},
           NEW a \in Apps, apps[a] # NoApp, NEW v \in Nat, NEW s \in Nat,
           Numbered(a, v, s)
    PROVE  /\ BuiltBy(apps'[a], v, s)
           /\ BuiltBy(before'[a], v, s)
           /\ \A b \in Builds :
                  phase'[b] = "building" /\ appOf'[b] = a /\ version'[b] <= v => b <= s
<1>1. /\ DefsOK(apps) /\ version \in [Builds -> Nat]
      /\ BuiltBy(apps[a], v, s) /\ BuiltBy(before[a], v, s)
  BY DEF DeployTypes, DeployTypeOK, TypeOK, Numbered
<1>2. IsDef(apps[a]) /\ Reaches(apps'[a], v)
  BY <1>1, GrownDefs DEF BuiltBy
<1>3. NoImage \notin Builds
  BY ImageAssumption
<1>4. BuiltBy(apps'[a], v, s)
  <2>1. CASE apps'[a] = apps[a]
    BY <1>1, <2>1
  <2>2. CASE apps'[a] = CreateNewVersion(apps[a])
    BY <1>1, <1>2, <1>3, <2>2, CreateVersions DEF BuiltBy
  <2>3. ASSUME NEW b \in Builds, phase[b] = "building", appOf[b] = a,
               HasVersion(apps[a], version[b]),
               apps'[a] = SetDeployedVersionAndImage(apps[a], version[b], b)
        PROVE  BuiltBy(apps'[a], v, s)
    <3>1. b \in Images /\ version[b] \in Nat
      BY <1>1, BuildsFacts
    <3>2. version[b] <= v => b <= s
      BY <2>3 DEF Numbered
    <3>3. \A x \in VersionsOf(apps'[a]) :
              x \in VersionsOf(apps[a]) \/ (x.version = version[b] /\ x.image = b)
      BY <1>2, <2>3, <3>1, SetVersions
    <3>4. QED BY <1>1, <1>2, <3>2, <3>3 DEF BuiltBy
  <2>4. QED BY <2>1, <2>2, <2>3 DEF DefsGrow
<1>5. BuiltBy(before'[a], v, s)
  BY <1>1, <1>4
<1>6. ASSUME NEW b \in Builds, phase'[b] = "building", appOf'[b] = a, version'[b] <= v
      PROVE  b <= s
  <2>1. CASE Continues(b)
    BY <1>6, <2>1 DEF Continues, Numbered
  <2>2. CASE Begins(b)
    <3>1. version'[b] = NewVersionIndex(apps[a])
      BY <1>6, <2>2 DEF Begins
    <3>2. v < NewVersionIndex(apps[a]) /\ NewVersionIndex(apps[a]) \in Nat
      BY <1>1, <1>2, NextNumberIsAbove, NewNumberIsReached DEF BuiltBy
    <3>3. QED BY <1>6, <3>1, <3>2
  <2>3. QED BY <1>6, <2>1, <2>2 DEF BuildsGrow
<1>7. QED BY <1>4, <1>5, <1>6

\* What is known of the images of a definition stays so, for a later count of
\* the calls.
LEMMA KnownStays ==
    ASSUME DeployTypes, QueueInv, ReadsOK, DefsGrow, calls <= calls', calls' \in Nat,
           NEW a \in Apps, apps'[a] # NoApp
    PROVE  /\ apps'[a].deployedVersion # 0 =>
                  Reaches(apps'[a], apps'[a].deployedVersion)
           /\ \A x \in VersionsOf(apps'[a]) : x.image \in Builds => x.image <= calls'
<1>1. /\ DefsOK(apps) /\ version \in [Builds -> Nat] /\ calls \in Nat
  BY DEF DeployTypes, DeployTypeOK, TypeOK
<1>2. NoImage \notin Builds /\ \A b \in Builds : b \in Nat /\ b \in Images
  BY ImageAssumption, BuildsFacts
<1>3. ASSUME apps[a] # NoApp
      PROVE  /\ IsDef(apps[a]) /\ Known(apps[a]) /\ apps[a].deployedVersion \in Nat
             /\ \A v \in Nat : Reaches(apps[a], v) => Reaches(apps'[a], v)
  <2>1. IsDef(apps[a])
    BY <1>1, <1>3, GrownDefs
  <2>2. QED BY <1>1, <1>3, <2>1, GrownDefs DEF ReadsOK, IsDef, Definition
<1>4. CASE apps[a] # NoApp /\ apps'[a] = apps[a]
  BY <1>1, <1>2, <1>3, <1>4 DEF Known
<1>5. CASE apps[a] = NoApp
  <2>1. apps'[a] \in {FreshDefinition, CreateNewVersion(FreshDefinition)}
    BY <1>5 DEF DefsGrow
  <2>2. FreshDefinition.deployedVersion = 0 /\ VersionsOf(FreshDefinition) = {}
    BY DEF FreshDefinition, VersionsOf
  <2>3. QED BY <1>2, <2>1, <2>2, FreshIsDef, CreateVersions
<1>6. CASE apps[a] # NoApp /\ apps'[a] = CreateNewVersion(apps[a])
  <2>1. /\ apps'[a].deployedVersion = apps[a].deployedVersion
        /\ \A x \in VersionsOf(apps'[a]) : x \in VersionsOf(apps[a]) \/ x.image = NoImage
    BY <1>3, <1>6, CreateVersions
  <2>2. QED BY <1>1, <1>2, <1>3, <1>6, <2>1 DEF Known
<1>7. ASSUME apps[a] # NoApp, NEW b \in Builds, phase[b] = "building",
             HasVersion(apps[a], version[b]),
             apps'[a] = SetDeployedVersionAndImage(apps[a], version[b], b)
      PROVE  /\ apps'[a].deployedVersion # 0 =>
                    Reaches(apps'[a], apps'[a].deployedVersion)
             /\ \A x \in VersionsOf(apps'[a]) : x.image \in Builds => x.image <= calls'
  <2>1. b <= calls
    BY <1>1, <1>2, <1>7 DEF QueueInv, LaterCallsUnused
  <2>2. version[b] \in Nat /\ b \in Images
    BY <1>1, <1>2
  <2>3. /\ apps'[a].deployedVersion = version[b]
        /\ HasVersion(apps'[a], version[b])
        /\ \A x \in VersionsOf(apps'[a]) :
               x \in VersionsOf(apps[a]) \/ (x.version = version[b] /\ x.image = b)
    BY <1>3, <1>7, <2>2, SetVersions
  <2>4. Reaches(apps'[a], version[b])
    BY <2>2, <2>3 DEF Reaches
  <2>5. QED BY <1>1, <1>2, <1>3, <1>7, <2>1, <2>3, <2>4 DEF Known
<1>8. QED BY <1>4, <1>5, <1>6, <1>7 DEF DefsGrow

\* So does what the jobs read, when they read what was written, or nothing but
\* versions was added behind their back.
LEMMA ReadsStay ==
    ASSUME DeployTypes, QueueInv, ReadsOK, Grows,
           \/ before' = apps'
           \/ /\ before' = before
              /\ \A a \in Apps :
                     \/ apps'[a] = apps[a]
                     \/ apps[a] # NoApp /\ apps'[a] = CreateNewVersion(apps[a])
    PROVE  ReadsOK'
<1>1. DefsGrow /\ calls <= calls' /\ calls' \in Nat
  BY DEF Grows, CallsGrow
<1>2. DefsOK(apps) /\ DefsOK(before) /\ version \in [Builds -> Nat] /\ calls \in Nat
  BY DEF DeployTypes, DeployTypeOK, TypeOK
<1>3. \A a \in Apps : apps'[a] # NoApp => Known(apps[a])'
  BY <1>1, KnownStays DEF Known
<1>4. CASE before' = apps'
  BY <1>3, <1>4 DEF ReadsOK, Known
<1>5. ASSUME before' = before,
             NEW a \in Apps,
             \/ apps'[a] = apps[a]
             \/ apps[a] # NoApp /\ apps'[a] = CreateNewVersion(apps[a])
      PROVE  /\ apps'[a] = NoApp <=> before'[a] = NoApp
             /\ apps'[a] # NoApp => /\ apps'[a].deployedVersion = before'[a].deployedVersion
                                    /\ Known(before[a])'
  <2>1. apps[a] # NoApp => IsDef(apps[a]) /\ apps'[a] # NoApp
    BY <1>1, <1>2, GrownDefs
  <2>2. apps[a] # NoApp => apps'[a].deployedVersion = apps[a].deployedVersion
    BY <1>5, <2>1, CreateVersions
  <2>3. apps'[a] = NoApp <=> apps[a] = NoApp
    BY <1>5, <2>1
  <2>4. apps[a] # NoApp => Known(before[a]) /\ IsDef(before[a])
    BY <1>2, DefsMember DEF ReadsOK
  <2>5. \A b \in Builds : b \in Nat
    BY BuildsFacts
  <2>6. apps[a] # NoApp => Known(before[a])'
    BY <1>1, <1>2, <1>5, <2>4, <2>5 DEF Known
  <2>7. QED BY <1>5, <2>2, <2>3, <2>6 DEF ReadsOK
<1>6. QED BY <1>3, <1>4, <1>5 DEF ReadsOK

\* The apps of what is queued or being built keep their definitions.
LEMMA HaveDefsStay ==
    ASSUME DeployTypes, HaveDefs, Grows
    PROVE  HaveDefs'
<1>1. DefsGrow /\ BuildsGrow /\ QueueGrows
  BY DEF Grows
<1>2. DefsOK(apps) /\ version \in [Builds -> Nat]
  BY DEF DeployTypes, DeployTypeOK, TypeOK
<1>3. ASSUME NEW b \in Builds, phase'[b] = "building"
      PROVE  appOf'[b] \in Apps /\ apps'[appOf'[b]] # NoApp
  BY <1>1, <1>2, <1>3, GrownDefs DEF BuildsGrow, Continues, Begins, HaveDefs
<1>4. QED BY <1>1, <1>3 DEF HaveDefs, QueueGrows

\* A job that does nothing in a step of the scheduler is as well as before.
LEMMA JobStays ==
    ASSUME DeployTypes, QueueInv, ChainsOK, Grows, before' \in {before, apps'},
           NEW d \in Jobs, UnderWay(d), JobOK(d),
           job'[d] = job[d], source'[d] = source[d], awaits'[d] = awaits[d],
           previous'[d] = previous[d]
    PROVE  JobOK(d)'
<1>1. DefsGrow /\ BuildsGrow /\ CallsGrow
  BY DEF Grows
<1>2. DefsOK(apps) /\ version \in [Builds -> Nat] /\ calls \in Nat
  BY DEF DeployTypes, DeployTypeOK, TypeOK
<1>3. \A b \in Builds : b \in Nat
  BY BuildsFacts
<1> DEFINE a == AppOf(d)
<1>4. /\ source[d] \in Builds /\ source[d] <= calls
      /\ awaits[d] \in Builds /\ awaits[d] <= calls
      /\ a \in Apps /\ apps[a] # NoApp
  BY DEF JobOK
<1>5. /\ source[d] <= calls' /\ awaits[d] <= calls'
      /\ appOf'[source[d]] = a /\ apps'[a] # NoApp
      /\ awaits[d] \in attached' <=> awaits[d] \in attached
      /\ promise'[awaits[d]] = "lost" => promise[awaits[d]] = "lost"
  <2>1. apps'[a] # NoApp
    BY <1>1, <1>2, <1>4, GrownDefs
  <2>2. QED BY <1>1, <1>2, <1>3, <1>4, <2>1 DEF CallsGrow, AppOf
<1>6. AppOf(d)' = a
  BY <1>5 DEF AppOf
<1>7. ASSUME job[d] = "replacing", awaits[d] \in attached, previous[d] # 0
      PROVE  Numbered(AppOf(d), previous[d] + 1, source[d])'
  <2>1. Numbered(a, previous[d] + 1, source[d]) /\ previous[d] \in Nat
    BY <1>7 DEF JobOK
  <2>2. previous[d] + 1 \in Nat /\ source[d] \in Nat
    BY <1>3, <1>4, <2>1
  <2> DEFINE v == previous[d] + 1
             s == source[d]
  <2>3. v \in Nat /\ s \in Nat /\ Numbered(a, v, s)
    BY <2>1, <2>2
  <2>4. /\ BuiltBy(apps'[a], v, s)
        /\ BuiltBy(before'[a], v, s)
        /\ \A b \in Builds :
               phase'[b] = "building" /\ appOf'[b] = a /\ version'[b] <= v => b <= s
    <3> HIDE DEF v, s, a
    <3>1. a \in Apps /\ apps[a] # NoApp
      BY <1>4 DEF a
    <3>2. QED BY <1>1, <2>3, <3>1, NumberedStays
  <2>5. v = previous'[d] + 1 /\ s = source'[d]
    OBVIOUS
  <2> HIDE DEF a, v, s
  <2>6. QED BY <1>6, <2>4, <2>5 DEF Numbered, BuiltBy
<1>8. QED BY <1>4, <1>5, <1>6, <1>7 DEF JobOK

-----------------------------------------------------------------------------
(* Each step of the scheduler is one of these, and keeps what is known of   *)
(* the promises.                                                           *)

\* The definitions a call is made with: those on disk, or with a fresh one.
CallableWith(a, defs) ==
    \/ apps[a] # NoApp /\ defs = apps
    \/ apps[a] = NoApp /\ defs = [apps EXCEPT ![a] = FreshDefinition]

\* startDeployingNewVersion.
LEMMA StartGrows ==
    ASSUME DeployTypes, HaveDefs, NEW b \in Builds, NEW a \in Apps, NEW defs,
           CallableWith(a, defs), NEW n,
           StartDeployingNewVersion(b, a, defs, n),
           \A c \in Builds : appOf'[c] = IF c = b THEN a ELSE appOf[c]
    PROVE  /\ DefsGrow /\ BuildsGrow /\ apps'[a] # NoApp
           /\ phase' = [phase EXCEPT ![b] = "building"]
<1>1. DefsOK(apps) /\ TypeOK
  BY DEF DeployTypes, DeployTypeOK
<1>2. FreshDefinition # NoApp /\ \A def : IsDef(def) => def # NoApp
  BY FreshIsDef, NoAppAssumption DEF IsDef
<1>3. /\ defs[a] # NoApp /\ IsDef(defs[a])
      /\ apps[a] # NoApp => defs[a] = apps[a]
      /\ apps[a] = NoApp => defs[a] = FreshDefinition
      /\ \A x \in Apps : x # a => defs[x] = apps[x]
      /\ DOMAIN defs = Apps
  BY <1>1, <1>2, DefsMember, FreshIsDef DEF CallableWith, DefsOK
<1>4. /\ apps' = [defs EXCEPT ![a] = CreateNewVersion(defs[a])]
      /\ version' = [version EXCEPT ![b] = NewVersionIndex(defs[a])]
      /\ phase' = [phase EXCEPT ![b] = "building"]
  BY <1>3 DEF StartDeployingNewVersion
<1>5. \A x \in Apps : apps'[x] = IF x = a THEN CreateNewVersion(defs[a]) ELSE apps[x]
  BY <1>3, <1>4
<1>6. DefsGrow
  BY <1>3, <1>5 DEF DefsGrow
<1>7. IsDef(CreateNewVersion(defs[a])) /\ apps'[a] # NoApp
  BY <1>2, <1>3, <1>5, CreateVersions
<1>8. ASSUME NEW c \in Builds, phase'[c] = "building"
      PROVE  Continues(c) \/ Begins(c)
  <2>1. CASE c = b
    BY <1>1, <1>3, <1>4, <1>7, <2>1 DEF Begins, TypeOK
  <2>2. CASE c # b
    BY <1>1, <1>4, <1>8, <2>2 DEF Continues, TypeOK
  <2>3. QED BY <2>1, <2>2
<1>9. QED BY <1>4, <1>6, <1>7, <1>8 DEF BuildsGrow

\* A call to scheduleDeployNewVersion.
LEMMA ScheduleGrows ==
    ASSUME DeployTypes, QueueInv, HaveDefs, ChainsOK, NEW a \in Apps, NEW defs,
           CallableWith(a, defs), ScheduleDeployNewVersion(a, defs)
    PROVE  Grows /\ ChainsOK'
<1> DEFINE b == calls + 1
<1>1. TypeOK /\ DefsOK(apps)
  BY DEF DeployTypes, DeployTypeOK
<1>2. b \in Builds /\ calls \in Nat /\ calls' = b /\ \A c \in Builds : c \in Nat
  BY <1>1, BuildsFacts, BoundsAssumption DEF TypeOK, ScheduleDeployNewVersion
<1>3. phase[b] = "unused"
  BY <1>2 DEF QueueInv, LaterCallsUnused
<1>4. \A c \in Builds : appOf'[c] = IF c = b THEN a ELSE appOf[c]
  BY <1>1, <1>2 DEF ScheduleDeployNewVersion, TypeOK
<1>5. /\ \A c \in attached : c \in Builds /\ c <= calls
      /\ b \notin attached
  BY <1>1, <1>2 DEF ChainsOK, TypeOK
<1>6. \A i \in 1..Len(queue) : /\ apps[queue[i].app] # NoApp
                              /\ queue[i].app \in Apps /\ queue[i].source \in Builds
                              /\ queue[i].promise \in Builds
                              /\ phase[queue[i].source] = "queued"
                              /\ queue[i].source # b
                              /\ queue[i].promise <= calls /\ queue[i].promise \notin attached
  <2>1. \A i \in 1..Len(queue) : queue[i] \in QueueEntry
    BY <1>1 DEF TypeOK
  <2>2. QED BY <1>1, <1>3, <2>1 DEF HaveDefs, QueueInv, EntriesAreQueued, ChainsOK, QueueEntry
<1>7. CASE StartAtOnce(b, a, defs)
  <2>1. /\ StartDeployingNewVersion(b, a, defs, 0)
        /\ queue' = queue /\ attached' = attached \cup {b}
        /\ \A c \in Builds : c # b => promise'[c] = promise[c]
    BY <1>1, <1>7 DEF StartAtOnce, TypeOK
  <2>2. /\ DefsGrow /\ BuildsGrow /\ apps'[a] # NoApp
        /\ phase' = [phase EXCEPT ![b] = "building"]
    BY <1>2, <1>4, <2>1, StartGrows
  <2>3. \A i \in 1..Len(queue) : apps'[queue[i].app] # NoApp
    BY <1>1, <1>6, <2>2, GrownDefs DEF TypeOK
  <2>4. Grows
    BY <1>2, <1>4, <2>1, <2>2, <2>3 DEF Grows, QueueGrows, CallsGrow
  <2>5. promise'[b] \in {"pending", "rejected"}
    BY <1>1, <1>2, <1>7 DEF StartAtOnce, TypeOK
  <2>6. \A c \in Builds : phase'[c] = IF c = b THEN "building" ELSE phase[c]
    BY <1>1, <2>2 DEF TypeOK
  <2>7. \A c \in attached' : /\ c <= calls' /\ promise'[c] # "none"
                             /\ promise'[c] = "pending" => phase'[c] \in {"building", "deploying"}
    BY <1>2, <1>5, <2>1, <2>5, <2>6 DEF ChainsOK
  <2>8. \A c \in Builds : promise'[c] \in {"resolved", "rejected"} => c \in attached'
    BY <2>1, <2>5 DEF ChainsOK
  <2>9. \A i \in 1..Len(queue') : queue'[i].promise <= calls' /\ queue'[i].promise \notin attached'
    BY <1>2, <1>6, <2>1
  <2>10. QED BY <2>4, <2>7, <2>8, <2>9 DEF ChainsOK
<1>8. CASE ReplaceQueuedSource(b, a, defs) \/ Enqueue(b, a, defs)
  <2>1. apps' = defs /\ UNCHANGED <<version, attached>>
    BY <1>8 DEF ReplaceQueuedSource, Enqueue
  <2>2. FreshDefinition # NoApp
    BY FreshIsDef, NoAppAssumption DEF IsDef
  <2>3. \A x \in Apps : /\ x # a => apps'[x] = apps[x]
                        /\ apps[a] # NoApp => apps'[a] = apps[a]
                        /\ apps[a] = NoApp => apps'[a] = FreshDefinition
                        /\ apps'[a] # NoApp
    BY <1>1, <2>1, <2>2 DEF CallableWith, DefsOK
  <2>4. DefsGrow
    BY <2>3 DEF DefsGrow
  <2>5. /\ \A c \in Builds : phase[c] \in {"building", "deploying"} => phase'[c] = phase[c]
        /\ \A c \in Builds : phase'[c] = "building" => phase[c] = "building" /\ c # b
    <3>1. CASE Enqueue(b, a, defs)
      BY <1>1, <1>2, <1>3, <3>1 DEF Enqueue, TypeOK
    <3>2. CASE ReplaceQueuedSource(b, a, defs)
      <4>1. PICK i \in 1..Len(queue) :
                phase' = [phase EXCEPT ![queue[i].source] = "replaced", ![b] = "queued"]
        BY <1>1, <3>2, QueueTyped DEF ReplaceQueuedSource
      <4>2. phase[queue[i].source] = "queued" /\ queue[i].source \in Builds
        BY <1>6
      <4>3. QED BY <1>1, <1>2, <1>3, <4>1, <4>2 DEF TypeOK
    <3>3. QED BY <1>8, <3>1, <3>2
  <2>6. BuildsGrow
    BY <1>4, <2>1, <2>5 DEF BuildsGrow, Continues
  <2>7. ASSUME NEW i \in 1..Len(queue')
        PROVE  /\ queue'[i].app \in Apps /\ apps'[queue'[i].app] # NoApp
               /\ \/ queue'[i].promise = b
                  \/ \E j \in 1..Len(queue) : queue'[i].promise = queue[j].promise
    <3>1. CASE Enqueue(b, a, defs)
      <4> DEFINE e == [app |-> a, source |-> b, promise |-> b]
      <4>1. queue' = Append(queue, e)
        BY <3>1 DEF Enqueue
      <4>2. queue'[i] = e \/ \E j \in 1..Len(queue) : queue'[i] = queue[j]
        BY <1>1, <4>1, QueueTyped
      <4>3. QED BY <1>1, <1>6, <2>3, <4>2
    <3>2. CASE ReplaceQueuedSource(b, a, defs)
      <4>1. PICK k \in 1..Len(queue) : queue' = [queue EXCEPT ![k].source = b]
        BY <1>1, <3>2, QueueTyped DEF ReplaceQueuedSource
      <4>2. i \in 1..Len(queue) /\ queue'[i].promise = queue[i].promise
            /\ queue'[i].app = queue[i].app
        BY <1>1, <4>1, QueueTyped
      <4>3. QED BY <1>6, <2>3, <4>2
    <3>3. QED BY <1>8, <3>1, <3>2
  <2>8. QueueGrows
    BY <1>2, <1>5, <2>1, <2>7 DEF QueueGrows
  <2>9. \A c \in Builds : promise'[c] = promise[c] \/ (c = b /\ promise'[c] = "pending")
    BY <1>1, <1>8 DEF ReplaceQueuedSource, Enqueue, TypeOK
  <2>10. CallsGrow
    BY <1>2, <1>4, <2>1, <2>9 DEF CallsGrow
  <2>11. \A c \in attached' : /\ c <= calls' /\ promise'[c] # "none"
                              /\ promise'[c] = "pending" => phase'[c] \in {"building", "deploying"}
    BY <1>2, <1>5, <2>1, <2>5, <2>9 DEF ChainsOK
  <2>12. \A c \in Builds : promise'[c] \in {"resolved", "rejected"} => c \in attached'
    BY <2>1, <2>9 DEF ChainsOK
  <2>13. \A i \in 1..Len(queue') : queue'[i].promise <= calls' /\ queue'[i].promise \notin attached'
    BY <1>2, <1>5, <1>6, <2>1, <2>7
  <2>14. QED BY <2>4, <2>6, <2>8, <2>10, <2>11, <2>12, <2>13 DEF Grows, ChainsOK
<1>9. QED BY <1>7, <1>8 DEF ScheduleDeployNewVersion

\* Taking the next build off the queue.
LEMMA ShiftGrows ==
    ASSUME DeployTypes, QueueInv, HaveDefs, ChainsOK, ShiftQueue
    PROVE  /\ Grows /\ ChainsOK'
           /\ \A a \in Apps :
                  \/ apps'[a] = apps[a]
                  \/ apps[a] # NoApp /\ apps'[a] = CreateNewVersion(apps[a])
<1>1. TypeOK /\ DefsOK(apps) /\ UNCHANGED <<calls, appOf, attached, promise>>
  BY DEF DeployTypes, DeployTypeOK, ShiftQueue
<1>2. calls \in Nat
  BY <1>1 DEF TypeOK
<1>3. CallsGrow
  BY <1>1, <1>2 DEF CallsGrow
<1>4. CASE queue = <<>>
  <2>1. UNCHANGED <<apps, queue, phase, version>>
    BY <1>4 DEF ShiftQueue
  <2>2. DefsGrow /\ BuildsGrow
    BY <1>1, <2>1 DEF DefsGrow, BuildsGrow, Continues
  <2>3. QueueGrows
    BY <1>1, <2>1 DEF QueueGrows, HaveDefs
  <2>4. ChainsOK'
    BY <1>1, <2>1 DEF ChainsOK
  <2>5. QED BY <1>3, <2>1, <2>2, <2>3, <2>4 DEF Grows
<1>5. CASE queue # <<>>
  <2> DEFINE b == queue[1].source
             a == queue[1].app
  <2>1. 1 \in 1..Len(queue) /\ Head(queue) = queue[1]
    BY <1>1, <1>5, QueueTyped
  <2>2. StartDeployingNewVersion(b, a, apps, shifts - 1) /\ queue' = Tail(queue)
    BY <1>5, <2>1 DEF ShiftQueue
  <2>3. b \in Builds /\ a \in Apps /\ phase[b] = "queued" /\ appOf[b] = a /\ apps[a] # NoApp
    BY <1>1, <2>1, QueueTyped DEF QueueInv, EntriesAreQueued, HaveDefs
  <2>4. \A c \in Builds : appOf'[c] = IF c = b THEN a ELSE appOf[c]
    BY <1>1, <2>3
  <2>5. /\ DefsGrow /\ BuildsGrow
        /\ phase' = [phase EXCEPT ![b] = "building"]
    <3>1. CallableWith(a, apps)
      BY <2>3 DEF CallableWith
    <3>2. QED BY <2>2, <2>3, <2>4, <3>1, StartGrows
  <2>6. apps' = [apps EXCEPT ![a] = CreateNewVersion(apps[a])]
    BY <2>2, <2>3 DEF StartDeployingNewVersion
  <2>7. \A i \in 1..Len(queue') : i + 1 \in 1..Len(queue) /\ queue'[i] = queue[i + 1]
    BY <1>1, <1>5, <2>2, QueueTyped
  <2>8. \A i \in 1..Len(queue) : queue[i].app \in Apps /\ apps'[queue[i].app] # NoApp
    BY <1>1, <2>5, QueueTyped, GrownDefs DEF HaveDefs, TypeOK
  <2>9. QueueGrows
    BY <2>7, <2>8 DEF QueueGrows
  <2>10. \A c \in Builds : phase[c] \in {"building", "deploying"} => phase'[c] = phase[c]
    BY <1>1, <2>3, <2>5 DEF TypeOK
  <2>11. ChainsOK'
    <3>1. attached \subseteq Builds
      BY <1>1 DEF TypeOK
    <3>2. QED BY <1>1, <2>7, <2>10, <3>1 DEF ChainsOK
  <2>12. QED BY <1>1, <1>3, <2>3, <2>5, <2>6, <2>9, <2>11 DEF Grows, TypeOK
<1>6. QED BY <1>4, <1>5

\* A build or its service update goes on or ends, and tells its promise.
LEMMA EndKeepsChains ==
    ASSUME TypeOK, QueueInv, ChainsOK, NEW b \in Builds, NEW p \in Phases,
           phase[b] \in {"building", "deploying"},
           phase' = [phase EXCEPT ![b] = p],
           UNCHANGED <<queue, calls, appOf, attached>>,
           \/ p = "deploying" /\ promise' = promise
           \/ \E outcome \in {"resolved", "rejected"} : Settle(b, outcome)
    PROVE  CallsGrow /\ ChainsOK'
<1>1. calls \in Nat
  BY DEF TypeOK
<1>2. \A c \in Builds : phase'[c] = IF c = b THEN p ELSE phase[c]
  BY DEF TypeOK
<1>3. CASE p = "deploying" /\ promise' = promise
  BY <1>1, <1>2, <1>3 DEF ChainsOK, CallsGrow, TypeOK
<1>4. ASSUME NEW outcome \in {"resolved", "rejected"}, Settle(b, outcome)
      PROVE  CallsGrow /\ ChainsOK'
  <2>1. \A c \in Builds : promise'[c] = IF c = b /\ b \in attached THEN outcome ELSE promise[c]
    BY <1>4 DEF Settle, TypeOK
  <2>2. CallsGrow
    BY <1>1, <2>1 DEF CallsGrow
  <2>3. \A c \in attached : c \in Builds /\ (c = b => promise'[c] = outcome)
    BY <2>1 DEF TypeOK
  <2>4. QED BY <1>2, <2>1, <2>2, <2>3 DEF ChainsOK
<1>5. QED BY <1>3, <1>4

\* The end of a build or of its service update.
LEMMA BuildEndGrows ==
    ASSUME DeployTypes, QueueInv, HaveDefs, ChainsOK, NEW b \in Builds,
           \/ ImageReady(b) \/ BuildFails(b)
           \/ ServiceUpdated(b) \/ ServiceUpdateFails(b)
    PROVE  Grows /\ ChainsOK'
<1>1. TypeOK /\ DefsOK(apps)
  BY DEF DeployTypes, DeployTypeOK
<1>2. UNCHANGED <<queue, calls, appOf, attached>>
  BY DEF ImageReady, BuildFails, ServiceUpdated, ServiceUpdateFails
<1>3. PICK p \in Phases : /\ phase' = [phase EXCEPT ![b] = p] /\ p # "building"
                         /\ \/ p = "deploying" /\ promise' = promise
                            \/ \E outcome \in {"resolved", "rejected"} : Settle(b, outcome)
  BY DEF ImageReady, BuildFails, ServiceUpdated, ServiceUpdateFails, Phases
<1>4. phase[b] \in {"building", "deploying"}
  BY DEF ImageReady, BuildFails, ServiceUpdated, ServiceUpdateFails
<1>5. CallsGrow /\ ChainsOK'
  BY <1>1, <1>2, <1>3, <1>4, EndKeepsChains
<1>6. \A c \in Builds : c # b => version'[c] = version[c]
  BY <1>1 DEF ImageReady, BuildFails, ServiceUpdated, ServiceUpdateFails, TypeOK
<1>7. BuildsGrow
  BY <1>1, <1>2, <1>3, <1>6 DEF BuildsGrow, Continues, TypeOK
<1>8. DefsGrow
  <2>1. CASE ImageReady(b)
    <3>1. /\ phase[b] = "building" /\ apps[appOf[b]] # NoApp
          /\ HasVersion(apps[appOf[b]], version[b])
          /\ apps' = [apps EXCEPT ![appOf[b]] =
                         SetDeployedVersionAndImage(apps[appOf[b]], version[b], b)]
      BY <2>1 DEF ImageReady
    <3>2. QED BY <1>1, <3>1 DEF DefsGrow, TypeOK
  <2>2. CASE apps' = apps
    BY <2>2 DEF DefsGrow
  <2>3. QED BY <2>1, <2>2 DEF BuildFails, ServiceUpdated, ServiceUpdateFails
<1>9. QueueGrows
  <2>1. \A i \in 1..Len(queue) : queue[i].app \in Apps /\ apps'[queue[i].app] # NoApp
    BY <1>1, <1>8, QueueTyped, GrownDefs DEF HaveDefs, TypeOK
  <2>2. QED BY <1>2, <2>1 DEF QueueGrows
<1>10. QED BY <1>5, <1>7, <1>8, <1>9 DEF Grows

-----------------------------------------------------------------------------
(* Every step of an agent deployment keeps all of this.                    *)

\* No job, no build and no definition at the start.
LEMMA DeployInitInv == DeployInit => DeployInv
<1> SUFFICES ASSUME DeployInit PROVE DeployInv
  OBVIOUS
<1>1. TypeOK /\ DefsOK(apps) /\ QueueInv /\ Init /\ before = apps
  BY InitTyped, InitQueueInv DEF DeployInit
<1>2. /\ \A d \in Jobs : job[d] = "idle" /\ awaits[d] = NoCall /\ source[d] = NoCall
                       /\ previous[d] = NoVersion /\ restoring[d] = NoImage
      /\ job \in [Jobs -> JobStates]
  BY DEF DeployInit, JobStates
<1>3. DeployTypes
  <2>1. /\ awaits \in [Jobs -> Builds \cup {NoCall}]
        /\ source \in [Jobs -> Builds \cup {NoCall}]
        /\ previous \in [Jobs -> Nat \cup {NoVersion}]
        /\ restoring \in [Jobs -> Images \cup {NoImage}]
        /\ content \in [Builds -> Contents]
    BY DEF DeployInit
  <2>2. before \in [Apps -> Definition(Images) \cup {NoApp}] /\ DefsOK(before)
    BY <1>1 DEF DefsOK
  <2>3. QED BY <1>1, <1>2, <2>1, <2>2 DEF DeployTypes, DeployTypeOK
<1>4. ReadsOK /\ HaveDefs /\ ChainsOK
  BY <1>1 DEF Init, ReadsOK, HaveDefs, ChainsOK
<1>5. JobsOK
  BY <1>2 DEF JobsOK, UnderWay
<1>6. QED BY <1>1, <1>3, <1>4, <1>5 DEF DeployInv

\* A step of the scheduler that no job takes part in.
LEMMA SchedulerKeepsDeploys ==
    ASSUME DeployInv, [Next]_vars, Grows, ChainsOK',
           \/ before' = apps'
           \/ /\ before' = before
              /\ \A a \in Apps :
                     \/ apps'[a] = apps[a]
                     \/ apps[a] # NoApp /\ apps'[a] = CreateNewVersion(apps[a]),
           UNCHANGED <<job, awaits, source, previous, restoring, content>>
    PROVE  DeployInv'
<1>1. /\ DeployTypes /\ DeployTypeOK /\ TypeOK /\ DefsOK(apps) /\ DefsOK(before)
      /\ QueueInv /\ ReadsOK /\ HaveDefs /\ ChainsOK /\ JobsOK
  BY DEF DeployInv, DeployTypes, DeployTypeOK
<1>2. TypeOK' /\ DefsOK(apps)' /\ QueueInv'
  BY <1>1, NextTyped, NextKeepsQueue
<1>3. DeployTypes'
  <2>1. DefsOK(before)'
    BY <1>1, <1>2 DEF DefsOK
  <2>2. before' \in [Apps -> Definition(Images) \cup {NoApp}]
    BY <2>1 DEF DefsOK
  <2>3. QED BY <1>1, <1>2, <2>1, <2>2 DEF DeployTypes, DeployTypeOK
<1>4. ReadsOK' /\ HaveDefs'
  BY <1>1, ReadsStay, HaveDefsStay
<1>5. JobsOK'
  <2> SUFFICES ASSUME NEW d \in Jobs, UnderWay(d)' PROVE JobOK(d)'
    BY DEF JobsOK
  <2>1. UnderWay(d) /\ JobOK(d)
    BY <1>1 DEF UnderWay, JobsOK
  <2>2. QED BY <1>1, <2>1, JobStays
<1>6. QED BY <1>2, <1>3, <1>4, <1>5 DEF DeployInv

\* The steps that are the scheduler's alone.
LEMMA SchedulerStepKeepsDeploys ==
    ASSUME DeployInv, SchedulerStep \/ ShiftStep
    PROVE  DeployInv'
<1>1. DeployTypes /\ QueueInv /\ HaveDefs /\ ChainsOK
  BY DEF DeployInv
<1>2. CASE ShiftStep
  <2>1. ShiftQueue /\ UNCHANGED deployVars
    BY <1>2 DEF ShiftStep
  <2>2. UNCHANGED <<job, awaits, source, previous, restoring, content>> /\ before' = before
    BY <2>1 DEF deployVars
  <2>3. Next
    BY <2>1 DEF Next
  <2>4. QED BY <1>1, <2>1, <2>2, <2>3, ShiftGrows, SchedulerKeepsDeploys
<1>3. CASE SchedulerStep
  <2>1. before' = apps' /\ UNCHANGED <<job, awaits, source, previous, restoring, content>>
    BY <1>3 DEF SchedulerStep
  <2>2. ASSUME NEW a \in Apps, apps[a] # NoApp, Schedule(a)
        PROVE  Next /\ Grows /\ ChainsOK'
    <3>1. CallableWith(a, apps) /\ ScheduleDeployNewVersion(a, apps)
      BY <2>2 DEF CallableWith, Schedule
    <3>2. QED BY <1>1, <2>2, <3>1, ScheduleGrows DEF Next
  <2>3. ASSUME NEW a \in Apps, Register(a)
        PROVE  Next /\ Grows /\ ChainsOK'
    <3>1. /\ CallableWith(a, [apps EXCEPT ![a] = FreshDefinition])
          /\ ScheduleDeployNewVersion(a, [apps EXCEPT ![a] = FreshDefinition])
      BY <2>3 DEF CallableWith, Register
    <3>2. QED BY <1>1, <2>3, <3>1, ScheduleGrows DEF Next
  <2>4. ASSUME NEW b \in Builds, \/ ImageReady(b) \/ BuildFails(b)
                                 \/ ServiceUpdated(b) \/ ServiceUpdateFails(b)
        PROVE  Next /\ Grows /\ ChainsOK'
    BY <1>1, <2>4, BuildEndGrows DEF Next
  <2>5. Next /\ Grows /\ ChainsOK'
    BY <1>3, <2>2, <2>3, <2>4 DEF SchedulerStep
  <2>6. QED BY <2>1, <2>5, SchedulerKeepsDeploys
<1>4. QED BY <1>2, <1>3

\* A restart: the calls of runAgentDeployment are gone with the process.
LEMMA RestartKeepsDeploys ==
    ASSUME DeployInv, RestartStep
    PROVE  DeployInv'
<1>1. /\ DeployTypes /\ DeployTypeOK /\ TypeOK /\ DefsOK(apps)
      /\ QueueInv /\ ReadsOK /\ HaveDefs /\ ChainsOK /\ JobsOK
  BY DEF DeployInv, DeployTypes, DeployTypeOK
<1>2. Restart /\ Next /\ before' = apps /\ apps' = apps
      /\ UNCHANGED <<awaits, source, previous, restoring, content, calls, appOf, attached>>
  BY DEF RestartStep, Next, Restart
<1>3. TypeOK' /\ DefsOK(apps)' /\ QueueInv'
  BY <1>1, <1>2, NextTyped, NextKeepsQueue
<1>4. job' \in [Jobs -> JobStates] /\ \A d \in Jobs : ~UnderWay(d)'
  BY <1>1 DEF RestartStep, DeployTypeOK, JobStates, UnderWay
<1>5. DeployTypes'
  <2>1. before' \in [Apps -> Definition(Images) \cup {NoApp}] /\ DefsOK(before)'
    BY <1>1, <1>2 DEF DefsOK
  <2>2. QED BY <1>1, <1>2, <1>3, <1>4, <2>1 DEF DeployTypes, DeployTypeOK, UnderWay
<1>6. ReadsOK'
  BY <1>1, <1>2 DEF ReadsOK, Known
<1>7. queue' = <<>> /\ Len(queue') = 0 /\ \A b \in Builds : phase'[b] # "building"
  BY <1>2 DEF Restart
<1>8. HaveDefs'
  BY <1>7 DEF HaveDefs
<1>9. ChainsOK'
  <2>1. \A b \in Builds : promise'[b] = IF promise[b] = "pending" THEN "lost" ELSE promise[b]
    BY <1>2 DEF Restart
  <2>2. attached \subseteq Builds
    BY <1>1 DEF TypeOK
  <2>3. QED BY <1>1, <1>2, <1>7, <2>1, <2>2 DEF ChainsOK
<1>10. JobsOK'
  BY <1>4 DEF JobsOK
<1>11. QED BY <1>3, <1>5, <1>6, <1>8, <1>9, <1>10 DEF DeployInv

\* The promise a call gets back: its own, or that of the app's entry in the
\* queue, which is not the chain of a build.
LEMMA PromiseForACall ==
    ASSUME TypeOK, QueueInv, ChainsOK, NEW a \in Apps, NEW b \in Builds, b = calls + 1
    PROVE  LET p == PromiseFor(a, b)
           IN  /\ p \in Builds /\ p <= b
               /\ p # b => isAnyBuildRunning /\ p \notin attached
<1> DEFINE waiting == {i \in DOMAIN queue : queue[i].app = a}
<1>1. b \in Nat /\ calls \in Nat
  BY BuildsFacts DEF TypeOK
<1>2. CASE isAnyBuildRunning /\ waiting # {}
  <2>1. PICK i \in 1..Len(queue) : i \in waiting
    BY <1>2, QueueTyped
  <2>2. \A j \in waiting : j = i
    BY <2>1, QueueTyped DEF QueueInv, OneEntry
  <2>3. waiting = {i} /\ i \in Int
    BY <2>1, <2>2
  <2>4. Min(waiting) = i
    <3> HIDE DEF waiting
    <3>1. QED BY <2>3 DEF Min
  <2>5. PromiseFor(a, b) = queue[i].promise
    BY <1>2, <2>4 DEF PromiseFor
  <2>6. queue[i].promise \in Builds
    <3>1. queue[i] \in QueueEntry
      BY DEF TypeOK
    <3>2. QED BY <3>1 DEF QueueEntry
  <2>7. queue[i].promise <= calls /\ queue[i].promise \notin attached
    BY DEF ChainsOK
  <2>8. queue[i].promise \in Nat
    BY <2>6, BuildsFacts
  <2>10. queue[i].promise <= b
    BY <1>1, <2>7, <2>8
  <2>9. QED BY <1>2, <2>5, <2>6, <2>7, <2>10
<1>3. CASE ~(isAnyBuildRunning /\ waiting # {})
  BY <1>1, <1>3 DEF PromiseFor
<1>4. QED BY <1>2, <1>3

\* A definition reaches what is below a number it reaches.
LEMMA ReachesBelow ==
    ASSUME NEW def, NEW w \in Nat, Reaches(def, w), NEW v \in Nat, v <= w
    PROVE  Reaches(def, v)
BY DEF Reaches

\* A replacement that starts at once: its number is above the one it noted.
LEMMA StartedIsNumbered ==
    ASSUME DeployInv, QueueInv', NEW a \in Apps, apps[a] # NoApp, before' = apps',
           NEW b \in Builds, b = calls + 1, calls' = b,
           apps'[a] = CreateNewVersion(apps[a]),
           NEW v, v = apps[a].deployedVersion, v # 0
    PROVE  Numbered(a, v + 1, b)'
<1>1. /\ TypeOK /\ DefsOK(apps) /\ ReadsOK /\ b \in Nat /\ calls \in Nat
      /\ NoImage \notin Builds
  BY BuildsFacts, ImageAssumption DEF DeployInv, DeployTypes, DeployTypeOK, TypeOK
<1>2. IsDef(apps[a])
  BY <1>1, DefsMember
<1>3. v \in Nat /\ Reaches(apps[a], v)
  BY <1>1, <1>2 DEF ReadsOK, Known, IsDef, Definition
<1>4. /\ v < NewVersionIndex(apps[a])
      /\ NewVersionIndex(apps[a]) \in Nat
      /\ Reaches(apps'[a], NewVersionIndex(apps[a]))
  BY <1>2, <1>3, NextNumberIsAbove, NewNumberIsReached
<1>5. Reaches(apps'[a], v + 1)
  BY <1>3, <1>4, ReachesBelow
<1>6. \A x \in VersionsOf(apps'[a]) : x.image \in Builds => x.image <= b
  <2>1. \A x \in VersionsOf(apps'[a]) : x \in VersionsOf(apps[a]) \/ x.image = NoImage
    BY <1>2, CreateVersions
  <2>2. \A x \in VersionsOf(apps[a]) : x.image \in Builds => x.image <= calls
    BY DEF DeployInv, ReadsOK, Known
  <2> SUFFICES ASSUME NEW x \in VersionsOf(apps'[a]), x.image \in Builds
               PROVE  x.image <= b
    OBVIOUS
  <2>3. x.image <= calls
    BY <1>1, <2>1, <2>2
  <2>4. x.image \in Nat
    BY BuildsFacts
  <2>5. QED BY <1>1, <2>3, <2>4
<1>7. \A c \in Builds : phase'[c] = "building" => c <= b
  BY <1>1, BuildsFacts DEF QueueInv, LaterCallsUnused
<1>8. QED BY <1>5, <1>6, <1>7 DEF Numbered, BuiltBy

\* A replacement begins.
LEMMA ReplacementKeepsDeploys ==
    ASSUME DeployInv, NEW d \in Jobs, NEW a \in Apps, BeginReplacement(d, a)
    PROVE  DeployInv'
<1>1. /\ DeployTypes /\ DeployTypeOK /\ TypeOK /\ DefsOK(apps)
      /\ QueueInv /\ ReadsOK /\ HaveDefs /\ ChainsOK /\ JobsOK
  BY DEF DeployInv, DeployTypes, DeployTypeOK
<1>2. /\ apps[a] # NoApp /\ job[d] = "idle" /\ before' = apps'
      /\ ScheduleDeployNewVersion(a, apps)
      /\ job' = [job EXCEPT ![d] = "replacing"]
      /\ previous' = [previous EXCEPT ![d] = apps[a].deployedVersion]
      /\ awaits' = [awaits EXCEPT ![d] = PromiseFor(a, calls + 1)]
      /\ source' = [source EXCEPT ![d] = calls + 1]
      /\ UNCHANGED <<restoring, content>>
  BY DEF BeginReplacement
<1>3. Schedule(a) /\ Next
  BY <1>2 DEF BeginReplacement, Schedule, Next
<1>4. TypeOK' /\ DefsOK(apps)' /\ QueueInv'
  BY <1>1, <1>3, NextTyped, NextKeepsQueue
<1>5. PICK b \in Builds : b = calls + 1 /\ b \in Nat /\ calls \in Nat /\ calls' = b
  BY <1>1, <1>2, BuildsFacts, BoundsAssumption DEF TypeOK, ScheduleDeployNewVersion
<1>6. Grows /\ ChainsOK'
  BY <1>1, <1>2, ScheduleGrows DEF CallableWith
<1>7. PICK p \in Builds :
          /\ p = PromiseFor(a, calls + 1)
          /\ p <= b
          /\ p # b => isAnyBuildRunning /\ p \notin attached
  <2>1. PromiseFor(a, calls + 1) = PromiseFor(a, b)
    BY <1>5
  <2>2. QED BY <1>1, <1>5, <2>1, PromiseForACall
<1>8. PICK v \in Nat : v = apps[a].deployedVersion
  BY <1>1, <1>2, DefsMember DEF IsDef, Definition
<1>18. /\ awaits' = [awaits EXCEPT ![d] = p]
       /\ source' = [source EXCEPT ![d] = b]
       /\ appOf' = [appOf EXCEPT ![b] = a]
       /\ \/ StartAtOnce(b, a, apps)
          \/ ReplaceQueuedSource(b, a, apps)
          \/ Enqueue(b, a, apps)
  BY <1>2, <1>5, <1>7 DEF ScheduleDeployNewVersion
<1>9. DeployTypes'
  <2>1. before' \in [Apps -> Definition(Images) \cup {NoApp}] /\ DefsOK(before)'
    BY <1>2, <1>4 DEF DefsOK
  <2>2. /\ job' \in [Jobs -> JobStates]
        /\ awaits' \in [Jobs -> Builds \cup {NoCall}]
        /\ source' \in [Jobs -> Builds \cup {NoCall}]
        /\ previous' \in [Jobs -> Nat \cup {NoVersion}]
    BY <1>1, <1>2, <1>5, <1>7, <1>8 DEF DeployTypeOK, JobStates
  <2>3. NoCall \notin Builds
    BY DEF NoCall, Builds
  <2>4. \A e \in Jobs : job'[e] \in {"new", "replacing", "undoing"} =>
            awaits'[e] # NoCall /\ source'[e] # NoCall
    BY <1>1, <1>2, <1>5, <1>7, <2>3 DEF DeployTypeOK
  <2>5. QED BY <1>1, <1>2, <1>4, <2>1, <2>2, <2>4 DEF DeployTypes, DeployTypeOK
<1>10. ReadsOK' /\ HaveDefs'
  BY <1>1, <1>2, <1>6, ReadsStay, HaveDefsStay
<1>11. /\ job'[d] = "replacing" /\ source'[d] = b /\ awaits'[d] = p
       /\ previous'[d] = v
       /\ \A e \in Jobs : e # d => /\ job'[e] = job[e] /\ source'[e] = source[e]
                                   /\ awaits'[e] = awaits[e] /\ previous'[e] = previous[e]
  BY <1>1, <1>2, <1>5, <1>7, <1>8, <1>18 DEF DeployTypeOK
<1>12. AppOf(d)' = a /\ apps'[a] # NoApp
  <2>1. appOf'[b] = a
    BY <1>1, <1>2, <1>5 DEF ScheduleDeployNewVersion, TypeOK
  <2>2. apps'[a] # NoApp
    BY <1>1, <1>2, <1>6, GrownDefs DEF Grows, TypeOK
  <2>3. QED BY <1>11, <2>1, <2>2 DEF AppOf
<1>13. ASSUME p \in attached'
       PROVE  /\ promise'[p] # "lost"
              /\ v # 0 => Numbered(a, v + 1, b)'
  <2>1. b \notin attached
    BY <1>1, <1>5 DEF ChainsOK
  <2>2. StartAtOnce(b, a, apps)
    BY <1>2, <1>5, <1>7, <1>13, <2>1
       DEF ScheduleDeployNewVersion, ReplaceQueuedSource, Enqueue, StartAtOnce
  <2>3. p = b
    BY <1>7, <2>2 DEF StartAtOnce
  <2>4. promise'[b] \in {"pending", "rejected"}
    BY <1>1, <1>5, <2>2 DEF StartAtOnce, TypeOK
  <2>5. apps'[a] = CreateNewVersion(apps[a])
    BY <1>1, <1>2, <2>2 DEF StartAtOnce, StartDeployingNewVersion, TypeOK
  <2>6. v # 0 => Numbered(a, v + 1, b)'
    BY <1>2, <1>4, <1>5, <1>8, <2>5, StartedIsNumbered
  <2>7. QED BY <2>3, <2>4, <2>6
<1>14. JobOK(d)'
  <2>1. /\ source'[d] \in Builds /\ source'[d] <= calls'
        /\ awaits'[d] \in Builds /\ awaits'[d] <= calls'
        /\ previous'[d] \in Nat
    BY <1>5, <1>7, <1>8, <1>11
  <2>2. ASSUME awaits'[d] \in attached'
        PROVE  /\ promise'[awaits'[d]] # "lost"
               /\ previous'[d] # 0 => Numbered(AppOf(d), previous[d] + 1, source[d])'
    BY <1>11, <1>12, <1>13, <2>2 DEF Numbered
  <2>3. QED BY <1>11, <1>12, <2>1, <2>2 DEF JobOK
<1>15. ASSUME NEW e \in Jobs, e # d, UnderWay(e)' PROVE JobOK(e)'
  <2>1. UnderWay(e) /\ JobOK(e)
    BY <1>1, <1>11, <1>15 DEF UnderWay, JobsOK
  <2>2. QED BY <1>1, <1>2, <1>6, <1>11, <1>15, <2>1, JobStays
<1>16. JobsOK'
  BY <1>14, <1>15 DEF JobsOK
<1>17. QED BY <1>4, <1>6, <1>9, <1>10, <1>16 DEF DeployInv

\* What the two ways to begin the deployment of a new app have in common: the
\* agent's source is queued behind a promise that is no build's chain.
NewStep(d, a, p, b, q) ==
    /\ p \in Builds /\ b \in Builds /\ q \in {p, b}
    /\ p = calls + 1 /\ b = calls + 2 /\ calls \in Nat /\ calls' = b
    /\ shifts = 0 /\ shifts' = 0
    /\ apps[a] = NoApp
    /\ apps' = [apps EXCEPT ![a] = FreshDefinition]
    /\ active' = [active EXCEPT ![a] = TRUE]
    /\ appOf' = [appOf EXCEPT ![p] = a, ![b] = a]
    /\ queue' = Append(queue, [app |-> a, source |-> b, promise |-> q])
    /\ \/ /\ phase' = [phase EXCEPT ![p] = "building", ![b] = "queued"]
          /\ attached' = attached \cup {p} /\ q = b
       \/ /\ phase' = [phase EXCEPT ![p] = "replaced", ![b] = "queued"]
          /\ attached' = attached /\ isAnyBuildRunning
    /\ version' \in [Builds -> Nat]
    /\ \A c \in Builds : c # p => version'[c] = version[c]
    /\ promise' \in [Builds -> PromiseStates]
    /\ promise'[p] = "pending" /\ promise'[b] \in {"pending", promise[b]}
    /\ \A c \in Builds : c \notin {p, b} => promise'[c] = promise[c]
    /\ before' = apps'
    /\ job[d] = "idle"
    /\ job' = [job EXCEPT ![d] = "new"]
    /\ source' = [source EXCEPT ![d] = b]
    /\ awaits' = [awaits EXCEPT ![d] = q]
    /\ UNCHANGED <<service, removal, restarts, previous, restoring, content>>

\* Both are of that form.
LEMMA NewIsNewStep ==
    ASSUME TypeOK, NEW d \in Jobs, NEW a \in Apps,
           \/ NewStartsPlaceholder(d, a, calls + 1, calls + 2)
           \/ NewReplacesPlaceholder(d, a, calls + 1, calls + 2)
    PROVE  \E p, b, q \in Builds : NewStep(d, a, p, b, q)
<1>1. PICK p \in Nat, b \in Nat : p = calls + 1 /\ b = calls + 2 /\ calls \in Nat
  BY DEF TypeOK
<1>2. \/ NewStartsPlaceholder(d, a, p, b)
      \/ NewReplacesPlaceholder(d, a, p, b)
  BY <1>1
<1>3. BeginNew(d, a, p, b)
  BY <1>2 DEF NewStartsPlaceholder, NewReplacesPlaceholder
<1>4. p \in Builds /\ b \in Builds /\ p # b
  BY <1>1, <1>3, BoundsAssumption DEF BeginNew, Builds
<1>5. CASE NewStartsPlaceholder(d, a, p, b)
  <2>1. version' \in [Builds -> Nat] /\ \A c \in Builds : c # p => version'[c] = version[c]
    BY <1>4, <1>5, FreshIsDef, NewNumberIsReached DEF NewStartsPlaceholder, TypeOK
  <2>2. /\ promise' \in [Builds -> PromiseStates]
        /\ promise'[p] = "pending" /\ promise'[b] = "pending"
        /\ \A c \in Builds : c \notin {p, b} => promise'[c] = promise[c]
    BY <1>4, <1>5 DEF NewStartsPlaceholder, TypeOK, PromiseStates
  <2>3. NewStep(d, a, p, b, b)
    BY <1>1, <1>3, <1>4, <1>5, <2>1, <2>2
       DEF NewStep, NewStartsPlaceholder, BeginNew, Quiet
  <2>4. QED BY <1>4, <2>3
<1>6. CASE NewReplacesPlaceholder(d, a, p, b)
  <2>1. version' \in [Builds -> Nat] /\ version' = version
    BY <1>6 DEF NewReplacesPlaceholder, TypeOK
  <2>2. /\ promise' \in [Builds -> PromiseStates]
        /\ promise'[p] = "pending" /\ promise'[b] = promise[b]
        /\ \A c \in Builds : c \notin {p, b} => promise'[c] = promise[c]
    BY <1>4, <1>6 DEF NewReplacesPlaceholder, TypeOK, PromiseStates
  <2>3. NewStep(d, a, p, b, p)
    BY <1>1, <1>3, <1>4, <1>6, <2>1, <2>2
       DEF NewStep, NewReplacesPlaceholder, BeginNew, Quiet
  <2>4. QED BY <1>4, <2>3
<1>7. QED BY <1>2, <1>5, <1>6

\* The queue with the new entry.
LEMMA NewKeepsQueue ==
    ASSUME TypeOK, QueueInv, HaveDefs, ChainsOK,
           NEW d \in Jobs, NEW a \in Apps, NEW p, NEW b, NEW q, NewStep(d, a, p, b, q)
    PROVE  /\ queue' \in Seq(QueueEntry) /\ QueueInv'
           /\ \A i \in 1..Len(queue') :
                  \/ queue'[i] \in QueueEntry /\ queue'[i].app = a /\ queue'[i].promise = q
                  \/ i \in 1..Len(queue) /\ queue'[i] = queue[i]
<1> DEFINE n == Len(queue)
           e == [app |-> a, source |-> b, promise |-> q]
<1>1. /\ p \in Builds /\ b \in Builds /\ q \in Builds /\ p # b
      /\ p > calls /\ b > calls /\ calls' = b /\ p <= b /\ shifts = 0
  BY DEF NewStep
<1>2. phase[p] = "unused" /\ phase[b] = "unused"
  BY <1>1 DEF QueueInv, LaterCallsUnused
<1>3. \A c \in Builds : /\ c # p /\ c # b => phase'[c] = phase[c] /\ appOf'[c] = appOf[c]
                        /\ phase'[p] \in {"building", "replaced"} /\ phase'[b] = "queued"
                        /\ appOf'[p] = a /\ appOf'[b] = a
  BY <1>1 DEF NewStep, TypeOK
<1>4. e \in QueueEntry /\ e.app = a /\ e.source = b /\ e.promise = q
  BY <1>1 DEF QueueEntry
<1>5. /\ queue' \in Seq(QueueEntry) /\ Len(queue') = n + 1 /\ n \in Nat
      /\ \A i \in 1..n : queue'[i] = queue[i]
      /\ queue'[n + 1] = e
  BY <1>4, QueueTyped DEF NewStep
<1>6. \A i \in 1..n : /\ queue[i].source \in Builds \ {p, b}
                     /\ phase[queue[i].source] = "queued"
                     /\ appOf[queue[i].source] = queue[i].app
                     /\ queue[i].app # a
  BY <1>1, <1>2, QueueTyped DEF QueueInv, EntriesAreQueued, HaveDefs, NewStep
<1>7. EntriesAreQueued'
  <2> SUFFICES ASSUME NEW i \in 1..(n + 1)
               PROVE  /\ phase'[queue'[i].source] = "queued"
                      /\ appOf'[queue'[i].source] = queue'[i].app
    BY <1>5 DEF EntriesAreQueued
  <2>1. CASE i = n + 1
    BY <1>1, <1>3, <1>4, <1>5, <2>1
  <2>2. CASE i \in 1..n
    BY <1>3, <1>5, <1>6, <2>2
  <2>3. QED BY <1>5, <2>1, <2>2
<1>8. QueuedHaveEntries'
  <2> SUFFICES ASSUME NEW c \in Builds, phase'[c] = "queued"
               PROVE  \E i \in 1..(n + 1) : queue'[i].source = c
    BY <1>5 DEF QueuedHaveEntries
  <2>1. CASE c = b
    BY <1>4, <1>5, <2>1
  <2>2. CASE c # b
    <3>1. PICK i \in 1..n : queue[i].source = c
      BY <1>3, <2>2 DEF QueueInv, QueuedHaveEntries
    <3>2. i \in 1..(n + 1) /\ queue'[i].source = c
      BY <1>5, <3>1
    <3>3. QED BY <3>2
  <2>3. QED BY <2>1, <2>2
<1>9. LaterCallsUnused'
  <2>1. \A c \in Builds : c > b => c # p /\ c # b /\ c > calls
    BY <1>1, BuildsFacts DEF NewStep
  <2>2. QED BY <1>1, <1>3, <2>1 DEF QueueInv, LaterCallsUnused
<1>10. Marked'
  <2> SUFFICES ASSUME NEW x \in Apps, active'[x]
               PROVE  \/ \E i \in 1..(n + 1) : queue'[i].app = x
                      \/ \E c \in Builds : phase'[c] = "building" /\ appOf'[c] = x
    BY <1>5 DEF Marked
  <2>1. CASE x = a
    BY <1>4, <1>5, <2>1
  <2>2. CASE x # a
    <3>1. active[x]
      BY <2>2 DEF NewStep, TypeOK
    <3>2. CASE \E i \in 1..n : queue[i].app = x
      BY <1>5, <3>2
    <3>3. CASE \E c \in Builds : phase[c] = "building" /\ appOf[c] = x
      BY <1>2, <1>3, <3>3
    <3>4. QED BY <3>1, <3>2, <3>3 DEF QueueInv, Marked
  <2>3. QED BY <2>1, <2>2
<1>11. NotStranded'
  <2>1. CASE phase'[p] = "building"
    BY <1>1, <2>1 DEF NotStranded
  <2>2. CASE isAnyBuildRunning
    <3>1. PICK x \in Apps : active[x]
      BY <2>2 DEF isAnyBuildRunning
    <3>2. \E c \in Builds : phase[c] = "building"
      <4>1. CASE \E i \in 1..n : queue[i].app = x
        <5>1. n > 0
          BY <1>5, <4>1
        <5>2. QED BY <1>1, <5>1 DEF QueueInv, NotStranded
      <4>2. CASE \E c \in Builds : phase[c] = "building" /\ appOf[c] = x
        BY <4>2
      <4>3. QED BY <3>1, <4>1, <4>2 DEF QueueInv, Marked
    <3>3. QED BY <1>2, <1>3, <3>2 DEF NotStranded
  <2>3. QED BY <1>1, <2>1, <2>2 DEF NewStep, TypeOK
<1>12. OneEntry'
  <2> SUFFICES ASSUME NEW i \in 1..(n + 1), NEW j \in 1..(n + 1),
                      queue'[i].app = queue'[j].app
               PROVE  i = j
    BY <1>5 DEF OneEntry
  <2>1. CASE i \in 1..n /\ j \in 1..n
    BY <1>5, <2>1 DEF QueueInv, OneEntry
  <2>2. CASE i = n + 1 \/ j = n + 1
    <3>1. \A k \in 1..(n + 1) : queue'[k].app = a => k = n + 1
      BY <1>5, <1>6
    <3>2. QED BY <1>4, <1>5, <2>2, <3>1
  <2>3. QED BY <1>5, <2>1, <2>2
<1>13. \A i \in 1..Len(queue') :
           \/ queue'[i] \in QueueEntry /\ queue'[i].app = a /\ queue'[i].promise = q
           \/ i \in 1..Len(queue) /\ queue'[i] = queue[i]
  <2> SUFFICES ASSUME NEW i \in 1..(n + 1)
               PROVE  \/ queue'[i] = e
                      \/ i \in 1..n /\ queue'[i] = queue[i]
    BY <1>4, <1>5
  <2>1. QED BY <1>5
<1>14. QED
  BY <1>5, <1>7, <1>8, <1>9, <1>10, <1>11, <1>12, <1>13 DEF QueueInv

\* The other facts of the scheduler after such a step.
LEMMA NewGrows ==
    ASSUME TypeOK, DefsOK(apps), QueueInv, HaveDefs, ChainsOK,
           NEW d \in Jobs, NEW a \in Apps, NEW p, NEW b, NEW q, NewStep(d, a, p, b, q)
    PROVE  /\ TypeOK' /\ DefsOK(apps)' /\ Grows /\ ChainsOK'
           /\ q \notin attached' /\ apps'[a] # NoApp
<1>1. /\ p \in Builds /\ b \in Builds /\ q \in {p, b} /\ p # b
      /\ p > calls /\ b > calls /\ calls' = b /\ p <= b /\ calls \in Nat /\ calls' \in Nat
  BY DEF NewStep
<1>2. FreshDefinition # NoApp
  BY FreshIsDef, NoAppAssumption DEF IsDef
<1>3. DefsOK(apps)'
  <2>1. DefsOK([apps EXCEPT ![a] = FreshDefinition])
    BY FreshIsDef, DefsUpdate
  <2>2. QED BY <2>1 DEF NewStep, DefsOK
<1>4. phase[p] = "unused" /\ phase[b] = "unused"
  BY <1>1 DEF QueueInv, LaterCallsUnused
<1>5. /\ \A c \in Builds : c # p /\ c # b => phase'[c] = phase[c] /\ appOf'[c] = appOf[c]
      /\ phase'[p] \in {"building", "replaced"} /\ phase'[b] = "queued"
      /\ appOf'[p] = a /\ appOf'[b] = a
  BY <1>1 DEF NewStep, TypeOK
<1>6. \A x \in Apps : apps'[x] = IF x = a THEN FreshDefinition ELSE apps[x]
  BY DEF NewStep, TypeOK
<1>7. queue' \in Seq(QueueEntry)
  BY NewKeepsQueue
<1>8. calls' \in 0..MaxBuilds
  BY <1>1 DEF Builds
<1>9. TypeOK'
  <2>1. /\ apps' \in [Apps -> Definition(Images) \cup {NoApp}]
        /\ active' \in [Apps -> BOOLEAN]
        /\ appOf' \in [Builds -> Apps \cup {NoApp}]
        /\ phase' \in [Builds -> Phases]
        /\ attached' \subseteq Builds
    BY <1>1, <1>3 DEF NewStep, TypeOK, Phases, DefsOK
  <2>2. QED BY <1>7, <1>8, <2>1 DEF NewStep, TypeOK
<1>10. DefsGrow
  BY <1>6 DEF DefsGrow, NewStep
<1>11. BuildsGrow
  <2> SUFFICES ASSUME NEW c \in Builds, phase'[c] = "building"
               PROVE  Continues(c) \/ Begins(c)
    BY DEF BuildsGrow
  <2>1. CASE c = p
    BY <1>2, <1>5, <1>6, <2>1 DEF Begins, NewStep
  <2>2. CASE c # p
    BY <1>5, <2>2 DEF Continues, NewStep
  <2>3. QED BY <2>1, <2>2
<1>12. q \notin attached' /\ \A c \in attached : c \in Builds /\ c <= calls /\ c # p /\ c # b
  <2>1. \A c \in attached : c \in Builds /\ c <= calls
    BY DEF ChainsOK, TypeOK
  <2>2. \A c \in attached : c # p /\ c # b
    BY <1>1, <2>1, BuildsFacts
  <2>3. QED BY <1>1, <2>1, <2>2 DEF NewStep
<1>13. \A i \in 1..Len(queue') :
           \/ queue'[i].app = a /\ queue'[i].promise = q
           \/ i \in 1..Len(queue) /\ queue'[i] = queue[i]
  BY NewKeepsQueue
<1>19. \A c \in Builds : c <= calls => c # p /\ c # b /\ c <= calls'
  BY <1>1, BuildsFacts
<1>14. \A i \in 1..Len(queue) : /\ queue[i].app \in Apps /\ queue[i].promise \in Builds
                               /\ apps'[queue[i].app] # NoApp
                               /\ queue[i].promise <= calls /\ queue[i].promise \notin attached
                               /\ queue[i].promise # p /\ queue[i].promise # b
  <2>1. \A i \in 1..Len(queue) : queue[i].app \in Apps /\ queue[i].promise \in Builds
    <3>1. \A i \in 1..Len(queue) : queue[i] \in QueueEntry
      BY DEF TypeOK
    <3>2. QED BY <3>1 DEF QueueEntry
  <2>2. \A i \in 1..Len(queue) : queue[i].promise <= calls /\ queue[i].promise \notin attached
    BY DEF ChainsOK
  <2>3. \A i \in 1..Len(queue) : queue[i].promise # p /\ queue[i].promise # b
    BY <1>19, <2>1, <2>2
  <2>4. QED BY <1>2, <1>6, <2>1, <2>2, <2>3 DEF HaveDefs
<1>15. QueueGrows
  <2> SUFFICES ASSUME NEW i \in 1..Len(queue')
               PROVE  /\ apps'[queue'[i].app] # NoApp
                      /\ \/ queue'[i].promise > calls /\ queue'[i].promise <= calls'
                            /\ queue'[i].promise \notin attached'
                         \/ \E j \in 1..Len(queue) : queue'[i].promise = queue[j].promise
    BY DEF QueueGrows
  <2>1. CASE queue'[i].app = a /\ queue'[i].promise = q
    BY <1>1, <1>2, <1>6, <1>12, <2>1
  <2>2. CASE i \in 1..Len(queue) /\ queue'[i] = queue[i]
    BY <1>14, <2>2
  <2>3. QED BY <1>13, <2>1, <2>2
<1>16. CallsGrow
  <2>1. \A c \in Builds : c <= calls => c # p /\ c # b
    BY <1>1, BuildsFacts
  <2>2. \A c \in Builds : c # p => (c \in attached' <=> c \in attached)
    BY DEF NewStep
  <2>3. \A c \in Builds : c # p /\ c # b => promise'[c] = promise[c]
    BY DEF NewStep
  <2>4. QED BY <1>1, <1>5, <2>1, <2>2, <2>3 DEF CallsGrow
<1>17. ChainsOK'
  <2>1. \A c \in attached' : c = p \/ c \in attached
    BY DEF NewStep
  <2>2. p \in attached' => phase'[p] = "building"
    BY <1>1, <1>12 DEF NewStep, TypeOK
  <2>3. promise'[p] = "pending" /\ \A c \in Builds : c # p /\ c # b => promise'[c] = promise[c]
    BY DEF NewStep
  <2>4. \A c \in attached' :
            /\ c <= calls' /\ promise'[c] # "none"
            /\ promise'[c] = "pending" => phase'[c] \in {"building", "deploying"}
    <3> SUFFICES ASSUME NEW c \in attached'
                 PROVE  /\ c <= calls' /\ promise'[c] # "none"
                        /\ promise'[c] = "pending" => phase'[c] \in {"building", "deploying"}
      OBVIOUS
    <3>1. CASE c = p
      BY <1>1, <2>2, <2>3, <3>1
    <3>2. CASE c # p
      <4>1. c \in attached /\ c \in Builds /\ c # b /\ c <= calls
        BY <1>12, <2>1, <3>2
      <4>2. c <= calls'
        BY <1>1, <4>1, BuildsFacts
      <4>3. QED BY <1>5, <2>3, <3>2, <4>1, <4>2 DEF ChainsOK
    <3>3. QED BY <3>1, <3>2
  <2>5. \A c \in Builds : promise'[c] \in {"resolved", "rejected"} => c \in attached'
    <3>1. promise'[b] \notin {"resolved", "rejected"}
      <4>1. promise[b] \notin {"resolved", "rejected"}
        BY <1>1, <1>12 DEF ChainsOK
      <4>2. QED BY <4>1 DEF NewStep
    <3>2. \A c \in attached : c \in attached'
      BY DEF NewStep
    <3>3. QED BY <2>3, <3>1, <3>2 DEF ChainsOK
  <2>6. \A i \in 1..Len(queue') : queue'[i].promise <= calls' /\ queue'[i].promise \notin attached'
    <3> SUFFICES ASSUME NEW i \in 1..Len(queue')
                 PROVE  queue'[i].promise <= calls' /\ queue'[i].promise \notin attached'
      OBVIOUS
    <3>1. CASE queue'[i].promise = q
      BY <1>1, <1>12, <3>1
    <3>2. CASE i \in 1..Len(queue) /\ queue'[i] = queue[i]
      <4>1. queue[i].promise <= calls' /\ queue[i].promise \notin attached'
        <5>1. /\ queue[i].promise \in Builds /\ queue[i].promise <= calls
              /\ queue[i].promise \notin attached /\ queue[i].promise # p
          BY <1>14, <3>2
        <5>2. QED BY <1>19, <2>1, <5>1
      <4>2. QED BY <3>2, <4>1
    <3>3. QED BY <1>13, <3>1, <3>2
  <2>7. QED BY <2>4, <2>5, <2>6 DEF ChainsOK
<1>18. QED BY <1>2, <1>3, <1>6, <1>9, <1>10, <1>11, <1>12, <1>15, <1>16, <1>17 DEF Grows

\* The deployment of a new app begins.
LEMMA NewKeepsDeploys ==
    ASSUME DeployInv, NEW d \in Jobs, NEW a \in Apps, NEW p, NEW b, NEW q,
           NewStep(d, a, p, b, q)
    PROVE  DeployInv'
<1>1. /\ DeployTypes /\ DeployTypeOK /\ TypeOK /\ DefsOK(apps)
      /\ QueueInv /\ ReadsOK /\ HaveDefs /\ ChainsOK /\ JobsOK
  BY DEF DeployInv, DeployTypes, DeployTypeOK
<1>2. /\ TypeOK' /\ DefsOK(apps)' /\ Grows /\ ChainsOK' /\ QueueInv'
      /\ q \notin attached' /\ apps'[a] # NoApp
  BY <1>1, NewGrows, NewKeepsQueue
<1>3. /\ p \in Builds /\ b \in Builds /\ q \in Builds /\ calls' = b /\ q <= b /\ b <= b
      /\ before' = apps' /\ appOf'[b] = a
  BY <1>1 DEF NewStep, TypeOK
<1>4. /\ job'[d] = "new" /\ source'[d] = b /\ awaits'[d] = q
      /\ \A e \in Jobs : e # d => /\ job'[e] = job[e] /\ source'[e] = source[e]
                                  /\ awaits'[e] = awaits[e] /\ previous'[e] = previous[e]
  BY <1>1 DEF NewStep, DeployTypeOK
<1>5. DeployTypes'
  <2>1. before' \in [Apps -> Definition(Images) \cup {NoApp}] /\ DefsOK(before)'
    BY <1>2, <1>3 DEF DefsOK
  <2>2. /\ job' \in [Jobs -> JobStates]
        /\ awaits' \in [Jobs -> Builds \cup {NoCall}]
        /\ source' \in [Jobs -> Builds \cup {NoCall}]
        /\ UNCHANGED <<previous, restoring, content>>
    BY <1>1, <1>3 DEF NewStep, DeployTypeOK, JobStates
  <2>3. NoCall \notin Builds
    BY DEF NoCall, Builds
  <2>4. \A e \in Jobs : job'[e] \in {"new", "replacing", "undoing"} =>
            awaits'[e] # NoCall /\ source'[e] # NoCall
    BY <1>1, <1>3, <1>4, <2>3 DEF DeployTypeOK
  <2>5. QED BY <1>1, <1>2, <2>1, <2>2, <2>4 DEF DeployTypes, DeployTypeOK
<1>6. ReadsOK' /\ HaveDefs'
  BY <1>1, <1>2, <1>3, ReadsStay, HaveDefsStay
<1>7. JobOK(d)'
  BY <1>2, <1>3, <1>4 DEF JobOK, AppOf
<1>8. ASSUME NEW e \in Jobs, e # d, UnderWay(e)' PROVE JobOK(e)'
  <2>1. UnderWay(e) /\ JobOK(e)
    BY <1>1, <1>4, <1>8 DEF UnderWay, JobsOK
  <2>2. QED BY <1>1, <1>2, <1>3, <1>4, <1>8, <2>1, JobStays
<1>9. JobsOK'
  BY <1>7, <1>8 DEF JobsOK
<1>10. QED BY <1>2, <1>5, <1>6, <1>9 DEF DeployInv

\* A job that ends changes no more than the definition of one app, to one with
\* the versions it has read.
WritesBack(a, def) ==
    /\ IsDef(def)
    /\ VersionsOf(def) = VersionsOf(before[a])
    /\ \A u : HasVersion(def, u) <=> HasVersion(before[a], u)
    /\ HasVersion(def, def.deployedVersion)

\* Such an end keeps the invariant.
LEMMA EndKeepsDeploys ==
    ASSUME DeployInv, NEW d \in Jobs, UNCHANGED <<buildVars, removal, restarts>>,
           job[d] \in {"new", "replacing", "undoing"},
           \/ apps' = apps
           \/ \E a \in Apps : \E def :
                  /\ apps[a] # NoApp
                  /\ WritesBack(a, def)
                  /\ apps' = [apps EXCEPT ![a] = def],
           before' = apps' \/ (before' = before /\ apps' = apps),
           service' \in [Apps -> Images \cup {NoService}],
           NEW s \in {"undoing", "succeeded", "failed"}, job' = [job EXCEPT ![d] = s],
           restoring' \in [Jobs -> Images \cup {NoImage}],
           UNCHANGED <<awaits, source, previous, content>>
    PROVE  DeployInv'
<1>1. /\ DeployTypes /\ DeployTypeOK /\ TypeOK /\ DefsOK(apps) /\ DefsOK(before)
      /\ QueueInv /\ ReadsOK /\ HaveDefs /\ ChainsOK /\ JobsOK
  BY DEF DeployInv, DeployTypes, DeployTypeOK
<1>2. UNCHANGED <<active, queue, shifts, calls, appOf, phase, version, attached, promise>>
  BY DEF buildVars
<1>3. QueueInv' /\ ChainsOK'
  BY <1>1, <1>2 DEF QueueInv, EntriesAreQueued, QueuedHaveEntries, LaterCallsUnused,
                    Marked, NotStranded, OneEntry, ChainsOK
<1>4. ASSUME NEW x \in Apps
      PROVE  /\ apps'[x] = NoApp <=> apps[x] = NoApp
             /\ apps[x] # NoApp => apps'[x] = apps[x] \/ WritesBack(x, apps'[x])
  <2>1. \A def : IsDef(def) => def # NoApp
    BY NoAppAssumption DEF IsDef
  <2>2. QED BY <1>1, <2>1 DEF TypeOK, WritesBack
<1>5. DefsOK(apps)'
  <2>1. \A a \in Apps : \A def : WritesBack(a, def) => DefsOK([apps EXCEPT ![a] = def])
    BY <1>1, DefsUpdate DEF WritesBack
  <2>2. QED BY <1>1, <2>1 DEF DefsOK
<1>6. TypeOK'
  BY <1>1, <1>2, <1>5 DEF TypeOK, DefsOK
<1>7. /\ job'[d] = s /\ \A e \in Jobs : e # d => job'[e] = job[e]
      /\ job' \in [Jobs -> JobStates]
  BY <1>1 DEF DeployTypeOK, JobStates
<1>8. DeployTypes'
  <2>1. DefsOK(before)'
    BY <1>1, <1>5 DEF DefsOK
  <2>2. before' \in [Apps -> Definition(Images) \cup {NoApp}]
    BY <2>1 DEF DefsOK
  <2>3. \A e \in Jobs : job'[e] \in {"new", "replacing", "undoing"} =>
            awaits'[e] # NoCall /\ source'[e] # NoCall
    BY <1>1, <1>7 DEF DeployTypeOK
  <2>4. QED BY <1>1, <1>5, <1>6, <1>7, <2>1, <2>2, <2>3 DEF DeployTypes, DeployTypeOK
<1>9. ASSUME NEW x \in Apps, apps[x] # NoApp
      PROVE  Known(apps'[x])
  <2>1. Known(apps[x]) /\ Known(before[x])
    BY <1>1, <1>9 DEF ReadsOK
  <2>2. CASE WritesBack(x, apps'[x])
    <3>1. apps'[x].deployedVersion \in Nat
      BY <2>2 DEF WritesBack, IsDef, Definition
    <3>2. Reaches(apps'[x], apps'[x].deployedVersion)
      BY <2>2, <3>1 DEF WritesBack, Reaches
    <3>3. QED BY <2>1, <2>2, <3>2 DEF Known, WritesBack
  <2>3. QED BY <1>4, <1>9, <2>1, <2>2
<1>10. ReadsOK'
  <2>1. CASE before' = apps'
    BY <1>2, <1>4, <1>9, <2>1 DEF ReadsOK, Known
  <2>2. CASE before' = before /\ apps' = apps
    BY <1>1, <1>2, <2>2 DEF ReadsOK, Known
  <2>3. QED BY <2>1, <2>2
<1>11. HaveDefs'
  BY <1>1, <1>2, <1>4, QueueTyped DEF HaveDefs
<1>12. ASSUME NEW a \in Apps, apps[a] # NoApp, NEW v \in Nat, NEW n, Numbered(a, v, n)
       PROVE  Numbered(a, v, n)'
  <2>1. BuiltBy(apps[a], v, n) /\ BuiltBy(before[a], v, n)
    BY <1>12 DEF Numbered
  <2>2. BuiltBy(apps'[a], v, n)
    BY <1>4, <1>12, <2>1 DEF WritesBack, BuiltBy, Reaches
  <2>3. BuiltBy(before'[a], v, n)
    BY <2>1, <2>2
  <2>4. QED BY <1>2, <1>12, <2>2, <2>3 DEF Numbered, BuiltBy
<1>13. ASSUME NEW e \in Jobs, UnderWay(e)'
       PROVE  JobOK(e)'
  <2>1. UnderWay(e) /\ JobOK(e)
    BY <1>1, <1>7, <1>13 DEF UnderWay, JobsOK
  <2>2. AppOf(e)' = AppOf(e) /\ AppOf(e) \in Apps /\ apps[AppOf(e)] # NoApp
        /\ apps'[AppOf(e)] # NoApp
    BY <1>2, <1>4, <2>1 DEF AppOf, JobOK
  <2>3. CASE e = d
    <3>1. job'[e] = "undoing"
      BY <1>7, <1>13, <2>3 DEF UnderWay
    <3>2. QED BY <1>2, <2>1, <2>2, <3>1 DEF JobOK
  <2>4. CASE e # d
    <3>1. job'[e] = job[e]
      BY <1>7, <2>4
    <3>2. ASSUME job[e] = "replacing", awaits[e] \in attached, previous[e] # 0
          PROVE  Numbered(AppOf(e), previous[e] + 1, source[e])'
      <4>1. PICK a \in Apps, v \in Nat, n \in Builds :
                a = AppOf(e) /\ v = previous[e] + 1 /\ n = source[e]
        BY <2>1, <2>2, <3>2 DEF JobOK
      <4>2. Numbered(a, v, n)
        BY <2>1, <3>2, <4>1 DEF JobOK
      <4>3. Numbered(a, v, n)'
        BY <1>12, <2>2, <4>1, <4>2
      <4>4. a = AppOf(e)' /\ v = previous'[e] + 1 /\ n = source'[e]
        BY <2>2, <4>1
      <4>5. QED BY <4>3, <4>4
    <3>3. QED BY <1>2, <2>1, <2>2, <3>1, <3>2 DEF JobOK
  <2>5. QED BY <2>3, <2>4
<1>14. JobsOK'
  BY <1>13 DEF JobsOK
<1>15. QED BY <1>3, <1>8, <1>10, <1>11, <1>14 DEF DeployInv

\* A job that is told of a failure had its build started at once, so that the
\* numbers up to the next one are known.
LEMMA FailedJob ==
    ASSUME DeployInv, NEW d \in Jobs, Told(d, "rejected")
    PROVE  /\ job[d] = "replacing" /\ JobOK(d) /\ awaits[d] \in attached
           /\ previous[d] \in Nat
           /\ previous[d] # 0 => Numbered(AppOf(d), previous[d] + 1, source[d])
<1>1. UnderWay(d) /\ JobOK(d)
  BY DEF DeployInv, JobsOK, Told, UnderWay
<1>2. awaits[d] \in attached
  BY <1>1 DEF DeployInv, ChainsOK, Told, JobOK
<1>3. job[d] = "replacing"
  BY <1>1, <1>2 DEF Told, JobOK
<1>4. QED BY <1>1, <1>2, <1>3 DEF JobOK

\* The failure of a build, and what its job puts back.
LEMMA JobFailsKeepsDeploys ==
    ASSUME DeployInv, NEW d \in Jobs, JobFails(d)
    PROVE  DeployInv'
<1>1. Told(d, "rejected") /\ job[d] = "replacing" /\ JobOK(d) /\ previous[d] \in Nat
  BY FailedJob DEF JobFails
<1>2. /\ before' = apps'
      /\ UNCHANGED <<service, buildVars, removal, restarts, awaits, source, previous, content>>
  BY DEF JobFails
<1>3. DeployTypeOK /\ TypeOK /\ ReadsOK /\ DefsOK(before) /\ service \in [Apps -> Images \cup {NoService}]
  BY DEF DeployInv, DeployTypes, DeployTypeOK, TypeOK
<1>4. CASE ~MayRollBack(d)
  <2>1. job' = [job EXCEPT ![d] = "failed"] /\ apps' = apps /\ restoring' = restoring
    BY <1>1, <1>4 DEF JobFails
  <2>2. restoring' \in [Jobs -> Images \cup {NoImage}]
    BY <1>3, <2>1 DEF DeployTypeOK
  <2>3. QED BY <1>1, <1>2, <1>3, <2>1, <2>2, EndKeepsDeploys
<1>5. CASE MayRollBack(d)
  <2> DEFINE a == AppOf(d)
             def == RollBack(before[a], previous[d])
  <2>1. a \in Apps /\ apps[a] # NoApp
    BY <1>1 DEF JobOK
  <2>2. Undo(d, def)
    BY <1>1, <1>5 DEF JobFails, ReadBy
  <2>3. IsDef(before[a])
    BY <1>3, <2>1, DefsMember DEF ReadsOK
  <2>4. HasVersion(before[a], previous[d])
    BY <1>5 DEF MayRollBack, CanRollBack, ReadBy, HasVersion
  <2>5. WritesBack(a, def)
    BY <1>1, <2>3, <2>4, UndoVersions DEF WritesBack
  <2>6. DeployedImage(def) \in Images \cup {NoImage}
    <3>1. CASE HasVersion(def, def.deployedVersion)
      <4>1. def.deployedVersion \in Nat /\ IsDef(def)
        BY <2>5 DEF WritesBack, IsDef, Definition
      <4> DEFINE k == Min(IndexesOf(def, def.deployedVersion))
      <4>2. k \in DOMAIN def.versions
        BY <3>1, <4>1, OnlyIndex DEF IndexesOf
      <4>3. def.versions[k] \in VersionsOf(def)
        BY <4>2 DEF VersionsOf
      <4>4. def.versions[k] \in Version(Images)
        BY <4>1, <4>3, VersionsTyped
      <4>5. DeployedImage(def) = def.versions[k].image
        BY <3>1 DEF DeployedImage
      <4> HIDE DEF k, def
      <4>6. QED BY <4>4, <4>5 DEF Version
    <3>2. CASE ~HasVersion(def, def.deployedVersion)
      BY <3>2 DEF DeployedImage
    <3>3. QED BY <3>1, <3>2
  <2>7. restoring' \in [Jobs -> Images \cup {NoImage}]
    BY <1>3, <2>2, <2>6 DEF Undo, DeployTypeOK
  <2>8. apps' = [apps EXCEPT ![a] = def] /\ job' = [job EXCEPT ![d] = "undoing"]
    BY <2>2 DEF Undo
  <2> HIDE DEF a, def
  <2>9. QED BY <1>1, <1>2, <1>3, <2>1, <2>5, <2>7, <2>8, EndKeepsDeploys
<1>6. QED BY <1>4, <1>5

\* The end of an undoing.
LEMMA UndoEndsKeepsDeploys ==
    ASSUME DeployInv, NEW d \in Jobs, UndoEnds(d)
    PROVE  DeployInv'
<1>1. DeployTypeOK /\ TypeOK
  BY DEF DeployInv, DeployTypes, DeployTypeOK
<1>2. service' \in [Apps -> Images \cup {NoService}] /\ restoring' \in [Jobs -> Images \cup {NoImage}]
  BY <1>1 DEF UndoEnds, DeployTypeOK, TypeOK
<1>3. /\ job[d] = "undoing" /\ job' = [job EXCEPT ![d] = "failed"]
      /\ apps' = apps /\ before' = before
      /\ UNCHANGED <<buildVars, removal, restarts, awaits, source, previous, content>>
  BY DEF UndoEnds
<1>4. QED BY <1>2, <1>3, EndKeepsDeploys

\* The end of a deployment that succeeded.
LEMMA JobSucceedsKeepsDeploys ==
    ASSUME DeployInv, NEW d \in Jobs, JobSucceeds(d)
    PROVE  DeployInv'
<1>1. DeployTypeOK /\ TypeOK
  BY DEF DeployInv, DeployTypes, DeployTypeOK
<1>2. /\ job[d] \in {"new", "replacing"} /\ job' = [job EXCEPT ![d] = "succeeded"]
      /\ apps' = apps /\ before' = before /\ service' = service /\ restoring' = restoring
      /\ UNCHANGED <<buildVars, removal, restarts, awaits, source, previous, content>>
  BY DEF JobSucceeds, Told, vars
<1>3. service' \in [Apps -> Images \cup {NoService}] /\ restoring' \in [Jobs -> Images \cup {NoImage}]
  BY <1>1, <1>2 DEF DeployTypeOK, TypeOK
<1>4. QED BY <1>2, <1>3, EndKeepsDeploys

\* Every step keeps the invariant.
LEMMA DeployNextKeeps ==
    ASSUME DeployInv, [DeployNext]_allVars
    PROVE  DeployInv'
<1>1. ASSUME NEW d \in Jobs, NEW a \in Apps,
             \/ NewStartsPlaceholder(d, a, calls + 1, calls + 2)
             \/ NewReplacesPlaceholder(d, a, calls + 1, calls + 2)
      PROVE  DeployInv'
  <2>1. TypeOK
    BY DEF DeployInv, DeployTypes, DeployTypeOK
  <2>2. PICK p, b, q \in Builds : NewStep(d, a, p, b, q)
    BY <1>1, <2>1, NewIsNewStep
  <2>3. QED BY <2>2, NewKeepsDeploys
<1>2. CASE UNCHANGED allVars
  BY <1>2 DEF allVars, vars, buildVars, deployVars, DeployInv, DeployTypes, DeployTypeOK,
              TypeOK, DefsOK, QueueInv, EntriesAreQueued, QueuedHaveEntries,
              LaterCallsUnused, Marked, NotStranded, OneEntry, ReadsOK, Known, HaveDefs,
              ChainsOK, JobsOK, JobOK, UnderWay, AppOf, Numbered
<1>3. QED
  BY <1>1, <1>2, SchedulerStepKeepsDeploys, RestartKeepsDeploys, ReplacementKeepsDeploys,
     JobSucceedsKeepsDeploys, JobFailsKeepsDeploys, UndoEndsKeepsDeploys DEF DeployNext

\* The state of the deployments is well typed, whatever the scheduler, the jobs
\* and the restarts do, and so is what the jobs read of the definitions.
THEOREM DeploysTyped == DeploySpec => []DeployTypeOK
<1>1. DeployInv => DeployTypeOK
  BY DEF DeployInv, DeployTypes
<1>2. QED BY <1>1, DeployInitInv, DeployNextKeeps, PTL DEF DeploySpec

\* A replacement whose build was started at once is told of its end, or the end
\* is still to come: the builds of such calls settle their promises.
THEOREM ReplacementsAnswered == DeploySpec => []StartedReplacementsAreAnswered
<1>1. ASSUME DeployInv
      PROVE  StartedReplacementsAreAnswered
  <2> SUFFICES ASSUME NEW d \in Jobs, job[d] = "replacing", awaits[d] \in attached
               PROVE  d \in Due \/ phase[awaits[d]] \in {"building", "deploying"}
    BY DEF StartedReplacementsAreAnswered
  <2>1. awaits[d] \in Builds /\ promise[awaits[d]] # "lost"
    BY <1>1 DEF DeployInv, JobsOK, JobOK, UnderWay
  <2>2. promise[awaits[d]] \in {"pending", "resolved", "rejected"}
    BY <1>1, <2>1 DEF DeployInv, ChainsOK, DeployTypes, DeployTypeOK, TypeOK, PromiseStates
  <2>3. QED BY <1>1, <2>2 DEF DeployInv, ChainsOK, Due, Told
<1>2. QED BY <1>1, DeployInitInv, DeployNextKeeps, PTL DEF DeploySpec

\* No undoing takes back what was deployed after the agent: the version it finds
\* deployed carries the image of the agent's own call or of an earlier one.
THEOREM UndoingSparesLaterDeploys == DeploySpec => UndoKeepsLaterDeploys
<1>1. ASSUME DeployInv, [DeployNext]_allVars
      PROVE  \A d \in Jobs : job[d] = "replacing" /\ job'[d] = "undoing" =>
                 LET img == DeployedImage(apps[AppOf(d)])
                 IN  img \in Builds => img <= source[d]
  <2> SUFFICES ASSUME NEW d \in Jobs, job[d] = "replacing", job'[d] = "undoing",
                      DeployedImage(apps[AppOf(d)]) \in Builds
               PROVE  DeployedImage(apps[AppOf(d)]) <= source[d]
    OBVIOUS
  <2>1. job \in [Jobs -> JobStates] /\ DefsOK(apps) /\ ReadsOK
    BY <1>1 DEF DeployInv, DeployTypes, DeployTypeOK
  <2>2. JobFails(d)
    <3>1. \A e \in Jobs : \A s : job' = [job EXCEPT ![e] = s] => e = d /\ s = "undoing"
      BY <2>1
    <3>2. ~SchedulerStep /\ ~ShiftStep /\ ~UNCHANGED allVars
      BY DEF SchedulerStep, ShiftStep, deployVars, allVars
    <3>3. ~RestartStep
      BY <2>1 DEF RestartStep
    <3>4. PICK e \in Jobs :
            \/ \E a \in Apps : \/ BeginReplacement(e, a)
                             \/ NewStartsPlaceholder(e, a, calls + 1, calls + 2)
                             \/ NewReplacesPlaceholder(e, a, calls + 1, calls + 2)
            \/ JobSucceeds(e) \/ JobFails(e) \/ UndoEnds(e)
      BY <1>1, <3>2, <3>3, Zenon DEF DeployNext
    <3>5. ASSUME NEW a \in Apps
          PROVE  /\ ~BeginReplacement(e, a)
                 /\ ~NewStartsPlaceholder(e, a, calls + 1, calls + 2)
                 /\ ~NewReplacesPlaceholder(e, a, calls + 1, calls + 2)
      BY <3>1 DEF BeginReplacement, NewStartsPlaceholder, NewReplacesPlaceholder, BeginNew
    <3>6. ~JobSucceeds(e) /\ ~UndoEnds(e)
      BY <3>1 DEF JobSucceeds, UndoEnds
    <3>7. JobFails(e)
      BY <3>4, <3>5, <3>6, Zenon
    <3>8. e = d
      BY <3>1, <3>7 DEF JobFails, Undo
    <3>9. QED BY <3>7, <3>8
  <2>3. MayRollBack(d) /\ Told(d, "rejected")
    BY <2>1, <2>2 DEF JobFails
  <2>4. JobOK(d) /\ Numbered(AppOf(d), previous[d] + 1, source[d])
    BY <1>1, <2>3, FailedJob DEF MayRollBack, OwnsAttemptedVersion
  <2> DEFINE a == AppOf(d)
  <2>5. a \in Apps /\ apps[a] # NoApp
    BY <2>4 DEF JobOK
  <2>6. apps[a].deployedVersion = previous[d] + 1 /\ IsDef(apps[a]) /\ previous[d] \in Nat
    BY <2>1, <2>3, <2>5, DefsMember DEF ReadsOK, MayRollBack, OwnsAttemptedVersion, ReadBy
  <2>7. PICK x \in VersionsOf(apps[a]) :
            x.version = previous[d] + 1 /\ x.image = DeployedImage(apps[a])
    BY <2>6, DeployedIsAVersion
  <2>8. QED BY <2>4, <2>6, <2>7 DEF Numbered, BuiltBy
<1>2. QED BY <1>1, DeployInitInv, DeployNextKeeps, PTL DEF DeploySpec, UndoKeepsLaterDeploys
=============================================================================
