-------------------------- MODULE AgentAccessProofs --------------------------
(***************************************************************************)
(* The safety of the agent channel, for any keys, apps and handlers and    *)
(* any number of requests; then that of the keys themselves (AgentKeys).   *)
(***************************************************************************)
EXTENDS AgentAccess, AgentKeys, FiniteSetTheorems, TLAPS

(* The type invariant, in the parts an action disturbs together.           *)

KeysTyped ==
    /\ revoked \subseteq Keys /\ paused \subseteq Keys /\ lapsed \subseteq Keys
    /\ apps \subseteq Apps

RequestsTyped ==
    /\ made \in 0..MaxRequests
    /\ about \in [Ids -> Calls \cup {Nobody}]
    /\ \A r \in Made : about[r] # Nobody
    /\ status \in [Ids -> Statuses]
    /\ approvedBy \in [Ids -> {"none", "agent", "human"}]
    /\ reason \in [Ids -> {"none", "window", "deployment"}]

StoreTyped ==
    /\ stored \subseteq Made
    /\ newer \in [Ids -> SUBSET Ids]
    /\ overdue \subseteq Made
    /\ aged \subseteq Made

HandlersTyped ==
    /\ stage \in [Handlers -> Stages]
    /\ call \in [Handlers -> Calls \cup {Nobody}]
    /\ target \in [Handlers -> Made \cup {Nobody}]
    /\ \A h \in Handlers :
           /\ stage[h] = "create" => call[h] # Nobody
           /\ stage[h] \in {"start", "key", "update", "respond"} =>
                  target[h] # Nobody
    /\ actor \in [Handlers -> {"none", "agent", "human"}]
    /\ late \in [Handlers -> BOOLEAN]

RunsTyped ==
    /\ run \in [Ids -> RunStages]
    /\ launches \in [Ids -> Nat]
    /\ events \in 0..MaxEvents

Typed ==
    /\ KeysTyped
    /\ RequestsTyped
    /\ StoreTyped
    /\ HandlersTyped
    /\ RunsTyped

\* The parts are the type invariant.
LEMMA TypeParts == TypeOK <=> Typed
BY DEF TypeOK, Typed, KeysTyped, RequestsTyped, StoreTyped, HandlersTyped,
       RunsTyped

\* Requests are numbered without gaps, within the bound.
LEMMA MadeFacts ==
    ASSUME made \in 0..MaxRequests
    PROVE  Made \subseteq Ids
BY AccessAssumption DEF Made, Ids

\* Reading the requests keeps the store well typed.
LEMMA ReadTyped ==
    ASSUME RequestsTyped, StoreTyped, ReadRequests, made' = made
    PROVE  StoreTyped' /\ stored' \subseteq stored /\ overdue' = overdue
<1>1. stored' \subseteq stored /\ aged' = {} /\ overdue' = overdue
  BY DEF ReadRequests, Live
<1>2. newer' \in [Ids -> SUBSET Ids]
  BY DEF ReadRequests, StoreTyped, Live
<1>3. Made' = Made
  BY DEF Made
<1>4. QED BY <1>1, <1>2, <1>3 DEF StoreTyped

\* Writing a request adds no other to the store.
LEMMA WriteTyped ==
    ASSUME RequestsTyped, StoreTyped, made' \in 0..MaxRequests, made <= made',
           NEW r \in Made', WriteRequest(r)
    PROVE  /\ StoreTyped'
           /\ stored' \subseteq stored \cup {r}
           /\ overdue' = overdue
<1>1. Made \subseteq Made' /\ Made' \subseteq Ids /\ r \in Ids
  BY AccessAssumption DEF Made, Ids, RequestsTyped
<1>2. PICK S, after :
        /\ stored' = S /\ S \subseteq Live \cup {r}
        /\ after = Touched(r, Live)
        /\ newer' = [q \in Ids |-> IF q \in S THEN after[q] \cap S ELSE {}]
  BY DEF WriteRequest, Newest
<1>3. S \subseteq Ids /\ S \subseteq stored \cup {r}
  BY <1>1, <1>2 DEF Live, StoreTyped
<1>4. newer' \in [Ids -> SUBSET Ids]
  BY <1>2, <1>3
<1>5. aged' = {} /\ overdue' = overdue
  BY DEF WriteRequest
<1>6. QED BY <1>1, <1>2, <1>3, <1>4, <1>5 DEF StoreTyped

-----------------------------------------------------------------------------
(* What any step may do to the requests, the store and the keys.           *)

\* A status moves along pending -> running -> ended, or pending -> declined;
\* a deployment under way may set it whatever it is.
StatusStep(q) ==
    \/ status'[q] = status[q]
    \/ /\ q \in Made
       /\ \/ status[q] = "pending" /\ status'[q] \in {"expired", "rejected", "running"}
          \/ status[q] = "running" /\ status'[q] = "failed"
          \/ run[q] # "none" /\ status'[q] \in {"succeeded", "failed"}

\* A launch is a step from pending to running, and the other way round.
LaunchStep(q) ==
    \/ /\ launches'[q] = launches[q]
       /\ run'[q] # "none" => run[q] # "none"
       /\ status'[q] = "running" => status[q] = "running"
    \/ /\ launches'[q] = launches[q] + 1
       /\ status[q] = "pending" /\ status'[q] = "running"

RequestStep == \A q \in Ids : StatusStep(q) /\ LaunchStep(q)

GrowStep ==
    /\ revoked \subseteq revoked'
    /\ overdue \subseteq overdue'
    /\ Made \subseteq Made'
    /\ \A q \in Made : about'[q] = about[q]
    /\ stored' \subseteq stored \cup (Made' \ Made)

\* An action that leaves the requests and their deployments alone.
LEMMA RequestsSame ==
    ASSUME UNCHANGED <<status, run, launches>>
    PROVE  RequestStep
BY DEF RequestStep, StatusStep, LaunchStep

\* The number of a stored request is that of a request.
LEMMA LiveFacts ==
    ASSUME RequestsTyped, StoreTyped, NEW r \in Live
    PROVE  r \in Made /\ r \in Ids
BY MadeFacts DEF Live, StoreTyped, RequestsTyped

\* What both ways of reading a request have in common.
ReadEffect ==
    /\ StoreTyped'
    /\ stored' \subseteq stored
    /\ overdue' = overdue
    /\ status' \in [Ids -> Statuses]
    /\ reason' \in [Ids -> {"none", "window", "deployment"}]
    /\ \A q \in Ids :
        \/ status'[q] = status[q]
        \/ /\ q \in Made
           /\ \/ status[q] = "pending" /\ status'[q] = "expired"
              \/ status[q] = "running" /\ status'[q] = "failed"

\* getAgentDeploymentRequest closes at most the request it reads.
LEMMA GetRequestEffect ==
    ASSUME RequestsTyped, StoreTyped, made' = made,
           NEW r \in Live, GetRequest(r)
    PROVE  ReadEffect
<1>1. r \in Made /\ r \in Ids /\ r \in stored /\ Made' = Made
  BY LiveFacts DEF Live, Made
<1>2. made' \in 0..MaxRequests /\ made <= made'
  BY DEF RequestsTyped
<1>3. CASE ReadRequests /\ UNCHANGED <<status, reason>>
  BY <1>3, ReadTyped DEF ReadEffect, RequestsTyped
<1>4. CASE /\ WriteRequest(r)
           /\ \/ status[r] = "pending" /\ status' = [status EXCEPT ![r] = "expired"]
              \/ status[r] = "running" /\ status' = [status EXCEPT ![r] = "failed"]
           /\ reason' = reason \/ reason' = [reason EXCEPT ![r] = "window"]
  <2>1. StoreTyped' /\ stored' \subseteq stored /\ overdue' = overdue
    BY <1>1, <1>2, <1>4, WriteTyped
  <2>2. /\ status' \in [Ids -> Statuses]
        /\ \A q \in Ids : status'[q] # status[q] =>
              /\ q = r
              /\ \/ status[q] = "pending" /\ status'[q] = "expired"
                 \/ status[q] = "running" /\ status'[q] = "failed"
    BY <1>1, <1>4 DEF RequestsTyped, Statuses
  <2>3. reason' \in [Ids -> {"none", "window", "deployment"}]
    BY <1>1, <1>4 DEF RequestsTyped
  <2>4. QED BY <1>1, <2>1, <2>2, <2>3 DEF ReadEffect
<1>5. QED BY <1>3, <1>4 DEF GetRequest

\* A request that is not there is left alone.
LEMMA NotFoundEffect ==
    ASSUME RequestsTyped, StoreTyped, made' = made, NEW r, NotFound(r)
    PROVE  ReadEffect
BY ReadTyped DEF NotFound, ReadEffect, RequestsTyped

\* Reading a request is a step the requests may take.
LEMMA ReadSteps ==
    ASSUME ReadEffect, UNCHANGED <<made, about, revoked, launches>>,
           \A q \in Ids : run'[q] # "none" => run[q] # "none"
    PROVE  RequestStep /\ GrowStep
<1>1. Made' = Made
  BY DEF Made
<1>2. GrowStep
  BY <1>1 DEF GrowStep, ReadEffect
<1>3. RequestStep
  BY DEF RequestStep, StatusStep, LaunchStep, ReadEffect
<1>4. QED BY <1>2, <1>3

\* An answered HTTP request leaves nothing behind.
LEMMA DoneTyped ==
    ASSUME HandlersTyped, NEW h \in Handlers, Done(h), Made \subseteq Made'
    PROVE  HandlersTyped'
<1>1. late' \in [Handlers -> BOOLEAN]
  BY Zenon DEF HandlersTyped, Done
<1>2. QED BY <1>1 DEF HandlersTyped, Done, Goto, Stages

-----------------------------------------------------------------------------
(* What any step may do to the serving of an HTTP request: it comes to the *)
(* key check with late true only if the key is revoked, and past the check *)
(* only if it is not.                                                      *)
LateStep ==
    \A h \in Handlers :
        \/ UNCHANGED <<stage[h], target[h], late[h]>>
        \/ stage'[h] \notin {"key", "update"}
        \/ /\ stage'[h] = "key" /\ target'[h] \in Made
           /\ late'[h] => about[target'[h]].key \in revoked
        \/ /\ stage[h] = "key" /\ stage'[h] = "update"
           /\ UNCHANGED <<target[h], late[h]>>
           /\ about[target[h]].key \notin revoked

\* Everything the invariants need to know of a step.
Step == Typed' /\ RequestStep /\ GrowStep /\ LateStep

\* A step that leaves every handler alone, or ends or moves one of them.
LEMMA HandlersSame ==
    ASSUME UNCHANGED <<stage, target, late>> PROVE LateStep
BY DEF LateStep

\* The same for a step that moves one handler, not to the key check.
LEMMA OneHandler ==
    ASSUME HandlersTyped, NEW h \in Handlers, NEW s, Goto(h, s),
           target' = target \/ \E t : target' = [target EXCEPT ![h] = t],
           late' = late \/ \E l : late' = [late EXCEPT ![h] = l],
           s \notin {"key", "update"}
    PROVE  LateStep
BY DEF LateStep, Goto, HandlersTyped

\* A key is paused, resumed, revoked or lapses: keys stay revoked.
LEMMA KeyStepStep == ASSUME Typed, KeyStep PROVE Step
<1>1. KeysTyped' /\ revoked \subseteq revoked'
  BY DEF KeyStep, Pause, Resume, Revoke, KeyLapses, Typed, KeysTyped
<1>2. UNCHANGED <<requestVars, storeVars, handlerVars, runVars>>
  BY DEF KeyStep
<1>3. RequestsTyped' /\ StoreTyped' /\ HandlersTyped' /\ Made' = Made
  BY <1>2 DEF Typed, RequestsTyped, StoreTyped, HandlersTyped, Made,
              requestVars, storeVars, handlerVars
<1>4. RunsTyped'
  BY <1>2, AccessAssumption DEF Typed, RunsTyped, KeyStep, Event, runVars
<1>5. RequestStep /\ LateStep
  BY <1>2, RequestsSame, HandlersSame DEF requestVars, handlerVars, runVars
<1>6. GrowStep
  BY <1>1, <1>2, <1>3 DEF GrowStep, requestVars, storeVars
<1>7. QED BY <1>1, <1>3, <1>4, <1>5, <1>6 DEF Step, Typed

\* An administrator's change of the apps.
LEMMA AppStep == ASSUME Typed, NEW a \in Apps, AppComesOrGoes(a) PROVE Step
<1>1. KeysTyped'
  BY DEF AppComesOrGoes, Typed, KeysTyped, keyVars
<1>2. UNCHANGED <<keyVars, requestVars, storeVars, handlerVars, runVars>>
  BY DEF AppComesOrGoes
<1>3. RequestsTyped' /\ StoreTyped' /\ HandlersTyped' /\ Made' = Made
  BY <1>2 DEF Typed, RequestsTyped, StoreTyped, HandlersTyped, Made,
              requestVars, storeVars, handlerVars
<1>4. RunsTyped'
  BY <1>2, AccessAssumption DEF Typed, RunsTyped, AppComesOrGoes, Event, runVars
<1>5. RequestStep /\ LateStep
  BY <1>2, RequestsSame, HandlersSame DEF requestVars, handlerVars, runVars
<1>6. GrowStep
  BY <1>2, <1>3 DEF GrowStep, requestVars, storeVars, keyVars
<1>7. QED BY <1>1, <1>3, <1>4, <1>5, <1>6 DEF Step, Typed

\* A request runs out of time, or grows old.
LEMMA ClockStep ==
    ASSUME Typed, NEW r \in Ids, Expires(r) \/ Ages(r) PROVE Step
<1>1. UNCHANGED <<keyVars, apps, requestVars, stored, newer, handlerVars, runVars>>
  BY DEF Expires, Ages
<1>2. KeysTyped' /\ RequestsTyped' /\ HandlersTyped' /\ Made' = Made
  BY <1>1 DEF Typed, KeysTyped, RequestsTyped, HandlersTyped, Made,
              requestVars, keyVars, handlerVars
<1>3. RunsTyped'
  BY <1>1, AccessAssumption DEF Typed, RunsTyped, Expires, Ages, Event, runVars
<1>4. StoreTyped' /\ overdue \subseteq overdue'
  BY <1>1, <1>2 DEF Typed, StoreTyped, Expires, Ages, Live
<1>5. RequestStep /\ LateStep
  BY <1>1, RequestsSame, HandlersSame DEF requestVars, handlerVars, runVars
<1>6. GrowStep
  BY <1>1, <1>2, <1>4 DEF GrowStep, requestVars, keyVars
<1>7. QED BY <1>2, <1>3, <1>4, <1>5, <1>6 DEF Step, Typed

\* After a restart the requests are as they were stored.
LEMMA RestartStep == ASSUME Typed, Restart PROVE Step
<1>1. UNCHANGED <<keyVars, apps, requestVars, storeVars, launches>>
  BY DEF Restart
<1>2. KeysTyped' /\ RequestsTyped' /\ StoreTyped' /\ Made' = Made
  BY <1>1 DEF Typed, KeysTyped, RequestsTyped, StoreTyped, Made,
              requestVars, keyVars, storeVars
<1>3. HandlersTyped' /\ LateStep
  BY DEF Restart, HandlersTyped, LateStep, Stages
<1>4. RunsTyped' /\ \A q \in Ids : run'[q] # "none" => run[q] # "none"
  BY <1>1, AccessAssumption DEF Typed, RunsTyped, RunStages, Restart, Event
<1>5. RequestStep
  BY <1>1, <1>4 DEF RequestStep, StatusStep, LaunchStep, requestVars
<1>6. GrowStep
  BY <1>1, <1>2 DEF GrowStep, requestVars, keyVars, storeVars
<1>7. QED BY <1>2, <1>3, <1>4, <1>5, <1>6 DEF Step, Typed

-----------------------------------------------------------------------------
(* The handlers.                                                           *)

\* A call comes in.
LEMMA AuthenticateStep ==
    ASSUME Typed, NEW h \in Handlers, NEW c \in Calls, Authenticate(h, c)
    PROVE  Step
<1>1. UNCHANGED <<keyVars, apps, requestVars, storeVars, runVars, events>>
  BY DEF Authenticate
<1>2. KeysTyped' /\ RequestsTyped' /\ StoreTyped' /\ RunsTyped' /\ Made' = Made
  BY <1>1 DEF Typed, KeysTyped, RequestsTyped, StoreTyped, RunsTyped, Made,
              requestVars, keyVars, storeVars, runVars
<1>3. HandlersTyped'
  BY <1>2, NobodyAssumption DEF Authenticate, Typed, HandlersTyped, Goto, Stages
<1>4. LateStep
  BY OneHandler DEF Authenticate, Typed
<1>5. RequestStep
  BY <1>1, RequestsSame DEF runVars, requestVars
<1>6. GrowStep
  BY <1>1, <1>2 DEF GrowStep, requestVars, keyVars, storeVars
<1>7. QED BY <1>2, <1>3, <1>4, <1>5, <1>6 DEF Step, Typed

\* An administrator approves.
LEMMA ApproveStep ==
    ASSUME Typed, NEW h \in Handlers, NEW r \in Ids, Approve(h, r)
    PROVE  Step
<1>1. UNCHANGED <<keyVars, apps, requestVars, storeVars, runVars, events>>
  BY DEF Approve
<1>2. KeysTyped' /\ RequestsTyped' /\ StoreTyped' /\ RunsTyped' /\ Made' = Made
  BY <1>1 DEF Typed, KeysTyped, RequestsTyped, StoreTyped, RunsTyped, Made,
              requestVars, keyVars, storeVars, runVars
<1>3. HandlersTyped'
  <2>1. r # Nobody
    BY AccessAssumption
  <2>2. QED BY <1>2, <2>1 DEF Approve, Typed, HandlersTyped, Goto, Stages
<1>4. LateStep
  BY OneHandler DEF Approve, Typed
<1>5. RequestStep
  BY <1>1, RequestsSame DEF runVars, requestVars
<1>6. GrowStep
  BY <1>1, <1>2 DEF GrowStep, requestVars, keyVars, storeVars
<1>7. QED BY <1>2, <1>3, <1>4, <1>5, <1>6 DEF Step, Typed

\* A handler whose deployment request is there goes on to start it or answers.
LEMMA CreatedTyped ==
    ASSUME HandlersTyped, NEW h \in Handlers, NEW r \in Made', r # Nobody,
           Created(h, r), Made \subseteq Made'
    PROVE  HandlersTyped' /\ LateStep
<1>1. PICK s \in {"start", "respond"} : Goto(h, s)
  BY DEF Created
<1>2. /\ target' = [target EXCEPT ![h] = r]
      /\ call' = [call EXCEPT ![h] = Nobody]
      /\ late' = late
      /\ actor' = actor \/ actor' = [actor EXCEPT ![h] = "agent"]
  BY DEF Created
<1>3. HandlersTyped'
  BY <1>1, <1>2 DEF HandlersTyped, Goto, Stages
<1>4. LateStep
  BY <1>1, <1>2, OneHandler
<1>5. QED BY <1>3, <1>4

\* Done, as LateStep sees it.
LEMMA DoneLate ==
    ASSUME HandlersTyped, NEW h \in Handlers, Done(h) PROVE LateStep
BY OneHandler DEF Done

\* createAgentDeploymentRequest returns what is there, refuses, or adds one.
LEMMA CreateStep ==
    ASSUME Typed, NEW h \in Handlers, CreateRequest(h) PROVE Step
<1>1. UNCHANGED <<keyVars, apps, runVars, events>>
  BY DEF CreateRequest
<1>2. KeysTyped' /\ RunsTyped'
  BY <1>1 DEF Typed, KeysTyped, RunsTyped, keyVars, runVars
<1>3. call[h] \in Calls /\ call[h] # Nobody
  BY DEF CreateRequest, Typed, HandlersTyped
<1>4. CASE /\ UNCHANGED requestVars
           /\ UNCHANGED storeVars \/ ReadRequests
           /\ Done(h) \/ \E r \in Live : Created(h, r)
  <2>1. Made' = Made /\ made' = made /\ RequestsTyped'
    BY <1>4 DEF Made, requestVars, Typed, RequestsTyped
  <2>2. StoreTyped' /\ stored' \subseteq stored /\ overdue' = overdue
    BY <1>4, <2>1, ReadTyped DEF Typed, StoreTyped, storeVars
  <2>3. HandlersTyped' /\ LateStep
    <3>1. CASE Done(h)
      BY <2>1, <3>1, DoneTyped, DoneLate DEF Typed
    <3>2. ASSUME NEW r \in Live, Created(h, r) PROVE HandlersTyped' /\ LateStep
      <4>1. r \in Made' /\ r # Nobody
        BY <2>1, LiveFacts, AccessAssumption DEF Typed
      <4>2. QED BY <2>1, <3>2, <4>1, CreatedTyped DEF Typed
    <3>3. QED BY <1>4, <3>1, <3>2
  <2>4. RequestStep
    BY <1>1, <1>4, RequestsSame DEF requestVars, runVars
  <2>5. GrowStep
    BY <1>1, <1>4, <2>1, <2>2 DEF GrowStep, keyVars, requestVars
  <2>6. QED BY <1>2, <2>1, <2>2, <2>3, <2>4, <2>5 DEF Step, Typed
<1>5. CASE CreateNew(h)
  <2>1. /\ made' = made + 1 /\ made < MaxRequests /\ made \in Nat
        /\ made' \in 0..MaxRequests /\ made' \in Made' /\ made' \in Ids
        /\ Made' = Made \cup {made'} /\ made' \notin Made
    BY <1>5, AccessAssumption DEF CreateNew, Typed, RequestsTyped, Made, Ids
  <2>2. /\ about' = [about EXCEPT ![made'] = call[h]]
        /\ UNCHANGED <<status, approvedBy, reason>>
        /\ WriteRequest(made') /\ Created(h, made')
    BY <1>5, <2>1 DEF CreateNew
  <2>3. RequestsTyped'
    BY <1>3, <2>1, <2>2 DEF Typed, RequestsTyped
  <2>4. StoreTyped' /\ stored' \subseteq stored \cup {made'} /\ overdue' = overdue
    BY <2>1, <2>2, WriteTyped DEF Typed
  <2>5. made' # Nobody
    BY <2>1, AccessAssumption
  <2>6. HandlersTyped' /\ LateStep
    BY <2>1, <2>2, <2>5, CreatedTyped DEF Typed
  <2>7. RequestStep
    BY <1>1, <2>2, RequestsSame DEF runVars
  <2>8. \A q \in Made : about'[q] = about[q]
    BY <2>1, <2>2, MadeFacts DEF Typed, RequestsTyped
  <2>9. GrowStep
    BY <1>1, <2>1, <2>4, <2>8 DEF GrowStep, keyVars
  <2>10. QED BY <1>2, <2>3, <2>4, <2>6, <2>7, <2>9 DEF Step, Typed
<1>6. QED
  BY <1>4, <1>5 DEF CreateRequest, CreateReturnsExisting, CreateRefused, Existing

\* Reading a request on behalf of a handler, which goes on or answers.
LEMMA HandlerReads ==
    ASSUME Typed, NEW r, (r \in Live /\ GetRequest(r)) \/ NotFound(r),
           UNCHANGED <<keyVars, apps, made, about, approvedBy, runVars, events>>
    PROVE  /\ KeysTyped' /\ RequestsTyped' /\ StoreTyped' /\ RunsTyped'
           /\ RequestStep /\ GrowStep /\ Made' = Made
<1>1. ReadEffect
  BY GetRequestEffect, NotFoundEffect DEF Typed
<1>2. KeysTyped' /\ RunsTyped' /\ Made' = Made
  BY DEF Typed, KeysTyped, RunsTyped, keyVars, runVars, Made
<1>3. RequestsTyped' /\ StoreTyped'
  BY <1>1, <1>2 DEF Typed, RequestsTyped, ReadEffect
<1>4. RequestStep /\ GrowStep
  BY <1>1, ReadSteps DEF keyVars, runVars
<1>5. QED BY <1>2, <1>3, <1>4

\* The answer is read from the store.
LEMMA RespondStep ==
    ASSUME Typed, NEW h \in Handlers, Respond(h) PROVE Step
<1>1. /\ KeysTyped' /\ RequestsTyped' /\ StoreTyped' /\ RunsTyped'
      /\ RequestStep /\ GrowStep /\ Made' = Made
  BY HandlerReads DEF Respond
<1>2. HandlersTyped' /\ LateStep
  BY <1>1, DoneTyped, DoneLate DEF Respond, Typed
<1>3. QED BY <1>1, <1>2 DEF Step, Typed

\* Anybody may read a request at any time.
LEMMA PollStep ==
    ASSUME Typed, NEW r \in Ids, Poll(r) PROVE Step
<1>1. /\ KeysTyped' /\ RequestsTyped' /\ StoreTyped' /\ RunsTyped'
      /\ RequestStep /\ GrowStep /\ Made' = Made
  BY HandlerReads DEF Poll
<1>2. HandlersTyped' /\ LateStep
  BY <1>1, HandlersSame DEF Poll, Typed, HandlersTyped, handlerVars
<1>3. QED BY <1>1, <1>2 DEF Step, Typed

\* Recording in a function whether something is in a set.
LEMMA MembershipUpdate ==
    ASSUME NEW x, NEW S, NEW D, NEW f \in [D -> BOOLEAN], NEW h \in D,
           NEW g, g = [f EXCEPT ![h] = (x \in S)]
    PROVE  /\ g \in [D -> BOOLEAN]
           /\ g[h] = (x \in S)
           /\ \A d \in D : d # h => g[d] = f[d]
OBVIOUS

\* startAgentDeployment reads the request, and whether the key is revoked.
LEMMA StartGetStep ==
    ASSUME Typed, NEW h \in Handlers, StartGet(h) PROVE Step
<1>1. /\ KeysTyped' /\ RequestsTyped' /\ StoreTyped' /\ RunsTyped'
      /\ RequestStep /\ GrowStep /\ Made' = Made
  BY HandlerReads DEF StartGet
<1>2. HandlersTyped' /\ LateStep
  <2>1. CASE Done(h)
    BY <1>1, <2>1, DoneTyped, DoneLate DEF Typed
  <2>2. CASE /\ Goto(h, "key") /\ target[h] \in Live
             /\ late' = [late EXCEPT ![h] = (about[target[h]].key \in revoked)]
             /\ UNCHANGED <<call, target, actor>>
    <3>1. target[h] \in Made
      BY <2>2, LiveFacts DEF Typed
    <3>2. /\ late' \in [Handlers -> BOOLEAN]
          /\ late'[h] = (about[target[h]].key \in revoked)
          /\ \A g \in Handlers : g # h => late'[g] = late[g]
      <4>1. late \in [Handlers -> BOOLEAN]
        BY DEF Typed, HandlersTyped
      <4>2. late' = [late EXCEPT ![h] = (about[target[h]].key \in revoked)]
        BY <2>2
      <4>3. QED BY <4>1, <4>2, MembershipUpdate
    <3>3. target[h] # Nobody
      BY <3>1, LiveFacts, <2>2, AccessAssumption DEF Typed
    <3>4. HandlersTyped'
      BY <1>1, <2>2, <3>2, <3>3 DEF Typed, HandlersTyped, Goto, Stages
    <3>5. /\ \A g \in Handlers : g # h => UNCHANGED <<stage[g], target[g], late[g]>>
          /\ stage'[h] = "key" /\ target'[h] = target[h]
      BY <2>2, <3>2 DEF Goto, Typed, HandlersTyped
    <3>6. late'[h] => about[target[h]].key \in revoked
      BY <3>2
    <3>7. LateStep
      BY <3>1, <3>5, <3>6 DEF LateStep
    <3>8. QED BY <3>4, <3>7
  <2>3. QED BY <2>1, <2>2 DEF StartGet
<1>3. QED BY <1>1, <1>2 DEF Step, Typed

\* Only a start whose key is active passes the key check.
LEMMA StartKeyStep ==
    ASSUME Typed, NEW h \in Handlers, StartKey(h) PROVE Step
<1>1. UNCHANGED <<keyVars, apps, requestVars, storeVars, runVars, events>>
  BY DEF StartKey
<1>2. KeysTyped' /\ RequestsTyped' /\ StoreTyped' /\ RunsTyped' /\ Made' = Made
  BY <1>1 DEF Typed, KeysTyped, RequestsTyped, StoreTyped, RunsTyped, Made,
              requestVars, keyVars, storeVars, runVars
<1>3. HandlersTyped' /\ LateStep
  <2>1. CASE Done(h)
    BY <1>2, <2>1, DoneTyped, DoneLate DEF Typed
  <2>2. CASE /\ isAgentKeyActive(about[target[h]].key) /\ stage[h] = "key"
             /\ Goto(h, "update") /\ UNCHANGED <<call, target, actor, late>>
    <3>1. HandlersTyped'
      BY <1>2, <2>2 DEF Typed, HandlersTyped, Goto, Stages
    <3>2. LateStep
      BY <2>2 DEF LateStep, Goto, Typed, HandlersTyped, isAgentKeyActive
    <3>3. QED BY <3>1, <3>2
  <2>3. QED BY <2>1, <2>2 DEF StartKey
<1>4. RequestStep
  BY <1>1, RequestsSame DEF runVars, requestVars
<1>5. GrowStep
  BY <1>1, <1>2 DEF GrowStep, requestVars, keyVars, storeVars
<1>6. QED BY <1>2, <1>3, <1>4, <1>5 DEF Step, Typed

\* Writing a request that is there.
LEMMA WriteLive ==
    ASSUME Typed, NEW r \in Live, WriteRequest(r), UNCHANGED <<made, about, revoked>>
    PROVE  StoreTyped' /\ GrowStep /\ Made' = Made /\ r \in Made /\ r \in Ids
<1>1. r \in Made /\ r \in Ids /\ r \in stored /\ Made' = Made
  BY LiveFacts DEF Live, Made, Typed
<1>2. made' \in 0..MaxRequests /\ made <= made'
  BY DEF Typed, RequestsTyped
<1>3. StoreTyped' /\ stored' \subseteq stored /\ overdue' = overdue
  BY <1>1, <1>2, WriteTyped DEF Typed
<1>4. QED BY <1>1, <1>3 DEF GrowStep

\* The one step that launches: it finds the request pending or gives up.
LEMMA StartUpdateStep ==
    ASSUME Typed, NEW h \in Handlers, StartUpdate(h) PROVE Step
<1> DEFINE r == target[h]
<1>1. UNCHANGED <<keyVars, apps, made, about, reason, events>>
  BY DEF StartUpdate
<1>2. KeysTyped' /\ Made' = Made
  BY <1>1 DEF Typed, KeysTyped, keyVars, Made
<1>3. CASE /\ r \notin Live \/ status[r] # "pending"
           /\ ReadRequests /\ Done(h)
           /\ UNCHANGED <<status, approvedBy, runVars>>
  <2>1. RequestsTyped' /\ RunsTyped'
    BY <1>1, <1>2, <1>3 DEF Typed, RequestsTyped, RunsTyped, runVars
  <2>2. StoreTyped' /\ stored' \subseteq stored /\ overdue' = overdue
    BY <1>1, <1>3, ReadTyped DEF Typed
  <2>3. HandlersTyped' /\ LateStep
    BY <1>2, <1>3, DoneTyped, DoneLate DEF Typed
  <2>4. RequestStep
    BY <1>3, RequestsSame DEF runVars
  <2>5. GrowStep
    BY <1>1, <1>2, <2>2 DEF GrowStep, keyVars
  <2>6. QED BY <1>2, <2>1, <2>2, <2>3, <2>4, <2>5 DEF Step, Typed
<1>4. CASE /\ r \in Live /\ status[r] = "pending"
           /\ status' = [status EXCEPT ![r] = "running"]
           /\ approvedBy' = [approvedBy EXCEPT ![r] =
                                IF @ = "none" THEN actor[h] ELSE @]
           /\ WriteRequest(r)
           /\ run' = [run EXCEPT ![r] = "launched"]
           /\ launches' = [launches EXCEPT ![r] = @ + 1]
           /\ \/ Goto(h, "respond") /\ UNCHANGED <<call, target, actor, late>>
              \/ Done(h)
  <2>1. StoreTyped' /\ GrowStep /\ r \in Made /\ r \in Ids
    BY <1>1, <1>4, WriteLive DEF keyVars
  <2>2. actor[h] \in {"none", "agent", "human"}
    BY DEF Typed, HandlersTyped
  <2>3. RequestsTyped'
    BY <1>1, <1>2, <1>4, <2>1, <2>2 DEF Typed, RequestsTyped, Statuses
  <2>4. RunsTyped'
    BY <1>1, <1>4, <2>1 DEF Typed, RunsTyped, RunStages
  <2>5. HandlersTyped' /\ LateStep
    <3>1. CASE Done(h)
      BY <1>2, <3>1, DoneTyped, DoneLate DEF Typed
    <3>2. CASE Goto(h, "respond") /\ UNCHANGED <<call, target, actor, late>>
      <4>1. r # Nobody
        BY <2>1, AccessAssumption
      <4>2. HandlersTyped'
        BY <1>2, <3>2, <4>1 DEF Typed, HandlersTyped, Goto, Stages
      <4>3. LateStep
        BY <3>2, OneHandler DEF Typed
      <4>4. QED BY <4>2, <4>3
    <3>3. QED BY <1>4, <3>1, <3>2
  <2>6. RequestStep
    BY <1>4, <2>1 DEF RequestStep, StatusStep, LaunchStep, Typed, RequestsTyped,
                      RunsTyped
  <2>7. QED BY <1>2, <2>1, <2>3, <2>4, <2>5, <2>6 DEF Step, Typed
<1>5. QED
  <2>1. StartUpdate(h) => \/ /\ r \in Live /\ status[r] = "pending"
                             /\ status' = [status EXCEPT ![r] = "running"]
                             /\ approvedBy' = [approvedBy EXCEPT ![r] =
                                                  IF @ = "none" THEN actor[h] ELSE @]
                             /\ WriteRequest(r)
                             /\ run' = [run EXCEPT ![r] = "launched"]
                             /\ launches' = [launches EXCEPT ![r] = @ + 1]
                             /\ \/ Goto(h, "respond") /\ UNCHANGED <<call, target, actor, late>>
                                \/ Done(h)
                          \/ /\ r \notin Live \/ status[r] # "pending"
                             /\ ReadRequests /\ Done(h)
                             /\ UNCHANGED <<status, approvedBy, runVars>>
    BY Zenon DEF StartUpdate
  <2>2. QED BY <1>3, <1>4, <2>1

\* Only what is pending is rejected.
LEMMA RejectStep == ASSUME Typed, NEW r \in Ids, Reject(r) PROVE Step
<1>1. /\ r \in Live /\ status[r] = "pending"
      /\ status' = [status EXCEPT ![r] = "rejected"]
      /\ WriteRequest(r)
      /\ UNCHANGED <<keyVars, apps, made, about, approvedBy, reason, handlerVars,
                     runVars, events>>
  BY DEF Reject
<1>2. StoreTyped' /\ GrowStep /\ Made' = Made /\ r \in Made
  BY <1>1, WriteLive DEF keyVars
<1>3. KeysTyped' /\ HandlersTyped' /\ RunsTyped'
  BY <1>1, <1>2 DEF Typed, KeysTyped, HandlersTyped, RunsTyped, keyVars,
                    handlerVars, runVars
<1>4. RequestsTyped'
  BY <1>1, <1>2 DEF Typed, RequestsTyped, Statuses
<1>5. RequestStep
  BY <1>1, <1>2 DEF RequestStep, StatusStep, LaunchStep, Typed, RequestsTyped,
                    runVars
<1>6. LateStep
  BY <1>1, HandlersSame DEF handlerVars
<1>7. QED BY <1>2, <1>3, <1>4, <1>5, <1>6 DEF Step, Typed

-----------------------------------------------------------------------------
(* runAgentDeployment.                                                     *)

\* The deployment reads its request.
LEMMA RunBeginsStep == ASSUME Typed, NEW r \in Ids, RunBegins(r) PROVE Step
<1>1. UNCHANGED <<keyVars, apps, made, about, approvedBy, handlerVars, launches,
                  events>>
  BY DEF RunBegins
<1>2. run[r] = "launched"
      /\ \E s \in {"preparing", "over"} : run' = [run EXCEPT ![r] = s]
  BY DEF RunBegins, RunGoto
<1>3. ReadEffect
  BY <1>1, GetRequestEffect, NotFoundEffect DEF RunBegins, Typed
<1>4. \A q \in Ids : run'[q] # "none" => run[q] # "none"
  BY <1>2 DEF Typed, RunsTyped
<1>5. RequestStep /\ GrowStep
  BY <1>1, <1>3, <1>4, ReadSteps DEF keyVars
<1>6. Made' = Made /\ KeysTyped' /\ HandlersTyped' /\ LateStep
  BY <1>1, HandlersSame DEF Typed, KeysTyped, HandlersTyped, Made, keyVars,
                            handlerVars
<1>7. RequestsTyped' /\ StoreTyped'
  BY <1>1, <1>3, <1>6 DEF Typed, RequestsTyped, ReadEffect
<1>8. RunsTyped'
  BY <1>1, <1>2 DEF Typed, RunsTyped, RunStages
<1>9. QED BY <1>5, <1>6, <1>7, <1>8 DEF Step, Typed

\* What the later steps of a deployment have in common: they belong to one that
\* was launched, and may write its request.
LEMMA RunActs ==
    ASSUME Typed, NEW r \in Ids, run[r] # "none",
           NEW s \in RunStages, run' = [run EXCEPT ![r] = s],
           UNCHANGED <<keyVars, made, about, approvedBy, handlerVars, launches,
                       events>>,
           KeysTyped',
           \/ UNCHANGED <<storeVars, status>>
           \/ ReadRequests /\ UNCHANGED status
           \/ r \in Live /\ WriteRequest(r) /\ UNCHANGED status
           \/ /\ r \in Live /\ WriteRequest(r)
              /\ \E t \in {"succeeded", "failed"} : status' = [status EXCEPT ![r] = t],
           reason' = reason \/ reason' = [reason EXCEPT ![r] = "deployment"]
    PROVE  Step
<1>1. Made' = Made /\ HandlersTyped' /\ LateStep
  BY HandlersSame DEF Typed, HandlersTyped, Made, handlerVars
<1>2. RunsTyped' /\ \A q \in Ids : run'[q] # "none" => run[q] # "none"
  BY DEF Typed, RunsTyped
<1>3. StoreTyped' /\ GrowStep
  <2>1. CASE UNCHANGED storeVars
    BY <1>1, <2>1 DEF Typed, StoreTyped, GrowStep, storeVars, keyVars
  <2>2. CASE ReadRequests
    BY <1>1, <2>2, ReadTyped DEF Typed, GrowStep, keyVars
  <2>3. CASE r \in Live /\ WriteRequest(r)
    BY <2>3, WriteLive DEF keyVars
  <2>4. QED BY <2>1, <2>2, <2>3
<1>4. /\ status' \in [Ids -> Statuses]
      /\ \A q \in Ids : \/ status'[q] = status[q]
                        \/ /\ q = r /\ q \in Made
                           /\ status'[q] \in {"succeeded", "failed"}
  BY LiveFacts DEF Typed, RequestsTyped, Statuses
<1>5. RequestsTyped'
  <2>1. reason' \in [Ids -> {"none", "window", "deployment"}]
    BY DEF Typed, RequestsTyped
  <2>2. QED BY <1>1, <1>4, <2>1 DEF Typed, RequestsTyped
<1>6. RequestStep
  BY <1>2, <1>4 DEF RequestStep, StatusStep, LaunchStep
<1>7. QED BY <1>1, <1>2, <1>3, <1>5, <1>6 DEF Step, Typed

\* It registers the app or notes its version.
LEMMA RunPreparesStep ==
    ASSUME Typed, NEW r \in Ids, r \in Made, RunPrepares(r) PROVE Step
<1>1. UNCHANGED <<keyVars, made, about, status, approvedBy, reason, handlerVars,
                  launches, events>>
  BY DEF RunPrepares, requestVars
<1>2. /\ run[r] = "preparing"
      /\ \E s \in RunStages : run' = [run EXCEPT ![r] = s]
  BY DEF RunPrepares, RunGoto, RunStages
<1>3. \/ UNCHANGED storeVars
      \/ ReadRequests
      \/ r \in Live /\ WriteRequest(r)
  BY DEF RunPrepares
<1>4. KeysTyped'
  <2>1. about[r] \in Calls
    BY DEF Typed, RequestsTyped
  <2>2. about[r].app \in Apps
    BY <2>1 DEF Calls
  <2>3. apps' = apps \/ apps' = apps \cup {about[r].app}
    BY DEF RunPrepares
  <2>4. QED BY <1>1, <2>2, <2>3 DEF Typed, KeysTyped, keyVars
<1>5. QED BY <1>1, <1>2, <1>3, <1>4, RunActs

\* Its build ends.
LEMMA BuildEndsStep ==
    ASSUME Typed, NEW r \in Ids, BuildSucceeds(r) \/ BuildFails(r) PROVE Step
<1>1. UNCHANGED <<keyVars, apps, made, about, approvedBy, reason, handlerVars,
                  launches, events>>
  BY DEF BuildSucceeds, BuildFails, requestVars
<1>2. /\ run[r] = "building"
      /\ \E s \in RunStages : run' = [run EXCEPT ![r] = s]
  BY DEF BuildSucceeds, BuildFails, RunGoto, RunStages
<1>3. \/ UNCHANGED <<storeVars, status>>
      \/ ReadRequests /\ UNCHANGED status
      \/ /\ r \in Live /\ WriteRequest(r)
         /\ status' = [status EXCEPT ![r] = "succeeded"]
  BY DEF BuildSucceeds, BuildFails, requestVars
<1>4. KeysTyped'
  BY <1>1 DEF Typed, KeysTyped, keyVars
<1>5. QED BY <1>1, <1>2, <1>3, <1>4, RunActs

\* It gives up.
LEMMA RunFailsStep == ASSUME Typed, NEW r \in Ids, RunFails(r) PROVE Step
<1>1. UNCHANGED <<keyVars, apps, made, about, approvedBy, handlerVars,
                  launches, events>>
  BY DEF RunFails
<1>2. run[r] = "failing" /\ run' = [run EXCEPT ![r] = "over"]
  BY DEF RunFails, RunGoto
<1>3. \/ ReadRequests /\ UNCHANGED status
      \/ /\ r \in Live /\ WriteRequest(r)
         /\ status' = [status EXCEPT ![r] = "failed"]
  BY DEF RunFails, NotFound
<1>4. reason' = reason \/ reason' = [reason EXCEPT ![r] = "deployment"]
  BY DEF RunFails, NotFound
<1>5. KeysTyped'
  BY <1>1 DEF Typed, KeysTyped, keyVars
<1>6. QED BY <1>1, <1>2, <1>3, <1>4, <1>5, RunActs DEF RunStages

-----------------------------------------------------------------------------
(* The inductive invariant.  A request that is pending was never launched, *)
(* so its launch is the first; one that is not was made, and one that has  *)
(* a deployment under way never was rejected or expired.                   *)

RequestsOK ==
    \A r \in Ids :
        /\ r \notin Made => status[r] = "pending"
        /\ status[r] = "pending" => launches[r] = 0
        /\ launches[r] <= 1
        /\ launches[r] = 0 => run[r] = "none"
        /\ run[r] # "none" => status[r] \in {"running", "succeeded", "failed"}

\* What late says of the key still holds at the key check.
LateOK ==
    \A h \in Handlers :
        /\ stage[h] = "key" /\ late[h] =>
              /\ target[h] \in Made
              /\ about[target[h]].key \in revoked
        /\ stage[h] = "update" => ~late[h]

AccessInv == Typed /\ RequestsOK /\ LateOK

\* The invariant holds at the start.
LEMMA InitInv == Init => AccessInv
<1> SUFFICES ASSUME Init PROVE AccessInv
  OBVIOUS
<1>1. KeysTyped /\ RequestsTyped /\ StoreTyped
  BY AccessAssumption DEF Init, KeysTyped, RequestsTyped, StoreTyped, Made,
                          Statuses
<1>2. HandlersTyped
  BY DEF Init, HandlersTyped, Stages
<1>3. RunsTyped
  BY AccessAssumption DEF Init, RunsTyped, RunStages
<1>4. RequestsOK /\ LateOK
  BY DEF Init, RequestsOK, LateOK
<1>5. QED BY <1>1, <1>2, <1>3, <1>4 DEF AccessInv, Typed

\* Every action of the channel is a step as described above.
LEMMA NextStep == ASSUME AccessInv, Next PROVE Step
<1>1. Typed
  BY DEF AccessInv
<1>2. CASE KeyStep
  BY <1>1, <1>2, KeyStepStep
<1>3. ASSUME NEW h \in Handlers, HandlerStep(h) PROVE Step
  BY <1>1, <1>3, AuthenticateStep, ApproveStep, CreateStep, RespondStep,
     StartGetStep, StartKeyStep, StartUpdateStep DEF HandlerStep
<1>4. ASSUME NEW r \in Ids, RunStep(r) PROVE Step
  <2>1. ASSUME RunPrepares(r) PROVE Step
    <3>1. r \in Made
      BY <2>1 DEF RunPrepares, AccessInv, RequestsOK
    <3>2. QED BY <1>1, <2>1, <3>1, RunPreparesStep
  <2>2. QED BY <1>1, <1>4, <2>1, RunBeginsStep, BuildEndsStep, RunFailsStep
            DEF RunStep
<1>5. ASSUME NEW r \in Ids, Reject(r) \/ Poll(r) \/ Expires(r) \/ Ages(r) PROVE Step
  BY <1>1, <1>5, RejectStep, PollStep, ClockStep
<1>6. ASSUME NEW a \in Apps, AppComesOrGoes(a) PROVE Step
  BY <1>1, <1>6, AppStep
<1>7. CASE Restart
  BY <1>1, <1>7, RestartStep
<1>8. QED BY <1>2, <1>3, <1>4, <1>5, <1>6, <1>7 DEF Next

\* A step keeps what the invariant says of the requests,
LEMMA StepKeepsRequests ==
    ASSUME Typed, RequestsOK, Step PROVE RequestsOK'
<1> SUFFICES ASSUME NEW r \in Ids
             PROVE  /\ r \notin Made' => status'[r] = "pending"
                    /\ status'[r] = "pending" => launches'[r] = 0
                    /\ launches'[r] <= 1
                    /\ launches'[r] = 0 => run'[r] = "none"
                    /\ run'[r] # "none" =>
                          status'[r] \in {"running", "succeeded", "failed"}
  BY DEF RequestsOK
<1>1. StatusStep(r) /\ LaunchStep(r)
  BY DEF Step, RequestStep
<1>2. launches[r] \in Nat
  BY DEF Typed, RunsTyped
<1>3. /\ r \notin Made => status[r] = "pending"
      /\ status[r] = "pending" => launches[r] = 0
      /\ launches[r] <= 1
      /\ launches[r] = 0 => run[r] = "none"
      /\ run[r] # "none" => status[r] \in {"running", "succeeded", "failed"}
  BY DEF RequestsOK
<1>4. Made \subseteq Made'
  BY DEF Step, GrowStep
<1>5. QED BY <1>1, <1>2, <1>3, <1>4 DEF StatusStep, LaunchStep

\* and what it says of the handlers.
LEMMA StepKeepsLate ==
    ASSUME Typed, LateOK, Step PROVE LateOK'
<1> SUFFICES ASSUME NEW h \in Handlers
             PROVE  /\ stage'[h] = "key" /\ late'[h] =>
                          /\ target'[h] \in Made'
                          /\ about'[target'[h]].key \in revoked'
                    /\ stage'[h] = "update" => ~late'[h]
  BY DEF LateOK
<1>1. \A q \in Made : q \in Made' /\ about'[q] = about[q]
  BY DEF Step, GrowStep
<1>2. revoked \subseteq revoked'
  BY DEF Step, GrowStep
<1>3. QED BY <1>1, <1>2 DEF Step, LateStep, LateOK

\* The invariant is inductive.
LEMMA NextInv == AccessInv /\ [Next]_vars => AccessInv'
<1>1. ASSUME AccessInv, Next PROVE AccessInv'
  BY <1>1, NextStep, StepKeepsRequests, StepKeepsLate DEF AccessInv, Step
<1>2. ASSUME AccessInv, UNCHANGED vars PROVE AccessInv'
  <2>1. UNCHANGED <<keyVars, apps, requestVars, storeVars, handlerVars, runVars,
                    events>>
    BY <1>2 DEF vars
  <2>2. Made' = Made
    BY <2>1 DEF Made, requestVars
  <2>3. Typed'
    BY <1>2, <2>1, <2>2 DEF AccessInv, Typed, KeysTyped, RequestsTyped,
       StoreTyped, HandlersTyped, RunsTyped, keyVars, requestVars, storeVars,
       handlerVars, runVars
  <2>4. RequestsOK' /\ LateOK'
    BY <1>2, <2>1, <2>2 DEF AccessInv, RequestsOK, LateOK, keyVars, requestVars,
       handlerVars, runVars
  <2>5. QED BY <2>3, <2>4 DEF AccessInv
<1>3. QED BY <1>1, <1>2

\* The channel's variables stay well typed.
THEOREM AccessTypeCorrect == Spec => []TypeOK
<1>1. AccessInv => TypeOK
  BY TypeParts DEF AccessInv
<1>2. QED BY <1>1, InitInv, NextInv, PTL DEF Spec

\* However many handlers and administrators race, a request is launched once at
\* most, and only what was started, and never rejected or expired, runs.
THEOREM LaunchCorrect == Spec => [](LaunchedAtMostOnce /\ RunsWereStarted)
<1>1. AccessInv => LaunchedAtMostOnce /\ RunsWereStarted
  BY DEF AccessInv, RequestsOK, LaunchedAtMostOnce, RunsWereStarted
<1>2. QED BY <1>1, InitInv, NextInv, PTL DEF Spec

\* A start that began after its key was revoked never reaches its last step.
THEOREM RevocationCorrect == Spec => []RevokedKeysStartNothing
<1>1. AccessInv => RevokedKeysStartNothing
  BY DEF AccessInv, LateOK, RevokedKeysStartNothing
<1>2. QED BY <1>1, InitInv, NextInv, PTL DEF Spec

-----------------------------------------------------------------------------
(* Requests that must not be made twice.                                   *)

\* Two requests ask for the same thing: the same new app, both still pending,
\* or the same idempotency key of the same agent key.
Rivals(q, r) ==
    \/ /\ status[q] = "pending" /\ about[q].isNew
       /\ status[r] = "pending" /\ about[r].isNew
       /\ about[q].app = about[r].app
    \/ /\ about[q].key = about[r].key
       /\ about[q].idem = about[r].idem /\ about[q].idem # NoIdempotencyKey

NoRivals == \A q, r \in stored \ overdue : Rivals(q, r) => q = r

\* That is what the two properties say.
LEMMA NoRivalsParts ==
    NoRivals <=> OnePendingRequestPerNewApp /\ IdempotencyKeyNamesOneRequest
BY DEF NoRivals, Rivals, OnePendingRequestPerNewApp, IdempotencyKeyNamesOneRequest

\* Requests are made by createAgentDeploymentRequest, which finds no rival.
LEMMA MadeByCreate ==
    ASSUME AccessInv, Next, made' # made
    PROVE  \E h \in Handlers : stage[h] = "create" /\ CreateNew(h)
<1>1. ~KeyStep /\ ~Restart
  BY DEF KeyStep, Restart, requestVars
<1>2. \A a \in Apps : ~AppComesOrGoes(a)
  BY DEF AppComesOrGoes, requestVars
<1>3. \A r \in Ids : ~RunStep(r)
  BY DEF RunStep, RunBegins, RunPrepares, BuildSucceeds, BuildFails, RunFails,
         requestVars
<1>4. \A r \in Ids : ~Reject(r) /\ ~Poll(r) /\ ~Expires(r) /\ ~Ages(r)
  BY DEF Reject, Poll, Expires, Ages, requestVars
<1>5. PICK h \in Handlers : HandlerStep(h)
  BY <1>1, <1>2, <1>3, <1>4 DEF Next
<1>6. ~(\E c \in Calls : Authenticate(h, c)) /\ ~(\E r \in Ids : Approve(h, r))
  BY DEF Authenticate, Approve, requestVars
<1>7. ~Respond(h) /\ ~StartGet(h) /\ ~StartKey(h) /\ ~StartUpdate(h)
  BY DEF Respond, StartGet, StartKey, StartUpdate, requestVars
<1>8. CreateRequest(h)
  BY <1>5, <1>6, <1>7 DEF HandlerStep
<1>9. QED
  BY <1>8 DEF CreateRequest, CreateReturnsExisting, CreateRefused, requestVars

\* What createAgentDeploymentRequest adds has no rival among what is there.
LEMMA CreateFindsNoRival ==
    ASSUME AccessInv, NEW h \in Handlers, stage[h] = "create", CreateNew(h),
           NEW n, n = made', NEW q \in stored' \ overdue', q # n
    PROVE  ~Rivals(q, n)' /\ ~Rivals(n, q)'
<1>1. Typed
  BY DEF AccessInv
<1>2. call[h] \in Calls
  BY <1>1 DEF Typed, HandlersTyped
<1>3. /\ n = made + 1 /\ n \in Ids /\ n \notin Made
      /\ about' = [about EXCEPT ![n] = call[h]]
      /\ status' = status
      /\ WriteRequest(n)
      /\ Existing(call[h]) = {} /\ ~AlreadyPending(call[h])
  BY <1>1, AccessAssumption DEF CreateNew, Typed, RequestsTyped, Made, Ids
<1>4. stored' \subseteq Live \cup {n} /\ overdue' = overdue
  BY <1>3 DEF WriteRequest, Newest
<1>5. q \in Live \ overdue /\ q \in Ids /\ about'[q] = about[q]
  BY <1>1, <1>3, <1>4, LiveFacts DEF Typed, RequestsTyped
<1>6. about'[n] = call[h]
  BY <1>1, <1>3 DEF Typed, RequestsTyped
<1>7. ~(/\ call[h].idem # NoIdempotencyKey
        /\ about[q].key = call[h].key /\ about[q].idem = call[h].idem)
  BY <1>3, <1>5 DEF Existing
<1>8. ~(/\ call[h].isNew /\ about[q].isNew /\ about[q].app = call[h].app
        /\ status[q] = "pending")
  BY <1>3, <1>5 DEF AlreadyPending
<1>9. QED BY <1>3, <1>5, <1>6, <1>7, <1>8 DEF Rivals

\* No step makes rivals of two requests.
LEMMA NextNoRivals ==
    ASSUME AccessInv, NoRivals, Next PROVE NoRivals'
<1>1. Typed /\ Step
  BY NextStep DEF AccessInv
<1>2. ASSUME NEW q \in stored \ overdue, NEW r \in stored \ overdue, Rivals(q, r)'
      PROVE  q = r
  <2>1. q \in Made /\ r \in Made /\ q \in Ids /\ r \in Ids
    BY <1>1, MadeFacts DEF Typed, StoreTyped, RequestsTyped
  <2>2. about'[q] = about[q] /\ about'[r] = about[r]
    BY <1>1, <2>1 DEF Step, GrowStep
  <2>3. /\ status'[q] = "pending" => status[q] = "pending"
        /\ status'[r] = "pending" => status[r] = "pending"
    BY <1>1, <2>1 DEF Step, RequestStep, StatusStep
  <2>4. Rivals(q, r)
    BY <1>2, <2>2, <2>3 DEF Rivals
  <2>5. QED BY <1>2, <2>4 DEF NoRivals
<1>3. \A q \in stored' \ overdue' : q \in stored \ overdue \/ q \in Made' \ Made
  BY <1>1 DEF Step, GrowStep
<1>4. CASE made' = made
  <2>1. Made' = Made
    BY <1>4 DEF Made
  <2>2. QED BY <1>2, <1>3, <2>1 DEF NoRivals
<1>5. CASE made' # made
  <2>1. PICK h \in Handlers : stage[h] = "create" /\ CreateNew(h)
    BY <1>5, MadeByCreate
  <2>2. PICK n : n = made'
    OBVIOUS
  <2>3. Made' \ Made \subseteq {n}
    BY <1>1, <2>1, <2>2 DEF CreateNew, Made, Typed, RequestsTyped
  <2>4. \A q \in stored' \ overdue' : q # n =>
            ~Rivals(q, n)' /\ ~Rivals(n, q)'
    BY <2>1, <2>2, CreateFindsNoRival
  <2>5. ASSUME NEW q \in stored' \ overdue', NEW r \in stored' \ overdue',
               Rivals(q, r)'
        PROVE  q = r
    <3>1. CASE q \in stored \ overdue /\ r \in stored \ overdue
      BY <1>2, <2>5, <3>1
    <3>2. CASE q = n \/ r = n
      BY <2>4, <2>5, <3>2
    <3>3. QED BY <1>3, <2>3, <3>1, <3>2
  <2>6. QED BY <2>5 DEF NoRivals
<1>6. QED BY <1>4, <1>5

\* No retry and no second call makes a request that is already there.
THEOREM RequestsUnique ==
    Spec => [](OnePendingRequestPerNewApp /\ IdempotencyKeyNamesOneRequest)
<1>1. Init => NoRivals
  BY DEF Init, NoRivals
<1>2. AccessInv /\ NoRivals /\ [Next]_vars => (AccessInv /\ NoRivals)'
  <2>1. ASSUME AccessInv, NoRivals, UNCHANGED vars PROVE NoRivals'
    BY <2>1 DEF vars, NoRivals, Rivals, requestVars, storeVars
  <2>2. QED BY <2>1, NextInv, NextNoRivals
<1>3. QED BY <1>1, <1>2, InitInv, NoRivalsParts, PTL DEF Spec

-----------------------------------------------------------------------------
(* The channel implements RequestLifecycle.  A step of it moves one request *)
(* at most, and that request is in the store before and after, or is made.  *)

\* Nothing is decided: at most the outcome of an ended deployment changes.
QuietStep ==
    /\ UNCHANGED <<made, about, approvedBy>>
    /\ \A q \in stored' : \/ status'[q] = status[q]
                          \/ /\ status[q] \in {"succeeded", "failed"}
                             /\ status'[q] \in {"succeeded", "failed"}

SubmitStep ==
    /\ made' \in Ids /\ made' \notin Made /\ made' \in stored'
    /\ Made' = Made \cup {made'}
    /\ about' \in [Ids -> Calls \cup {Nobody}]
    /\ UNCHANGED <<status, approvedBy>>

\* Request r goes from one status to the next, and is launched by a human or as
\* its role allows.
MoveStep(r) ==
    /\ r \in stored' /\ r \in stored
    /\ UNCHANGED <<made, about>>
    /\ \A q \in Ids \ {r} : status'[q] = status[q]
    /\ \/ /\ status[r] = "pending" /\ status'[r] \in {"expired", "rejected"}
          /\ UNCHANGED approvedBy
       \/ /\ status[r] = "pending" /\ status'[r] = "running"
          /\ \E who \in {Gate[r], "human"} : approvedBy' = [approvedBy EXCEPT ![r] = who]
       \/ /\ status[r] = "running" /\ status'[r] \in {"succeeded", "failed"}
          /\ UNCHANGED approvedBy

LifeStep == QuietStep \/ SubmitStep \/ \E r \in Ids : MoveStep(r)

\* A start is made by an administrator, or by the handler of a key that may.
Starting == {"start", "key", "update"}

StartersOK ==
    /\ \A h \in Handlers : stage[h] \in Starting =>
           \/ actor[h] = "human"
           \/ actor[h] = "agent" /\ Role[about[target[h]].key] = "deploy"
    /\ \A r \in Ids : status[r] = "pending" => approvedBy[r] = "none"

ActorStep ==
    \A h \in Handlers :
        \/ stage'[h] \notin Starting
        \/ stage[h] \in Starting /\ UNCHANGED <<target[h], actor[h]>>
        \/ actor'[h] = "human"
        \/ /\ actor'[h] = "agent" /\ target'[h] \in Made'
           /\ Role[about'[target'[h]].key] = "deploy"

\* What has just been written stays in the store.
LEMMA WriteKeeps ==
    ASSUME NEW r \in Ids, WriteRequest(r) PROVE r \in stored'
<1> DEFINE after == Touched(r, Live)
           S == Live \cup {r}
<1>1. stored' = Newest(S, after)
  BY DEF WriteRequest
<1>2. after[r] \cap S = {}
  BY DEF Touched
<1>3. Cardinality(after[r] \cap S) < MaxStored
  <2>1. Cardinality({}) < MaxStored
    BY FS_EmptySet, AccessAssumption
  <2>2. QED BY <1>2, <2>1, Zenon
<1>4. QED BY <1>1, <1>3 DEF Newest

\* Reading a request closes it, or nothing.
LEMMA ReadLives ==
    ASSUME Typed, NEW r, (r \in Live /\ GetRequest(r)) \/ NotFound(r),
           UNCHANGED <<made, about, approvedBy>>
    PROVE  LifeStep
<1>1. CASE UNCHANGED status
  BY <1>1 DEF LifeStep, QuietStep
<1>2. CASE /\ r \in Live /\ WriteRequest(r)
           /\ \/ status[r] = "pending" /\ status' = [status EXCEPT ![r] = "expired"]
              \/ status[r] = "running" /\ status' = [status EXCEPT ![r] = "failed"]
  <2>1. r \in Ids /\ r \in stored /\ r \in stored'
    BY <1>2, LiveFacts, WriteKeeps DEF Typed, Live
  <2>2. MoveStep(r)
    BY <1>2, <2>1 DEF MoveStep, Typed, RequestsTyped
  <2>3. QED BY <2>1, <2>2 DEF LifeStep
<1>3. QED BY <1>1, <1>2 DEF GetRequest, NotFound

\* An answered request starts nothing; the others are as they were.
LEMMA DoneStarts ==
    ASSUME HandlersTyped, NEW h \in Handlers, Done(h) PROVE ActorStep
BY DEF HandlersTyped, Done, Goto, ActorStep, Starting

\* A step that leaves the handlers alone starts nothing either.
LEMMA NoStarts ==
    ASSUME UNCHANGED <<stage, target, actor>> PROVE ActorStep
BY DEF ActorStep

\* A step that moves a handler along, or answers.
LEMMA MovesOn ==
    ASSUME HandlersTyped, NEW h \in Handlers, NEW s, Goto(h, s),
           UNCHANGED <<target, actor>>, s \in Starting => stage[h] \in Starting
    PROVE  ActorStep
BY DEF HandlersTyped, Goto, ActorStep

\* A request that asks for what a key may do is started by its handler.
LEMMA CreatedBegins ==
    ASSUME HandlersTyped, NEW h \in Handlers, NEW r \in Made', Created(h, r),
           about'[r].key = call[h].key
    PROVE  ActorStep
BY DEF HandlersTyped, Created, Goto, ActorStep, Starting

\* createAgentDeploymentRequest makes a request or none.
LEMMA CreateLives ==
    ASSUME Typed, NEW h \in Handlers, CreateRequest(h) PROVE LifeStep /\ ActorStep
<1>1. call[h] \in Calls
  BY DEF CreateRequest, Typed, HandlersTyped
<1>2. CASE UNCHANGED requestVars /\ Done(h)
  BY <1>2, DoneStarts DEF LifeStep, QuietStep, requestVars, Typed
<1>3. CASE CreateReturnsExisting(h)
  <2>1. PICK r \in Existing(call[h]) : Created(h, r)
    BY <1>3 DEF CreateReturnsExisting
  <2>2. UNCHANGED requestVars
    BY <1>3 DEF CreateReturnsExisting
  <2>3. r \in Live /\ about'[r].key = call[h].key
    BY <2>1, <2>2 DEF Existing, requestVars
  <2>4. r \in Made'
    BY <2>2, <2>3, LiveFacts DEF Typed, requestVars, Made
  <2>5. ActorStep
    BY <2>1, <2>3, <2>4, CreatedBegins DEF Typed
  <2>6. QED BY <2>2, <2>5 DEF LifeStep, QuietStep, requestVars
<1>4. CASE CreateNew(h)
  <2>1. /\ made' \in Ids /\ made' \notin Made /\ Made' = Made \cup {made'}
        /\ made' \in Made'
    BY <1>4, AccessAssumption DEF CreateNew, Typed, RequestsTyped, Made, Ids
  <2>2. /\ about' = [about EXCEPT ![made'] = call[h]]
        /\ UNCHANGED <<status, approvedBy, reason>>
        /\ WriteRequest(made') /\ Created(h, made')
    BY <1>4, <2>1 DEF CreateNew
  <2>3. made' \in stored'
    BY <2>1, <2>2, WriteKeeps
  <2>4. about' \in [Ids -> Calls \cup {Nobody}] /\ about'[made'] = call[h]
    BY <1>1, <2>1, <2>2 DEF Typed, RequestsTyped
  <2>5. SubmitStep
    BY <2>1, <2>2, <2>3, <2>4 DEF SubmitStep
  <2>6. ActorStep
    BY <2>1, <2>2, <2>4, CreatedBegins DEF Typed
  <2>7. QED BY <2>5, <2>6 DEF LifeStep
<1>5. QED
  BY <1>2, <1>3, <1>4 DEF CreateRequest, CreateRefused

\* startAgentDeployment launches a pending request on behalf of its actor.
LEMMA UpdateLives ==
    ASSUME AccessInv, StartersOK, NEW h \in Handlers, StartUpdate(h)
    PROVE  LifeStep /\ ActorStep
<1> DEFINE r == target[h]
<1>1. Typed /\ stage[h] = "update" /\ made' = made /\ about' = about
  BY DEF AccessInv, StartUpdate
<1>2. CASE /\ UNCHANGED <<status, approvedBy>> /\ Done(h)
  BY <1>1, <1>2, DoneStarts DEF LifeStep, QuietStep, Typed
<1>3. CASE /\ r \in Live /\ status[r] = "pending"
           /\ status' = [status EXCEPT ![r] = "running"]
           /\ approvedBy' = [approvedBy EXCEPT ![r] =
                                IF @ = "none" THEN actor[h] ELSE @]
           /\ WriteRequest(r)
           /\ \/ Goto(h, "respond") /\ UNCHANGED <<call, target, actor, late>>
              \/ Done(h)
  <2>1. r \in Made /\ r \in Ids /\ r \in stored /\ r \in stored'
    BY <1>1, <1>3, LiveFacts, WriteKeeps DEF Typed, Live
  <2>2. actor[h] \in {Gate[r], "human"}
    <3>1. \/ actor[h] = "human"
          \/ actor[h] = "agent" /\ Role[about[r].key] = "deploy"
      BY <1>1 DEF StartersOK, Starting
    <3>2. Role[about[r].key] = "deploy" => Gate[r] = "agent"
      BY <2>1 DEF Gate
    <3>3. QED BY <3>1, <3>2
  <2>3. approvedBy' = [approvedBy EXCEPT ![r] = actor[h]]
    BY <1>1, <1>3, <2>1 DEF StartersOK, Typed, RequestsTyped
  <2>4. MoveStep(r)
    BY <1>1, <1>3, <2>1, <2>2, <2>3 DEF MoveStep, Typed, RequestsTyped
  <2>5. ActorStep
    BY <1>1, <1>3, DoneStarts, MovesOn DEF Typed, Starting
  <2>6. QED BY <2>1, <2>4, <2>5 DEF LifeStep
<1>4. QED
  BY <1>2, <1>3, Zenon DEF StartUpdate

\* The end of a deployment closes its request, or rewrites how it ended.
LEMMA EndLives ==
    ASSUME AccessInv, NEW r \in Ids, run[r] # "none",
           r \in Live, WriteRequest(r), UNCHANGED <<made, about, approvedBy>>,
           NEW t \in {"succeeded", "failed"}, status' = [status EXCEPT ![r] = t]
    PROVE  LifeStep
<1>1. r \in stored /\ r \in stored'
  BY WriteKeeps DEF Live
<1>2. status[r] \in {"running", "succeeded", "failed"}
  BY DEF AccessInv, RequestsOK
<1>3. \A q \in Ids : status'[q] = IF q = r THEN t ELSE status[q]
  BY DEF AccessInv, Typed, RequestsTyped
<1>4. CASE status[r] = "running"
  BY <1>1, <1>3, <1>4 DEF MoveStep, LifeStep
<1>5. CASE status[r] \in {"succeeded", "failed"}
  <2>1. stored' \subseteq Ids
    <3>1. stored' \subseteq Live \cup {r}
      BY DEF WriteRequest, Newest
    <3>2. QED BY <3>1, LiveFacts DEF AccessInv, Typed
  <2>2. QED BY <1>3, <1>5, <2>1 DEF QuietStep, LifeStep
<1>6. QED BY <1>2, <1>4, <1>5

\* Every action is a step of the lifecycle, and starts only what may start.
LEMMA NextLives ==
    ASSUME AccessInv, StartersOK, Next PROVE LifeStep /\ ActorStep
<1>1. Typed
  BY DEF AccessInv
<1>2. ASSUME UNCHANGED <<made, about, status, approvedBy>> PROVE LifeStep
  BY <1>2 DEF LifeStep, QuietStep
<1>3. ASSUME UNCHANGED handlerVars PROVE ActorStep
  BY <1>3, NoStarts DEF handlerVars
<1>4. CASE KeyStep \/ \E a \in Apps : AppComesOrGoes(a)
  BY <1>2, <1>3, <1>4 DEF KeyStep, AppComesOrGoes, requestVars
<1>5. CASE Restart
  BY <1>2, <1>5 DEF Restart, requestVars, ActorStep, Starting
<1>6. ASSUME NEW h \in Handlers, HandlerStep(h) PROVE LifeStep /\ ActorStep
  <2>1. ASSUME NEW c \in Calls, Authenticate(h, c) PROVE LifeStep /\ ActorStep
    <3>1. ActorStep
      BY <1>1, <2>1, MovesOn DEF Authenticate, Typed, Starting
    <3>2. QED BY <1>2, <2>1, <3>1 DEF Authenticate, requestVars
  <2>2. ASSUME NEW r \in Ids, Approve(h, r) PROVE LifeStep /\ ActorStep
    <3>1. ActorStep
      BY <1>1, <2>2 DEF Approve, ActorStep, Goto, Typed, HandlersTyped
    <3>2. QED BY <1>2, <2>2, <3>1 DEF Approve, requestVars
  <2>3. CASE Respond(h)
    <3>1. ActorStep
      BY <1>1, <2>3, DoneStarts DEF Respond, Typed
    <3>2. QED BY <1>1, <2>3, <3>1, ReadLives DEF Respond
  <2>4. CASE StartGet(h)
    <3>1. ActorStep
      <4>1. CASE Done(h)
        BY <1>1, <4>1, DoneStarts DEF Typed
      <4>2. CASE Goto(h, "key") /\ UNCHANGED <<call, target, actor>>
        BY <1>1, <2>4, <4>2, MovesOn DEF StartGet, Typed, Starting
      <4>3. QED BY <2>4, <4>1, <4>2 DEF StartGet
    <3>2. QED BY <1>1, <2>4, <3>1, ReadLives DEF StartGet
  <2>5. CASE StartKey(h)
    <3>1. ActorStep
      <4>1. CASE Done(h)
        BY <1>1, <4>1, DoneStarts DEF Typed
      <4>2. CASE Goto(h, "update") /\ UNCHANGED <<call, target, actor, late>>
        BY <1>1, <2>5, <4>2, MovesOn DEF StartKey, Typed, Starting
      <4>3. QED BY <2>5, <4>1, <4>2 DEF StartKey
    <3>2. QED BY <1>2, <2>5, <3>1 DEF StartKey, requestVars
  <2>6. CASE CreateRequest(h)
    BY <1>1, <2>6, CreateLives
  <2>7. CASE StartUpdate(h)
    BY <2>7, UpdateLives
  <2>8. QED BY <1>6, <2>1, <2>2, <2>3, <2>4, <2>5, <2>6, <2>7 DEF HandlerStep
<1>7. ASSUME NEW r \in Ids, RunStep(r) PROVE LifeStep /\ ActorStep
  <2>1. ActorStep
    BY <1>3, <1>7 DEF RunStep, RunBegins, RunPrepares, BuildSucceeds, BuildFails,
                      RunFails
  <2>2. CASE RunBegins(r)
    BY <1>1, <2>1, <2>2, ReadLives DEF RunBegins
  <2>3. CASE RunPrepares(r) \/ BuildFails(r)
    BY <1>2, <2>1, <2>3 DEF RunPrepares, BuildFails, requestVars
  <2>4. CASE BuildSucceeds(r)
    <3>1. CASE UNCHANGED status
      BY <1>2, <2>1, <2>4, <3>1 DEF BuildSucceeds
    <3>2. CASE /\ r \in Live /\ WriteRequest(r)
               /\ status' = [status EXCEPT ![r] = "succeeded"]
      BY <2>1, <2>4, <3>2, EndLives DEF BuildSucceeds
    <3>3. QED BY <2>4, <3>1, <3>2 DEF BuildSucceeds
  <2>5. CASE RunFails(r)
    <3>1. CASE UNCHANGED status
      BY <1>2, <2>1, <2>5, <3>1 DEF RunFails
    <3>2. CASE /\ r \in Live /\ WriteRequest(r)
               /\ status' = [status EXCEPT ![r] = "failed"]
      BY <2>1, <2>5, <3>2, EndLives DEF RunFails
    <3>3. QED BY <2>5, <3>1, <3>2 DEF RunFails, NotFound
  <2>6. QED BY <1>7, <2>2, <2>3, <2>4, <2>5 DEF RunStep
<1>8. ASSUME NEW r \in Ids, Reject(r) PROVE LifeStep /\ ActorStep
  <2>1. r \in Live /\ r \in stored /\ r \in stored'
    BY <1>8, WriteKeeps DEF Reject, Live
  <2>2. MoveStep(r)
    BY <1>1, <1>8, <2>1 DEF Reject, MoveStep, Typed, RequestsTyped
  <2>3. QED BY <1>3, <1>8, <2>2 DEF Reject, LifeStep
<1>9. ASSUME NEW r \in Ids, Poll(r) PROVE LifeStep /\ ActorStep
  BY <1>1, <1>3, <1>9, ReadLives DEF Poll
<1>10. ASSUME NEW r \in Ids, Expires(r) \/ Ages(r) PROVE LifeStep /\ ActorStep
  BY <1>2, <1>3, <1>10 DEF Expires, Ages, requestVars
<1>11. QED BY <1>4, <1>5, <1>6, <1>7, <1>8, <1>9, <1>10 DEF Next

\* Who starts a request may, and nobody has started a pending one.
LEMMA StartersKept ==
    ASSUME AccessInv, StartersOK, Next PROVE StartersOK'
<1>1. Typed /\ Typed' /\ GrowStep /\ RequestStep /\ LifeStep /\ ActorStep
  BY NextStep, NextLives DEF AccessInv, Step
<1>2. ASSUME NEW h \in Handlers, stage'[h] \in Starting
      PROVE  \/ actor'[h] = "human"
             \/ actor'[h] = "agent" /\ Role[about'[target'[h]].key] = "deploy"
  <2>1. CASE stage[h] \in Starting /\ UNCHANGED <<target[h], actor[h]>>
    <3>1. target[h] \in Made
      BY <1>1, <2>1 DEF Typed, HandlersTyped, Starting
    <3>2. about'[target[h]] = about[target[h]]
      BY <1>1, <3>1 DEF GrowStep
    <3>3. QED BY <2>1, <3>2 DEF StartersOK
  <2>2. QED BY <1>1, <1>2, <2>1 DEF ActorStep
<1>3. ASSUME NEW r \in Ids, status'[r] = "pending" PROVE approvedBy'[r] = "none"
  <2>1. status[r] = "pending"
    BY <1>1, <1>3 DEF RequestStep, StatusStep
  <2>2. approvedBy[r] = "none"
    BY <2>1 DEF StartersOK
  <2>3. ASSUME NEW q \in Ids, MoveStep(q) PROVE approvedBy'[r] = approvedBy[r]
    BY <1>1, <1>3, <2>3 DEF MoveStep, Typed, RequestsTyped
  <2>4. QED BY <1>1, <2>2, <2>3 DEF LifeStep, QuietStep, SubmitStep
<1>4. QED BY <1>2, <1>3 DEF StartersOK

\* Where a request is, case by case.
LEMMA PhaseFacts ==
    ASSUME Typed, NEW r \in Ids
    PROVE  /\ r \notin Made => Phase[r] = "unborn"
           /\ r \in Made \ stored => Phase[r] = "forgotten"
           /\ r \in stored =>
                 /\ status[r] = "pending" => Phase[r] = "waiting"
                 /\ status[r] = "running" => Phase[r] = "launched"
                 /\ status[r] \in {"rejected", "expired"} => Phase[r] = "declined"
                 /\ status[r] \in {"succeeded", "failed"} => Phase[r] = "ended"
           /\ r \in Made => Phase[r] # "unborn"
<1>1. stored \subseteq Made
  BY DEF Typed, StoreTyped
<1>2. status[r] \in Statuses
  BY DEF Typed, RequestsTyped
<1>3. QED BY <1>1, <1>2 DEF Phase, Statuses

\* Who may launch a request does not change once it is made.
LEMMA GateFacts ==
    ASSUME Typed, GrowStep, UNCHANGED <<made, about>> PROVE Gate' = Gate
BY DEF Gate, Made

\* The requests that are no longer in the store, but r.
Lost(r) == {q \in Made \ stored' : q # r}

\* The requests that leave the store are forgotten; the others stay where they
\* are, but for one that moves.
LEMMA PhaseMoves ==
    ASSUME Typed, Typed', GrowStep, LifeStep,
           NEW r, NEW p, r \in Ids => Phase'[r] = p,
           \A q \in Ids : q \in Made' => q \in Made \/ q = r,
           \A q \in stored' \cap stored : q = r \/ Phase'[q] = Phase[q]
    PROVE  /\ \A q \in Lost(r) : Phase[q] # "unborn"
           /\ Phase' = [q \in Ids |-> IF q \in Lost(r) THEN "forgotten"
                                      ELSE IF q = r THEN p ELSE Phase[q]]
<1>1. Made \subseteq Ids /\ Made' \subseteq Ids /\ Made \subseteq Made'
  <2>1. made \in 0..MaxRequests /\ made' \in 0..MaxRequests
    BY DEF Typed, RequestsTyped
  <2>2. QED BY <2>1, AccessAssumption DEF Made, Ids, GrowStep
<1>2. stored \subseteq Made /\ stored' \subseteq Made'
  BY DEF Typed, StoreTyped
<1>3. stored' \subseteq stored \cup (Made' \ Made)
  BY DEF GrowStep
<1>4. \A q \in Ids : q \in Made' \ stored' => Phase'[q] = "forgotten"
  BY DEF Phase
<1>5. \A q \in Ids : q \notin Made' => Phase'[q] = "unborn" /\ Phase[q] = "unborn"
  BY <1>1, <1>2 DEF Phase
<1>6. \A q \in Made : Phase[q] # "unborn"
  BY <1>1, PhaseFacts
<1>7. ASSUME NEW q \in Ids
      PROVE  Phase'[q] = IF q \in Lost(r) THEN "forgotten"
                         ELSE IF q = r THEN p ELSE Phase[q]
  BY <1>1, <1>2, <1>3, <1>4, <1>5, <1>7 DEF Lost
<1>8. Phase' = [q \in Ids |-> Phase'[q]]
  BY DEF Phase
<1>9. QED BY <1>1, <1>6, <1>7, <1>8 DEF Lost

\* A quiet step forgets requests, if anything.
LEMMA QuietForgets ==
    ASSUME Typed, Typed', GrowStep, QuietStep
    PROVE  \E lost \in SUBSET Ids : Lifecycle!Forget(lost)
<1> DEFINE lost == Lost(Nobody)
<1>1. Made \subseteq Ids /\ Made' = Made
  BY MadeFacts DEF Typed, RequestsTyped, QuietStep, Made
<1>2. Nobody \notin Ids
  BY AccessAssumption
<1>3. ASSUME NEW q \in stored' \cap stored PROVE Phase'[q] = Phase[q]
  <2>1. q \in Ids /\ q \in Made
    BY <1>1, <1>3 DEF Typed, StoreTyped
  <2>2. \/ status'[q] = status[q]
        \/ /\ status[q] \in {"succeeded", "failed"}
           /\ status'[q] \in {"succeeded", "failed"}
    BY <1>3 DEF QuietStep
  <2>3. QED BY <1>1, <1>3, <2>1, <2>2 DEF Phase
<1>4. LifeStep
  BY DEF LifeStep
<1>5. /\ \A q \in lost : Phase[q] # "unborn"
      /\ Phase' = [q \in Ids |-> IF q \in lost THEN "forgotten"
                                 ELSE IF q = Nobody THEN "none" ELSE Phase[q]]
  BY <1>1, <1>2, <1>3, <1>4, PhaseMoves
<1>6. Phase' = [q \in Ids |-> IF q \in lost THEN "forgotten" ELSE Phase[q]]
  BY <1>2, <1>5, SMT
<1>7. Gate' = Gate /\ approvedBy' = approvedBy
  BY GateFacts DEF QuietStep
<1>8. lost \in SUBSET Ids
  BY <1>1 DEF Lost
<1>9. Lifecycle!Forget(lost)
  BY <1>5, <1>6, <1>7 DEF Lifecycle!Forget
<1>10. QED BY <1>8, <1>9

\* A request that is made is submitted.
LEMMA SubmitSubmits ==
    ASSUME AccessInv, Typed', GrowStep, SubmitStep
    PROVE  \E lost \in SUBSET Ids : \E r \in Ids : Lifecycle!Submit(r, lost)
<1> DEFINE r == made'
           lost == Lost(r)
<1>1. Typed /\ r \in Ids /\ r \notin Made /\ r \in stored' /\ status'[r] = "pending"
  BY DEF AccessInv, SubmitStep, RequestsOK
<1>2. Made \subseteq Ids /\ Made' = Made \cup {r}
  BY <1>1, MadeFacts DEF Typed, RequestsTyped, SubmitStep
<1>3. ASSUME NEW q \in stored' \cap stored PROVE q = r \/ Phase'[q] = Phase[q]
  <2>1. q \in Ids /\ q \in Made /\ q \in Made' /\ status'[q] = status[q]
    BY <1>1, <1>2, <1>3 DEF Typed, StoreTyped, SubmitStep
  <2>2. QED BY <1>3, <2>1 DEF Phase
<1>4. Phase[r] = "unborn" /\ Phase'[r] = "waiting"
  BY <1>1, <1>2 DEF Phase, Typed, StoreTyped
<1>5. LifeStep
  BY DEF LifeStep
<1>6. /\ \A q \in lost : Phase[q] # "unborn"
      /\ Phase' = [q \in Ids |-> IF q \in lost THEN "forgotten"
                                 ELSE IF q = r THEN "waiting" ELSE Phase[q]]
  BY <1>1, <1>2, <1>3, <1>4, <1>5, PhaseMoves
<1>7. \E g \in {"agent", "human"} : Gate' = [Gate EXCEPT ![r] = g]
  <2>1. \A q \in Ids : q # r => Gate'[q] = Gate[q]
    BY <1>2 DEF Gate, GrowStep
  <2>2. Gate'[r] \in {"agent", "human"}
    BY <1>1, <1>2 DEF Gate
  <2>3. Gate = [q \in Ids |-> Gate[q]] /\ Gate' = [q \in Ids |-> Gate'[q]]
    BY DEF Gate
  <2>4. Gate' = [Gate EXCEPT ![r] = Gate'[r]]
    BY <1>1, <2>1, <2>3
  <2>5. QED BY <2>2, <2>4
<1>8. Lifecycle!Submit(r, lost)
  BY <1>4, <1>6, <1>7 DEF Lifecycle!Submit, Lifecycle!Move, SubmitStep
<1>9. lost \in SUBSET Ids
  BY <1>2 DEF Lost
<1>10. QED BY <1>1, <1>8, <1>9

\* A request that moves is launched, declined or ended.
LEMMA MoveMoves ==
    ASSUME Typed, Typed', GrowStep, NEW r \in Ids, MoveStep(r)
    PROVE  \E lost \in SUBSET Ids : \/ Lifecycle!Launch(r, lost)
                                    \/ Lifecycle!Decline(r, lost)
                                    \/ Lifecycle!End(r, lost)
<1> DEFINE lost == Lost(r)
<1>1. Made \subseteq Ids /\ Made' = Made /\ r \in Made
  BY MadeFacts DEF Typed, RequestsTyped, StoreTyped, MoveStep, Made
<1>2. ASSUME NEW q \in stored' \cap stored PROVE q = r \/ Phase'[q] = Phase[q]
  <2>1. q \in Ids /\ q \in Made
    BY <1>1, <1>2 DEF Typed, StoreTyped
  <2>2. q = r \/ status'[q] = status[q]
    BY <2>1 DEF MoveStep
  <2>3. QED BY <1>1, <1>2, <2>1, <2>2 DEF Phase
<1>3. r \in stored /\ r \in stored' /\ Gate' = Gate /\ LifeStep
  BY GateFacts DEF MoveStep, LifeStep
<1>4. ASSUME NEW p, Phase'[r] = p
      PROVE  /\ \A q \in lost : Phase[q] # "unborn"
             /\ Phase' = [q \in Ids |-> IF q \in lost THEN "forgotten"
                                        ELSE IF q = r THEN p ELSE Phase[q]]
  BY <1>1, <1>2, <1>3, <1>4, PhaseMoves
<1>5. ASSUME NEW p, Phase'[r] = p PROVE Lifecycle!Move(r, p, lost)
  <2>1. \A q \in lost : q # r
    BY DEF Lost
  <2>2. QED BY <1>4, <1>5, <2>1 DEF Lifecycle!Move
<1>6. lost \in SUBSET Ids
  BY <1>1 DEF Lost
<1>7. CASE /\ status[r] = "pending" /\ status'[r] \in {"expired", "rejected"}
           /\ UNCHANGED approvedBy
  <2>1. Phase[r] = "waiting" /\ Phase'[r] = "declined"
    BY <1>1, <1>3, <1>7 DEF Phase
  <2>2. Lifecycle!Decline(r, lost)
    BY <1>3, <1>5, <1>7, <2>1 DEF Lifecycle!Decline
  <2>3. QED BY <1>6, <2>2
<1>8. CASE /\ status[r] = "pending" /\ status'[r] = "running"
           /\ \E who \in {Gate[r], "human"} : approvedBy' = [approvedBy EXCEPT ![r] = who]
  <2>1. Phase[r] = "waiting" /\ Phase'[r] = "launched"
    BY <1>1, <1>3, <1>8 DEF Phase
  <2>2. Lifecycle!Launch(r, lost)
    BY <1>3, <1>5, <1>8, <2>1 DEF Lifecycle!Launch
  <2>3. QED BY <1>6, <2>2
<1>9. CASE /\ status[r] = "running" /\ status'[r] \in {"succeeded", "failed"}
           /\ UNCHANGED approvedBy
  <2>1. Phase[r] = "launched" /\ Phase'[r] = "ended"
    BY <1>1, <1>3, <1>9 DEF Phase
  <2>2. Lifecycle!End(r, lost)
    BY <1>3, <1>5, <1>9, <2>1 DEF Lifecycle!End
  <2>3. QED BY <1>6, <2>2
<1>10. QED BY <1>7, <1>8, <1>9 DEF MoveStep

\* The channel starts and moves as RequestLifecycle does.
LEMMA InitLifecycle == Init => Lifecycle!Init
<1> SUFFICES ASSUME Init PROVE Lifecycle!Init
  OBVIOUS
<1>1. Made = {}
  BY DEF Init, Made
<1>2. Phase = [r \in Ids |-> "unborn"] /\ Gate = [r \in Ids |-> "none"]
  BY <1>1 DEF Phase, Gate, Init
<1>3. QED BY <1>2 DEF Init, Lifecycle!Init

\* A step of the channel is a step of the lifecycle, or none.
LEMMA NextLifecycle ==
    ASSUME AccessInv, StartersOK, [Next]_vars
    PROVE  [Lifecycle!Next]_(Lifecycle!lifecycleVars)
<1>1. CASE Next
  <2>1. Typed /\ Typed' /\ GrowStep /\ LifeStep
    BY <1>1, NextStep, NextLives DEF AccessInv, Step
  <2>2. Lifecycle!Next
    BY <2>1, QuietForgets, SubmitSubmits, MoveMoves DEF LifeStep, Lifecycle!Next
  <2>3. QED BY <2>2
<1>2. CASE UNCHANGED vars
  BY <1>2 DEF vars, requestVars, storeVars, keyVars, Phase, Gate, Made,
              Lifecycle!lifecycleVars
<1>3. QED BY <1>1, <1>2

\* Launched once, never after a decline, and by a human when the key's role asks
\* for approval: the channel implements RequestLifecycle.
THEOREM LifecycleCorrect == Spec => RequestsFollowLifecycle
<1>1. Init => StartersOK
  BY DEF Init, StartersOK, Starting
<1>2. AccessInv /\ StartersOK /\ [Next]_vars => (AccessInv /\ StartersOK)'
  <2>1. ASSUME AccessInv, StartersOK, UNCHANGED vars PROVE StartersOK'
    BY <2>1 DEF vars, StartersOK, Starting, requestVars, handlerVars
  <2>2. QED BY <2>1, NextInv, StartersKept
<1>3. QED
  BY <1>1, <1>2, InitInv, InitLifecycle, NextLifecycle, PTL
  DEF Spec, RequestsFollowLifecycle, Lifecycle!Spec

-----------------------------------------------------------------------------
(* The cap on the store.  The requests in it are strictly ordered by their  *)
(* last update, so among MaxStored + 1 of them one has MaxStored newer ones *)
(* and all others have fewer: two with as many would be the same.           *)

Ordered(S, after) ==
    /\ \A q, r \in S : q \in after[r] => r \notin after[q]
    /\ \A q, r \in S : q = r \/ q \in after[r] \/ r \in after[q]
    /\ \A p, q, r \in S : p \in after[q] /\ q \in after[r] => p \in after[r]

StoreOK ==
    /\ IsFiniteSet(stored) /\ Cardinality(stored) <= MaxStored
    /\ Ordered(stored, newer)

\* Dropping old requests, or writing one: r is in the store, or is made.
DropStep ==
    /\ made' = made
    /\ Live \subseteq stored' /\ stored' \subseteq stored
    /\ \A q \in stored' : newer'[q] \cap stored' = newer[q] \cap stored'

WriteStep(r) ==
    /\ WriteRequest(r)
    /\ \/ r \in Live /\ made' = made
       \/ r = made' /\ Made' = Made \cup {r}

StoreStep == DropStep \/ \E r \in Ids : WriteStep(r)

\* One that drops, at any time, fewer than it must.
CapStep ==
    \A r \in (Live \cup (Made' \ Made)) \ stored' :
        /\ Cardinality(stored') = MaxStored
        /\ stored' \subseteq newer[r] \cup {made'}

\* A part of an order is an order.
LEMMA OrderedPart ==
    ASSUME NEW S, NEW T \in SUBSET S, NEW before, NEW after, Ordered(S, before),
           \A q \in T : after[q] \cap T = before[q] \cap T
    PROVE  Ordered(T, after)
<1>1. \A p, q \in T : p \in after[q] <=> p \in before[q]
  OBVIOUS
<1>2. QED BY <1>1 DEF Ordered

\* The request written last is the newest.
LEMMA TouchedOrdered ==
    ASSUME NEW r \in Ids, Live \subseteq Ids, Ordered(Live, newer)
    PROVE  Ordered(Live \cup {r}, Touched(r, Live))
<1> DEFINE after == Touched(r, Live)
           S == Live \cup {r}
<1>1. \A p, q \in S : p \in after[q] <=>
          /\ q # r
          /\ p = r \/ (p \in newer[q] /\ p \in Live)
  BY DEF Touched
<1> HIDE DEF after
<1>2. \A p, q \in S : p \in after[q] => q \notin after[p]
  BY <1>1 DEF Ordered
<1>3. \A p, q \in S : p = q \/ p \in after[q] \/ q \in after[p]
  BY <1>1 DEF Ordered
<1>4. \A o, p, q \in S : o \in after[p] /\ p \in after[q] => o \in after[q]
  BY <1>1 DEF Ordered
<1>5. Ordered(S, after)
  BY <1>2, <1>3, <1>4 DEF Ordered
<1>6. QED BY <1>5 DEF after

\* In an order, one who is newer has fewer newer ones.
LEMMA FewerNewer ==
    ASSUME NEW S, IsFiniteSet(S), NEW after, Ordered(S, after),
           NEW x \in S, NEW y \in S, y \in after[x]
    PROVE  Cardinality(after[y] \cap S) < Cardinality(after[x] \cap S)
<1> DEFINE X == after[x] \cap S
           Y == after[y] \cap S
<1>1. Y \subseteq X /\ y \in X /\ y \notin Y
  BY DEF Ordered
<1>2. IsFiniteSet(X) /\ Y \in SUBSET X
  BY <1>1, FS_Subset
<1>3. Cardinality(Y) <= Cardinality(X) /\ Cardinality(Y) # Cardinality(X)
  BY <1>1, <1>2, FS_Subset
<1>4. IsFiniteSet(Y)
  BY <1>2, FS_Subset
<1>5. Cardinality(X) \in Nat /\ Cardinality(Y) \in Nat
  BY <1>2, <1>4, FS_CardinalityType
<1>6. QED BY <1>3, <1>5

\* Among more than n of them one has n newer ones or more.
LEMMA SomebodyIsOld ==
    ASSUME NEW S, IsFiniteSet(S), NEW after, Ordered(S, after),
           NEW n \in Nat, Cardinality(S) > n
    PROVE  \E d \in S : ~(Cardinality(after[d] \cap S) < n)
<1> SUFFICES ASSUME \A d \in S : Cardinality(after[d] \cap S) < n PROVE FALSE
  OBVIOUS
<1> DEFINE f == [d \in S |-> Cardinality(after[d] \cap S)]
           T == 0 .. (n - 1)
<1>1. ASSUME NEW d \in S PROVE Cardinality(after[d] \cap S) \in T
  <2>1. IsFiniteSet(after[d] \cap S)
    BY FS_Subset
  <2>2. Cardinality(after[d] \cap S) \in Nat
    BY <2>1, FS_CardinalityType
  <2>3. QED BY <2>2
<1>2. f \in [S -> T]
  BY <1>1
<1>3. IsFiniteSet(T) /\ Cardinality(T) = n
  BY FS_Interval
<1>4. PICK x, y \in S : x # y /\ f[x] = f[y]
  <2>1. Cardinality(T) < Cardinality(S)
    BY <1>3, FS_CardinalityType
  <2> HIDE DEF f, T
  <2>2. QED BY <1>2, <1>3, <2>1, FS_PigeonHole
<1>5. Cardinality(after[x] \cap S) = Cardinality(after[y] \cap S)
  BY <1>4
<1>6. x \in after[y] \/ y \in after[x]
  BY <1>4 DEF Ordered
<1>7. /\ Cardinality(after[x] \cap S) \in Nat
  BY <1>1
<1>8. QED BY <1>5, <1>6, <1>7, FewerNewer

\* Of MaxStored + 1 requests, written with the last one, the oldest goes.
LEMMA NewestKeeps ==
    ASSUME NEW S, IsFiniteSet(S), NEW after, Ordered(S, after),
           Cardinality(S) <= MaxStored + 1
    PROVE  LET T == Newest(S, after)
           IN  /\ IsFiniteSet(T) /\ Cardinality(T) <= MaxStored
               /\ \A d \in S \ T : /\ Cardinality(S) = MaxStored + 1
                                   /\ Cardinality(T) = MaxStored
                                   /\ T \subseteq after[d]
<1> DEFINE T == Newest(S, after)
<1>1. T \in SUBSET S
  BY DEF Newest
<1>2. IsFiniteSet(T) /\ Cardinality(T) <= Cardinality(S)
  BY <1>1, FS_Subset
<1>3. Cardinality(S) \in Nat /\ Cardinality(T) \in Nat /\ MaxStored \in Nat \ {0}
  BY <1>2, FS_CardinalityType, AccessAssumption
<1>4. ASSUME NEW d \in S \ T
      PROVE  /\ Cardinality(S) = MaxStored + 1
             /\ Cardinality(T) = MaxStored
             /\ T \subseteq after[d]
  <2> DEFINE A == after[d] \cap S
             R == S \ {d}
  <2>1. IsFiniteSet(R) /\ Cardinality(R) = Cardinality(S) - 1
    BY FS_RemoveElement
  <2>2. A \in SUBSET R
    BY DEF Ordered
  <2>3. IsFiniteSet(A) /\ Cardinality(A) <= Cardinality(R)
        /\ (Cardinality(R) = Cardinality(A) => R = A)
    BY <2>1, <2>2, FS_Subset
  <2>4. Cardinality(A) \in Nat
    BY <2>3, FS_CardinalityType
  <2>5. ~(Cardinality(A) < MaxStored)
    BY DEF Newest
  <2>6. Cardinality(R) = MaxStored /\ Cardinality(A) = Cardinality(R)
        /\ Cardinality(S) = MaxStored + 1
    BY <1>3, <2>1, <2>3, <2>4, <2>5
  <2>7. R = A
    BY <2>3, <2>6
  <2>8. ASSUME NEW q \in R PROVE q \in T
    <3>1. q \in S /\ q \in after[d]
      BY <2>7
    <3>2. Cardinality(after[q] \cap S) < Cardinality(A)
      BY <3>1, FewerNewer
    <3>3. QED BY <2>6, <3>1, <3>2 DEF Newest
  <2>9. T = R
    BY <1>1, <2>8
  <2>10. QED BY <2>6, <2>7, <2>9
<1>5. Cardinality(T) <= MaxStored
  <2>1. CASE T = S
    <3>1. \A d \in S : Cardinality(after[d] \cap S) < MaxStored
      BY <2>1 DEF Newest
    <3>2. ~(Cardinality(S) > MaxStored)
      BY <1>3, <3>1, SomebodyIsOld
    <3>3. QED BY <1>3, <2>1, <3>2
  <2>2. CASE T # S
    <3>1. PICK d \in S : d \notin T
      BY <1>1, <2>2
    <3>2. Cardinality(T) = MaxStored
      BY <1>4, <3>1
    <3>3. QED BY <1>3, <3>2
  <2>3. QED BY <2>1, <2>2
<1>6. QED BY <1>2, <1>4, <1>5

\* Dropping what is old keeps the store in order.
LEMMA DropKeeps ==
    ASSUME StoreOK, DropStep PROVE StoreOK' /\ CapStep
<1>1. stored' \in SUBSET stored
  BY DEF DropStep
<1>2. IsFiniteSet(stored') /\ Cardinality(stored') <= Cardinality(stored)
  BY <1>1, FS_Subset DEF StoreOK
<1>3. Cardinality(stored') \in Nat /\ Cardinality(stored) \in Nat /\ MaxStored \in Nat
  BY <1>2, FS_CardinalityType, AccessAssumption DEF StoreOK
<1>4. Ordered(stored', newer')
  BY <1>1, OrderedPart DEF StoreOK, DropStep
<1>5. CapStep
  BY DEF CapStep, DropStep, Made
<1>6. QED BY <1>2, <1>3, <1>4, <1>5 DEF StoreOK

\* Writing a request drops the oldest of too many, and no other.
LEMMA WriteDrops ==
    ASSUME Typed, StoreOK, NEW r \in Ids, WriteStep(r) PROVE StoreOK' /\ CapStep
<1> DEFINE after == Touched(r, Live)
           S == Live \cup {r}
<1>1. Live \in SUBSET stored /\ Live \subseteq Ids
  BY LiveFacts DEF Live, Typed
<1>2. IsFiniteSet(Live) /\ Cardinality(Live) <= MaxStored /\ Ordered(Live, newer)
  <2>1. IsFiniteSet(Live) /\ Cardinality(Live) <= Cardinality(stored)
    BY <1>1, FS_Subset DEF StoreOK
  <2>2. Cardinality(Live) \in Nat /\ Cardinality(stored) \in Nat /\ MaxStored \in Nat
    BY <2>1, FS_CardinalityType, AccessAssumption DEF StoreOK
  <2>3. QED BY <1>1, <2>1, <2>2, OrderedPart DEF StoreOK
<1>3. /\ IsFiniteSet(S)
      /\ Cardinality(S) = IF r \in Live THEN Cardinality(Live) ELSE Cardinality(Live) + 1
  BY <1>2, FS_AddElement
<1>4. Cardinality(S) <= MaxStored + 1 /\ (r \in Live => Cardinality(S) # MaxStored + 1)
  BY <1>2, <1>3, FS_CardinalityType, AccessAssumption
<1>5. Ordered(S, after)
  BY <1>1, <1>2, TouchedOrdered
<1>6. stored' = Newest(S, after)
  BY DEF WriteStep, WriteRequest
<1>7. /\ IsFiniteSet(stored') /\ Cardinality(stored') <= MaxStored
      /\ \A d \in S \ stored' : /\ Cardinality(S) = MaxStored + 1
                                /\ Cardinality(stored') = MaxStored
                                /\ stored' \subseteq after[d]
  BY <1>3, <1>4, <1>5, <1>6, NewestKeeps
<1>8. Ordered(stored', newer')
  <2>1. stored' \in SUBSET S /\ stored' \subseteq Ids
    BY <1>1, <1>6 DEF Newest
  <2>2. newer' = [q \in Ids |-> IF q \in stored' THEN after[q] \cap stored' ELSE {}]
    BY <1>6 DEF WriteStep, WriteRequest
  <2>3. \A q \in stored' : newer'[q] \cap stored' = after[q] \cap stored'
    BY <2>1, <2>2
  <2>4. QED BY <1>5, <2>1, <2>3, OrderedPart
<1>9. CapStep
  <2> SUFFICES ASSUME NEW d \in (Live \cup (Made' \ Made)) \ stored'
               PROVE  /\ Cardinality(stored') = MaxStored
                      /\ stored' \subseteq newer[d] \cup {made'}
    BY DEF CapStep
  <2>1. d \in S
    BY DEF WriteStep, Made
  <2>2. r \notin Live /\ Cardinality(stored') = MaxStored /\ stored' \subseteq after[d]
    BY <1>4, <1>7, <2>1
  <2>3. r = made'
    BY <2>2 DEF WriteStep
  <2>4. after[d] \subseteq newer[d] \cup {r}
    BY <1>1, <2>1 DEF Touched
  <2>5. QED BY <2>2, <2>3, <2>4
<1>10. QED BY <1>7, <1>8, <1>9 DEF StoreOK

\* A step that does not touch the store.
LEMMA StoreSame ==
    ASSUME UNCHANGED <<made, stored, newer>> PROVE DropStep
BY DEF DropStep, Live

\* Reading the requests drops those of 30 days ago, and no other.
LEMMA ReadDrops == ASSUME ReadRequests, made' = made, Typed PROVE DropStep
<1>1. stored' = Live /\ Live \subseteq stored /\ Live \subseteq Ids
  BY LiveFacts DEF ReadRequests, Live, Typed
<1>2. QED BY <1>1 DEF DropStep, ReadRequests

\* Writing a request that is there.
LEMMA WriteStores ==
    ASSUME Typed, NEW r \in Live, WriteRequest(r), made' = made PROVE StoreStep
<1>1. WriteStep(r) /\ r \in Ids
  BY LiveFacts DEF WriteStep, Typed
<1>2. QED BY <1>1 DEF StoreStep

\* The requests are read, and one may be closed.
LEMMA ReadStores ==
    ASSUME Typed, made' = made, NEW r, (r \in Live /\ GetRequest(r)) \/ NotFound(r)
    PROVE  StoreStep
<1>1. CASE ReadRequests
  BY <1>1, ReadDrops DEF StoreStep
<1>2. CASE r \in Live /\ WriteRequest(r)
  BY <1>2, WriteStores
<1>3. QED BY <1>1, <1>2 DEF GetRequest, NotFound

\* Every action leaves the store alone, reads it or writes one request.
LEMMA NextStores == ASSUME AccessInv, Next PROVE StoreStep
<1>1. Typed
  BY DEF AccessInv
<1>2. ASSUME UNCHANGED <<requestVars, storeVars>> PROVE StoreStep
  BY <1>2, StoreSame DEF StoreStep, requestVars, storeVars
<1>3. CASE KeyStep \/ (\E a \in Apps : AppComesOrGoes(a)) \/ Restart
  BY <1>2, <1>3 DEF KeyStep, AppComesOrGoes, Restart
<1>4. ASSUME NEW h \in Handlers, HandlerStep(h) PROVE StoreStep
  <2>1. CASE (\E c \in Calls : Authenticate(h, c)) \/ (\E r \in Ids : Approve(h, r))
             \/ StartKey(h)
    BY <1>2, <2>1 DEF Authenticate, Approve, StartKey
  <2>2. CASE Respond(h) \/ StartGet(h)
    BY <1>1, <2>2, ReadStores DEF Respond, StartGet
  <2>3. CASE StartUpdate(h)
    <3>1. made' = made
      BY <2>3 DEF StartUpdate
    <3>2. ReadRequests \/ (target[h] \in Live /\ WriteRequest(target[h]))
      BY <2>3, Zenon DEF StartUpdate
    <3>3. QED BY <1>1, <3>1, <3>2, ReadDrops, WriteStores DEF StoreStep
  <2>4. CASE CreateRequest(h)
    <3>1. CASE UNCHANGED <<requestVars, storeVars>>
      BY <1>2, <3>1
    <3>2. CASE CreateReturnsExisting(h) \/ CreateRefused(h)
      BY <1>1, <3>2, ReadDrops DEF CreateReturnsExisting, CreateRefused, requestVars,
                             StoreStep
    <3>3. CASE CreateNew(h)
      <4>1. made' \in Ids /\ Made' = Made \cup {made'}
        BY <1>1, <3>3, AccessAssumption DEF CreateNew, Typed, RequestsTyped, Made, Ids
      <4>2. WriteRequest(made')
        BY <3>3 DEF CreateNew
      <4>3. QED BY <4>1, <4>2 DEF StoreStep, WriteStep
    <3>4. QED BY <2>4, <3>1, <3>2, <3>3 DEF CreateRequest
  <2>5. QED BY <1>4, <2>1, <2>2, <2>3, <2>4 DEF HandlerStep
<1>5. ASSUME NEW r \in Ids, RunStep(r) PROVE StoreStep
  <2>1. CASE RunBegins(r)
    BY <1>1, <2>1, ReadStores DEF RunBegins
  <2>2. CASE RunPrepares(r) \/ BuildSucceeds(r) \/ BuildFails(r) \/ RunFails(r)
    <3>1. made' = made
      BY <2>2 DEF RunPrepares, BuildSucceeds, BuildFails, RunFails, requestVars
    <3>2. UNCHANGED storeVars \/ ReadRequests \/ (r \in Live /\ WriteRequest(r))
      BY <2>2 DEF RunPrepares, BuildSucceeds, BuildFails, RunFails, NotFound
    <3>3. QED BY <1>1, <3>1, <3>2, StoreSame, ReadDrops, WriteStores
              DEF StoreStep, storeVars
  <2>3. QED BY <1>5, <2>1, <2>2 DEF RunStep
<1>6. ASSUME NEW r \in Ids, Reject(r) PROVE StoreStep
  BY <1>1, <1>6, WriteStores DEF Reject
<1>7. ASSUME NEW r \in Ids, Poll(r) PROVE StoreStep
  BY <1>1, <1>7, ReadStores DEF Poll
<1>8. ASSUME NEW r \in Ids, Expires(r) \/ Ages(r) PROVE StoreStep
  BY <1>8, StoreSame DEF Expires, Ages, StoreStep, requestVars
<1>9. QED BY <1>3, <1>4, <1>5, <1>6, <1>7, <1>8 DEF Next

\* The cap drops a request only when the store is full, and then the one that
\* was not updated for longest.
THEOREM CapCorrect == Spec => CapDropsTheOldest
<1>1. Init => StoreOK
  BY FS_EmptySet, AccessAssumption DEF Init, StoreOK, Ordered
<1>2. AccessInv /\ StoreOK /\ [Next]_vars => (AccessInv /\ StoreOK)'
  <2>1. ASSUME AccessInv, StoreOK, UNCHANGED vars PROVE StoreOK'
    BY <2>1 DEF vars, storeVars, StoreOK
  <2>2. ASSUME AccessInv, StoreOK, Next PROVE StoreOK'
    BY <2>2, NextStores, DropKeeps, WriteDrops DEF AccessInv, StoreStep
  <2>3. QED BY <2>1, <2>2, NextInv
<1>3. AccessInv /\ StoreOK /\ [Next]_vars => [CapStep]_vars
  <2>1. ASSUME AccessInv, StoreOK, Next PROVE CapStep
    BY <2>1, NextStores, DropKeeps, WriteDrops DEF AccessInv, StoreStep
  <2>2. QED BY <2>1
<1>4. QED
  BY <1>1, <1>2, <1>3, InitInv, PTL DEF Spec, CapDropsTheOldest, CapStep

-----------------------------------------------------------------------------
(***************************************************************************)
(* The keys of agents, for any keys, callers and tokens.  Because the      *)
(* operations take turns, what one has read is what is stored until it is  *)
(* done; because every API key is drawn once, no other key answers to one  *)
(* that has ended.                                                         *)
(***************************************************************************)

\* The one whose turn it is has read what is stored.
InTurn(c) == at[c] = "read" => queue # <<>> /\ Head(queue) = c /\ copy[c] = keys

\* The token belongs to no key, or to a revoked one.
Ended(t) == \A k \in KeyIds : keys[k] # None /\ keys[k].token = t => keys[k].revoked

\* A key that is to be added, and its token, are not known yet.
ToAdd(c) ==
    keyCall[c] # None /\ keyCall[c].op = "create" =>
        /\ keyCall[c].id \in KeyIds /\ keys[keyCall[c].id] = None
        /\ keyCall[c].input \in KeyInput
        /\ keyCall[c].token \in 1 .. drawn
        /\ \A k \in KeyIds : keys[k] # None => keys[k].token # keyCall[c].token
        /\ \A d \in Callers \ {c} : keyCall[d] # None =>
              /\ keyCall[d].token # keyCall[c].token
              /\ keyCall[d].op = "create" => keyCall[d].id # keyCall[c].id

\* A key that is to be changed is one, and a token that is to be found was drawn.
ToFind(c) ==
    keyCall[c] # None /\ keyCall[c].op # "create" =>
        IF keyCall[c].op = "authenticate"
        THEN keyCall[c].token \in 1 .. drawn /\ (keyCall[c].late => Ended(keyCall[c].token))
        ELSE keyCall[c].token = None /\ keyCall[c].id \in KeyIds

\* A handler has a record of the key that came, which is there, with its input.
Served(c) ==
    at[c] = "serving" =>
        /\ keyCall[c] # None /\ keyCall[c].op = "authenticate" /\ ~keyCall[c].late
        /\ keyCall[c].id \in KeyIds
        /\ copy[c] # None /\ copy[c][keyCall[c].id] # None
        /\ keys[keyCall[c].id] # None
        /\ copy[c][keyCall[c].id].input = keys[keyCall[c].id].input

\* What was told of a key is what is stored of it, and nothing if it is not there.
AsTold(k) ==
    IF keys[k] = None
    THEN answered[k].token = None /\ ~answered[k].revoked /\ ~answered[k].paused
    ELSE /\ answered[k].token = keys[k].token
         /\ answered[k].revoked <=> keys[k].revoked
         /\ answered[k].paused <=> keys[k].paused

TokensDistinct ==
    \A k \in KeyIds : keys[k] # None =>
        /\ keys[k].token \in 1 .. drawn
        /\ \A j \in KeyIds : keys[j] # None /\ keys[j].token = keys[k].token => j = k

\* A request is about an app of the scope of its key.
Scoped(r) == keys[r[1]] # None /\ r[2] \in keys[r[1]].input.appNames

KeysInv ==
    /\ KeysTypeOK
    /\ \A c \in Callers : /\ at[c] = "idle" <=> keyCall[c] = None
                          /\ InTurn(c) /\ ToAdd(c) /\ ToFind(c) /\ Served(c)
    /\ \A k \in KeyIds : AsTold(k)
    /\ TokensDistinct
    /\ \A r \in requests : Scoped(r)

LEMMA TokensAreNumbers ==
    ASSUME KeysInv
    PROVE  drawn \in 0 .. MaxTokens /\ (\A t \in 1 .. drawn : t \in Token /\ t # None /\ t # drawn + 1)
BY BoundsAssumption, NoneAssumption DEF KeysInv, KeysTypeOK, Token

\* What an Invariant says of the calls, for a caller of its own.
LEMMA CallKnown ==
    ASSUME KeysInv, NEW c \in Callers
    PROVE  /\ keyCall[c] \in KeyCall \cup {None}
           /\ at[c] \in {"idle", "queued", "read", "serving"}
           /\ at[c] = "idle" <=> keyCall[c] = None
           /\ InTurn(c) /\ ToAdd(c) /\ ToFind(c) /\ Served(c)
BY DEF KeysInv, KeysTypeOK

\* A call gets in line.
LEMMA CallerLinesUp ==
    ASSUME KeysInv, NEW c \in Callers, NEW x \in KeyCall, GetInLine(c, x),
           drawn' \in 0 .. MaxTokens, drawn' \in {drawn, drawn + 1},
           x.op = "create" =>
               /\ x.id \in KeyIds /\ keys[x.id] = None /\ x.input \in KeyInput
               /\ x.token = drawn + 1 /\ drawn' = drawn + 1
               /\ \A d \in Callers : keyCall[d] # None => keyCall[d].id # x.id,
           x.op = "authenticate" =>
               /\ x.token \in 1 .. drawn /\ (x.late => Ended(x.token))
               /\ \A d \in Callers : keyCall[d] # None =>
                      keyCall[d].token # x.token \/ keyCall[d].op # "create",
           x.op \notin {"create", "authenticate"} => x.token = None /\ x.id \in KeyIds
    PROVE  KeysInv'
<1>1. KeysTypeOK /\ x # None
  BY CallAssumption DEF KeysInv
<1>2. /\ keyCall' \in [Callers -> KeyCall \cup {None}] /\ keyCall'[c] = x
      /\ \A d \in Callers : d # c => keyCall'[d] = keyCall[d]
      /\ at' \in [Callers -> {"idle", "queued", "read", "serving"}] /\ at'[c] = "queued"
      /\ \A d \in Callers : d # c => at'[d] = at[d]
      /\ UNCHANGED <<keys, expired, requests, copy, answered>>
      /\ keyCall[c] = None
  BY <1>1, CallKnown DEF GetInLine, KeysTypeOK
<1>3. drawn \in 0 .. MaxTokens /\ (\A t \in 1 .. drawn : t \in Token /\ t # None /\ t # drawn + 1)
  BY TokensAreNumbers
<1>4. \A t \in 1 .. drawn : t \in 1 .. drawn'
  BY <1>3, BoundsAssumption
<1>5. queue' = Append(queue, c) /\ queue \in Seq(Callers)
  BY <1>1 DEF GetInLine, KeysTypeOK
<1>6. KeysTypeOK'
  BY <1>1, <1>2, <1>5 DEF KeysTypeOK
<1>7. \A d \in Callers : (at[d] = "idle" <=> keyCall[d] = None)'
  BY <1>1, <1>2, CallKnown
<1>8. \A d \in Callers : InTurn(d)'
  <2> SUFFICES ASSUME NEW d \in Callers, at'[d] = "read" PROVE InTurn(d)'
    BY DEF InTurn
  <2>1. at[d] = "read"
    BY <1>2
  <2>2. queue # <<>> /\ Head(queue) = d /\ copy[d] = keys
    BY <2>1, CallKnown DEF InTurn
  <2>3. queue' # <<>> /\ Head(queue') = d
    BY <1>5, <2>2
  <2> QED BY <1>2, <2>2, <2>3 DEF InTurn
<1>9. \A d \in Callers : ToAdd(d)'
  <2> SUFFICES ASSUME NEW d \in Callers, keyCall'[d] # None, keyCall'[d].op = "create" PROVE ToAdd(d)'
    BY DEF ToAdd
  <2>1. CASE d = c
    <3>1. x.op = "create"
      BY <1>2, <2>1
    <3>2. drawn + 1 \in 1 .. drawn'
      BY <1>3, <3>1
    <3>3. \A k \in KeyIds : keys[k] # None => keys[k].token # drawn + 1
      BY <1>3 DEF KeysInv, TokensDistinct
    <3>4. \A e \in Callers : keyCall[e] # None => keyCall[e].token # drawn + 1
      <4> SUFFICES ASSUME NEW e \in Callers, keyCall[e] # None PROVE keyCall[e].token # drawn + 1
        OBVIOUS
      <4>1. keyCall[e].token \in 1 .. drawn \/ keyCall[e].token = None
        BY CallKnown DEF ToAdd, ToFind
      <4>2. drawn + 1 \in Token
        BY <1>3, <3>1, BoundsAssumption DEF Token
      <4> QED BY <1>3, <4>1, <4>2, NoneAssumption
    <3> QED BY <1>2, <2>1, <3>1, <3>2, <3>3, <3>4 DEF ToAdd
  <2>2. CASE d # c
    <3>1. keyCall[d] # None /\ keyCall[d].op = "create" /\ ToAdd(d)
      BY <1>2, <2>2, CallKnown
    <3>2. keyCall[d].token \in 1 .. drawn
      BY <3>1 DEF ToAdd
    <3>3. x.token # keyCall[d].token
      BY <1>3, <3>1, <3>2
    <3>4. x.op = "create" => x.id # keyCall[d].id
      BY <3>1
    <3> QED BY <1>2, <1>4, <2>2, <3>1, <3>2, <3>3, <3>4 DEF ToAdd
  <2> QED BY <2>1, <2>2
<1>10. \A d \in Callers : ToFind(d)'
  <2> SUFFICES ASSUME NEW d \in Callers, keyCall'[d] # None, keyCall'[d].op # "create" PROVE ToFind(d)'
    BY DEF ToFind
  <2>1. CASE d = c
    BY <1>2, <1>4, <2>1 DEF ToFind, Ended
  <2>2. CASE d # c
    BY <1>2, <1>4, <2>2, CallKnown DEF ToFind, Ended
  <2> QED BY <2>1, <2>2
<1>11. \A d \in Callers : Served(d)'
  BY <1>2, CallKnown DEF Served
<1>12. (\A k \in KeyIds : AsTold(k))' /\ (\A r \in requests : Scoped(r))'
  BY <1>2 DEF KeysInv, AsTold, Scoped
<1>13. TokensDistinct'
  BY <1>2, <1>4 DEF KeysInv, TokensDistinct
<1> QED BY <1>6, <1>7, <1>8, <1>9, <1>10, <1>11, <1>12, <1>13 DEF KeysInv

LEMMA CallsBegin ==
    ASSUME KeysInv, NEW c \in Callers,
           \/ \E k \in KeyIds, input \in KeyInputs : CreateAgentKey(c, k, input)
           \/ \E op \in Ops, k \in KeyIds : ChangeAgentKey(c, op, k)
           \/ \E t \in Token : AgentComes(c, t)
    PROVE  KeysInv'
<1>0. drawn \in 0 .. MaxTokens
  BY DEF KeysInv, KeysTypeOK
<1>1. ASSUME NEW k \in KeyIds, NEW input \in KeyInputs, CreateAgentKey(c, k, input)
      PROVE  KeysInv'
  <2>1. drawn + 1 \in Token /\ drawn' = drawn + 1 /\ drawn' \in 0 .. MaxTokens
    BY <1>0, <1>1, BoundsAssumption DEF CreateAgentKey, Token
  <2>2. PICK t \in Token : t = drawn + 1
    BY <2>1
  <2>3. PICK x \in KeyCall : x = [op |-> "create", id |-> k, token |-> t, input |-> input, late |-> FALSE]
    BY InputsAssumption DEF KeyCall, Ops
  <2>4. GetInLine(c, x)
    BY <1>1, <2>2, <2>3 DEF CreateAgentKey
  <2> QED BY <1>0, <1>1, <2>1, <2>2, <2>3, <2>4, InputsAssumption, CallerLinesUp DEF CreateAgentKey
<1>2. ASSUME NEW op \in Ops, NEW k \in KeyIds, ChangeAgentKey(c, op, k)
      PROVE  KeysInv'
  <2>1. PICK x \in KeyCall : x = [op |-> op, id |-> k, token |-> None, input |-> None, late |-> FALSE]
    BY DEF KeyCall
  <2>2. GetInLine(c, x) /\ op \notin {"create", "authenticate"}
    BY <1>2, <2>1 DEF ChangeAgentKey
  <2> QED BY <1>0, <1>2, <2>1, <2>2, CallerLinesUp DEF ChangeAgentKey
<1>3. ASSUME NEW t \in Token, AgentComes(c, t)
      PROVE  KeysInv'
  <2>1. PICK tooLate \in BOOLEAN : tooLate = EndedToken(t)
    BY DEF EndedToken
  <2>2. PICK x \in KeyCall : x = [op |-> "authenticate", id |-> None, token |-> t, input |-> None,
                                late |-> tooLate]
    BY DEF KeyCall, Ops
  <2>3. GetInLine(c, x)
    BY <1>3, <2>1, <2>2 DEF AgentComes
  <2>4. t \in 1 .. drawn
    BY <1>0, <1>3, BoundsAssumption DEF AgentComes, Token
  <2>5. EndedToken(t) => Ended(t)
    <3> SUFFICES ASSUME EndedToken(t), NEW k \in KeyIds, keys[k] # None, keys[k].token = t
                 PROVE  keys[k].revoked
      BY DEF Ended
    <3>0. \A i \in KeyIds : AsTold(i)
      BY DEF KeysInv
    <3>1. answered[k].token = t
      BY <3>0 DEF AsTold
    <3>2. PICK j \in KeyIds : answered[j].token = t /\ answered[j].revoked
      BY <3>1 DEF EndedToken
    <3>3. keys[j] # None /\ keys[j].token = t
      BY <3>0, <3>2, NoneAssumption DEF AsTold
    <3>4. j = k
      BY <3>3 DEF KeysInv, TokensDistinct
    <3> QED BY <3>0, <3>2, <3>4 DEF AsTold
  <2>6. drawn' = drawn
    BY <1>3 DEF AgentComes
  <2>7. \A d \in Callers : keyCall[d] # None => keyCall[d].token # t \/ keyCall[d].op # "create"
    BY <1>3 DEF AgentComes
  <2>8. x.op = "authenticate" /\ x.token = t /\ (x.late => Ended(x.token))
    BY <2>1, <2>2, <2>5
  <2> QED BY <1>0, <2>3, <2>4, <2>6, <2>7, <2>8, CallerLinesUp
<1> QED BY <1>1, <1>2, <1>3

\* A key changes, and it is told, as the operations change one: its input stays,
\* it stays revoked, and its token is the one it had or one that is new.
KeyChanges(c, k, r, told) ==
    /\ keys' = [keys EXCEPT ![k] = r]
    /\ answered' = [answered EXCEPT ![k] = told]
    /\ told.token = r.token
    /\ told.revoked <=> r.revoked
    /\ told.paused <=> r.paused
    /\ \/ /\ keys[k] # None
          /\ r.input = keys[k].input
          /\ keys[k].revoked => r.revoked
          /\ r.token = keys[k].token \/ (r.token = drawn + 1 /\ drawn' = drawn + 1)
       \/ /\ keyCall[c].op = "create" /\ k = keyCall[c].id
          /\ r.token = keyCall[c].token

\* The operation whose turn it is ends, and has changed one key or none.
LEMMA OperationEnds ==
    ASSUME KeysInv, NEW c \in Callers, at[c] = "read", Leave(c, "idle") \/ Leave(c, "failed"),
           UNCHANGED <<expired, requests>>,
           drawn' \in 0 .. MaxTokens, drawn' \in {drawn, drawn + 1},
           \/ UNCHANGED <<keys, answered>>
           \/ \E k \in KeyIds, r \in Record, told \in Told : KeyChanges(c, k, r, told)
    PROVE  KeysInv'
<1>1. KeysTypeOK
  BY DEF KeysInv
<1>2. /\ keyCall' \in [Callers -> KeyCall \cup {None}] /\ keyCall'[c] = None
      /\ \A d \in Callers : d # c => keyCall'[d] = keyCall[d]
      /\ at' \in [Callers -> {"idle", "queued", "read", "serving"}] /\ at'[c] = "idle"
      /\ \A d \in Callers : d # c => at'[d] = at[d]
      /\ copy' \in [Callers -> [KeyIds -> Record \cup {None}] \cup {None}]
      /\ \A d \in Callers : d # c => copy'[d] = copy[d]
      /\ queue' = Tail(queue)
  BY <1>1 DEF Leave, KeysTypeOK
<1>3. drawn \in 0 .. MaxTokens /\ (\A t \in 1 .. drawn : t \in Token /\ t # None /\ t # drawn + 1)
  BY TokensAreNumbers
<1>4. \A t \in 1 .. drawn : t \in 1 .. drawn'
  BY <1>3, BoundsAssumption
<1>5. keyCall[c] # None /\ queue # <<>> /\ Head(queue) = c
  BY CallKnown DEF InTurn
<1>6. /\ keys' \in [KeyIds -> Record \cup {None}]
      /\ answered' \in [KeyIds -> Told]
  BY <1>1 DEF KeysTypeOK, KeyChanges
<1>7. KeysTypeOK'
  <2>1. queue' \in Seq(Callers)
    BY <1>1, <1>2, <1>5 DEF KeysTypeOK
  <2> QED BY <1>1, <1>2, <1>6, <2>1 DEF KeysTypeOK
<1>8. \A d \in Callers : (at[d] = "idle" <=> keyCall[d] = None)'
  BY <1>2, CallKnown
<1>9. \A d \in Callers : InTurn(d)'
  <2> SUFFICES ASSUME NEW d \in Callers, at'[d] = "read" PROVE FALSE
    BY DEF InTurn
  <2>1. d # c /\ at[d] = "read"
    BY <1>2
  <2> QED BY <2>1, <1>5, CallKnown DEF InTurn
<1>10. CASE UNCHANGED <<keys, answered>>
  <2>1. \A d \in Callers : ToAdd(d)'
    <3> SUFFICES ASSUME NEW d \in Callers, keyCall'[d] # None, keyCall'[d].op = "create" PROVE ToAdd(d)'
      BY DEF ToAdd
    <3>1. d # c /\ keyCall'[d] = keyCall[d] /\ ToAdd(d)
      BY <1>2, CallKnown
    <3>2. \A e \in Callers : keyCall'[e] # None => keyCall'[e] = keyCall[e]
      BY <1>2
    <3> QED BY <1>4, <1>10, <3>1, <3>2 DEF ToAdd
  <2>2. \A d \in Callers : ToFind(d)'
    BY <1>2, <1>4, <1>10, CallKnown DEF ToFind, Ended
  <2>3. \A d \in Callers : Served(d)'
    BY <1>2, <1>10, CallKnown DEF Served
  <2>4. (\A j \in KeyIds : AsTold(j))' /\ (\A q \in requests : Scoped(q))'
    BY <1>10 DEF KeysInv, AsTold, Scoped
  <2>5. TokensDistinct'
    BY <1>10, <1>4 DEF KeysInv, TokensDistinct
  <2> QED BY <1>7, <1>8, <1>9, <2>1, <2>2, <2>3, <2>4, <2>5 DEF KeysInv
<1>11. CASE ~ UNCHANGED <<keys, answered>>
  <2>0. PICK k \in KeyIds, r \in Record, told \in Told : KeyChanges(c, k, r, told)
    BY <1>11
  <2>1. /\ keys'[k] = r /\ answered'[k] = told
        /\ told.token = r.token /\ (told.revoked <=> r.revoked) /\ (told.paused <=> r.paused)
        /\ \A j \in KeyIds : j # k => keys'[j] = keys[j] /\ answered'[j] = answered[j]
        /\ r # None
    BY <1>1, <2>0, NoneAssumption DEF KeysTypeOK, KeyChanges
  <2>2. \/ /\ keys[k] # None /\ r.input = keys[k].input
           /\ keys[k].revoked => r.revoked
           /\ r.token = keys[k].token \/ (r.token = drawn + 1 /\ drawn' = drawn + 1)
        \/ /\ keyCall[c].op = "create" /\ k = keyCall[c].id /\ r.token = keyCall[c].token
           /\ ToAdd(c) /\ keys[k] = None
    BY <1>5, <2>0, CallKnown DEF ToAdd, KeyChanges
  <2>3. \A d \in Callers : keyCall[d] # None /\ d # c /\ r.token = keyCall[d].token
           /\ keyCall[d].token \in 1 .. drawn => keys[k] # None /\ r.token = keys[k].token
    BY <1>3, <1>5, <2>2 DEF ToAdd
  <2>4. \A d \in Callers : ToAdd(d)'
    <3> SUFFICES ASSUME NEW d \in Callers, keyCall'[d] # None, keyCall'[d].op = "create" PROVE ToAdd(d)'
      BY DEF ToAdd
    <3>1. d # c /\ keyCall'[d] = keyCall[d] /\ ToAdd(d)
      BY <1>2, CallKnown
    <3>2. \A e \in Callers : keyCall'[e] # None => keyCall'[e] = keyCall[e]
      BY <1>2
    <3>3. keyCall[d].id # k
      BY <1>5, <2>2, <3>1 DEF ToAdd
    <3>4. r.token # keyCall[d].token
      BY <2>3, <3>1 DEF ToAdd
    <3>5. \A j \in KeyIds : keys'[j] # None => keys'[j].token # keyCall[d].token
      BY <2>1, <3>1, <3>4 DEF ToAdd
    <3>6. keys'[keyCall[d].id] = None
      BY <2>1, <3>1, <3>3 DEF ToAdd
    <3> QED BY <1>4, <3>1, <3>2, <3>5, <3>6 DEF ToAdd
  <2>5. \A d \in Callers : ToFind(d)'
    <3> SUFFICES ASSUME NEW d \in Callers, keyCall'[d] # None, keyCall'[d].op # "create" PROVE ToFind(d)'
      BY DEF ToFind
    <3>1. d # c /\ keyCall'[d] = keyCall[d] /\ ToFind(d)
      BY <1>2, CallKnown
    <3>2. ASSUME keyCall[d].op = "authenticate", keyCall[d].late PROVE Ended(keyCall[d].token)'
      <4>1. Ended(keyCall[d].token) /\ keyCall[d].token \in 1 .. drawn
        BY <3>1, <3>2 DEF ToFind
      <4>2. r.token = keyCall[d].token => r.revoked
        BY <2>2, <2>3, <3>1, <4>1 DEF Ended
      <4> QED BY <2>1, <3>1, <4>1, <4>2 DEF Ended
    <3> QED BY <1>4, <3>1, <3>2 DEF ToFind
  <2>6. \A d \in Callers : Served(d)'
    <3> SUFFICES ASSUME NEW d \in Callers, at'[d] = "serving" PROVE Served(d)'
      BY DEF Served
    <3>1. d # c /\ keyCall'[d] = keyCall[d] /\ copy'[d] = copy[d] /\ Served(d) /\ at[d] = "serving"
      BY <1>2, CallKnown
    <3>2. /\ keys'[keyCall[d].id] # None
          /\ keys'[keyCall[d].id].input = keys[keyCall[d].id].input
      BY <2>1, <2>2, <3>1 DEF Served
    <3> QED BY <3>1, <3>2 DEF Served
  <2>7. (\A j \in KeyIds : AsTold(j))'
    BY <2>1 DEF KeysInv, AsTold
  <2>8. (\A q \in requests : Scoped(q))'
    <3> SUFFICES ASSUME NEW q \in requests PROVE Scoped(q)'
      OBVIOUS
    <3>1. Scoped(q) /\ q[1] \in KeyIds
      BY <1>1 DEF KeysInv, KeysTypeOK
    <3> QED BY <2>1, <2>2, <3>1 DEF Scoped
  <2>9. TokensDistinct'
    <3>1. TokensDistinct
      BY DEF KeysInv
    <3>2. r.token \in 1 .. drawn'
      BY <1>3, <1>4, <1>5, <2>2, <3>1, BoundsAssumption DEF TokensDistinct, ToAdd
    <3>3. \A j \in KeyIds : j # k /\ keys[j] # None => keys[j].token # r.token
      BY <1>3, <1>5, <2>2, <3>1 DEF TokensDistinct, ToAdd
    <3> QED BY <1>4, <2>1, <3>1, <3>2, <3>3 DEF TokensDistinct
  <2> QED BY <1>7, <1>8, <1>9, <2>4, <2>5, <2>6, <2>7, <2>8, <2>9 DEF KeysInv
<1> QED BY <1>10, <1>11

LEMMA KeysAreRead ==
    ASSUME KeysInv, NEW c \in Callers, ReadKeys(c)
    PROVE  KeysInv'
<1> USE DEF keyStoreVars
<1>1. KeysTypeOK
  BY DEF KeysInv
<1>2. /\ at' \in [Callers -> {"idle", "queued", "read", "serving"}] /\ at'[c] = "read"
      /\ \A d \in Callers : d # c => at'[d] = at[d]
      /\ copy' \in [Callers -> [KeyIds -> Record \cup {None}] \cup {None}] /\ copy'[c] = keys
      /\ \A d \in Callers : d # c => copy'[d] = copy[d]
      /\ UNCHANGED <<keys, drawn, expired, requests, queue, keyCall, answered>>
      /\ queue # <<>> /\ Head(queue) = c /\ at[c] = "queued"
  BY <1>1 DEF ReadKeys, KeysTypeOK, Turn
<1>3. KeysTypeOK'
  BY <1>1, <1>2 DEF KeysTypeOK
<1>4. \A d \in Callers : (at[d] = "idle" <=> keyCall[d] = None)'
  BY <1>2, CallKnown
<1>5. \A d \in Callers : InTurn(d)'
  BY <1>2, CallKnown DEF InTurn
<1>6. \A d \in Callers : Served(d)'
  BY <1>2, CallKnown DEF Served
<1>7. \A d \in Callers : ToAdd(d)' /\ ToFind(d)'
  BY <1>2, CallKnown DEF ToAdd, ToFind, Ended
<1>8. (\A k \in KeyIds : AsTold(k))' /\ TokensDistinct' /\ (\A r \in requests : Scoped(r))'
  BY <1>2 DEF KeysInv, AsTold, TokensDistinct, Scoped
<1> QED BY <1>3, <1>4, <1>5, <1>6, <1>7, <1>8 DEF KeysInv

\* What the one whose turn it is works with.
LEMMA TurnKnown ==
    ASSUME KeysInv, NEW c \in Callers, at[c] = "read"
    PROVE  /\ copy[c] = keys
           /\ keyCall[c] \in KeyCall
           /\ keyCall[c].op # "authenticate" => keyCall[c].id \in KeyIds
           /\ \A k \in KeyIds : keys[k] # None =>
                 /\ keys[k] \in Record
                 /\ answered[k] \in Told
                 /\ AsTold(k)
           /\ drawn \in 0 .. MaxTokens
BY CallKnown DEF InTurn, KeysInv, KeysTypeOK, ToAdd, ToFind

LEMMA OperationsChangeOneKey ==
    ASSUME KeysInv, NEW c \in Callers,
           \/ AddKey(c)
           \/ RevokeAgentKey(c)
           \/ \E op \in Ops : PauseOrResume(c, op)
           \/ RotateAgentKey(c)
           \/ OperationFails(c)
    PROVE  KeysInv'
<1>0. at[c] = "read"
  BY DEF AddKey, RevokeAgentKey, PauseOrResume, RotateAgentKey, OperationFails, Changing
<1>1. CASE OperationFails(c)
  BY <1>0, <1>1, TurnKnown, OperationEnds DEF OperationFails, keyStoreVars
<1>2. CASE AddKey(c)
  <2>1. PICK x \in KeyCall : x = keyCall[c] /\ x.op = "create"
    BY <1>0, <1>2, TurnKnown DEF AddKey, Changing
  <2>2. /\ x.id \in KeyIds /\ x.input \in KeyInput /\ x.token \in Token
        /\ keys[x.id] = None
    BY <2>1, CallKnown, CallAssumption, TokensAreNumbers DEF ToAdd
  <2>3. PICK r \in Record :
           r = [input |-> x.input, token |-> x.token, revoked |-> FALSE, paused |-> FALSE]
    BY <2>2 DEF Record
  <2>4. PICK k \in KeyIds : k = x.id
    BY <2>2
  <2>5. PICK told \in Told : /\ told = [answered[k] EXCEPT !.token = x.token]
                             /\ told.token = x.token /\ ~told.revoked /\ ~told.paused
    <3>1. PICK y \in Told : y = answered[k] /\ ~y.revoked /\ ~y.paused
      BY <2>2, <2>4 DEF KeysInv, KeysTypeOK, AsTold
    <3>2. [y EXCEPT !.token = x.token] \in Told
      BY <2>2 DEF Told
    <3> QED BY <3>1, <3>2 DEF Told
  <2>6. keys' = [keys EXCEPT ![k] = r] /\ answered' = [answered EXCEPT ![k] = told]
    <3>1. answered \in [KeyIds -> Told]
      BY DEF KeysInv, KeysTypeOK
    <3> QED BY <1>0, <1>2, <2>1, <2>3, <2>4, <2>5, <3>1, TurnKnown DEF AddKey
  <2>7. KeyChanges(c, k, r, told)
    BY <2>1, <2>3, <2>4, <2>5, <2>6 DEF KeyChanges
  <2> QED BY <1>0, <1>2, <2>7, TurnKnown, OperationEnds DEF AddKey
<1>3. ASSUME NEW k \in KeyIds, keys[k] # None, Leave(c, "idle"), UNCHANGED <<expired, requests>>,
             NEW r \in Record, keys' = [keys EXCEPT ![k] = r],
             NEW told \in Told, answered' = [answered EXCEPT ![k] = told],
             told.token = r.token, told.revoked <=> r.revoked, told.paused <=> r.paused,
             r.input = keys[k].input, keys[k].revoked => r.revoked,
             \/ r.token = keys[k].token /\ UNCHANGED drawn
             \/ r.token = drawn + 1 /\ drawn' = drawn + 1 /\ drawn < MaxTokens
      PROVE  KeysInv'
  <2>1. KeyChanges(c, k, r, told)
    BY <1>3 DEF KeyChanges
  <2>2. drawn' \in 0 .. MaxTokens /\ drawn' \in {drawn, drawn + 1}
    BY <1>0, <1>3, TurnKnown, BoundsAssumption
  <2> QED BY <1>0, <1>3, <2>1, <2>2, OperationEnds
<1>4. CASE \/ RevokeAgentKey(c)
           \/ \E op \in Ops : PauseOrResume(c, op)
           \/ RotateAgentKey(c)
  <2>1. PICK k \in KeyIds : k = keyCall[c].id
    BY <1>0, <1>4, TurnKnown DEF RevokeAgentKey, PauseOrResume, RotateAgentKey, Changing
  <2>2. keys[k] # None
    BY <1>0, <1>4, <2>1, TurnKnown DEF RevokeAgentKey, PauseOrResume, RotateAgentKey, MayUpdate
  <2>3. PICK q \in Record, y \in Told : /\ q = keys[k] /\ y = answered[k]
                                        /\ y.token = q.token /\ (y.revoked <=> q.revoked)
                                        /\ (y.paused <=> q.paused)
    BY <1>0, <2>2, TurnKnown DEF AsTold
  <2>4. /\ keys \in [KeyIds -> Record \cup {None}] /\ answered \in [KeyIds -> Told]
        /\ Leave(c, "idle") /\ UNCHANGED <<expired, requests>>
    BY <1>4 DEF KeysInv, KeysTypeOK, RevokeAgentKey, PauseOrResume, RotateAgentKey
  <2>5. CASE RevokeAgentKey(c)
    <3>1. PICK r \in Record : r = [q EXCEPT !.revoked = TRUE] /\ r.input = q.input /\ r.token = q.token
                              /\ r.revoked /\ (r.paused <=> q.paused)
      <4>1. [q EXCEPT !.revoked = TRUE] \in Record
        BY DEF Record
      <4> QED BY <4>1 DEF Record
    <3>2. PICK told \in Told : told = [y EXCEPT !.revoked = TRUE] /\ told.token = y.token
                               /\ told.revoked /\ (told.paused <=> y.paused)
      <4>1. [y EXCEPT !.revoked = TRUE] \in Told
        BY DEF Told
      <4> QED BY <4>1 DEF Told
    <3>3. keys' = [keys EXCEPT ![k] = r] /\ answered' = [answered EXCEPT ![k] = told]
      BY <1>0, <2>1, <2>3, <2>4, <2>5, <3>1, <3>2, TurnKnown DEF RevokeAgentKey
    <3>4. UNCHANGED drawn
      BY <2>5 DEF RevokeAgentKey
    <3> QED BY <1>3, <2>2, <2>3, <2>4, <3>1, <3>2, <3>3, <3>4
  <2>6. CASE \E op \in Ops : PauseOrResume(c, op)
    <3>1. PICK op \in Ops : PauseOrResume(c, op)
      BY <2>6
    <3>2. PICK p \in BOOLEAN : p = (op = "pause")
      OBVIOUS
    <3>3. PICK r \in Record : r = [q EXCEPT !.paused = p] /\ r.input = q.input /\ r.token = q.token
                              /\ (r.revoked <=> q.revoked) /\ (r.paused <=> p)
      <4>1. [q EXCEPT !.paused = p] \in Record
        BY DEF Record
      <4> QED BY <4>1 DEF Record
    <3>4. PICK told \in Told : told = [y EXCEPT !.paused = p] /\ told.token = y.token
                               /\ (told.revoked <=> y.revoked) /\ (told.paused <=> p)
      <4>1. [y EXCEPT !.paused = p] \in Told
        BY DEF Told
      <4> QED BY <4>1 DEF Told
    <3>5. keys' = [keys EXCEPT ![k] = r] /\ answered' = [answered EXCEPT ![k] = told]
      BY <1>0, <2>1, <2>3, <2>4, <3>1, <3>2, <3>3, <3>4, TurnKnown DEF PauseOrResume
    <3>6. UNCHANGED drawn
      BY <3>1 DEF PauseOrResume
    <3> QED BY <1>3, <2>2, <2>3, <2>4, <3>3, <3>4, <3>5, <3>6
  <2>7. CASE RotateAgentKey(c)
    <3>1. drawn + 1 \in Token /\ drawn' = drawn + 1 /\ drawn < MaxTokens
      BY <1>0, <2>7, TurnKnown, BoundsAssumption DEF RotateAgentKey, Token
    <3>2. PICK t \in Token : t = drawn + 1
      BY <3>1
    <3>3. PICK r \in Record : r = [q EXCEPT !.token = t] /\ r.input = q.input /\ r.token = t
                              /\ (r.revoked <=> q.revoked) /\ (r.paused <=> q.paused)
      <4>1. [q EXCEPT !.token = t] \in Record
        BY DEF Record
      <4> QED BY <4>1 DEF Record
    <3>4. PICK told \in Told : told = [y EXCEPT !.token = t] /\ told.token = t
                               /\ (told.revoked <=> y.revoked) /\ (told.paused <=> y.paused)
      <4>1. [y EXCEPT !.token = t] \in Told
        BY DEF Told
      <4> QED BY <4>1 DEF Told
    <3>5. keys' = [keys EXCEPT ![k] = r] /\ answered' = [answered EXCEPT ![k] = told]
      BY <1>0, <2>1, <2>3, <2>4, <2>7, <3>2, <3>3, <3>4, TurnKnown DEF RotateAgentKey
    <3> QED BY <1>3, <2>2, <2>3, <2>4, <3>1, <3>2, <3>3, <3>4, <3>5
  <2> QED BY <1>4, <2>5, <2>6, <2>7
<1> QED BY <1>1, <1>2, <1>4

\* The key that is found is active; nobody was told that its token has ended.
LEMMA KeyIsFound ==
    ASSUME KeysInv, NEW c \in Callers, Authenticated(c)
    PROVE  KeysInv'
<1>1. KeysTypeOK /\ at[c] = "read"
  BY DEF KeysInv, Authenticated, Changing
<1>2. PICK x \in KeyCall : x = keyCall[c] /\ x.op = "authenticate"
  BY <1>1, TurnKnown DEF Authenticated, Changing
<1>3. copy[c] = keys /\ queue # <<>> /\ Head(queue) = c
  BY <1>1, CallKnown DEF InTurn
<1>4. PICK k \in Matching(c) :
        /\ keyCall' = [keyCall EXCEPT ![c].id = k]
        /\ copy' = [copy EXCEPT ![c] = [i \in KeyIds |-> IF i = k THEN @[i] ELSE None]]
  BY DEF Authenticated
<1>5. k \in KeyIds /\ keys[k] # None /\ ~keys[k].revoked /\ keys[k].token = x.token
  BY <1>2, <1>3, <1>4 DEF Matching, IsActive
<1>6. ~x.late
  BY <1>2, <1>5, CallKnown, CallAssumption DEF ToFind, Ended
<1>7. PICK z \in KeyCall : z = [x EXCEPT !.id = k] /\ z.id = k /\ z.op = x.op /\ z.token = x.token
                           /\ (z.late <=> x.late)
  <2>1. [x EXCEPT !.id = k] \in KeyCall
    BY <1>5 DEF KeyCall
  <2> QED BY <2>1 DEF KeyCall
<1>8. PICK found \in [KeyIds -> Record \cup {None}] :
        /\ found = [i \in KeyIds |-> IF i = k THEN keys[i] ELSE None]
        /\ found[k] = keys[k]
  <2> DEFINE found == [i \in KeyIds |-> IF i = k THEN keys[i] ELSE None]
  <2>1. \A i \in KeyIds : keys[i] \in Record \cup {None}
    BY <1>1 DEF KeysTypeOK
  <2>2. found \in [KeyIds -> Record \cup {None}]
    BY <2>1
  <2>3. found[k] = keys[k]
    BY <1>5
  <2> QED BY <2>2, <2>3
<1>9. /\ keyCall' = [keyCall EXCEPT ![c] = z]
      /\ copy' = [copy EXCEPT ![c] = found]
  BY <1>1, <1>2, <1>3, <1>4, <1>7, <1>8 DEF KeysTypeOK
<1>10. /\ keyCall' \in [Callers -> KeyCall \cup {None}] /\ keyCall'[c] = z
       /\ \A d \in Callers : d # c => keyCall'[d] = keyCall[d]
       /\ copy' \in [Callers -> [KeyIds -> Record \cup {None}] \cup {None}] /\ copy'[c] = found
       /\ \A d \in Callers : d # c => copy'[d] = copy[d]
       /\ at' \in [Callers -> {"idle", "queued", "read", "serving"}] /\ at'[c] = "serving"
       /\ \A d \in Callers : d # c => at'[d] = at[d]
       /\ UNCHANGED <<keys, drawn, expired, requests, answered>> /\ queue' = Tail(queue)
       /\ z # None
  BY <1>1, <1>3, <1>9, CallAssumption DEF Authenticated, KeysTypeOK
<1>11. KeysTypeOK'
  <2>1. queue' \in Seq(Callers)
    BY <1>1, <1>3, <1>10 DEF KeysTypeOK
  <2> QED BY <2>1, <1>1, <1>10 DEF KeysTypeOK
<1>12. \A d \in Callers : (at[d] = "idle" <=> keyCall[d] = None)'
  BY <1>10, CallKnown
<1>13. \A d \in Callers : InTurn(d)'
  <2> SUFFICES ASSUME NEW d \in Callers, at'[d] = "read" PROVE FALSE
    BY DEF InTurn
  <2>1. d # c /\ at[d] = "read"
    BY <1>10
  <2> QED BY <1>3, <2>1, CallKnown DEF InTurn
<1>14. \A d \in Callers : ToAdd(d)'
  <2> SUFFICES ASSUME NEW d \in Callers, keyCall'[d] # None, keyCall'[d].op = "create" PROVE ToAdd(d)'
    BY DEF ToAdd
  <2>1. d # c /\ keyCall'[d] = keyCall[d] /\ ToAdd(d)
    <3>1. d # c
      BY <1>2, <1>7, <1>10
    <3>2. ToAdd(d)
      BY CallKnown
    <3> QED BY <3>1, <3>2, <1>10
  <2>2. keyCall[c] # None /\ keyCall[c].token = z.token
    BY <1>2, <1>7, CallAssumption
  <2>3. \A e \in Callers \ {d} : keyCall'[e] # None =>
           /\ keyCall'[e].token # keyCall[d].token
           /\ keyCall'[e].op = "create" => keyCall'[e].id # keyCall[d].id
    <3> SUFFICES ASSUME NEW e \in Callers \ {d}, keyCall'[e] # None
                 PROVE  /\ keyCall'[e].token # keyCall[d].token
                        /\ keyCall'[e].op = "create" => keyCall'[e].id # keyCall[d].id
      OBVIOUS
    <3>1. CASE e = c
      <4>1. keyCall[c].token # keyCall[d].token
        BY <2>1, <2>2 DEF ToAdd
      <4> QED BY <1>2, <1>7, <1>10, <2>2, <3>1, <4>1
    <3>2. CASE e # c
      BY <1>10, <2>1, <3>2 DEF ToAdd
    <3> QED BY <3>1, <3>2
  <2> QED BY <1>10, <2>1, <2>3 DEF ToAdd
<1>15. \A d \in Callers : ToFind(d)'
  <2> SUFFICES ASSUME NEW d \in Callers, keyCall'[d] # None, keyCall'[d].op # "create" PROVE ToFind(d)'
    BY DEF ToFind
  <2>1. CASE d = c
    <3>1. z.token \in 1 .. drawn
      BY <1>2, <1>7, CallKnown, CallAssumption DEF ToFind
    <3> QED BY <1>2, <1>6, <1>7, <1>10, <2>1, <3>1 DEF ToFind
  <2>2. CASE d # c
    BY <1>10, <2>2, CallKnown DEF ToFind, Ended
  <2> QED BY <2>1, <2>2
<1>16. \A d \in Callers : Served(d)'
  <2> SUFFICES ASSUME NEW d \in Callers, at'[d] = "serving" PROVE Served(d)'
    BY DEF Served
  <2>1. CASE d = c
    <3>1. found # None
      BY <1>5, <1>8, CopyAssumption
    <3>2. z.op = "authenticate" /\ ~z.late /\ z.id = k
      BY <1>2, <1>6, <1>7
    <3>3. found[k] # None /\ keys'[k] # None /\ found[k].input = keys'[k].input
      BY <1>5, <1>8, <1>10
    <3> QED BY <1>5, <1>10, <2>1, <3>1, <3>2, <3>3 DEF Served
  <2>2. CASE d # c
    BY <1>10, <2>2, CallKnown DEF Served
  <2> QED BY <2>1, <2>2
<1>17. (\A j \in KeyIds : AsTold(j))' /\ TokensDistinct' /\ (\A r \in requests : Scoped(r))'
  BY <1>10 DEF KeysInv, AsTold, TokensDistinct, Scoped
<1> QED BY <1>11, <1>12, <1>13, <1>14, <1>15, <1>16, <1>17 DEF KeysInv

\* A request that is made is about an app of the scope of its key.
LEMMA AgentIsServed ==
    ASSUME KeysInv, NEW c \in Callers, Serve(c)
    PROVE  KeysInv'
<1> USE DEF keyStoreVars
<1>1. KeysTypeOK /\ at[c] = "serving" /\ Served(c)
  BY CallKnown DEF KeysInv, Serve, Read, AnswerAgent, Serving
<1>2. /\ keyCall' \in [Callers -> KeyCall \cup {None}] /\ keyCall'[c] = None
      /\ \A d \in Callers : d # c => keyCall'[d] = keyCall[d]
      /\ copy' \in [Callers -> [KeyIds -> Record \cup {None}] \cup {None}]
      /\ \A d \in Callers : d # c => copy'[d] = copy[d]
      /\ at' \in [Callers -> {"idle", "queued", "read", "serving"}] /\ at'[c] = "idle"
      /\ \A d \in Callers : d # c => at'[d] = at[d]
      /\ UNCHANGED <<keys, drawn, expired, queue, answered>>
  BY <1>1 DEF Serve, Read, Deploy, AnswerAgent, KeysTypeOK
<1>3. /\ requests' \subseteq KeyIds \X AppNames
      /\ (\A r \in requests : Scoped(r))'
  <2>1. CASE UNCHANGED requests
    BY <1>1, <1>2, <2>1 DEF KeysInv, KeysTypeOK, Scoped
  <2>2. CASE ~ UNCHANGED requests
    <3>1. PICK d \in Deployments, there \in BOOLEAN : Deploy(c, d, there)
      BY <2>2 DEF Serve, Read
    <3>2. d.appName \in AppNames /\ d.appName \in InputOf(c).appNames
      BY <3>1, InputsAssumption DEF Deploy, HttpDeploys, McpDeploys, MayRequest, InScope, Deployment
    <3>3. InputOf(c) = keys[keyCall[c].id].input /\ keyCall[c].id \in KeyIds /\ keys[keyCall[c].id] # None
      BY <1>1 DEF Served, InputOf
    <3>4. requests' = requests \cup {<<keyCall[c].id, d.appName>>}
      BY <3>1 DEF Deploy
    <3> QED BY <1>1, <1>2, <3>2, <3>3, <3>4 DEF KeysInv, KeysTypeOK, Scoped
  <2> QED BY <2>1, <2>2
<1>4. KeysTypeOK'
  BY <1>1, <1>2, <1>3 DEF KeysTypeOK
<1>5. \A d \in Callers : (at[d] = "idle" <=> keyCall[d] = None)'
  BY <1>2, CallKnown
<1>6. \A d \in Callers : InTurn(d)' /\ Served(d)'
  BY <1>2, CallKnown DEF InTurn, Served
<1>7. \A d \in Callers : ToAdd(d)'
  <2> SUFFICES ASSUME NEW d \in Callers, keyCall'[d] # None, keyCall'[d].op = "create" PROVE ToAdd(d)'
    BY DEF ToAdd
  <2>1. d # c /\ keyCall'[d] = keyCall[d] /\ ToAdd(d)
    BY <1>2, CallKnown
  <2>2. \A e \in Callers : keyCall'[e] # None => keyCall'[e] = keyCall[e]
    BY <1>2
  <2> QED BY <1>2, <2>1, <2>2 DEF ToAdd
<1>8. \A d \in Callers : ToFind(d)'
  BY <1>2, CallKnown DEF ToFind, Ended
<1>9. (\A j \in KeyIds : AsTold(j))' /\ TokensDistinct'
  BY <1>2 DEF KeysInv, AsTold, TokensDistinct
<1> QED BY <1>3, <1>4, <1>5, <1>6, <1>7, <1>8, <1>9 DEF KeysInv

LEMMA KeysInvAlways == KeysSpec => []KeysInv
<1>1. KeysInit => KeysInv
  <2> SUFFICES ASSUME KeysInit PROVE KeysInv
    OBVIOUS
  <2> USE DEF KeysInit
  <2>1. KeysTypeOK
    BY BoundsAssumption DEF KeysTypeOK, Told
  <2>2. \A c \in Callers : InTurn(c) /\ ToAdd(c) /\ ToFind(c) /\ Served(c)
    BY DEF InTurn, ToAdd, ToFind, Served
  <2>3. \A k \in KeyIds : AsTold(k)
    BY DEF AsTold
  <2> QED BY <2>1, <2>2, <2>3 DEF KeysInv, TokensDistinct
<1>2. KeysInv /\ [KeysNext]_keysVars => KeysInv'
  <2> SUFFICES ASSUME KeysInv, [KeysNext]_keysVars PROVE KeysInv'
    OBVIOUS
  <2>1. ASSUME NEW c \in Callers,
               \/ \E k \in KeyIds, input \in KeyInputs : CreateAgentKey(c, k, input)
               \/ \E op \in Ops, k \in KeyIds : ChangeAgentKey(c, op, k)
               \/ \E t \in Token : AgentComes(c, t)
        PROVE  KeysInv'
    BY <2>1, CallsBegin
  <2>2. ASSUME NEW c \in Callers, KeysStep(c)
        PROVE  KeysInv'
    BY <2>2, KeysAreRead, OperationsChangeOneKey, KeyIsFound DEF KeysStep
  <2>3. ASSUME NEW c \in Callers, Serve(c)
        PROVE  KeysInv'
    BY <2>3, AgentIsServed
  <2>4. ASSUME UNCHANGED keysVars \/ \E k \in KeyIds : KeyExpires(k)
        PROVE  KeysInv'
    <3>1. UNCHANGED <<keys, drawn, requests, queue, at, keyCall, copy, answered>> /\ expired' \subseteq KeyIds
      BY <2>4 DEF keysVars, KeyExpires, KeysInv, KeysTypeOK
    <3>2. KeysTypeOK'
      BY <3>1 DEF KeysInv, KeysTypeOK
    <3>3. \A c \in Callers : InTurn(c)' /\ ToAdd(c)' /\ ToFind(c)' /\ Served(c)'
      BY <3>1, CallKnown DEF InTurn, ToAdd, ToFind, Served, Ended
    <3>4. (\A c \in Callers : at[c] = "idle" <=> keyCall[c] = None)'
      BY <3>1, CallKnown
    <3> QED BY <3>1, <3>2, <3>3, <3>4 DEF KeysInv, AsTold, TokensDistinct, Scoped
  <2> QED BY <2>1, <2>2, <2>3, <2>4 DEF KeysNext
<1> QED BY <1>1, <1>2, PTL DEF KeysSpec

\* The variables of the keys, their calls and their queue have their types.
THEOREM KeysAreTyped == KeysSpec => []KeysTypeOK
<1>1. KeysInv => KeysTypeOK
  BY DEF KeysInv
<1> QED BY <1>1, KeysInvAlways, PTL

\* What an administrator was told about a key is what the data store says of it,
\* for good (withStoreMutation around every operation).
THEOREM KeyChangesCorrect == KeysSpec => []KeyChangesAreKept
<1>1. KeysInv => KeyChangesAreKept
  <2> SUFFICES ASSUME KeysInv, NEW k \in KeyIds, answered[k].token # None
               PROVE  /\ keys[k] # None
                      /\ answered[k] = [token |-> keys[k].token, revoked |-> keys[k].revoked,
                                        paused |-> keys[k].paused]
    BY DEF KeyChangesAreKept
  <2>1. keys[k] # None
    BY DEF KeysInv, AsTold
  <2>2. PICK r \in Record, y \in Told : /\ r = keys[k] /\ y = answered[k]
                                        /\ y.token = r.token /\ (y.revoked <=> r.revoked)
                                        /\ (y.paused <=> r.paused)
    BY <2>1 DEF KeysInv, KeysTypeOK, AsTold
  <2>3. y = [token |-> r.token, revoked |-> r.revoked, paused |-> r.paused]
    BY <2>2 DEF Told, Record
  <2> QED BY <2>1, <2>2, <2>3
<1> QED BY <1>1, KeysInvAlways, PTL

\* An authentication that begins after the administrator was told of a revocation
\* or a rotation is refused (authenticateAgentApiKey).
THEOREM EndedTokensCorrect == KeysSpec => []EndedTokensAreRefused
<1>1. KeysInv => EndedTokensAreRefused
  BY CallKnown DEF EndedTokensAreRefused, Serving, Served
<1> QED BY <1>1, KeysInvAlways, PTL

\* Whatever an agent asks for, it is shown the apps of its scope and its own
\* requests only (AgentRouter, callAgentMcpTool).
THEOREM ScopeCorrect == KeysSpec => []AnswersStayInScope
<1>1. KeysInv => AnswersStayInScope
  <2> SUFFICES ASSUME KeysInv, NEW c \in Callers, Serving(c),
                      NEW answer \in Answers(keyCall[c].id, InputOf(c))
               PROVE  /\ answer.apps \subseteq InputOf(c).appNames
                      /\ answer.of \subseteq {keyCall[c].id}
    BY DEF AnswersStayInScope
  <2>1. PICK k \in KeyIds : k = keyCall[c].id /\ keys[k] # None /\ InputOf(c) = keys[k].input
    BY CallKnown DEF Serving, Served, InputOf
  <2>2. \A r \in Own(k) : r[1] = k /\ r[2] \in InputOf(c).appNames
    BY <2>1 DEF Own, KeysInv, Scoped
  <2>3. \A S \in SUBSET Own(k) : /\ About(S).apps \subseteq InputOf(c).appNames
                                 /\ About(S).of \subseteq {k}
    BY <2>2 DEF About
  <2>4. CASE answer \in {Context(k, InputOf(c)), ListApps(InputOf(c))}
    BY <2>1, <2>3, <2>4 DEF Context, ListApps
  <2>5. CASE answer = Events(k, InputOf(c))
    BY <2>1, <2>2, <2>5 DEF Events, About, Own, InScope
  <2>6. CASE answer \in ReadLogs(k, InputOf(c))
    <3>1. PICK app \in AppNames : /\ InScope(InputOf(c), app)
                                  /\ answer = [apps |-> {app}, of |-> About({r \in Own(k) : r[2] = app}).of]
      BY <2>6 DEF ReadLogs
    <3> QED BY <2>1, <2>3, <3>1 DEF InScope
  <2>7. CASE answer \in DeploymentStatus(k)
    <3>1. PICK r \in Own(k) : answer = About({r})
      BY <2>7 DEF DeploymentStatus
    <3> QED BY <2>1, <2>3, <3>1
  <2> QED BY <2>1, <2>4, <2>5, <2>6, <2>7 DEF Answers
<1> QED BY <1>1, KeysInvAlways, PTL

\* A preview and the deployment that follows it agree, over HTTP and over MCP,
\* although each of the three checks in an order of its own.
THEOREM PreviewsCorrect == KeysSpec => []PreviewsAgree
<1>1. PreviewsAgree
  <2> SUFFICES ASSUME NEW c \in Callers, NEW d \in Deployments, NEW there \in BOOLEAN
               PROVE  /\ HttpDeploys(InputOf(c), d, there) = previewAgentDeployment(InputOf(c), d, there)
                      /\ McpDeploys(InputOf(c), d, there) = previewAgentDeployment(InputOf(c), d, there)
    BY DEF PreviewsAgree
  <2> DEFINE input == InputOf(c)
  <2> HIDE DEF input
  <2>1. HttpDeploys(input, d, there) = previewAgentDeployment(input, d, there)
    BY DEF HttpDeploys, HttpChecks, MayRequest, previewAgentDeployment, normalizeDeploymentInput
  <2>2. "deploy" \in getMcpTools(input) <=> CanDeploy(input)
    BY DEF getMcpTools, CanDeploy
  <2>3. McpDeploys(input, d, there) = previewAgentDeployment(input, d, there)
    BY <2>2 DEF McpDeploys, MayRequest, previewAgentDeployment
  <2> QED BY <2>1, <2>3 DEF input
<1> QED BY <1>1, PTL

=============================================================================
