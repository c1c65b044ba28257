----------------------------- MODULE AgentAccess -----------------------------
(***************************************************************************)
(* The agent channel: API keys, deployment requests and the deployments    *)
(* that run them.                                                          *)
(*                                                                         *)
(* The keys and the requests are kept in the data store.  Every operation  *)
(* on them reads and writes under withStoreMutation, a queue of promises:  *)
(* one such operation is one action here.  Between two of them a handler   *)
(* awaits, and anything may happen; what it read before is then old.       *)
(*                                                                         *)
(* A deployment request is pending until an administrator approves or      *)
(* rejects it, or the key's own handler starts it (role "deploy").  Nobody *)
(* watches the clock: a request that outlived its 30 minutes is marked     *)
(* expired or failed when somebody next reads it.                          *)
(***************************************************************************)
EXTENDS Integers, FiniteSets

CONSTANTS
    Keys,          \* agent keys, by id
    Role,          \* the role of each key
    Scope,         \* the apps each key may touch
    Apps,          \* app names
    IdempotencyKeys,
    NoIdempotencyKey,
    Handlers,      \* HTTP requests being served
    MaxRequests,   \* bound on the deployment requests ever made
    MaxStored,     \* MAX_DEPLOYMENT_REQUESTS, 500
    MaxEvents,     \* bound on changes to keys and apps, agings and restarts
    Nobody         \* no key, no app, no request

Ids == 1..MaxRequests

ASSUME AccessAssumption ==
    /\ Role \in [Keys -> {"read", "deploy_approval", "deploy"}]
    /\ Scope \in [Keys -> SUBSET Apps]
    /\ MaxRequests \in Nat
    /\ MaxStored \in Nat \ {0}
    /\ MaxEvents \in Nat
    /\ Nobody \notin Keys \cup Apps \cup Ids

VARIABLES
    revoked, paused, lapsed,  \* keys with revokedAt, pausedAt, a past expiresAt
    apps,        \* the apps that exist
    made,        \* number of requests made so far; a request is its number
    about,       \* what a request asks for: set when it is made
    status,      \* its status
    approvedBy,  \* who started it
    reason,      \* the error text kept with it
    stored,      \* the requests in the data store
    newer,       \* for each of them, those with a later updatedAt
    overdue,     \* requests past their expiresAt
    aged,        \* stored requests not updated for 30 days
    stage,       \* where the serving of an HTTP request is
    call,        \* what its caller asked for
    target,      \* the deployment request it is about
    actor,       \* who starts it
    late,        \* its start began after the key was revoked
    run,         \* where runAgentDeployment is for a request
    launches,    \* how often it was called for it
    events       \* changes to keys and apps, agings and restarts so far

keyVars == <<revoked, paused, lapsed>>
requestVars == <<made, about, status, approvedBy, reason>>
storeVars == <<stored, newer, overdue, aged>>
handlerVars == <<stage, call, target, actor, late>>
runVars == <<run, launches>>
vars == <<keyVars, apps, requestVars, storeVars, handlerVars, runVars, events>>

Calls == [key : Keys, app : Apps, isNew : BOOLEAN,
          idem : IdempotencyKeys \cup {NoIdempotencyKey}]

ASSUME NobodyAssumption == Nobody \notin Calls

Statuses == {"pending", "running", "succeeded", "failed", "rejected", "expired"}
Stages == {"idle", "create", "start", "key", "update", "respond"}
RunStages == {"none", "launched", "preparing", "building", "failing", "over"}
Made == 1..made

TypeOK ==
    /\ revoked \subseteq Keys /\ paused \subseteq Keys /\ lapsed \subseteq Keys
    /\ apps \subseteq Apps
    /\ made \in 0..MaxRequests
    /\ about \in [Ids -> Calls \cup {Nobody}]
    /\ \A r \in Made : about[r] # Nobody
    /\ status \in [Ids -> Statuses]
    /\ approvedBy \in [Ids -> {"none", "agent", "human"}]
    /\ reason \in [Ids -> {"none", "window", "deployment"}]
    /\ stored \subseteq Made
    /\ newer \in [Ids -> SUBSET Ids]
    /\ overdue \subseteq Made
    /\ aged \subseteq Made
    /\ stage \in [Handlers -> Stages]
    /\ call \in [Handlers -> Calls \cup {Nobody}]
    /\ target \in [Handlers -> Made \cup {Nobody}]
    /\ \A h \in Handlers :
           /\ stage[h] = "create" => call[h] # Nobody
           /\ stage[h] \in {"start", "key", "update", "respond"} =>
                  target[h] # Nobody
    /\ actor \in [Handlers -> {"none", "agent", "human"}]
    /\ late \in [Handlers -> BOOLEAN]
    /\ run \in [Ids -> RunStages]
    /\ launches \in [Ids -> Nat]
    /\ events \in 0..MaxEvents

Init ==
    /\ revoked = {} /\ paused = {} /\ lapsed = {}
    /\ apps \in SUBSET Apps
    /\ made = 0
    /\ about = [r \in Ids |-> Nobody]
    /\ status = [r \in Ids |-> "pending"]
    /\ approvedBy = [r \in Ids |-> "none"]
    /\ reason = [r \in Ids |-> "none"]
    /\ stored = {} /\ overdue = {} /\ aged = {}
    /\ newer = [r \in Ids |-> {}]
    /\ stage = [h \in Handlers |-> "idle"]
    /\ call = [h \in Handlers |-> Nobody]
    /\ target = [h \in Handlers |-> Nobody]
    /\ actor = [h \in Handlers |-> "none"]
    /\ late = [h \in Handlers |-> FALSE]
    /\ run = [r \in Ids |-> "none"]
    /\ launches = [r \in Ids |-> 0]
    /\ events = 0

-----------------------------------------------------------------------------
(* The data store.  Reading the requests drops those of 30 days ago and    *)
(* writes the rest back; writing them keeps the MaxStored last updated.    *)

Event == events < MaxEvents /\ events' = events + 1

isAgentKeyActive(k) == k \notin revoked \cup paused \cup lapsed

Live == stored \ aged

\* Mutant: slice(0, MAX_DEPLOYMENT_REQUESTS), the first instead of the last.
Oldest(S, after) ==
    {r \in S : Cardinality({q \in S : r \in after[q]}) < MaxStored}

Newest(S, after) == {r \in S : Cardinality(after[r] \cap S) < MaxStored}

\* The order of updatedAt once r has been written into S.
Touched(r, S) ==
    [q \in Ids |-> IF q = r \/ q \notin S THEN {} ELSE (newer[q] \cap S) \cup {r}]

\* The requests were read, and nothing written.
ReadRequests ==
    /\ stored' = Live
    /\ newer' = [q \in Ids |-> IF q \in Live THEN newer[q] \cap Live ELSE {}]
    /\ aged' = {}
    /\ UNCHANGED overdue

\* They were read, and written back with r updated or added.
WriteRequest(r) ==
    LET after == Touched(r, Live)
        S == Newest(Live \cup {r}, after)
    IN  /\ stored' = S
        /\ newer' = [q \in Ids |-> IF q \in S THEN after[q] \cap S ELSE {}]
        /\ aged' = {}
        /\ UNCHANGED overdue

\* Mutant: only pending requests run out of time.
GetRequestPendingOnly(r) ==
    \/ /\ status[r] = "pending" /\ r \in overdue
       /\ status' = [status EXCEPT ![r] = "expired"]
       /\ WriteRequest(r)
       /\ UNCHANGED reason
    \/ /\ status[r] = "pending" => r \notin overdue
       /\ ReadRequests
       /\ UNCHANGED <<status, reason>>

\* getAgentDeploymentRequest for a request that is there.  Its result is r's
\* record in the next state.
GetRequest(r) ==
    \/ /\ status[r] = "pending" /\ r \in overdue
       /\ status' = [status EXCEPT ![r] = "expired"]
       /\ WriteRequest(r)
       /\ UNCHANGED reason
    \/ /\ status[r] = "running" /\ r \in overdue
       /\ status' = [status EXCEPT ![r] = "failed"]
       /\ reason' = [reason EXCEPT ![r] = "window"]
       /\ WriteRequest(r)
    \/ /\ status[r] \in {"pending", "running"} => r \notin overdue
       /\ ReadRequests
       /\ UNCHANGED <<status, reason>>

NotFound(r) ==
    /\ r \notin Live
    /\ ReadRequests
    /\ UNCHANGED <<status, reason>>

Goto(h, s) == stage' = [stage EXCEPT ![h] = s]

\* The handler answers; what it knew is gone.
Done(h) ==
    /\ Goto(h, "idle")
    /\ call' = [call EXCEPT ![h] = Nobody]
    /\ target' = [target EXCEPT ![h] = Nobody]
    /\ actor' = [actor EXCEPT ![h] = "none"]
    /\ late' = [late EXCEPT ![h] = FALSE]

-----------------------------------------------------------------------------
(* Keys                                                                    *)

Pause(k) ==
    /\ k \notin revoked
    /\ paused' = paused \cup {k}
    /\ UNCHANGED <<revoked, lapsed>>

Resume(k) ==
    /\ k \notin revoked
    /\ paused' = paused \ {k}
    /\ UNCHANGED <<revoked, lapsed>>

Revoke(k) ==
    /\ revoked' = revoked \cup {k}
    /\ UNCHANGED <<paused, lapsed>>

KeyLapses(k) ==
    /\ lapsed' = lapsed \cup {k}
    /\ UNCHANGED <<revoked, paused>>

KeyStep ==
    /\ Event
    /\ \E k \in Keys : Pause(k) \/ Resume(k) \/ Revoke(k) \/ KeyLapses(k)
    /\ UNCHANGED <<apps, requestVars, storeVars, handlerVars, runVars>>

-----------------------------------------------------------------------------
(* POST /deployments, and caprover_deploy over MCP                         *)

\* The key is found active, and the app is there or not as the caller says.
Authenticate(h, c) ==
    /\ stage[h] = "idle"
    /\ isAgentKeyActive(c.key)
    /\ c.isNew = (c.app \notin apps)
    /\ Goto(h, "create")
    /\ call' = [call EXCEPT ![h] = c]
    /\ UNCHANGED <<keyVars, apps, requestVars, storeVars, target, actor, late,
                   runVars, events>>

\* Mutant: a request that has been started does not answer a retry.
ExistingPending(c) ==
    {r \in Live \ overdue : /\ c.idem # NoIdempotencyKey
                            /\ about[r].key = c.key
                            /\ about[r].idem = c.idem
                            /\ status[r] = "pending"}

\* The request an earlier call of the same key made with this idempotency key.
Existing(c) ==
    {r \in Live \ overdue : /\ c.idem # NoIdempotencyKey
                            /\ about[r].key = c.key
                            /\ about[r].idem = c.idem}

\* Mutant: a request made under an idempotency key is not looked at.
AlreadyPendingWithoutKey(c) ==
    /\ c.isNew
    /\ \E r \in Live \ overdue : /\ about[r].isNew
                                 /\ about[r].app = c.app
                                 /\ about[r].idem = NoIdempotencyKey
                                 /\ status[r] = "pending"

AlreadyPending(c) ==
    /\ c.isNew
    /\ \E r \in Live \ overdue : /\ about[r].isNew
                                 /\ about[r].app = c.app
                                 /\ status[r] = "pending"

\* createAgentDeploymentRequest checks the key as it was when authenticated:
\* only the clock can have turned against it.
MayCreate(c) ==
    /\ c.key \notin lapsed
    /\ Role[c.key] # "read"
    /\ c.app \in Scope[c.key]

\* Mutants: the role of the key is not looked at; the id is not kept.
CreatedStarts(h, r) ==
    /\ target' = [target EXCEPT ![h] = r]
    /\ Goto(h, "start")
    /\ actor' = [actor EXCEPT ![h] = "agent"]
    /\ call' = [call EXCEPT ![h] = Nobody]
    /\ UNCHANGED late

CreatedWithoutId(h, r) ==
    /\ Goto(h, IF Role[call[h].key] = "deploy" THEN "start" ELSE "respond")
    /\ actor' = [actor EXCEPT ![h] = "agent"]
    /\ call' = [call EXCEPT ![h] = Nobody]
    /\ UNCHANGED <<target, late>>

\* After the request is there: a key with role "deploy" starts it itself.
Created(h, r) ==
    /\ target' = [target EXCEPT ![h] = r]
    /\ IF Role[call[h].key] = "deploy"
       THEN /\ Goto(h, "start")
            /\ actor' = [actor EXCEPT ![h] = "agent"]
       ELSE /\ Goto(h, "respond")
            /\ UNCHANGED actor
    /\ call' = [call EXCEPT ![h] = Nobody]
    /\ UNCHANGED late

CreateReturnsExisting(h) ==
    /\ \E r \in Existing(call[h]) : Created(h, r)
    /\ ReadRequests
    /\ UNCHANGED requestVars

CreateRefused(h) ==
    /\ Existing(call[h]) = {}
    /\ AlreadyPending(call[h])
    /\ Done(h)
    /\ ReadRequests
    /\ UNCHANGED requestVars

CreateNew(h) ==
    LET r == made + 1
    IN  /\ Existing(call[h]) = {}
        /\ ~AlreadyPending(call[h])
        /\ made < MaxRequests
        /\ made' = r
        /\ about' = [about EXCEPT ![r] = call[h]]
        /\ WriteRequest(r)
        /\ Created(h, r)
        /\ UNCHANGED <<status, approvedBy, reason>>

CreateRequest(h) ==
    /\ stage[h] = "create"
    /\ \/ /\ ~MayCreate(call[h])
          /\ Done(h)
          /\ UNCHANGED <<requestVars, storeVars>>
       \/ /\ MayCreate(call[h])
          /\ CreateReturnsExisting(h) \/ CreateRefused(h) \/ CreateNew(h)
    /\ UNCHANGED <<keyVars, apps, runVars, events>>

\* The answer carries the request as it is now.
Respond(h) ==
    /\ stage[h] = "respond"
    /\ \/ target[h] \in Live /\ GetRequest(target[h])
       \/ NotFound(target[h])
    /\ Done(h)
    /\ UNCHANGED <<keyVars, apps, made, about, approvedBy, runVars, events>>

-----------------------------------------------------------------------------
(* startAgentDeployment, by that handler or by an administrator's approval *)

Approve(h, r) ==
    /\ stage[h] = "idle"
    /\ r \in Made
    /\ Goto(h, "start")
    /\ target' = [target EXCEPT ![h] = r]
    /\ actor' = [actor EXCEPT ![h] = "human"]
    /\ UNCHANGED <<keyVars, apps, requestVars, storeVars, call, late, runVars,
                   events>>

StartGet(h) ==
    LET r == target[h]
    IN  /\ stage[h] = "start"
        /\ \/ /\ r \in Live
              /\ GetRequest(r)
              /\ \/ /\ status'[r] = "pending"
                    /\ Goto(h, "key")
                    /\ late' = [late EXCEPT ![h] = (about[r].key \in revoked)]
                    /\ UNCHANGED <<call, target, actor>>
                 \/ /\ status'[r] # "pending"
                    /\ Done(h)
           \/ NotFound(r) /\ Done(h)
        /\ UNCHANGED <<keyVars, apps, made, about, approvedBy, runVars, events>>

\* Mutant: the handler trusts the copy of the key it authenticated with.
StartKeyUnread(h) ==
    /\ stage[h] = "key"
    /\ Goto(h, "update")
    /\ UNCHANGED <<call, target, actor, late>>
    /\ UNCHANGED <<keyVars, apps, requestVars, storeVars, runVars, events>>

StartKey(h) ==
    /\ stage[h] = "key"
    /\ \/ /\ isAgentKeyActive(about[target[h]].key)
          /\ Goto(h, "update")
          /\ UNCHANGED <<call, target, actor, late>>
       \/ /\ ~isAgentKeyActive(about[target[h]].key)
          /\ Done(h)
    /\ UNCHANGED <<keyVars, apps, requestVars, storeVars, runVars, events>>

\* Mutant: the status read by StartGet is not looked at again.
StartUpdateUnchecked(h) ==
    LET r == target[h]
    IN  /\ stage[h] = "update"
        /\ r \in Live
        /\ status' = [status EXCEPT ![r] = "running"]
        /\ approvedBy' = [approvedBy EXCEPT ![r] =
                             IF @ = "none" THEN actor[h] ELSE @]
        /\ WriteRequest(r)
        /\ run' = [run EXCEPT ![r] = "launched"]
        /\ launches' = [launches EXCEPT ![r] = @ + 1]
        /\ Done(h)
        /\ UNCHANGED <<keyVars, apps, made, about, reason, events>>

\* The request becomes running, and the caller calls runAgentDeployment.
StartUpdate(h) ==
    LET r == target[h]
    IN  /\ stage[h] = "update"
        /\ \/ /\ r \in Live
              /\ status[r] = "pending"
              /\ status' = [status EXCEPT ![r] = "running"]
              /\ approvedBy' = [approvedBy EXCEPT ![r] =
                                   IF @ = "none" THEN actor[h] ELSE @]
              /\ WriteRequest(r)
              /\ run' = [run EXCEPT ![r] = "launched"]
              /\ launches' = [launches EXCEPT ![r] = @ + 1]
              /\ \/ /\ actor[h] = "agent"
                    /\ Goto(h, "respond")
                    /\ UNCHANGED <<call, target, actor, late>>
                 \/ /\ actor[h] = "human"
                    /\ Done(h)
           \/ /\ r \notin Live \/ status[r] # "pending"
              /\ ReadRequests
              /\ Done(h)
              /\ UNCHANGED <<status, approvedBy, runVars>>
        /\ UNCHANGED <<keyVars, apps, made, about, reason, events>>

\* rejectAgentDeployment, which asks for no more than that it is pending.
Reject(r) ==
    /\ r \in Live
    /\ status[r] = "pending"
    /\ status' = [status EXCEPT ![r] = "rejected"]
    /\ WriteRequest(r)
    /\ UNCHANGED <<keyVars, apps, made, about, approvedBy, reason, handlerVars,
                   runVars, events>>

\* GET /deployments/:id, the list of the Agents screen, the MCP tools.
Poll(r) ==
    /\ r \in Made
    /\ \/ r \in Live /\ GetRequest(r)
       \/ NotFound(r)
    /\ UNCHANGED <<keyVars, apps, made, about, approvedBy, handlerVars, runVars,
                   events>>

-----------------------------------------------------------------------------
(* runAgentDeployment                                                      *)

RunGoto(r, s) == run' = [run EXCEPT ![r] = s]

RunBegins(r) ==
    /\ run[r] = "launched"
    /\ \/ /\ r \in Live
          /\ GetRequest(r)
          /\ RunGoto(r, IF status'[r] = "running" THEN "preparing" ELSE "over")
       \/ NotFound(r) /\ RunGoto(r, "over")
    /\ UNCHANGED <<keyVars, apps, made, about, approvedBy, handlerVars, launches,
                   events>>

\* A new app is registered; of an existing one the deployed version is noted.
RunPrepares(r) ==
    LET a == about[r].app
    IN  /\ run[r] = "preparing"
        /\ \/ /\ about[r].isNew = (a \in apps)
              /\ RunGoto(r, "failing")
              /\ UNCHANGED <<apps, storeVars>>
           \/ /\ about[r].isNew /\ a \notin apps
              /\ apps' = apps \cup {a}
              /\ RunGoto(r, "building")
              /\ UNCHANGED storeVars
           \/ /\ ~about[r].isNew /\ a \in apps
              /\ \/ r \in Live /\ WriteRequest(r) /\ RunGoto(r, "building")
                 \/ r \notin Live /\ ReadRequests /\ RunGoto(r, "failing")
              /\ UNCHANGED apps
        /\ UNCHANGED <<keyVars, requestVars, handlerVars, launches, events>>

\* The build went through.  The request is marked whatever became of it in the
\* meantime; one that is no longer there turns the success into a failure.
BuildSucceeds(r) ==
    /\ run[r] = "building"
    /\ \/ /\ r \in Live
          /\ status' = [status EXCEPT ![r] = "succeeded"]
          /\ WriteRequest(r)
          /\ RunGoto(r, "over")
       \/ /\ r \notin Live
          /\ ReadRequests
          /\ RunGoto(r, "failing")
          /\ UNCHANGED status
    /\ UNCHANGED <<keyVars, apps, made, about, approvedBy, reason, handlerVars,
                   launches, events>>

BuildFails(r) ==
    /\ run[r] = "building"
    /\ RunGoto(r, "failing")
    /\ UNCHANGED <<keyVars, apps, requestVars, storeVars, handlerVars, launches,
                   events>>

RunFails(r) ==
    /\ run[r] = "failing"
    /\ \/ /\ r \in Live
          /\ status' = [status EXCEPT ![r] = "failed"]
          /\ reason' = [reason EXCEPT ![r] = "deployment"]
          /\ WriteRequest(r)
       \/ NotFound(r)
    /\ RunGoto(r, "over")
    /\ UNCHANGED <<keyVars, apps, made, about, approvedBy, handlerVars, launches,
                   events>>

-----------------------------------------------------------------------------
(* The rest of the world                                                   *)

\* An administrator registers or deletes an app.
AppComesOrGoes(a) ==
    /\ Event
    /\ apps' = IF a \in apps THEN apps \ {a} ELSE apps \cup {a}
    /\ UNCHANGED <<keyVars, requestVars, storeVars, handlerVars, runVars>>

\* 30 minutes after it was made; the requests made before it are past it too.
Expires(r) ==
    /\ r \in Made \ overdue
    /\ \A q \in 1..(r - 1) : q \in overdue
    /\ overdue' = overdue \cup {r}
    /\ UNCHANGED <<keyVars, apps, requestVars, stored, newer, aged, handlerVars,
                   runVars, events>>

\* 30 days after it was last updated, and so were those updated before it.
Ages(r) ==
    /\ r \in Live
    /\ \A q \in stored : r \in newer[q] => q \in aged
    /\ r \in overdue
    /\ Event
    /\ aged' = aged \cup {r}
    /\ UNCHANGED <<keyVars, apps, requestVars, stored, newer, overdue,
                   handlerVars, runVars>>

\* The process stops: the handlers and the deployments with it.
Restart ==
    /\ Event
    /\ stage' = [h \in Handlers |-> "idle"]
    /\ call' = [h \in Handlers |-> Nobody]
    /\ target' = [h \in Handlers |-> Nobody]
    /\ actor' = [h \in Handlers |-> "none"]
    /\ late' = [h \in Handlers |-> FALSE]
    /\ run' = [r \in Ids |-> IF run[r] = "none" THEN "none" ELSE "over"]
    /\ UNCHANGED <<keyVars, apps, requestVars, storeVars, launches>>

-----------------------------------------------------------------------------
HandlerStep(h) ==
    \/ \E c \in Calls : Authenticate(h, c)
    \/ \E r \in Ids : Approve(h, r)
    \/ CreateRequest(h)
    \/ Respond(h)
    \/ StartGet(h)
    \/ StartKey(h)
    \/ StartUpdate(h)

RunStep(r) ==
    \/ RunBegins(r)
    \/ RunPrepares(r)
    \/ BuildSucceeds(r)
    \/ BuildFails(r)
    \/ RunFails(r)

Next ==
    \/ KeyStep
    \/ \E h \in Handlers : HandlerStep(h)
    \/ \E r \in Ids : \/ RunStep(r)
                      \/ Reject(r)
                      \/ Poll(r)
                      \/ Expires(r)
                      \/ Ages(r)
    \/ \E a \in Apps : AppComesOrGoes(a)
    \/ Restart

Spec == Init /\ [][Next]_vars

\* Time passes, and somebody looks at every request now and then: agents poll
\* the id they were given, and the Agents screen reads the whole list.  Nothing
\* is assumed of handlers, deployments or administrators.
Fairness == \A r \in Ids : WF_vars(Expires(r)) /\ WF_vars(Poll(r))

FairSpec == Spec /\ Fairness

-----------------------------------------------------------------------------
(* Properties                                                              *)

\* However many handlers and administrators start a request at the same time,
\* runAgentDeployment is called for it once: the three steps of
\* startAgentDeployment let only one of them through.
LaunchedAtMostOnce == \A r \in Ids : launches[r] <= 1

\* A deployment never runs on behalf of a request that was rejected, or expired,
\* or is still to be approved.
RunsWereStarted ==
    \A r \in Ids : run[r] # "none" =>
        r \in Made /\ status[r] \in {"running", "succeeded", "failed"}

\* A start that began after its key was revoked never reaches its last step,
\* however old the handler's own copy of the key.
RevokedKeysStartNothing == \A h \in Handlers : stage[h] = "update" => ~late[h]

\* While a new app waits for its approval no second request for it does, so
\* that one decision cannot be undone by another.
OnePendingRequestPerNewApp ==
    \A q, r \in stored \ overdue :
        /\ status[q] = "pending" /\ about[q].isNew
        /\ status[r] = "pending" /\ about[r].isNew
        /\ about[q].app = about[r].app
        => q = r

\* Within its 30 minutes an idempotency key names one request of its agent key,
\* whatever retries overlap.
IdempotencyKeyNamesOneRequest ==
    \A q, r \in stored \ overdue :
        /\ about[q].key = about[r].key
        /\ about[q].idem = about[r].idem /\ about[q].idem # NoIdempotencyKey
        => q = r

\* The cap drops a request only when the store is full, and then the one that
\* was not updated for longest: never one that a handler has just made, started
\* or closed.
CapDropsTheOldest ==
    [][\A r \in (Live \cup (Made' \ Made)) \ stored' :
           /\ Cardinality(stored') = MaxStored
           /\ stored' \subseteq newer[r] \cup {made'}]_vars

\* A request that is waiting or running does not stay so for ever: it is
\* decided, ended, expired or pruned, also when the process stopped under it.
OpenRequestsClose ==
    \A r \in Ids :
        (r \in stored /\ status[r] \in {"pending", "running"}) ~>
            ~(r \in stored /\ status[r] \in {"pending", "running"})

\* The requests as RequestLifecycle sees them, and who may launch them.
Phase == [r \in Ids |->
            CASE r \notin Made -> "unborn"
              [] r \in Made \ stored -> "forgotten"
              [] r \in stored /\ status[r] = "pending" -> "waiting"
              [] r \in stored /\ status[r] = "running" -> "launched"
              [] r \in stored /\ status[r] \in {"rejected", "expired"} -> "declined"
              [] OTHER -> "ended"]

Gate == [r \in Ids |->
            CASE r \notin Made -> "none"
              [] r \in Made /\ Role[about[r].key] = "deploy" -> "agent"
              [] OTHER -> "human"]

Lifecycle == INSTANCE RequestLifecycle WITH
    Requests <- Ids, phase <- Phase, gate <- Gate, starter <- approvedBy

\* The channel keeps the promises of RequestLifecycle: launched once, never
\* after a decline, and by a human when the key's role asks for approval.
RequestsFollowLifecycle == Lifecycle!Spec

\* The README: idempotency keys keep retries from creating duplicate
\* deployments.
RetriesDoNotDuplicate ==
    \A q, r \in Made :
        /\ launches[q] > 0 /\ launches[r] > 0
        /\ about[q].key = about[r].key
        /\ about[q].idem = about[r].idem /\ about[q].idem # NoIdempotencyKey
        => q = r
=============================================================================
