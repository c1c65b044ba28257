------------------------------ MODULE AgentKeys ------------------------------
(***************************************************************************)
(* The keys of agents: AgentAccessManager's operations on them, and what   *)
(* the HTTP and the MCP channel (AgentRouter, AgentMcpManager) do for a    *)
(* caller that was authenticated.                                          *)
(*                                                                         *)
(* All keys are one value of the data store.  An operation, and that       *)
(* includes an authentication, which notes when the key was used, reads    *)
(* the whole value, and writes it back a moment later; withStoreMutation   *)
(* lines the operations up.  After that a handler works with the record it *)
(* was given.                                                              *)
(***************************************************************************)
EXTENDS Naturals, SequencesExt, JavaScript

CONSTANTS
    KeyIds,          \* the ids of keys
    AppNames,
    KeyInputs,    \* what an administrator asks a new key to be
    Deployments,  \* what an agent asks for
    Callers,      \* HTTP requests, being served
    MaxTokens     \* bound: API keys drawn

Roles == {"read", "deploy_approval", "deploy"}

\* A switch of a policy that may be left out.
Switch == {"true", "false", "unset"}

Policy == [allowAppCreation : Switch, allowDockerfileDeploys : Switch, prefixes : BOOLEAN]

\* expiresAt: absent, or how it relates to now and to the longest lifetime;
\* shape: whether the fields and the shape of the policy are as they should be.
KeyInput == [role : Roles \cup {"unknown"}, appNames : SUBSET AppNames,
             expiresAt : {"never", "past", "soon", "too far"},
             shape : BOOLEAN, policy : Policy \cup {None}]

\* An image may be one the prefixes of a policy name, or not.
Deployment == [appName : AppNames, createApp : Switch \cup {"unusable"},
               described : BOOLEAN, shape : BOOLEAN,
               definition : {"our image", "other image", "dockerfile", "unusable"}]

ASSUME InputsAssumption ==
    /\ KeyInputs \subseteq KeyInput
    /\ Deployments \subseteq Deployment

ASSUME BoundsAssumption == MaxTokens \in Nat

Token == 1 .. MaxTokens

Record == [input : KeyInput, token : Token, revoked : BOOLEAN, paused : BOOLEAN]

ASSUME NoneAssumption == None \notin Record /\ None \notin Token

VARIABLES
    keys,      \* the value in the data store
    drawn,     \* the API keys drawn so far are 1 .. drawn
    expired,   \* keys whose expiresAt is past
    requests,  \* deployment requests: of which key, about which app
    queue,     \* withStoreMutation: the callers in line
    at,        \* where the serving of a request is
    keyCall,   \* what it asks for
    copy,      \* the keys as it read them
    answered   \* what the administrator was told has been done to a key

keysVars == <<keys, drawn, expired, requests, queue, at, keyCall, copy, answered>>

keyStoreVars == <<keys, drawn, expired>>

Ops == {"create", "revoke", "pause", "resume", "rotate", "authenticate"}

\* late: an authentication that began after the end of its token was answered.
KeyCall == [op : Ops, id : KeyIds \cup {None}, token : Token \cup {None},
         input : KeyInput \cup {None}, late : BOOLEAN]

ASSUME CallAssumption == None \notin KeyCall
ASSUME CopyAssumption == None \notin [KeyIds -> Record \cup {None}]

Told == [token : Token \cup {None}, revoked : BOOLEAN, paused : BOOLEAN]

KeysTypeOK ==
    /\ keys \in [KeyIds -> Record \cup {None}]
    /\ drawn \in 0 .. MaxTokens
    /\ expired \subseteq KeyIds
    /\ requests \subseteq KeyIds \X AppNames
    /\ queue \in Seq(Callers)
    /\ at \in [Callers -> {"idle", "queued", "read", "serving"}]
    /\ keyCall \in [Callers -> KeyCall \cup {None}]
    /\ copy \in [Callers -> [KeyIds -> Record \cup {None}] \cup {None}]
    /\ answered \in [KeyIds -> Told]

KeysInit ==
    /\ keys = [k \in KeyIds |-> None]
    /\ drawn = 0
    /\ expired = {}
    /\ requests = {}
    /\ queue = <<>>
    /\ at = [c \in Callers |-> "idle"]
    /\ keyCall = [c \in Callers |-> None]
    /\ copy = [c \in Callers |-> None]
    /\ answered = [k \in KeyIds |-> [token |-> None, revoked |-> FALSE, paused |-> FALSE]]

-----------------------------------------------------------------------------
(* withStoreMutation                                                       *)

GetInLine(c, what) ==
    /\ at[c] = "idle"
    /\ queue' = Append(queue, c)
    /\ at' = [at EXCEPT ![c] = "queued"]
    /\ keyCall' = [keyCall EXCEPT ![c] = what]
    /\ UNCHANGED <<keys, expired, requests, copy, answered>>

\* Mutant: an operation begins as soon as it is called.
AnyTurn(c) == c \in Range(queue)

\* An operation begins when the one before it has ended, well or not.
Turn(c) == queue # <<>> /\ Head(queue) = c

\* Mutant: an operation that fails keeps its place.
LeaveIfDone(c, next) ==
    /\ queue' = IF next = "failed" THEN queue ELSE Tail(queue)
    /\ at' = [at EXCEPT ![c] = IF next = "failed" THEN "idle" ELSE next]
    /\ copy' = [copy EXCEPT ![c] = IF next = "serving" THEN @ ELSE None]
    /\ keyCall' = [keyCall EXCEPT ![c] = IF next = "serving" THEN @ ELSE None]

\* An operation that has ended makes way for the next.
Leave(c, next) ==
    /\ queue' = Tail(queue)
    /\ at' = [at EXCEPT ![c] = IF next = "failed" THEN "idle" ELSE next]
    /\ copy' = [copy EXCEPT ![c] = IF next = "serving" THEN @ ELSE None]
    /\ keyCall' = [keyCall EXCEPT ![c] = IF next = "serving" THEN @ ELSE None]

ReadKeys(c) ==
    /\ at[c] = "queued"
    /\ Turn(c)
    /\ copy' = [copy EXCEPT ![c] = keys]
    /\ at' = [at EXCEPT ![c] = "read"]
    /\ UNCHANGED <<keyStoreVars, requests, queue, keyCall, answered>>

-----------------------------------------------------------------------------
(* The administrator's operations                                          *)

Usable(input) ==
    /\ input.role # "unknown"
    /\ input.appNames # {}
    /\ input.expiresAt \in {"never", "soon"}
    /\ input.shape

\* The API key is drawn before the operation is in line.
CreateAgentKey(c, k, input) ==
    /\ Usable(input)
    /\ keys[k] = None
    /\ \A d \in Callers : keyCall[d] # None => keyCall[d].id # k
    /\ drawn < MaxTokens
    /\ drawn' = drawn + 1
    /\ GetInLine(c, [op |-> "create", id |-> k, token |-> drawn + 1, input |-> input,
                 late |-> FALSE])

ChangeAgentKey(c, op, k) ==
    /\ op \in {"revoke", "pause", "resume", "rotate"}
    /\ GetInLine(c, [op |-> op, id |-> k, token |-> None, input |-> None, late |-> FALSE])
    /\ UNCHANGED drawn

Changing(c, op) == at[c] = "read" /\ keyCall[c].op = op

AddKey(c) ==
    /\ Changing(c, "create")
    /\ LET k == keyCall[c].id
       IN  /\ keys' = [copy[c] EXCEPT ![k] = [input |-> keyCall[c].input, token |-> keyCall[c].token,
                                              revoked |-> FALSE, paused |-> FALSE]]
           /\ answered' = [answered EXCEPT ![k].token = keyCall[c].token]
    /\ Leave(c, "idle")
    /\ UNCHANGED <<drawn, expired, requests>>

RevokeAgentKey(c) ==
    /\ Changing(c, "revoke")
    /\ LET k == keyCall[c].id
       IN  /\ copy[c][k] # None
           /\ keys' = [copy[c] EXCEPT ![k].revoked = TRUE]
           /\ answered' = [answered EXCEPT ![k].revoked = TRUE]
    /\ Leave(c, "idle")
    /\ UNCHANGED <<drawn, expired, requests>>

\* A revoked key is not updated.
MayUpdate(c) ==
    LET k == keyCall[c].id
    IN  copy[c][k] # None /\ ~copy[c][k].revoked

PauseOrResume(c, op) ==
    /\ op \in {"pause", "resume"}
    /\ Changing(c, op)
    /\ MayUpdate(c)
    /\ LET k == keyCall[c].id
       IN  /\ keys' = [copy[c] EXCEPT ![k].paused = (op = "pause")]
           /\ answered' = [answered EXCEPT ![k].paused = (op = "pause")]
    /\ Leave(c, "idle")
    /\ UNCHANGED <<drawn, expired, requests>>

\* Mutant: the new API key is told, and not kept.
RotateWithoutHash(c) ==
    /\ Changing(c, "rotate")
    /\ MayUpdate(c)
    /\ drawn < MaxTokens
    /\ drawn' = drawn + 1
    /\ keys' = copy[c]
    /\ answered' = [answered EXCEPT ![keyCall[c].id].token = drawn + 1]
    /\ Leave(c, "idle")
    /\ UNCHANGED <<expired, requests>>

RotateAgentKey(c) ==
    /\ Changing(c, "rotate")
    /\ MayUpdate(c)
    /\ drawn < MaxTokens
    /\ drawn' = drawn + 1
    /\ LET k == keyCall[c].id
       IN  /\ keys' = [copy[c] EXCEPT ![k].token = drawn + 1]
           /\ answered' = [answered EXCEPT ![k].token = drawn + 1]
    /\ Leave(c, "idle")
    /\ UNCHANGED <<expired, requests>>

\* The key is not there, or is revoked, or the data store fails.
OperationFails(c) ==
    /\ at[c] = "read"
    /\ Leave(c, "failed")
    /\ UNCHANGED <<keyStoreVars, requests, answered>>

-----------------------------------------------------------------------------
(* Authentication                                                          *)

\* The administrator was told that the token has been replaced, or that its
\* key was revoked.
EndedToken(t) ==
    \/ \A k \in KeyIds : answered[k].token # t
    \/ \E k \in KeyIds : answered[k].token = t /\ answered[k].revoked

\* Mutant: pausedAt and expiresAt are looked at, revokedAt is not.
ActiveAlthoughRevoked(k, record) == ~record.paused /\ k \notin expired

\* isAgentKeyActive
IsActive(k, record) == ~record.revoked /\ ~record.paused /\ k \notin expired

\* An agent comes with an API key that was told.
AgentComes(c, t) ==
    /\ t <= drawn
    /\ \A d \in Callers : keyCall[d] # None => keyCall[d].token # t \/ keyCall[d].op # "create"
    /\ GetInLine(c, [op |-> "authenticate", id |-> None, token |-> t, input |-> None,
                 late |-> EndedToken(t)])
    /\ UNCHANGED drawn

Matching(c) ==
    {k \in KeyIds : /\ copy[c][k] # None
                 /\ IsActive(k, copy[c][k])
                 /\ copy[c][k].token = keyCall[c].token}

\* The record was found; the use is noted, at most once a minute, in the keys
\* as they were read; the handler gets that record.
Authenticated(c) ==
    /\ Changing(c, "authenticate")
    /\ \E k \in Matching(c) :
          /\ keyCall' = [keyCall EXCEPT ![c].id = k]
          /\ copy' = [copy EXCEPT ![c] = [i \in KeyIds |-> IF i = k THEN @[i] ELSE None]]
    /\ keys' \in {keys, copy[c]}
    /\ queue' = Tail(queue)
    /\ at' = [at EXCEPT ![c] = "serving"]
    /\ UNCHANGED <<drawn, expired, requests, answered>>

-----------------------------------------------------------------------------
(* What is done for an agent                                               *)

InScope(input, app) == app \in input.appNames

CanDeploy(input) == input.role # "read"

assertAgentPolicy(input, d) ==
    input.policy # None =>
        /\ d.createApp = "true" => input.policy.allowAppCreation = "true"
        /\ d.definition = "dockerfile" => input.policy.allowDockerfileDeploys = "true"
        /\ d.definition = "other image" => ~input.policy.prefixes

sanitizeCaptainDefinition(d) == d.definition # "unusable"

normalizeDeploymentInput(d) ==
    /\ d.createApp # "unusable"
    /\ d.shape
    /\ d.described => d.createApp = "true"
    /\ sanitizeCaptainDefinition(d)

\* Mutant: a preview leaves the policy out.
PreviewWithoutPolicy(input, d, there) ==
    /\ CanDeploy(input)
    /\ normalizeDeploymentInput(d)
    /\ InScope(input, d.appName)
    /\ (d.createApp = "true") # there

previewAgentDeployment(input, d, there) ==
    /\ CanDeploy(input)
    /\ normalizeDeploymentInput(d)
    /\ InScope(input, d.appName)
    /\ assertAgentPolicy(input, d)
    /\ (d.createApp = "true") # there

\* createAgentDeploymentRequest, up to the requests that are there already.
MayRequest(input, d) ==
    /\ CanDeploy(input)
    /\ normalizeDeploymentInput(d)
    /\ InScope(input, d.appName)
    /\ assertAgentPolicy(input, d)

\* POST /deployments, before it makes the request.
HttpChecks(input, d, there) ==
    /\ InScope(input, d.appName)
    /\ d.createApp # "unusable"
    /\ (d.createApp = "true") # there

\* tools/list: a tool that is not listed cannot be called.
getMcpTools(input) ==
    {"context", "list_apps", "read_logs", "events", "deployment_status"} \cup
        (IF input.role = "read" THEN {} ELSE {"preview_deployment", "deploy"})

HttpDeploys(input, d, there) == HttpChecks(input, d, there) /\ MayRequest(input, d)

McpDeploys(input, d, there) ==
    /\ "deploy" \in getMcpTools(input)
    /\ previewAgentDeployment(input, d, there)
    /\ MayRequest(input, d)

\* What an answer is about: apps, and the keys whose deployment requests it shows.
About(S) == [apps |-> {r[2] : r \in S}, of |-> {r[1] : r \in S}]

Own(k) == {r \in requests : r[1] = k}

\* The scope, with what is known of its apps, and the key's last requests.
Context(k, input) ==
    [apps |-> input.appNames \cup About(Own(k)).apps, of |-> About(Own(k)).of]

ListApps(input) == [apps |-> input.appNames, of |-> {}]

\* Mutant: the logs of any app.
ReadAnyLogs(k, input) ==
    {[apps |-> {app}, of |-> About({r \in Own(k) : r[2] = app}).of] : app \in AppNames}

\* The logs of an app and, over MCP, the key's last request about it.
ReadLogs(k, input) ==
    {[apps |-> {app}, of |-> About({r \in Own(k) : r[2] = app}).of] :
        app \in {app \in AppNames : InScope(input, app)}}

\* The audit events of the key, and those about an app of its scope.
Events(k, input) ==
    [apps |-> About({r \in requests : r[1] = k \/ InScope(input, r[2])}).apps, of |-> {}]

DeploymentStatus(k) == {About({r}) : r \in Own(k)}

Answers(k, input) ==
    {Context(k, input), ListApps(input), Events(k, input)}
        \cup ReadLogs(k, input) \cup DeploymentStatus(k)

Serving(c) == at[c] = "serving"

InputOf(c) == copy[c][keyCall[c].id].input

AnswerAgent(c) ==
    /\ Serving(c)
    /\ at' = [at EXCEPT ![c] = "idle"]
    /\ keyCall' = [keyCall EXCEPT ![c] = None]
    /\ copy' = [copy EXCEPT ![c] = None]
    /\ UNCHANGED <<keyStoreVars, queue, answered>>

\* Something is read, previewed or refused.
Read(c) == AnswerAgent(c) /\ UNCHANGED requests

\* The key is looked at again, in the record the handler was given.
Deploy(c, d, there) ==
    /\ HttpDeploys(InputOf(c), d, there) \/ McpDeploys(InputOf(c), d, there)
    /\ IsActive(keyCall[c].id, copy[c][keyCall[c].id])
    /\ requests' = requests \cup {<<keyCall[c].id, d.appName>>}
    /\ AnswerAgent(c)

-----------------------------------------------------------------------------

KeyExpires(k) ==
    /\ keys[k] # None
    /\ keys[k].input.expiresAt = "soon"
    /\ expired' = expired \cup {k}
    /\ UNCHANGED <<keys, drawn, requests, queue, at, keyCall, copy, answered>>

Serve(c) ==
    \/ Read(c)
    \/ Serving(c) /\ \E d \in Deployments, there \in BOOLEAN : Deploy(c, d, there)

KeysStep(c) ==
    \/ ReadKeys(c)
    \/ AddKey(c)
    \/ RevokeAgentKey(c)
    \/ \E op \in Ops : PauseOrResume(c, op)
    \/ RotateAgentKey(c)
    \/ Authenticated(c)
    \/ OperationFails(c)

KeysNext ==
    \/ \E c \in Callers :
          \/ \E k \in KeyIds, input \in KeyInputs : CreateAgentKey(c, k, input)
          \/ \E op \in Ops, k \in KeyIds : ChangeAgentKey(c, op, k)
          \/ \E t \in Token : AgentComes(c, t)
          \/ KeysStep(c)
          \/ Serve(c)
    \/ \E k \in KeyIds : KeyExpires(k)

KeysSpec == KeysInit /\ [][KeysNext]_keysVars

\* The data store answers, and a handler comes to its end.
KeysFairSpec == KeysSpec /\ \A c \in Callers : WF_keysVars(KeysStep(c)) /\ WF_keysVars(Serve(c))

-----------------------------------------------------------------------------
(* Properties                                                              *)

\* What an administrator was told about a key is what the data store says of
\* it, for good: an authentication or another operation that read the keys
\* before does not bring back a revoked key, drop a new one, or return to an
\* API key that was replaced (withStoreMutation around every operation).
KeyChangesAreKept ==
    \A k \in KeyIds : answered[k].token # None =>
        /\ keys[k] # None
        /\ answered[k] = [token |-> keys[k].token, revoked |-> keys[k].revoked,
                          paused |-> keys[k].paused]

\* An authentication that begins after the administrator was told of a
\* revocation or a rotation is refused (authenticateAgentApiKey).
EndedTokensAreRefused == \A c \in Callers : Serving(c) => ~keyCall[c].late

\* Every operation on the keys comes to its turn and its end, although others
\* fail (the queue of withStoreMutation goes on after an error).
OperationsEnd ==
    \A c \in Callers : at[c] = "queued" ~> at[c] \in {"idle", "serving"}

\* What an agent is shown is about the apps of its scope and its own requests,
\* in whichever way it asks (AgentRouter, callAgentMcpTool).
AnswersStayInScope ==
    \A c \in Callers : Serving(c) =>
        \A answer \in Answers(keyCall[c].id, InputOf(c)) :
            /\ answer.apps \subseteq InputOf(c).appNames
            /\ answer.of \subseteq {keyCall[c].id}

\* A preview and the deployment that follows it agree, over HTTP and over MCP.
PreviewsAgree ==
    \A c \in Callers : Serving(c) =>
        \A d \in Deployments, there \in BOOLEAN :
            LET agreed == previewAgentDeployment(InputOf(c), d, there)
            IN  /\ HttpDeploys(InputOf(c), d, there) = agreed
                /\ McpDeploys(InputOf(c), d, there) = agreed

\* GET / tells an agent what it may do.
Capabilities(input) ==
    [createApps |-> input.policy # None => input.policy.allowAppCreation # "false",
     dockerfileDeploys |-> input.policy # None => input.policy.allowDockerfileDeploys # "false"]

CapabilitiesHold ==
    \A c \in Callers : Serving(c) /\ CanDeploy(InputOf(c)) =>
        \A d \in Deployments :
            /\ normalizeDeploymentInput(d)
            /\ d.createApp = "true" => Capabilities(InputOf(c)).createApps
            /\ d.definition = "dockerfile" => Capabilities(InputOf(c)).dockerfileDeploys
            /\ d.definition # "other image"
            => assertAgentPolicy(InputOf(c), d)

=============================================================================
