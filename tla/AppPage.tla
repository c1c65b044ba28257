------------------------------- MODULE AppPage -------------------------------
(***************************************************************************)
(* The page of an app (AppDetailsWorkspace, AppDeployWorkspace), open in   *)
(* several tabs of the dashboard, and what the server does with what it    *)
(* sends.                                                                  *)
(*                                                                         *)
(* A tab shows a copy of the app and edits that copy.  A button saves one  *)
(* group of fields, all of them, edited or not; the server lays them over  *)
(* the app as it reads it, and writes the whole.  Secrets are shown as a   *)
(* marker, and the server puts the stored secret where the marker comes    *)
(* back.  UserRouter admits one changing request at a time, until its      *)
(* connection is closed: the request of a tab that is left goes on, beside *)
(* the next one.                                                           *)
(***************************************************************************)
EXTENDS Naturals

CONSTANTS
    Tabs,
    Fields,
    MaxTyped,  \* bound: values that users type
    MaxDrawn   \* bound: deploy tokens drawn

\* common: exposed as a web app, websocket support; they are in two groups.
\* authPassword: of basic authentication; repoPassword: or the SSH key.
AllFields == {"configuration", "common", "http", "authPassword", "repoPassword", "domains"}

ASSUME AppPageAssumption ==
    /\ {"configuration", "domains"} \subseteq Fields
    /\ Fields \subseteq AllFields
    /\ MaxTyped \in Nat
    /\ MaxDrawn \in Nat

Secrets == {"authPassword", "repoPassword"}

\* Values are numbered as they are typed; 0 is what there was, or nothing.
\* The marker stands for a secret that is there.
Marker == MaxTyped + 1
Typed == 0 .. MaxTyped

Saves == {"configuration", "http", "repository", "toggle"}
Operations == Saves \cup {"rotate", "reveal", "domains"}

VARIABLES
    app,       \* the app in the data store
    token,     \* its deploy token, 0 when there is none
    typed, given,  \* values typed, and tokens drawn, so far
    page,      \* of each tab: "closed", "ready", "working" or "reloading"
    draft,     \* the values that it shows
    tokenOn, revealed,  \* what it shows of the token
    call,      \* its request, being served
    open,      \* threadLockNamespace is not set
    kept,      \* history: what was last saved of each field
    revoked,   \* history: tokens that were answered to be replaced or disabled
    beside,    \* history: tabs whose request is served beside one that was left
    raced      \* history: what such requests change, until it is changed alone

pageVars == <<page, draft, tokenOn, revealed>>
serverVars == <<app, token, given>>
pageHistory == <<kept, revoked, beside, raced>>
appPageVars == <<serverVars, typed, pageVars, call, open, pageHistory>>

NoCall == [op |-> "none", at |-> "none"]

\* fields, enable and with are what is sent; base is the app, and under the
\* token, that the server read.
Call == [op : Operations, at : {"sent", "admitted", "read", "written"},
         fields : [Fields -> 0 .. Marker], enable : BOOLEAN, with : 0 .. MaxDrawn,
         base : [Fields -> 0 .. Marker], under : 0 .. MaxDrawn]

AppPageTypeOK ==
    /\ app \in [Fields -> 0 .. Marker]
    /\ token \in 0 .. MaxDrawn
    /\ typed \in Typed
    /\ given \in 0 .. MaxDrawn
    /\ page \in [Tabs -> {"closed", "ready", "working", "reloading"}]
    /\ draft \in [Tabs -> [Fields -> 0 .. Marker]]
    /\ tokenOn \in [Tabs -> BOOLEAN]
    /\ revealed \in [Tabs -> 0 .. MaxDrawn]
    /\ call \in [Tabs -> Call \cup {NoCall}]
    /\ open \in BOOLEAN
    /\ kept \in [Fields -> Typed]
    /\ revoked \subseteq 1 .. MaxDrawn
    /\ beside \subseteq Tabs
    /\ raced \subseteq Fields \cup {"token"}

Nothing == [f \in Fields |-> 0]

AppPageInit ==
    /\ app = Nothing
    /\ token = 0
    /\ typed = 0
    /\ given = 0
    /\ page = [t \in Tabs |-> "closed"]
    /\ draft = [t \in Tabs |-> Nothing]
    /\ tokenOn = [t \in Tabs |-> FALSE]
    /\ revealed = [t \in Tabs |-> 0]
    /\ call = [t \in Tabs |-> NoCall]
    /\ open = TRUE
    /\ kept = Nothing
    /\ revoked = {}
    /\ beside = {}
    /\ raced = {}

-----------------------------------------------------------------------------
(* The tab                                                                 *)

\* getAllAppDefinitions: the repository's secrets are not told, nor is the
\* token; of basic authentication the page shows the user only.
Shown(f) ==
    CASE f = "repoPassword" -> IF app[f] = 0 THEN 0 ELSE Marker
      [] f = "authPassword" -> 0
      [] OTHER -> app[f]

\* The page is loaded, again or for the first time.
LoadPage(t) ==
    /\ page[t] \in {"closed", "reloading"}
    /\ page' = [page EXCEPT ![t] = "ready"]
    /\ draft' = [draft EXCEPT ![t] = [f \in Fields |-> Shown(f)]]
    /\ tokenOn' = [tokenOn EXCEPT ![t] = (token # 0)]
    /\ revealed' = [revealed EXCEPT ![t] = 0]
    /\ UNCHANGED <<serverVars, typed, call, open, pageHistory>>

Served(t) == call[t].at \in {"admitted", "read", "written"}

\* The user leaves the page, or loads it again: its request goes on without a
\* connection.
LeavePage(t) ==
    /\ page[t] \in {"ready", "working"}
    /\ page' = [page EXCEPT ![t] = "closed"]
    /\ draft' = [draft EXCEPT ![t] = Nothing]
    /\ tokenOn' = [tokenOn EXCEPT ![t] = FALSE]
    /\ revealed' = [revealed EXCEPT ![t] = 0]
    /\ open' = (open \/ (page[t] = "working" /\ Served(t)))
    /\ UNCHANGED <<serverVars, typed, call, pageHistory>>

\* Fields may be edited while the page is working.
TypeInto(t, f) ==
    /\ page[t] \in {"ready", "working"}
    /\ f # "domains"
    /\ typed < MaxTyped
    /\ typed' = typed + 1
    /\ draft' = [draft EXCEPT ![t][f] = typed + 1]
    /\ UNCHANGED <<serverVars, page, tokenOn, revealed, call, open, pageHistory>>

Group(op) ==
    CASE op = "configuration" -> {"configuration", "common"}
      [] op = "http" -> {"common", "http", "authPassword"}
      [] op = "repository" -> {"repoPassword"}
      [] op = "domains" -> {"domains"}
      [] OTHER -> {}

\* Mutant: the whole app is sent, whatever is saved.
SendAll(op) == IF op \in Saves THEN Fields \ {"domains"} ELSE {}

\* The fields of the patch.
Patch(op) == Group(op)

Sent(t, S) == [f \in Fields |-> IF f \in S THEN draft[t][f] ELSE 0]

Send(t, op, enable, with) ==
    /\ page[t] = "ready"
    /\ call[t] = NoCall
    /\ page' = [page EXCEPT ![t] = "working"]
    /\ call' = [call EXCEPT ![t] =
                  [op |-> op, at |-> "sent", fields |-> Sent(t, Patch(op)), enable |-> enable,
                   with |-> with, base |-> Nothing, under |-> 0]]
    /\ UNCHANGED <<serverVars, typed, draft, tokenOn, revealed, open, pageHistory>>

SaveConfiguration(t) == Send(t, "configuration", FALSE, 0)

SaveHttpSettings(t) == Send(t, "http", FALSE, 0)

saveRepo(t) == Send(t, "repository", FALSE, 0)

\* The token goes along if it has been revealed.
toggleAppToken(t) == Send(t, "toggle", ~tokenOn[t], revealed[t])

rotateToken(t) == Send(t, "rotate", TRUE, 0)

\* Mutant: a token can be asked for whether or not the page knows of one.
RevealAnyTime(t) == Send(t, "reveal", FALSE, 0)

revealToken(t) ==
    /\ tokenOn[t]
    /\ revealed[t] = 0
    /\ Send(t, "reveal", FALSE, 0)

\* A domain is added or removed, or gets its certificate.
runOperation(t) ==
    /\ typed < MaxTyped
    /\ Send(t, "domains", FALSE, 0)

-----------------------------------------------------------------------------
(* The server                                                              *)

\* Mutant: changing requests are let in together.
AnyMayCome == TRUE

LockIsOpen == open

At(t, op, stage) == call[t].op = op /\ call[t].at = stage

CallGoes(t, stage) == call' = [call EXCEPT ![t].at = stage]

\* The answer comes to the page, if it is still there.  A page that is told of
\* a success is loaded again, unless it shows what it was told.
AnswerCall(t, good) ==
    /\ call' = [call EXCEPT ![t] = NoCall]
    /\ page' = [page EXCEPT ![t] = IF @ # "working" THEN @
                                   ELSE IF good THEN "reloading" ELSE "ready"]
    /\ open' = (open \/ page[t] = "working")
    /\ beside' = beside \ {t}

\* The calls that are served although the tab has been left.
Left == {t \in Tabs : Served(t) /\ page[t] # "working"}

Alters(op) == Group(op) \cup (IF op \in {"toggle", "rotate"} THEN {"token"} ELSE {})

AdmitCall(t) ==
    /\ call[t].at = "sent"
    /\ LockIsOpen
    /\ open' = (page[t] # "working")
    /\ CallGoes(t, "admitted")
    /\ LET now == IF Left = {} THEN {} ELSE Left \cup {t}
       IN  /\ beside' = beside \cup now
           /\ raced' = raced \cup ((Fields \cup {"token"}) \cap UNION {Alters(call[u].op) : u \in now})
    /\ UNCHANGED <<serverVars, typed, pageVars, kept, revoked>>

\* Another request is being served (429).
RefuseCall(t) ==
    /\ call[t].at = "sent"
    /\ ~open
    /\ call' = [call EXCEPT ![t] = NoCall]
    /\ page' = [page EXCEPT ![t] = IF @ = "working" THEN "ready" ELSE @]
    /\ UNCHANGED <<serverVars, typed, draft, tokenOn, revealed, open, pageHistory>>

\* patchAppDefinition: the app as it is, which the patch is laid over.
ReadApp(t) ==
    /\ call[t].op \in Saves
    /\ call[t].at = "admitted"
    /\ call' = [call EXCEPT ![t].at = "read", ![t].base = app, ![t].under = token]
    /\ UNCHANGED <<serverVars, typed, pageVars, open, pageHistory>>

\* Mutant: what is sent is written, the marker too.
NothingRestored(c, f) == c.fields[f]

\* A secret that is not sent, or comes back as the marker, stays.
RestoreKept(c, f) ==
    IF f \in Secrets /\ c.fields[f] \in {0, Marker} THEN c.base[f] ELSE c.fields[f]

\* Domains are those of the app as it is read again.
Merged(c) ==
    [f \in Fields |->
        IF f = "domains" THEN app[f]
        ELSE IF f \in Patch(c.op) THEN RestoreKept(c, f) ELSE c.base[f]]

\* A token that is not sent stays, or is drawn; a disabled one goes.
TokenAfter(c) ==
    IF c.op # "toggle" THEN c.under
    ELSE IF ~c.enable THEN 0
    ELSE IF c.with # 0 THEN c.with
    ELSE IF c.under # 0 THEN c.under ELSE given + 1

\* updateAppDefinitionInDb; what it replaces is remembered.
UpdateAppDefinition(t) ==
    /\ call[t].op \in Saves
    /\ call[t].at = "read"
    /\ TokenAfter(call[t]) <= MaxDrawn
    /\ app' = Merged(call[t])
    /\ token' = TokenAfter(call[t])
    /\ given' = IF TokenAfter(call[t]) > given THEN given + 1 ELSE given
    /\ call' = [call EXCEPT ![t].at = "written", ![t].base = app, ![t].under = token]
    /\ UNCHANGED <<typed, pageVars, open, pageHistory>>

\* What a call sets: a secret that is not sent is not set.
Set(c) == {f \in Fields \cap Group(c.op) : ~(f \in Secrets /\ c.fields[f] \in {0, Marker})}

\* What the user has typed is what is expected to be kept.
Keep(t) ==
    /\ kept' = [f \in Fields |-> IF f \in Set(call[t]) THEN call[t].fields[f] ELSE kept[f]]
    /\ raced' = IF t \in beside THEN raced ELSE raced \ Set(call[t])

\* The service has been updated.
Saved(t) ==
    /\ call[t].at = "written"
    /\ Keep(t)
    /\ revoked' = revoked \cup ({call[t].under} \ {token, 0})
    /\ AnswerCall(t, TRUE)
    /\ UNCHANGED <<serverVars, typed, draft, tokenOn, revealed>>

\* Docker has failed: the app stays as it was written, and the page says that
\* it could not be saved.
SavedOnly(t) ==
    /\ call[t].at = "written"
    /\ Keep(t)
    /\ AnswerCall(t, FALSE)
    /\ UNCHANGED <<serverVars, typed, draft, tokenOn, revealed, revoked>>

\* nginx has refused the configuration: what was there is written again.
RevertUpdate(t) ==
    /\ call[t].at = "written"
    /\ app' = [call[t].base EXCEPT !["domains"] = app["domains"]]
    /\ token' = call[t].under
    /\ AnswerCall(t, FALSE)
    /\ UNCHANGED <<given, typed, draft, tokenOn, revealed, kept, revoked, raced>>

\* The app is building, a field is not accepted, the app cannot be read.
CallFails(t) ==
    /\ call[t].at \in {"admitted", "read"}
    /\ AnswerCall(t, FALSE)
    /\ UNCHANGED <<serverVars, typed, draft, tokenOn, revealed, kept, revoked, raced>>

\* The page shows the new token, and stays.
RotateDeployToken(t) ==
    /\ At(t, "rotate", "admitted")
    /\ given < MaxDrawn
    /\ given' = given + 1
    /\ token' = given + 1
    /\ revoked' = revoked \cup ({token} \ {0})
    /\ beside' = beside \ {t}
    /\ raced' = IF t \in beside THEN raced ELSE raced \ {"token"}
    /\ call' = [call EXCEPT ![t] = NoCall]
    /\ LET here == page[t] = "working"
       IN  /\ page' = [page EXCEPT ![t] = IF here THEN "ready" ELSE @]
           /\ revealed' = [revealed EXCEPT ![t] = IF here THEN given + 1 ELSE @]
           /\ tokenOn' = [tokenOn EXCEPT ![t] = here \/ @]
           /\ open' = (open \/ here)
    /\ UNCHANGED <<app, typed, draft, kept>>

\* GET /secrets/ is not under the lock.
AnswerSecrets(t) ==
    /\ At(t, "reveal", "sent")
    /\ call' = [call EXCEPT ![t] = NoCall]
    /\ page' = [page EXCEPT ![t] = IF @ = "working" THEN "ready" ELSE @]
    /\ revealed' = [revealed EXCEPT ![t] = IF page[t] = "working" /\ token # 0 THEN token ELSE @]
    /\ UNCHANGED <<serverVars, typed, draft, tokenOn, open, pageHistory>>

ChangeDomains(t) ==
    /\ At(t, "domains", "admitted")
    /\ typed < MaxTyped
    /\ typed' = typed + 1
    /\ app' = [app EXCEPT !["domains"] = typed + 1]
    /\ kept' = [kept EXCEPT !["domains"] = typed + 1]
    /\ raced' = IF t \in beside THEN raced ELSE raced \ {"domains"}
    /\ AnswerCall(t, TRUE)
    /\ UNCHANGED <<token, given, draft, tokenOn, revealed, revoked>>

AppPageNext ==
    \E t \in Tabs :
        \/ LoadPage(t)
        \/ LeavePage(t)
        \/ \E f \in Fields : TypeInto(t, f)
        \/ SaveConfiguration(t)
        \/ SaveHttpSettings(t)
        \/ saveRepo(t)
        \/ toggleAppToken(t)
        \/ rotateToken(t)
        \/ revealToken(t)
        \/ runOperation(t)
        \/ call[t].op # "reveal" /\ AdmitCall(t)
        \/ call[t].op # "reveal" /\ RefuseCall(t)
        \/ ReadApp(t)
        \/ UpdateAppDefinition(t)
        \/ Saved(t)
        \/ SavedOnly(t)
        \/ RevertUpdate(t)
        \/ CallFails(t)
        \/ RotateDeployToken(t)
        \/ AnswerSecrets(t)
        \/ ChangeDomains(t)

AppPageSpec == AppPageInit /\ [][AppPageNext]_appPageVars

-----------------------------------------------------------------------------
(* Properties                                                              *)

Settled == \A t \in Tabs : ~Served(t)

\* Each field has the value that was last saved of it: a save from another tab,
\* of other fields, does not bring back an older one, and a secret that the
\* tab does not know is neither lost nor replaced by the marker (savePatch,
\* patchAppDefinition, the lock of UserRouter).  Only a field that a call has
\* changed beside one that its tab had left may have another value, and only
\* until it is saved alone.
SavedValuesStay == Settled => \A f \in Fields \ raced : app[f] = kept[f]

\* "Rotating immediately revokes the previous token" (AppDeployWorkspace): a
\* token that was replaced or disabled does not come back, although tabs hold
\* tokens that they were told and send them along; unless it was beside a call
\* that its tab had left, and until the token is rotated alone.
RevokedTokensStayRevoked == "token" \notin raced => token \notin revoked

\* The same, beside calls that were left too.  Both are violated: the lock is
\* freed when the connection is closed, and the call goes on with what it read.
AllSavedValuesStay == Settled => app = kept
AllRevokedTokensStayRevoked == token \notin revoked

\* What was typed and not saved is not lost by saving something else.  It is:
\* the page is loaded again after each success.
DraftsStay ==
    \A t \in Tabs : page[t] = "reloading" =>
        \A f \in Fields \ (Secrets \cup {"domains"}) : draft[t][f] <= app[f]

=============================================================================
