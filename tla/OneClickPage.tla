---------------------------- MODULE OneClickPage ----------------------------
(***************************************************************************)
(* The page of the one-click catalog (OneClickWorkspace) and the routes it *)
(* calls: the repositories, the apps they offer, a template, the start of  *)
(* a deployment and the questions for its progress (OneClickAppRouter).    *)
(* What a deployment does is in OneClick.                                  *)
(*                                                                         *)
(* Requests of one page overlap: its buttons are disabled by two flags,    *)
(* working and loading, which each request sets and each answer clears,    *)
(* and the cards of the apps are not disabled at all.                      *)
(***************************************************************************)
EXTENDS Naturals, FiniteSets, JavaScript

CONSTANTS
    Repos,     \* community repositories; each offers one app
    Official,  \* the official one, which is always there
    Asks,      \* bound: requests that may be under way
    MaxJobs,   \* bound: deployments started
    MaxSteps,  \* steps of a deployment
    MayGo      \* the page is left while its requests are served

ASSUME OneClickPageAssumption ==
    /\ MaxJobs \in Nat \ {0}
    /\ MaxSteps \in Nat \ {0}
    /\ MayGo \in BOOLEAN
    /\ Official \notin Repos
    /\ None \notin Repos \cup {Official} \cup Asks

VARIABLES
    repositories,  \* how often each is in the data store
    jobs,          \* of each deployment: its step, and whether it is known
    started,       \* deployments so far
    unlocked,      \* threadLockNamespace is not set
    view,          \* "closed", "catalog", "app", "custom" or "deployment"
    offered, listed,             \* apps and repositories that are shown
    selected, template, values,  \* the app, and whose texts are shown
    loading, working,
    jobId, progress, polling,
    ask            \* the requests

shownVars == <<offered, listed, selected, template, values, jobId, progress>>
workVars == <<view, loading, working, polling>>
storeVars == <<repositories, jobs, started, unlocked>>
oneClickPageVars == <<storeVars, shownVars, workVars, ask>>

CatalogApps == Repos \cup {Official}

\* A job that has come to its end answers MaxSteps.
Job == [step : 0 .. MaxSteps, known : BOOLEAN]

Locked == {"insert", "delete", "deploy"}

NoAsk == [op |-> "none"]

\* A request of a page that was left is not of the page.
Ask1 == [op : {"list", "select", "insert", "delete", "deploy", "progress"},
         of : CatalogApps \cup {None}, job : 0 .. MaxJobs, here : BOOLEAN, good : BOOLEAN,
         at : {"sent", "admitted", "checked", "half", "done"},
         apps : SUBSET CatalogApps, urls : SUBSET Repos, saw : 0 .. MaxSteps]

OneClickPageTypeOK ==
    /\ repositories \in [Repos -> 0 .. Cardinality(Asks) + 1]
    /\ jobs \in [1 .. MaxJobs -> Job]
    /\ started \in 0 .. MaxJobs
    /\ unlocked \in BOOLEAN
    /\ view \in {"closed", "catalog", "app", "custom", "deployment"}
    /\ offered \subseteq CatalogApps /\ listed \subseteq Repos
    /\ {selected, template, values} \subseteq CatalogApps \cup {None}
    /\ loading \in BOOLEAN /\ working \in BOOLEAN
    /\ jobId \in 0 .. MaxJobs
    /\ progress \in 0 .. MaxSteps
    /\ polling \in {"none", "due", "asked"}
    /\ ask \in [Asks -> Ask1 \cup {NoAsk}]

OneClickPageInit ==
    /\ repositories = [r \in Repos |-> 0]
    /\ jobs = [j \in 1 .. MaxJobs |-> [step |-> 0, known |-> FALSE]]
    /\ started = 0
    /\ unlocked = TRUE
    /\ view = "closed"
    /\ offered = {} /\ listed = {}
    /\ selected = None /\ template = None /\ values = None
    /\ loading = FALSE /\ working = FALSE
    /\ jobId = 0 /\ progress = 0 /\ polling = "none"
    /\ ask = [a \in Asks |-> NoAsk]

-----------------------------------------------------------------------------
(* The page                                                                *)

Request(a, op, of, j) ==
    /\ ask[a] = NoAsk
    /\ ask' = [ask EXCEPT ![a] =
                 [op |-> op, of |-> of, job |-> j, here |-> TRUE, good |-> TRUE,
                  at |-> "sent", apps |-> {}, urls |-> {}, saw |-> 0]]

InCatalog == view = "catalog" /\ jobId = 0 /\ selected = None

OpenCatalog(a) ==
    /\ view = "closed"
    /\ Request(a, "list", None, 0)
    /\ view' = "catalog"
    /\ loading' = TRUE
    /\ UNCHANGED <<storeVars, shownVars, working, polling>>

\* The page of one app asks for its template.
loadAppTemplate(a, r) ==
    /\ view = "closed"
    /\ Request(a, "select", r, 0)
    /\ view' = "app"
    /\ loading' = TRUE
    /\ UNCHANGED <<storeVars, shownVars, working, polling>>

\* A template, or a Docker Compose file, that the user writes.
OpenCustom ==
    /\ view = "closed"
    /\ view' = "custom"
    /\ UNCHANGED <<storeVars, shownVars, loading, working, polling, ask>>

\* The page of a deployment starts it as soon as it is shown.
OpenDeployment(a) ==
    /\ view = "closed"
    /\ Request(a, "deploy", None, 0)
    /\ view' = "deployment"
    /\ working' = TRUE
    /\ UNCHANGED <<storeVars, shownVars, loading, polling>>

\* The timer of the question for the progress is cleared; connections close,
\* and only the changes go on.
LeaveCatalog ==
    /\ view # "closed"
    /\ MayGo \/ \A a \in Asks : ask[a] = NoAsk
    /\ view' = "closed"
    /\ offered' = {} /\ listed' = {}
    /\ selected' = None /\ template' = None /\ values' = None
    /\ loading' = FALSE /\ working' = FALSE
    /\ jobId' = 0 /\ progress' = 0 /\ polling' = "none"
    /\ ask' = [a \in Asks |-> IF ask[a].op \in Locked THEN [ask[a] EXCEPT !.here = FALSE] ELSE NoAsk]
    /\ unlocked' = TRUE
    /\ UNCHANGED <<repositories, jobs, started>>

loadCatalog(a) ==
    /\ InCatalog
    /\ ~loading
    /\ Request(a, "list", None, 0)
    /\ loading' = TRUE
    /\ UNCHANGED <<storeVars, shownVars, view, working, polling>>

\* Mutant: what is clicked is shown as selected at once.
SelectAtOnce(a, r) ==
    /\ InCatalog
    /\ ~loading
    /\ r \in offered
    /\ Request(a, "select", r, 0)
    /\ selected' = r
    /\ working' = TRUE
    /\ UNCHANGED <<storeVars, offered, listed, template, values, jobId, progress, view, loading, polling>>

\* A card is shown while nothing is loading; it is never disabled.
selectApp(a, r) ==
    /\ InCatalog
    /\ ~loading
    /\ r \in offered
    /\ Request(a, "select", r, 0)
    /\ working' = TRUE
    /\ UNCHANGED <<storeVars, shownVars, view, loading, polling>>

BackToCatalog ==
    /\ selected # None
    /\ jobId = 0
    /\ selected' = None
    /\ UNCHANGED <<storeVars, offered, listed, template, values, jobId, progress, workVars, ask>>

changeRepository(a, op, r) ==
    /\ InCatalog
    /\ ~working
    /\ op = "delete" => r \in listed
    /\ Request(a, op, r, 0)
    /\ working' = TRUE
    /\ UNCHANGED <<storeVars, shownVars, view, loading, polling>>

startDeployment(a) ==
    /\ selected # None \/ view = "custom"
    /\ jobId = 0
    /\ ~working
    /\ Request(a, "deploy", template, 0)
    /\ working' = TRUE
    /\ UNCHANGED <<storeVars, shownVars, view, loading, polling>>

\* Mutant: the progress is asked for at intervals, as the status of a build is.
AtIntervals == polling # "none"

TimeToPoll == polling = "due"

poll(a) ==
    /\ jobId # 0
    /\ TimeToPoll
    /\ Request(a, "progress", None, jobId)
    /\ polling' = "asked"
    /\ UNCHANGED <<storeVars, shownVars, view, loading, working>>

-----------------------------------------------------------------------------
(* The server                                                              *)

Registered == {r \in Repos : repositories[r] > 0}

IsAsk(a, op, stage) == ask[a] # NoAsk /\ ask[a].op = op /\ ask[a].at = stage

TakeAnswer(a, good) == ask' = [ask EXCEPT ![a].at = "done", ![a].good = good]

\* The page's connection holds the lock.
Finish(a, good) ==
    /\ TakeAnswer(a, good)
    /\ unlocked' = (unlocked \/ ask[a].here)

\* Mutant: changing requests are let in together.
AnyoneMayChange == TRUE

MayChange == unlocked

AdmitAsk(a) ==
    /\ ask[a] # NoAsk /\ ask[a].op \in Locked /\ ask[a].at = "sent"
    /\ MayChange
    /\ unlocked' = ~ask[a].here
    /\ ask' = [ask EXCEPT ![a].at = "admitted"]
    /\ UNCHANGED <<repositories, jobs, started, shownVars, workVars>>

\* 429.
Turned(a) ==
    /\ ask[a] # NoAsk /\ ask[a].op \in Locked /\ ask[a].at = "sent"
    /\ ~unlocked
    /\ TakeAnswer(a, FALSE)
    /\ UNCHANGED <<storeVars, shownVars, workVars>>

\* The URL is not one that is there; then the repository is asked for its list.
CheckRepository(a) ==
    /\ IsAsk(a, "insert", "admitted")
    /\ ask[a].of \notin Registered
    /\ ask' = [ask EXCEPT ![a].at = "checked"]
    /\ UNCHANGED <<storeVars, shownVars, workVars>>

insertOneClickBaseUrl(a) ==
    /\ IsAsk(a, "insert", "checked")
    /\ repositories' = [repositories EXCEPT ![ask[a].of] = @ + 1]
    /\ Finish(a, TRUE)
    /\ UNCHANGED <<jobs, started, shownVars, workVars>>

CheckPresence(a) ==
    /\ IsAsk(a, "delete", "admitted")
    /\ ask[a].of \in Registered
    /\ ask' = [ask EXCEPT ![a].at = "checked"]
    /\ UNCHANGED <<storeVars, shownVars, workVars>>

\* Every occurrence goes.
deleteOneClickBaseUrl(a) ==
    /\ IsAsk(a, "delete", "checked")
    /\ repositories' = [repositories EXCEPT ![ask[a].of] = 0]
    /\ Finish(a, TRUE)
    /\ UNCHANGED <<jobs, started, shownVars, workVars>>

\* The URL is known, unknown or not safe; the repository does not answer; the
\* template or the values are not accepted.
ChangeFails(a) ==
    /\ \/ IsAsk(a, "insert", "admitted")
       \/ IsAsk(a, "insert", "checked")
       \/ IsAsk(a, "delete", "admitted")
       \/ IsAsk(a, "deploy", "admitted")
    /\ Finish(a, FALSE)
    /\ UNCHANGED <<repositories, jobs, started, shownVars, workVars>>

\* The deployment goes on by itself.
DeployTemplate(a) ==
    /\ IsAsk(a, "deploy", "admitted")
    /\ started < MaxJobs
    /\ started' = started + 1
    /\ jobs' = [jobs EXCEPT ![started + 1] = [step |-> 0, known |-> TRUE]]
    /\ ask' = [ask EXCEPT ![a].at = "done", ![a].job = started + 1]
    /\ unlocked' = (unlocked \/ ask[a].here)
    /\ UNCHANGED <<repositories, shownVars, workVars>>

\* What becomes of other deployments is not seen.
Watched(j) == jobId = j \/ \E a \in Asks : ask[a] # NoAsk /\ ask[a].job = j

updateJobProgress(j) ==
    /\ Watched(j)
    /\ jobs[j].known
    /\ jobs[j].step < MaxSteps
    /\ jobs' = [jobs EXCEPT ![j].step = @ + 1]
    /\ UNCHANGED <<repositories, started, unlocked, shownVars, workVars, ask>>

\* Old, one of too many, or of a process that has ended.
JobIsForgotten(j) ==
    /\ Watched(j)
    /\ jobs[j].known
    /\ jobs' = [jobs EXCEPT ![j].known = FALSE]
    /\ UNCHANGED <<repositories, started, unlocked, shownVars, workVars, ask>>

\* The page asks for the list of apps and for the repositories together.
ListTemplates(a) ==
    /\ IsAsk(a, "list", "sent")
    /\ \E up \in SUBSET (Registered \cup {Official}) :
           ask' = [ask EXCEPT ![a].at = "half", ![a].apps = up]
    /\ UNCHANGED <<storeVars, shownVars, workVars>>

ListRepositories(a) ==
    /\ IsAsk(a, "list", "half")
    /\ ask' = [ask EXCEPT ![a].at = "done", ![a].urls = Registered]
    /\ UNCHANGED <<storeVars, shownVars, workVars>>

GetTemplate(a) ==
    /\ IsAsk(a, "select", "sent")
    /\ \E good \in BOOLEAN :
        /\ good => ask[a].of \in Registered \cup {Official}
        /\ TakeAnswer(a, good)
    /\ UNCHANGED <<storeVars, shownVars, workVars>>

GetProgress(a) ==
    /\ IsAsk(a, "progress", "sent")
    /\ ask' = [ask EXCEPT ![a].at = "done", ![a].good = jobs[ask[a].job].known,
                          ![a].saw = jobs[ask[a].job].step]
    /\ UNCHANGED <<storeVars, shownVars, workVars>>

ReadFails(a) ==
    /\ IsAsk(a, "list", "sent") \/ IsAsk(a, "list", "half") \/ IsAsk(a, "progress", "sent")
    /\ TakeAnswer(a, FALSE)
    /\ UNCHANGED <<storeVars, shownVars, workVars>>

-----------------------------------------------------------------------------
(* The answer comes to the page                                            *)

Comes(a, op) == IsAsk(a, op, "done") /\ ask[a].here

Drop(a) == ask' = [ask EXCEPT ![a] = NoAsk]

CatalogLoaded(a) ==
    /\ Comes(a, "list")
    /\ loading' = FALSE
    /\ working' = IF ask[a].of = None THEN working ELSE FALSE
    /\ offered' = IF ask[a].good THEN ask[a].apps ELSE offered
    /\ listed' = IF ask[a].good THEN ask[a].urls ELSE listed
    /\ Drop(a)
    /\ UNCHANGED <<storeVars, selected, template, values, jobId, progress, view, polling>>

AppSelected(a) ==
    /\ Comes(a, "select")
    /\ working' = (working /\ view = "app")
    /\ loading' = (loading /\ view # "app")
    /\ selected' = IF ask[a].good THEN ask[a].of ELSE selected
    /\ template' = IF ask[a].good THEN ask[a].of ELSE template
    /\ values' = IF ask[a].good THEN ask[a].of ELSE values
    /\ Drop(a)
    /\ UNCHANGED <<storeVars, offered, listed, jobId, progress, view, polling>>

\* The catalog is loaded before the operation is over.
RepositoryChanged(a) ==
    /\ Comes(a, "insert") \/ Comes(a, "delete")
    /\ IF ask[a].good
       THEN /\ ask' = [ask EXCEPT ![a].op = "list", ![a].at = "sent"]
            /\ loading' = TRUE
            /\ working' = working
       ELSE /\ Drop(a)
            /\ loading' = loading
            /\ working' = FALSE
    /\ UNCHANGED <<storeVars, shownVars, view, polling>>

\* The page shows the deployment from now on.
DeploymentStarted(a) ==
    /\ Comes(a, "deploy")
    /\ working' = FALSE
    /\ jobId' = IF ask[a].good THEN ask[a].job ELSE jobId
    /\ progress' = IF ask[a].good THEN 0 ELSE progress
    /\ polling' = IF ask[a].good THEN "due" ELSE polling
    /\ Drop(a)
    /\ UNCHANGED <<storeVars, offered, listed, selected, template, values, view, loading>>

\* The next question comes two seconds after an answer, and three after an
\* error; the answer for another job is not taken.
ProgressShown(a) ==
    /\ Comes(a, "progress")
    /\ LET mine == ask[a].job = jobId
           ends == ask[a].good /\ ask[a].saw = MaxSteps
       IN  /\ progress' = IF mine /\ ask[a].good THEN ask[a].saw ELSE progress
           /\ polling' = IF ~mine THEN polling ELSE IF ends THEN "none" ELSE "due"
    /\ Drop(a)
    /\ UNCHANGED <<storeVars, offered, listed, selected, template, values, jobId, view, loading, working>>

AnswerIsLost(a) ==
    /\ ask[a] # NoAsk /\ ask[a].at = "done" /\ ~ask[a].here
    /\ Drop(a)
    /\ UNCHANGED <<storeVars, shownVars, workVars>>

OneClickPageNext ==
    \/ LeaveCatalog
    \/ BackToCatalog
    \/ OpenCustom
    \/ \E a \in Asks :
        \/ OpenCatalog(a)
        \/ OpenDeployment(a)
        \/ \E r \in CatalogApps : loadAppTemplate(a, r)
        \/ loadCatalog(a)
        \/ \E r \in CatalogApps : selectApp(a, r)
        \/ \E r \in Repos, op \in {"insert", "delete"} : changeRepository(a, op, r)
        \/ startDeployment(a)
        \/ poll(a)
        \/ AdmitAsk(a)
        \/ Turned(a)
        \/ CheckRepository(a)
        \/ insertOneClickBaseUrl(a)
        \/ CheckPresence(a)
        \/ deleteOneClickBaseUrl(a)
        \/ ChangeFails(a)
        \/ DeployTemplate(a)
        \/ ListTemplates(a)
        \/ ListRepositories(a)
        \/ GetTemplate(a)
        \/ GetProgress(a)
        \/ ReadFails(a)
        \/ CatalogLoaded(a)
        \/ AppSelected(a)
        \/ RepositoryChanged(a)
        \/ DeploymentStarted(a)
        \/ ProgressShown(a)
        \/ AnswerIsLost(a)
    \/ \E j \in 1 .. MaxJobs :
        \/ updateJobProgress(j)
        \/ JobIsForgotten(j)

OneClickPageSpec == OneClickPageInit /\ [][OneClickPageNext]_oneClickPageVars

-----------------------------------------------------------------------------
(* Properties                                                              *)

\* The texts to be deployed are those of the app that the page names, in
\* whatever order the templates come (selectApp).
SelectedIsDeployed == selected # None => template = selected /\ values = selected

\* The progress of a deployment that is shown does not go back: an answer is
\* awaited before the next question is asked (the polling effect).
ProgressNeverGoesBack ==
    [][jobId # 0 /\ jobId' = jobId => progress' >= progress]_oneClickPageVars

\* A repository is there once, although it is looked up before it is asked for
\* its list, which takes seconds (/repositories/insert).
RepositoriesAreDistinct == \A r \in Repos : repositories[r] <= 1

\* Once the page has its answers, the repositories it lists are those there
\* are.  They are not: an older list may come after the one that followed a
\* change.
ListIsCurrent ==
    view = "catalog" /\ (\A a \in Asks : ask[a] = NoAsk) => listed = Registered

\* One click on the button starts one deployment.  It does not: the answer to
\* an earlier click on a card enables the button while the start is under way.
DeployedOnce == Cardinality({a \in Asks : ask[a] # NoAsk /\ ask[a].op = "deploy"}) <= 1

=============================================================================
