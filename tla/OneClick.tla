------------------------------ MODULE OneClick ------------------------------
(***************************************************************************)
(* Deployments of one-click apps (OneClickAppDeployManager and its helper), *)
(* each a chain of steps outside the dashboard's lock, beside the registry   *)
(* of their jobs (OneClickDeploymentJobRegistry) that its client polls and   *)
(* that is written to the store and read back after a restart.               *)
(***************************************************************************)
EXTENDS Projects

CONSTANTS
    Missing,           \* a service nobody defines
    Templates,         \* the templates that are deployed
    MaxJobs,           \* bound on the deployments
    MaxStoredJobs,     \* MAX_JOBS
    MaxFaults          \* bound on the restarts, failed writes and days

\* A template: its services in the order of their keys, what each depends on,
\* the text shown at the end, which may be empty, whether the app's name is
\* given, and whether it is sound enough to be looked at.
Template == [keys : Seq(Apps), needs : [Apps -> SUBSET (Apps \cup {Missing})],
             end : {"text", ""}, named : BOOLEAN, sound : BOOLEAN]

ASSUME OneClickAssumption ==
    /\ Templates \subseteq Template
    /\ MaxStoredJobs \in Nat \ {0}
    /\ {MaxJobs, MaxFaults} \subseteq Nat
    /\ Missing \notin Apps
    /\ \A t \in Templates : IsInjective(t.keys)   \* they are the keys of an object

VARIABLES
    made,         \* the jobs are numbered in the order of their creation
    chain,        \* the promise chain of each job
    jobs,         \* the registry: its jobs' verdicts, "" while unfinished
    hydrated,     \* the registry has been filled from the store
    store,        \* the jobs in the store
    told,         \* what the clients of the jobs were last told
    faults        \* restarts, failed writes and days so far

jobVars == <<made, chain, jobs, hydrated, store, told>>
vars == <<projectVars, jobVars, faults>>

Jobs == 1..MaxJobs
Unfinished == ""
Interrupted == "interrupted"
Verdicts == {Unfinished, "success", "error", Interrupted}
JobRecord == [verdict : Verdicts, old : BOOLEAN]
Running == {"run", "build", "docker"}
Faults == faults.restarts + faults.writes + faults.days
Over == {"ended", "refused", "thrown", "dead"}

-----------------------------------------------------------------------------
(* The order of the services                                               *)

\* Mutant: a dependency need only be a service of the template.
PassLoosely(apps, t) ==
    FoldLeft(LAMBDA acc, s :
                IF \/ s \in ToSet(acc)
                   \/ ~(t.needs[s] \subseteq ToSet(t.keys))
                THEN acc ELSE Append(acc, s),
             apps, t.keys)

\* One iteration of createAppsArrayInOrder.
Pass(apps, t) ==
    FoldLeft(LAMBDA acc, s :
                IF \/ s \in ToSet(acc)
                   \/ ~(t.needs[s] \subseteq ToSet(acc))
                THEN acc ELSE Append(acc, s),
             apps, t.keys)

\* It gives up after one iteration more than there are services.
InOrder(t) ==
    LET after[n \in Nat] == IF n = 0 THEN <<>> ELSE Pass(after[n - 1], t)
    IN  after[Len(t.keys) + 1]

Resolved(t) == Len(InOrder(t)) = Len(t.keys) /\ t.keys # <<>>

StepsOf(app) == <<<<"register", app>>, <<"configure", app>>, <<"deploy", app>>>>

Steps(t) ==
    (IF Len(t.keys) > 1 THEN <<<<"project", None>>>> ELSE <<>>)
    \o FlattenSeq([i \in 1..Len(t.keys) |-> StepsOf(InOrder(t)[i])])

-----------------------------------------------------------------------------
(* The registry of jobs                                                    *)

\* Mutants: one job too many is kept; the newest goes.
TrimmedLate(f) ==
    [j \in {k \in DOMAIN f : Cardinality({l \in DOMAIN f : l > k}) <= MaxStoredJobs} |-> f[j]]

TrimmedNewest(f) ==
    [j \in {k \in DOMAIN f : Cardinality({l \in DOMAIN f : l < k}) < MaxStoredJobs} |-> f[j]]

\* trimJobs drops the jobs that were added first.
Trimmed(f) ==
    [j \in {k \in DOMAIN f : Cardinality({l \in DOMAIN f : l > k}) < MaxStoredJobs} |-> f[j]]

\* initialize: what was under way cannot be resumed.
Recovered(f) ==
    [j \in {k \in DOMAIN f : ~f[k].old} |->
        IF f[j].verdict = Unfinished THEN [f[j] EXCEPT !.verdict = Interrupted] ELSE f[j]]

Hydrated == IF hydrated THEN jobs ELSE Trimmed(Recovered(store))

\* Each change writes the whole list; a failed write is logged and forgotten.
Persist(f) ==
    \/ store' = f /\ UNCHANGED faults
    \/ /\ Faults < MaxFaults
       /\ faults' = [faults EXCEPT !.writes = @ + 1]
       /\ UNCHANGED store

CreateJob(j, job) ==
    /\ jobs' = Trimmed(With(Hydrated, j, job))
    /\ hydrated' = TRUE
    /\ Persist(jobs')

UpdateJobProgress(j, verdict) ==
    IF j \in DOMAIN jobs
    THEN /\ jobs' = [jobs EXCEPT ![j] = [verdict |-> verdict, old |-> FALSE]]
         /\ Persist(jobs')
    ELSE UNCHANGED <<jobs, store, faults>>

NoChain == [stage |-> "none"]

Init ==
    /\ ProjectsInit
    /\ made = 0
    /\ chain = [j \in Jobs |-> NoChain]
    /\ jobs = <<>>
    /\ hydrated = FALSE
    /\ store = <<>>
    /\ told = <<>>
    /\ faults = [restarts |-> 0, writes |-> 0, days |-> 0]

\* POST /oneclick/deploy.  What throws before the chain starts is answered as
\* an error, and its job stays behind.
Deploy(t) ==
    /\ op = Idle
    /\ made < MaxJobs
    /\ made' = made + 1
    /\ LET refused == t.sound /\ (~t.named \/ ~Resolved(t)) IN
       /\ chain' = [chain EXCEPT ![made'] =
             [template |-> t, steps |-> IF refused \/ ~t.sound THEN <<>> ELSE Steps(t), at |-> 1, project |-> None, read |-> <<>>,
              stage |-> IF ~t.sound THEN "thrown" ELSE IF refused THEN "refused" ELSE "run"]]
       /\ CreateJob(made', [verdict |-> IF refused THEN "error" ELSE Unfinished, old |-> FALSE])
    /\ told' = IF t.sound THEN With(told, made', Unfinished) ELSE told
    /\ UNCHANGED projectVars

\* GET /oneclick/deploy/progress
Poll(j) ==
    /\ j \in DOMAIN told
    /\ hydrated' = TRUE
    /\ jobs' = Hydrated
    /\ IF hydrated THEN UNCHANGED <<store, faults>> ELSE Persist(jobs')
    /\ told' = IF j \in DOMAIN jobs' THEN [told EXCEPT ![j] = jobs'[j].verdict] ELSE told
    /\ UNCHANGED <<projectVars, made, chain>>

\* 24 hours without an update: the next clean-up, or hydration, drops a job.
Day ==
    LET Aged(f) == [j \in DOMAIN f |-> [f[j] EXCEPT !.old = TRUE]] IN
    /\ Faults < MaxFaults
    /\ faults' = [faults EXCEPT !.days = @ + 1]
    /\ jobs' = Aged(jobs)
    /\ store' = Aged(store)
    /\ UNCHANGED <<projectVars, made, chain, hydrated, told>>

CleanupOldJobs ==
    /\ \E j \in DOMAIN jobs : jobs[j].old
    /\ jobs' = [j \in {k \in DOMAIN jobs : ~jobs[k].old} |-> jobs[j]]
    /\ Persist(jobs')
    /\ UNCHANGED <<projectVars, made, chain, hydrated, told>>

-----------------------------------------------------------------------------
(* The chain of a job                                                      *)

StepIs(j, kind, now) ==
    /\ chain[j].stage = now
    /\ chain[j].steps[chain[j].at][1] = kind

AppOf(j) == chain[j].steps[chain[j].at][2]

\* What onNextStep reports, at last the template's instructions.end.
Report(c) ==
    IF c.at > Len(c.steps) /\ c.template.end = "text" THEN "success" ELSE Unfinished

\* Nothing is left of a chain that is over but what it has read.
Left(c, now) == [c EXCEPT !.stage = now, !.at = 1, !.project = None]

NextStep(j, c) ==
    LET next == [c EXCEPT !.at = @ + 1, !.stage = "run"]
    IN  /\ chain' = [chain EXCEPT ![j] = IF next.at > Len(c.steps) THEN Left(c, "ended") ELSE next]
        /\ UpdateJobProgress(j, Report(next))
        /\ UNCHANGED <<made, hydrated, told>>

Waits(j, c) ==
    /\ chain' = [chain EXCEPT ![j] = c]
    /\ UNCHANGED <<made, jobs, hydrated, store, told, faults>>

\* Mutant: the error is not reported.
StepFailsSilently(j) ==
    /\ chain[j].stage \in {"run", "docker"} \/ StepIs(j, "deploy", "build")
    /\ Waits(j, Left(chain[j], "ended"))
    /\ UNCHANGED projectVars

\* Any step may fail, only the placeholder's build is never reported.  (A
\* template without instructions fails in its last report.)
StepFails(j) ==
    /\ chain[j].stage \in {"run", "docker"} \/ StepIs(j, "deploy", "build")
    /\ chain' = [chain EXCEPT ![j] = Left(@, "ended")]
    /\ UpdateJobProgress(j, "error")
    /\ UNCHANGED <<projectVars, made, hydrated, told>>

ProjectStep(j) ==
    /\ StepIs(j, "project", "run")
    /\ \E id \in ProjectIds \ (Projects \cup gone) :
          /\ SaveProject(id, None)
          /\ NextStep(j, [chain[j] EXCEPT !.project = id])
    /\ UNCHANGED <<appProject, op, ops>>

\* Registers the app and waits for the build of its placeholder.
RegisterStep(j) ==
    /\ StepIs(j, "register", "run")
    /\ RegisterApp(AppOf(j), chain[j].project)
    /\ Waits(j, [chain[j] EXCEPT !.stage = "build"])
    /\ UNCHANGED <<parent, op, ops, gone>>

\* The configuration is that of the app as it is read first, project included.
ConfigureStep(j) ==
    /\ StepIs(j, "configure", "run")
    /\ AppOf(j) \in DOMAIN appProject
    /\ appProject[AppOf(j)] \in Places
    /\ Waits(j, [chain[j] EXCEPT !.stage = "docker", !.read = With(@, AppOf(j), appProject[AppOf(j)])])
    /\ UNCHANGED projectVars

ConfigureWrites(j) ==
    /\ StepIs(j, "configure", "docker")
    /\ AppOf(j) \in DOMAIN appProject
    /\ appProject' = [appProject EXCEPT ![AppOf(j)] = chain[j].read[AppOf(j)]]
    /\ NextStep(j, chain[j])
    /\ UNCHANGED <<parent, op, ops, gone>>

DeployStep(j) ==
    /\ StepIs(j, "deploy", "run")
    /\ AppOf(j) \in DOMAIN appProject
    /\ Waits(j, [chain[j] EXCEPT !.stage = "build"])
    /\ UNCHANGED projectVars

\* The promise of a build that was queued is never settled: its chain stays here.
BuildEnds(j) ==
    /\ chain[j].stage = "build"
    /\ NextStep(j, chain[j])
    /\ UNCHANGED projectVars

-----------------------------------------------------------------------------

\* The process ends: the chains and the registry with it.
Dies ==
    /\ chain' = [j \in Jobs |-> IF chain[j].stage \in Running
                                THEN Left(chain[j], "dead") ELSE chain[j]]
    /\ jobs' = <<>>
    /\ hydrated' = FALSE
    /\ UNCHANGED <<made, store, told>>

Restart ==
    /\ Faults < MaxFaults
    /\ faults' = [faults EXCEPT !.restarts = @ + 1]
    /\ op' = Idle
    /\ Dies
    /\ UNCHANGED <<parent, appProject, ops, gone>>

\* A second rejected deletion is nobody's: it ends the process.
DeleteAnswers ==
    /\ DeleteEnds
    /\ UNCHANGED faults
    /\ IF Deletion.rejected = 2 THEN Dies ELSE UNCHANGED jobVars

Building == {AppOf(j) : j \in {k \in Jobs : chain[k].stage = "build"}}

ChainStep(j) ==
    \/ StepFails(j)
    \/ ProjectStep(j)
    \/ RegisterStep(j)
    \/ ConfigureStep(j)
    \/ ConfigureWrites(j)
    \/ DeployStep(j)
    \/ BuildEnds(j)

Next ==
    \/ Dashboard(Building) /\ UNCHANGED <<jobVars, faults>>
    \/ DeleteAnswers
    \/ \E t \in Templates : Deploy(t)
    \/ \E j \in Jobs : Poll(j) \/ ChainStep(j)
    \/ Day
    \/ CleanupOldJobs
    \/ Restart

Spec == Init /\ [][Next]_vars

-----------------------------------------------------------------------------
(* Properties                                                              *)

\* The state is well typed; a chain that is under way has a step to do.
TypeOK ==
    /\ ProjectsTypeOK
    /\ made \in 0..MaxJobs
    /\ \A j \in Jobs :
          \/ chain[j] = NoChain /\ j > made
          \/ /\ j <= made
             /\ chain[j].template \in Templates
             /\ chain[j].stage \in Running \cup Over
             /\ chain[j].project \in ProjectIds \cup {None}
             /\ DOMAIN chain[j].read \subseteq Apps
             /\ \A a \in DOMAIN chain[j].read : chain[j].read[a] \in ProjectIds \cup {None}
             /\ chain[j].stage \in Running => chain[j].at \in 1..Len(chain[j].steps)
    /\ \A f \in {jobs, store} :
          /\ DOMAIN f \subseteq 1..made
          /\ Cardinality(DOMAIN f) <= MaxStoredJobs
          /\ \A j \in DOMAIN f : f[j] \in JobRecord
    /\ hydrated \in BOOLEAN
    /\ DOMAIN told \subseteq 1..made
    /\ \A j \in DOMAIN told : told[j] \in Verdicts
    /\ faults \in [{"restarts", "writes", "days"} -> 0..MaxFaults]
    /\ Faults <= MaxFaults

\* Nothing can be deployed in any order: some services each need one of them,
\* or one that nobody defines.
Unsolvable(t) ==
    \E S \in (SUBSET ToSet(t.keys)) \ {{}} :
        \A s \in S : t.needs[s] \ (ToSet(t.keys) \ S) # {}

\* A template is refused when its dependencies cannot be met, and only then; and
\* the registration of a service comes after the deployments of what it needs.
ServicesComeAfterTheirNeeds ==
    \A j \in 1..made :
        LET t == chain[j].template
            steps == chain[j].steps
        IN  t.sound /\ t.named =>
            /\ chain[j].stage = "refused" <=> t.keys = <<>> \/ Unsolvable(t)
            /\ chain[j].stage # "refused" =>
               \A i \in 1..Len(steps) : steps[i][1] = "register" =>
                  \A s \in t.needs[steps[i][2]] : \E k \in 1..(i - 1) : steps[k] = <<"deploy", s>>

\* A job that a client polls is unfinished only while its chain is under way,
\* also after a restart, or because the template's last words are empty.
UnfinishedJobsRun ==
    \A j \in DOMAIN jobs \cap DOMAIN told :
        jobs[j].verdict = Unfinished =>
            \/ chain[j].stage \in Running
            \/ chain[j].stage = "ended" /\ chain[j].template.end = ""

\* The registry finds a job for its client, and repeats what it has said of how
\* it ended, across restarts, until MaxStoredJobs newer jobs or a day push it
\* out; a failed write of the store may lose it.
VerdictsStay ==
    \A j \in DOMAIN told :
        hydrated /\ faults.writes = 0 /\ faults.days = 0 =>
            IF j \in DOMAIN jobs
            THEN told[j] # Unfinished => jobs[j].verdict = told[j]
            ELSE made - j >= MaxStoredJobs

\* However requests and deployments overlap, the parent of a project is there,
\* and so is the project of an app, unless a deployment that was under way has
\* put the app back into the project that it had read for this app.
ProjectsStayWhole ==
    /\ \A p \in Projects : parent[p] \in Places
    /\ \A a \in DOMAIN appProject :
          \/ appProject[a] \in Places
          \/ \E j \in 1..made : a \in DOMAIN chain[j].read /\ chain[j].read[a] = appProject[a]
=============================================================================
