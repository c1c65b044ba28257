---------------------------- MODULE OneClickProofs ----------------------------
(***************************************************************************)
(* The jobs of one-click deployments, for any templates, any number of     *)
(* jobs and any faults; the sources of builds, for any deployments; then   *)
(* the order in which a job deploys services, and the projects it uses.    *)
(***************************************************************************)
EXTENDS OneClick, BuildSources, SharedLemmas

-----------------------------------------------------------------------------
(* The invariant.                                                          *)

IsChain(c) ==
    /\ DOMAIN c = {"template", "steps", "at", "project", "read", "stage"}
    /\ c.template \in Templates
    /\ c.stage \in Running \cup Over

JobsOK(f) == DOMAIN f \subseteq 1..made /\ f \in [DOMAIN f -> JobRecord]

JobTypes ==
    /\ made \in 0..MaxJobs
    /\ chain = [j \in Jobs |-> chain[j]]
    /\ \A j \in Jobs : IF j <= made THEN IsChain(chain[j]) ELSE chain[j] = NoChain
    /\ JobsOK(jobs)
    /\ JobsOK(store)
    /\ hydrated \in BOOLEAN
    /\ ~hydrated => DOMAIN jobs = {}
    /\ DOMAIN told \subseteq 1..made
    /\ told \in [DOMAIN told -> Verdicts]
    /\ faults \in [{"restarts", "writes", "days"} -> Nat]

\* A chain that is under way has been told of, and recorded, as unfinished, by
\* the process it runs in.
RunningInv ==
    \A j \in Jobs : chain[j].stage \in Running =>
        /\ hydrated
        /\ j \in DOMAIN jobs => jobs[j].verdict = Unfinished
        /\ j \in DOMAIN told => told[j] = Unfinished

\* As long as no write has failed and no job is old, the store has what the
\* clients were told, or has dropped it for newer jobs.
Keeps(f) ==
    /\ \A j \in DOMAIN f : ~f[j].old
    /\ \A j \in 1..made : j \notin DOMAIN f => made - j >= MaxStoredJobs
    /\ \A j \in DOMAIN told \cap DOMAIN f : told[j] # Unfinished => f[j].verdict = told[j]

StoreInv ==
    faults.writes = 0 /\ faults.days = 0 =>
        /\ hydrated => store = jobs
        /\ Keeps(store)

ClickInv == JobTypes /\ RunningInv /\ UnfinishedJobsRun /\ StoreInv

-----------------------------------------------------------------------------
(* What the registry's operators keep.                                     *)

LEMMA TrimmedKeeps ==
    ASSUME NEW f, NEW n \in Nat, DOMAIN f \subseteq 1..n
    PROVE  /\ DOMAIN Trimmed(f) \subseteq DOMAIN f
           /\ \A j \in DOMAIN Trimmed(f) : Trimmed(f)[j] = f[j]
           /\ Trimmed(f) = [j \in DOMAIN Trimmed(f) |-> Trimmed(f)[j]]
           /\ \A j \in DOMAIN f : j \notin DOMAIN Trimmed(f) => n - j >= MaxStoredJobs
           /\ n \in DOMAIN f => n \in DOMAIN Trimmed(f)
<1> DEFINE newer(k) == {l \in DOMAIN f : l > k}
           kept == {k \in DOMAIN f : Cardinality(newer(k)) < MaxStoredJobs}
<1>1. Trimmed(f) = [j \in kept |-> f[j]]
  BY Zenon DEF Trimmed
<1>2. DOMAIN Trimmed(f) = kept /\ kept \subseteq DOMAIN f /\ \A j \in kept : Trimmed(f)[j] = f[j]
  BY <1>1
<1>3. ASSUME NEW j \in DOMAIN f, j \notin kept
      PROVE  n - j >= MaxStoredJobs
  <2>1. j \in 1..n /\ newer(j) \subseteq (j + 1)..n
    OBVIOUS
  <2>2. IsFiniteSet((j + 1)..n) /\ Cardinality((j + 1)..n) = n - j
    <3>1. j + 1 \in Int /\ n \in Int /\ (j + 1 > n => n - j = 0)
      BY <2>1
    <3>2. QED BY <2>1, <3>1, FS_Interval
  <2>3. IsFiniteSet(newer(j)) /\ Cardinality(newer(j)) <= n - j
    BY <2>1, <2>2, FS_Subset
  <2>4. Cardinality(newer(j)) \in Nat
    BY <2>3, FS_CardinalityType
  <2>5. ~(Cardinality(newer(j)) < MaxStoredJobs)
    BY <1>3
  <2>6. QED BY <2>1, <2>3, <2>4, <2>5, OneClickAssumption
<1>4. ASSUME n \in DOMAIN f
      PROVE  n \in kept
  <2>1. newer(n) = {}
    OBVIOUS
  <2>2. Cardinality(newer(n)) = 0
    BY <2>1, FS_EmptySet, Zenon
  <2>3. QED BY <1>4, <2>2, OneClickAssumption
<1>5. QED BY <1>1, <1>2, <1>3, <1>4

LEMMA RecoveredKeeps ==
    ASSUME NEW f, f \in [DOMAIN f -> JobRecord]
    PROVE  LET g == Recovered(f)
           IN  /\ DOMAIN g = {j \in DOMAIN f : ~f[j].old}
               /\ g \in [DOMAIN g -> JobRecord]
               /\ \A j \in DOMAIN g :
                     /\ ~g[j].old
                     /\ g[j].verdict # Unfinished
                     /\ f[j].verdict # Unfinished => g[j].verdict = f[j].verdict
<1> DEFINE g == Recovered(f)
<1>1. DOMAIN g = {j \in DOMAIN f : ~f[j].old}
  BY DEF Recovered
<1>2. ASSUME NEW j \in DOMAIN g
      PROVE  /\ g[j] \in JobRecord
             /\ ~g[j].old
             /\ g[j].verdict # Unfinished
             /\ f[j].verdict # Unfinished => g[j].verdict = f[j].verdict
  <2>1. j \in DOMAIN f /\ f[j] \in JobRecord /\ ~f[j].old
    BY <1>1
  <2>2. g[j] = IF f[j].verdict = Unfinished THEN [f[j] EXCEPT !.verdict = Interrupted] ELSE f[j]
    BY <1>1 DEF Recovered
  <2>3. QED BY <2>1, <2>2 DEF JobRecord, Verdicts, Interrupted, Unfinished
<1>3. g = [j \in DOMAIN g |-> g[j]]
  BY DEF Recovered
<1>4. QED BY <1>1, <1>2, <1>3

\* The registry once it is filled: jobs that are not old, none unfinished
\* when they come from the store.
LEMMA HydratedKeeps ==
    ASSUME JobTypes
    PROVE  /\ JobsOK(Hydrated)
           /\ hydrated => Hydrated = jobs
           /\ ~hydrated => \A j \in DOMAIN Hydrated :
                 /\ j \in DOMAIN store
                 /\ ~Hydrated[j].old
                 /\ Hydrated[j].verdict # Unfinished
                 /\ store[j].verdict # Unfinished => Hydrated[j].verdict = store[j].verdict
           /\ ~hydrated => \A j \in DOMAIN store :
                 j \notin DOMAIN Hydrated => store[j].old \/ made - j >= MaxStoredJobs
<1> DEFINE g == Recovered(store)
<1>1. made \in Nat /\ JobsOK(jobs) /\ JobsOK(store)
  BY OneClickAssumption DEF JobTypes
<1>2. CASE hydrated
  BY <1>1, <1>2 DEF Hydrated
<1>3. CASE ~hydrated
  <2>1. Hydrated = Trimmed(g)
    BY <1>3 DEF Hydrated
  <2>2. /\ DOMAIN g = {j \in DOMAIN store : ~store[j].old}
        /\ g \in [DOMAIN g -> JobRecord]
        /\ \A j \in DOMAIN g :
              /\ ~g[j].old
              /\ g[j].verdict # Unfinished
              /\ store[j].verdict # Unfinished => g[j].verdict = store[j].verdict
    BY <1>1, RecoveredKeeps DEF JobsOK
  <2>3. DOMAIN g \subseteq 1..made
    BY <1>1, <2>2 DEF JobsOK
  <2> HIDE DEF g
  <2>4. /\ DOMAIN Trimmed(g) \subseteq DOMAIN g
        /\ \A j \in DOMAIN Trimmed(g) : Trimmed(g)[j] = g[j]
        /\ Trimmed(g) = [j \in DOMAIN Trimmed(g) |-> Trimmed(g)[j]]
        /\ \A j \in DOMAIN g : j \notin DOMAIN Trimmed(g) => made - j >= MaxStoredJobs
    BY <1>1, <2>3, TrimmedKeeps
  <2>5. JobsOK(Trimmed(g))
    BY <2>2, <2>3, <2>4 DEF JobsOK
  <2>6. QED BY <1>3, <2>1, <2>2, <2>4, <2>5
<1>4. QED BY <1>2, <1>3

-----------------------------------------------------------------------------
(* The chain of a job: it goes on, with its job unfinished, or ends and    *)
(* has its job say so.                                                     *)

LEMMA LeftIs ==
    ASSUME NEW c, IsChain(c), NEW now \in Over
    PROVE  IsChain(Left(c, now)) /\ Left(c, now).template = c.template /\ Left(c, now).stage = now
BY DEF IsChain, Left

GoesOnAs(j, c) ==
    /\ chain' = [chain EXCEPT ![j] = c]
    /\ IsChain(c)
    /\ c.stage \in Running
    /\ UNCHANGED <<made, jobs, hydrated, store, told, faults>>

\* verdict: what the job is then said to be.
ReportsAs(j, c, verdict) ==
    /\ chain' = [chain EXCEPT ![j] = c]
    /\ IsChain(c)
    /\ UpdateJobProgress(j, verdict)
    /\ verdict \in Verdicts
    /\ verdict = Unfinished => c.stage \in Running \/ (c.stage = "ended" /\ c.template.end = "")
    /\ c.stage \in Running => verdict = Unfinished
    /\ UNCHANGED <<made, hydrated, told>>

LEMMA NextStepIs ==
    ASSUME NEW j, NEW d, IsChain(d), NextStep(j, d)
    PROVE  \E c, verdict : ReportsAs(j, c, verdict)
<1>1. PICK next : next = [d EXCEPT !.at = @ + 1, !.stage = "run"]
  OBVIOUS
<1>2. IsChain(next) /\ next.stage = "run" /\ next.template \in Templates
  <2>1. PICK at : at = d.at + 1
    OBVIOUS
  <2>2. next = [d EXCEPT !.at = at, !.stage = "run"]
    BY <1>1, <2>1
  <2>3. "run" \in Running \cup Over
    BY DEF Running
  <2>4. QED BY <2>2, <2>3 DEF IsChain
<1>3. next.template.end \in {"text", ""}
  BY <1>2, OneClickAssumption DEF Template
<1>4. PICK c : c = IF next.at > Len(d.steps) THEN Left(d, "ended") ELSE next
  OBVIOUS
<1>5. next.steps = d.steps /\ next.template = d.template
  BY <1>1 DEF IsChain
<1>6. chain' = [chain EXCEPT ![j] = c]
  BY <1>1, <1>4 DEF NextStep
<1>7. UpdateJobProgress(j, Report(next)) /\ UNCHANGED <<made, hydrated, told>>
  BY <1>1 DEF NextStep
<1>8. CASE next.at > Len(next.steps)
  <2>1. c = Left(d, "ended") /\ "ended" \in Over /\ "ended" \notin Running
    BY <1>4, <1>5, <1>8 DEF Over, Running
  <2>2. IsChain(c) /\ c.stage = "ended" /\ c.template = next.template
    BY <1>5, <2>1, LeftIs
  <2>3. Report(next) = IF next.template.end = "text" THEN "success" ELSE Unfinished
    BY <1>8 DEF Report
  <2>4. QED BY <1>3, <1>6, <1>7, <2>1, <2>2, <2>3 DEF ReportsAs, Verdicts, Unfinished
<1>9. CASE ~(next.at > Len(next.steps))
  <2>1. c = next /\ Report(next) = Unfinished /\ "run" \in Running
    BY <1>4, <1>5, <1>9 DEF Report, Running
  <2>2. QED BY <1>2, <1>6, <1>7, <2>1 DEF ReportsAs, Verdicts
<1>10. QED BY <1>8, <1>9

LEMMA ChainStepIs ==
    ASSUME JobTypes, NEW j \in Jobs, ChainStep(j)
    PROVE  /\ j <= made
           /\ chain[j].stage \in Running
           /\ \E c : GoesOnAs(j, c) \/ \E verdict : ReportsAs(j, c, verdict)
<1>1. chain[j].stage \in Running
  BY DEF ChainStep, StepFails, ProjectStep, RegisterStep, ConfigureStep, ConfigureWrites, DeployStep,
         BuildEnds, StepIs, Running
<1>2. j <= made /\ IsChain(chain[j])
  BY <1>1 DEF JobTypes, NoChain, Running
<1>3. {"build", "docker"} \subseteq Running /\ Running \subseteq Running \cup Over
  BY DEF Running
<1>4. CASE StepFails(j)
  <2>1. PICK c : c = Left(chain[j], "ended")
    OBVIOUS
  <2>2. IsChain(c) /\ c.stage = "ended" /\ "ended" \notin Running
    <3>1. "ended" \in Over /\ "ended" \notin Running
      BY DEF Over, Running
    <3>2. QED BY <1>2, <2>1, <3>1, LeftIs
  <2>3. chain' = [chain EXCEPT ![j] = c]
    BY <1>4, <2>1 DEF StepFails
  <2>4. UpdateJobProgress(j, "error") /\ UNCHANGED <<made, hydrated, told>>
    BY <1>4 DEF StepFails
  <2>5. ReportsAs(j, c, "error")
    BY <2>2, <2>3, <2>4 DEF ReportsAs, Verdicts, Unfinished
  <2>6. QED BY <1>1, <1>2, <2>5
<1>5. CASE ProjectStep(j)
  <2>1. PICK id : NextStep(j, [chain[j] EXCEPT !.project = id])
    BY <1>5 DEF ProjectStep
  <2>2. PICK d : d = [chain[j] EXCEPT !.project = id]
    OBVIOUS
  <2>3. IsChain(d)
    BY <1>2, <1>3, <2>2 DEF IsChain
  <2>4. QED BY <1>1, <1>2, <2>1, <2>2, <2>3, NextStepIs
<1>6. CASE ConfigureWrites(j) \/ BuildEnds(j)
  <2>1. NextStep(j, chain[j])
    BY <1>6 DEF ConfigureWrites, BuildEnds
  <2>2. PICK d : d = chain[j]
    OBVIOUS
  <2>3. QED BY <1>1, <1>2, <2>1, <2>2, NextStepIs
<1>7. CASE RegisterStep(j) \/ DeployStep(j)
  <2>1. PICK c : c = [chain[j] EXCEPT !.stage = "build"]
    OBVIOUS
  <2>2. IsChain(c) /\ c.stage = "build"
    BY <1>2, <1>3, <2>1 DEF IsChain
  <2>3. Waits(j, c)
    BY <1>7, <2>1 DEF RegisterStep, DeployStep
  <2>4. GoesOnAs(j, c)
    BY <1>3, <2>2, <2>3 DEF GoesOnAs, Waits
  <2>5. QED BY <1>1, <1>2, <2>4
<1>8. CASE ConfigureStep(j)
  <2>1. PICK read : read = With(chain[j].read, AppOf(j), appProject[AppOf(j)])
    OBVIOUS
  <2>2. PICK c : c = [chain[j] EXCEPT !.stage = "docker", !.read = read]
    OBVIOUS
  <2>3. IsChain(c) /\ c.stage = "docker"
    BY <1>2, <1>3, <2>2 DEF IsChain
  <2>4. Waits(j, c)
    BY <1>8, <2>1, <2>2 DEF ConfigureStep
  <2>5. GoesOnAs(j, c)
    BY <1>3, <2>3, <2>4 DEF GoesOnAs, Waits
  <2>6. QED BY <1>1, <1>2, <2>5
<1>9. QED BY <1>4, <1>5, <1>6, <1>7, <1>8 DEF ChainStep

-----------------------------------------------------------------------------
(* What the actions keep.                                                  *)

LEMMA PersistIs ==
    ASSUME JobTypes, NEW f, Persist(f)
    PROVE  /\ store' \in {f, store}
           /\ faults' \in [{"restarts", "writes", "days"} -> Nat]
           /\ faults'.writes = 0 /\ faults'.days = 0 =>
                 faults.writes = 0 /\ faults.days = 0 /\ store' = f
<1>1. faults \in [{"restarts", "writes", "days"} -> Nat]
  BY DEF JobTypes
<1>2. CASE store' = f /\ UNCHANGED faults
  BY <1>1, <1>2
<1>3. CASE faults' = [faults EXCEPT !.writes = @ + 1] /\ UNCHANGED store
  BY <1>1, <1>3
<1>4. QED BY <1>2, <1>3 DEF Persist

\* The registry once it is filled keeps what the clients were told, too; and it
\* has an unfinished job only if it was filled before.
LEMMA HydratedOK ==
    ASSUME ClickInv
    PROVE  /\ JobsOK(Hydrated)
           /\ hydrated => Hydrated = jobs
           /\ \A j \in DOMAIN Hydrated : Hydrated[j].verdict = Unfinished => hydrated
           /\ faults.writes = 0 /\ faults.days = 0 => Keeps(Hydrated)
<1>1. JobTypes /\ StoreInv
  BY DEF ClickInv
<1>2. PICK f : f = Hydrated
  OBVIOUS
<1>3. /\ JobsOK(f)
      /\ hydrated => f = jobs
      /\ ~hydrated => \A j \in DOMAIN f :
            /\ j \in DOMAIN store
            /\ ~f[j].old
            /\ f[j].verdict # Unfinished
            /\ store[j].verdict # Unfinished => f[j].verdict = store[j].verdict
      /\ ~hydrated => \A j \in DOMAIN store :
            j \notin DOMAIN f => store[j].old \/ made - j >= MaxStoredJobs
  BY <1>1, <1>2, HydratedKeeps
<1>4. ASSUME faults.writes = 0, faults.days = 0
      PROVE  Keeps(f)
  <2>1. Keeps(store) /\ (hydrated => store = jobs)
    BY <1>1, <1>4 DEF StoreInv
  <2>2. CASE hydrated
    BY <1>3, <2>1, <2>2
  <2>3. CASE ~hydrated
    <3>1. \A j \in DOMAIN f : ~f[j].old
      BY <1>3, <2>3
    <3>2. \A j \in 1..made : j \notin DOMAIN f => made - j >= MaxStoredJobs
      BY <1>3, <2>1, <2>3 DEF Keeps
    <3>3. ASSUME NEW j \in DOMAIN told \cap DOMAIN f, told[j] # Unfinished
          PROVE  f[j].verdict = told[j]
      <4>1. j \in DOMAIN store /\ store[j].verdict = told[j]
        BY <1>3, <2>1, <2>3, <3>3 DEF Keeps
      <4>2. QED BY <1>3, <2>3, <3>3, <4>1
    <3>4. QED BY <3>1, <3>2, <3>3 DEF Keeps
  <2>4. QED BY <2>2, <2>3
<1>5. QED BY <1>2, <1>3, <1>4

LEMMA InitOK ==
    ASSUME Init
    PROVE  ClickInv
<1>1. DOMAIN jobs = {} /\ DOMAIN store = {} /\ DOMAIN told = {}
  BY DEF Init
<1>2. jobs \in [DOMAIN jobs -> JobRecord] /\ store \in [DOMAIN store -> JobRecord]
  BY DEF Init
<1>3. JobTypes
  <2>1. chain = [j \in Jobs |-> NoChain] /\ made = 0 /\ hydrated = FALSE
    BY DEF Init
  <2>2. told \in [DOMAIN told -> Verdicts]
    BY DEF Init
  <2>3. faults \in [{"restarts", "writes", "days"} -> Nat]
    BY DEF Init
  <2>4. 0 \in 0..MaxJobs /\ \A j \in Jobs : ~(j <= 0)
    BY OneClickAssumption DEF Jobs
  <2>5. QED BY <1>1, <1>2, <2>1, <2>2, <2>3, <2>4 DEF JobTypes, JobsOK
<1>4. RunningInv
  BY DEF Init, RunningInv, NoChain, Running
<1>5. UnfinishedJobsRun
  BY <1>1 DEF UnfinishedJobsRun
<1>6. StoreInv
  BY <1>1 DEF Init, StoreInv, Keeps
<1>7. QED BY <1>3, <1>4, <1>5, <1>6 DEF ClickInv

LEMMA DiesOK ==
    ASSUME ClickInv, Dies, faults' \in [{"restarts", "writes", "days"} -> Nat],
           faults'.writes = faults.writes, faults'.days = faults.days
    PROVE  ClickInv'
<1>1. JobTypes /\ StoreInv
  BY DEF ClickInv
<1>2. DOMAIN jobs' = {} /\ jobs' \in [DOMAIN jobs' -> JobRecord] /\ hydrated' = FALSE
  BY DEF Dies
<1>3. UNCHANGED <<made, store, told>>
  BY DEF Dies
<1>4. /\ chain' = [j \in Jobs |-> chain'[j]]
      /\ \A j \in Jobs : /\ chain'[j].stage \notin Running
                         /\ IF j <= made THEN IsChain(chain'[j]) ELSE chain'[j] = NoChain
  <2>1. chain' = [j \in Jobs |-> IF chain[j].stage \in Running THEN Left(chain[j], "dead") ELSE chain[j]]
    BY DEF Dies
  <2>2. ASSUME NEW j \in Jobs
        PROVE  /\ chain'[j].stage \notin Running
               /\ IF j <= made THEN IsChain(chain'[j]) ELSE chain'[j] = NoChain
    <3>1. PICK c : c = chain[j]
      OBVIOUS
    <3>2. IF j <= made THEN IsChain(c) ELSE c = NoChain
      BY <1>1, <3>1 DEF JobTypes
    <3>3. chain'[j] = IF c.stage \in Running THEN Left(c, "dead") ELSE c
      BY <2>1, <3>1
    <3>4. "dead" \in Over /\ "dead" \notin Running /\ "none" \notin Running
      BY DEF Over, Running
    <3>5. CASE c.stage \in Running
      <4>1. j <= made /\ IsChain(c)
        BY <3>2, <3>4, <3>5 DEF NoChain
      <4>2. QED BY <3>3, <3>4, <3>5, <4>1, LeftIs
    <3>6. CASE c.stage \notin Running
      BY <3>2, <3>3, <3>6
    <3>7. QED BY <3>5, <3>6
  <2>3. chain' = [j \in Jobs |-> chain'[j]]
    BY <2>1
  <2>4. QED BY <2>2, <2>3
<1>5. JobTypes'
  BY <1>1, <1>2, <1>3, <1>4 DEF JobTypes, JobsOK
<1>6. RunningInv'
  BY <1>4 DEF RunningInv
<1>7. UnfinishedJobsRun'
  BY <1>2 DEF UnfinishedJobsRun
<1>8. StoreInv'
  BY <1>1, <1>2, <1>3 DEF StoreInv, Keeps
<1>9. QED BY <1>5, <1>6, <1>7, <1>8 DEF ClickInv

\* What a deployment adds to the registry.
LEMMA DeployIs ==
    ASSUME JobTypes, NEW t \in Templates, Deploy(t)
    PROVE  \E c, r :
              /\ made' = made + 1 /\ made < MaxJobs
              /\ chain' = [chain EXCEPT ![made + 1] = c]
              /\ IsChain(c)
              /\ r \in JobRecord /\ ~r.old
              /\ c.stage \in Running => r.verdict = Unfinished /\ t.sound
              /\ r.verdict = Unfinished => c.stage \in Running \/ ~t.sound
              /\ jobs' = Trimmed(With(Hydrated, made + 1, r))
              /\ told' = IF t.sound THEN With(told, made + 1, Unfinished) ELSE told
              /\ hydrated' = TRUE
              /\ Persist(jobs')
<1> DEFINE refused == t.sound /\ (~t.named \/ ~Resolved(t))
<1>1. PICK steps : steps = IF refused \/ ~t.sound THEN <<>> ELSE Steps(t)
  OBVIOUS
<1>2. PICK now : now = IF ~t.sound THEN "thrown" ELSE IF refused THEN "refused" ELSE "run"
  OBVIOUS
<1>3. PICK verdict : verdict = IF refused THEN "error" ELSE Unfinished
  OBVIOUS
<1>4. PICK c : c = [template |-> t, steps |-> steps, at |-> 1, project |-> None, read |-> <<>>, stage |-> now]
  OBVIOUS
<1>5. PICK r : r = [verdict |-> verdict, old |-> FALSE]
  OBVIOUS
<1>6. now \in Running \cup Over
  BY <1>2 DEF Running, Over
<1>7. IsChain(c) /\ c.stage = now
  BY <1>4, <1>6 DEF IsChain
<1>8. r \in JobRecord /\ ~r.old /\ r.verdict = verdict
  BY <1>3, <1>5 DEF JobRecord, Verdicts, Unfinished
<1>9. /\ now \in Running => verdict = Unfinished /\ t.sound
      /\ verdict = Unfinished => now \in Running \/ ~t.sound
  BY <1>2, <1>3 DEF Running, Unfinished
<1>10. chain' = [chain EXCEPT ![made + 1] = c] /\ CreateJob(made + 1, r)
  BY <1>1, <1>2, <1>3, <1>4, <1>5 DEF Deploy
<1>11. QED BY <1>7, <1>8, <1>9, <1>10 DEF Deploy, CreateJob

LEMMA DeployOK ==
    ASSUME ClickInv, NEW t \in Templates, Deploy(t)
    PROVE  ClickInv'
<1>1. JobTypes /\ RunningInv /\ UnfinishedJobsRun /\ StoreInv
  BY DEF ClickInv
<1>2. PICK n : n = made + 1
  OBVIOUS
<1>3. PICK h : h = Hydrated
  OBVIOUS
<1>4. PICK c, r :
          /\ made' = n /\ made < MaxJobs
          /\ chain' = [chain EXCEPT ![n] = c]
          /\ IsChain(c)
          /\ r \in JobRecord /\ ~r.old
          /\ c.stage \in Running => r.verdict = Unfinished /\ t.sound
          /\ r.verdict = Unfinished => c.stage \in Running \/ ~t.sound
          /\ jobs' = Trimmed(With(h, n, r))
          /\ told' = IF t.sound THEN With(told, n, Unfinished) ELSE told
          /\ hydrated' = TRUE
          /\ Persist(jobs')
  BY <1>1, <1>2, <1>3, DeployIs
<1>5. /\ JobsOK(h)
      /\ hydrated => h = jobs
      /\ \A j \in DOMAIN h : h[j].verdict = Unfinished => hydrated
      /\ faults.writes = 0 /\ faults.days = 0 => Keeps(h)
  BY <1>3, HydratedOK
<1>6. made \in Nat /\ n \in 1..MaxJobs /\ n \notin 1..made /\ 1..n = 1..made \cup {n}
  BY <1>1, <1>2, <1>4, OneClickAssumption DEF JobTypes
<1>7. PICK f : f = With(h, n, r)
  OBVIOUS
<1>8. /\ DOMAIN f = DOMAIN h \cup {n}
      /\ f[n] = r
      /\ \A j \in DOMAIN h : f[j] = h[j] /\ j # n /\ j \in 1..made
  <2>1. /\ DOMAIN f = DOMAIN h \cup {n}
        /\ f[n] = r
        /\ \A j \in DOMAIN h : j # n => f[j] = h[j]
    BY <1>7 DEF With
  <2>2. DOMAIN h \subseteq 1..made
    BY <1>5 DEF JobsOK
  <2>3. QED BY <1>6, <2>1, <2>2
<1>9. DOMAIN f \subseteq 1..n /\ \A j \in DOMAIN f : f[j] \in JobRecord
  BY <1>4, <1>5, <1>6, <1>8 DEF JobsOK
<1>10. /\ DOMAIN jobs' \subseteq DOMAIN f
       /\ \A j \in DOMAIN jobs' : jobs'[j] = f[j]
       /\ jobs' = [j \in DOMAIN jobs' |-> jobs'[j]]
       /\ \A j \in DOMAIN f : j \notin DOMAIN jobs' => n - j >= MaxStoredJobs
  <2>1. PICK g : g = Trimmed(f)
    OBVIOUS
  <2>2. /\ DOMAIN g \subseteq DOMAIN f
        /\ \A j \in DOMAIN g : g[j] = f[j]
        /\ g = [j \in DOMAIN g |-> g[j]]
        /\ \A j \in DOMAIN f : j \notin DOMAIN g => n - j >= MaxStoredJobs
    <3>1. n \in Nat /\ DOMAIN f \subseteq 1..n
      BY <1>6, <1>9
    <3>2. QED BY <2>1, <3>1, TrimmedKeeps
  <2>3. QED BY <1>4, <1>7, <2>1, <2>2
<1>11. JobsOK(jobs)'
  BY <1>4, <1>9, <1>10 DEF JobsOK
<1>12. /\ store' \in {jobs', store}
       /\ faults' \in [{"restarts", "writes", "days"} -> Nat]
       /\ faults'.writes = 0 /\ faults'.days = 0 =>
             faults.writes = 0 /\ faults.days = 0 /\ store' = jobs'
  <2>1. PICK g : g = jobs'
    OBVIOUS
  <2>2. QED BY <1>1, <1>4, <2>1, PersistIs
<1>13. /\ DOMAIN told' = IF t.sound THEN DOMAIN told \cup {n} ELSE DOMAIN told
       /\ t.sound => told'[n] = Unfinished
       /\ \A j \in DOMAIN told : told'[j] = told[j] /\ j # n /\ j \in 1..made
       /\ told' \in [DOMAIN told' -> Verdicts]
  <2>1. DOMAIN told \subseteq 1..made /\ told \in [DOMAIN told -> Verdicts]
    BY <1>1 DEF JobTypes
  <2>2. CASE t.sound
    <3>1. told' = With(told, n, Unfinished)
      BY <1>4, <2>2
    <3>2. /\ DOMAIN told' = DOMAIN told \cup {n}
          /\ told'[n] = Unfinished
          /\ \A j \in DOMAIN told : j # n => told'[j] = told[j]
          /\ told' = [j \in DOMAIN told' |-> told'[j]]
      <4>1. PICK f2 : f2 = With(told, n, Unfinished)
        OBVIOUS
      <4>2. /\ DOMAIN f2 = DOMAIN told \cup {n}
            /\ f2[n] = Unfinished
            /\ \A j \in DOMAIN told : j # n => f2[j] = told[j]
            /\ f2 = [j \in DOMAIN f2 |-> f2[j]]
        BY <4>1 DEF With
      <4>3. QED BY <3>1, <4>1, <4>2
    <3>3. \A j \in DOMAIN told : j # n /\ j \in 1..made
      BY <1>6, <2>1
    <3>4. \A j \in DOMAIN told' : told'[j] \in Verdicts
      BY <2>1, <3>2 DEF Verdicts
    <3>5. told' \in [DOMAIN told' -> Verdicts]
      BY <3>2, <3>4
    <3>6. QED BY <2>2, <3>2, <3>3, <3>5
  <2>3. CASE ~t.sound
    BY <1>4, <1>6, <2>1, <2>3
  <2>4. QED BY <2>2, <2>3
<1>14. JobTypes'
  <2>1. made' \in 0..MaxJobs /\ hydrated' = TRUE /\ DOMAIN told' \subseteq 1..made'
    BY <1>4, <1>6, <1>13
  <2>2. /\ chain' = [j \in Jobs |-> chain'[j]]
        /\ \A j \in Jobs : IF j <= made' THEN IsChain(chain'[j]) ELSE chain'[j] = NoChain
    <3>1. /\ chain = [j \in Jobs |-> chain[j]]
          /\ \A j \in Jobs : IF j <= made THEN IsChain(chain[j]) ELSE chain[j] = NoChain
      BY <1>1 DEF JobTypes
    <3>2. n \in Jobs /\ \A j \in Jobs : j \in Int /\ (j # n => (j <= n <=> j <= made))
      BY <1>2, <1>6 DEF Jobs
    <3>3. chain' = [chain EXCEPT ![n] = c] /\ IsChain(c) /\ made' = n /\ n <= n
      BY <1>4, <1>6
    <3>4. QED BY <3>1, <3>2, <3>3
  <2>3. JobsOK(store)'
    <3>1. DOMAIN store \subseteq 1..made /\ store \in [DOMAIN store -> JobRecord]
      BY <1>1 DEF JobTypes, JobsOK
    <3>2. QED BY <1>4, <1>6, <1>11, <1>12, <3>1 DEF JobsOK
  <2>4. QED BY <1>11, <1>12, <1>13, <2>1, <2>2, <2>3 DEF JobTypes
<1>15. /\ n \in Jobs /\ chain'[n] = c
       /\ \A j \in Jobs : j # n => chain'[j] = chain[j]
  BY <1>1, <1>4, <1>6 DEF JobTypes, Jobs
<1>16. RunningInv'
  <2>1. SUFFICES ASSUME NEW j \in Jobs, chain'[j].stage \in Running
                 PROVE  /\ j \in DOMAIN jobs' => jobs'[j].verdict = Unfinished
                        /\ j \in DOMAIN told' => told'[j] = Unfinished
    BY <1>4 DEF RunningInv
  <2>2. CASE j = n
    BY <1>4, <1>8, <1>10, <1>13, <1>15, <2>1, <2>2
  <2>3. CASE j # n
    <3>1. /\ hydrated
          /\ j \in DOMAIN jobs => jobs[j].verdict = Unfinished
          /\ j \in DOMAIN told => told[j] = Unfinished
      BY <1>1, <1>15, <2>1, <2>3 DEF RunningInv
    <3>2. QED BY <1>5, <1>8, <1>10, <1>13, <2>3, <3>1
  <2>4. QED BY <2>2, <2>3
<1>17. UnfinishedJobsRun'
  <2>1. SUFFICES ASSUME NEW j \in DOMAIN jobs' \cap DOMAIN told', jobs'[j].verdict = Unfinished
                 PROVE  \/ chain'[j].stage \in Running
                        \/ chain'[j].stage = "ended" /\ chain'[j].template.end = ""
    BY DEF UnfinishedJobsRun
  <2>2. CASE j = n
    BY <1>4, <1>8, <1>10, <1>13, <1>15, <2>1, <2>2
  <2>3. CASE j # n
    <3>1. j \in DOMAIN h /\ h[j].verdict = Unfinished /\ j \in DOMAIN told
      BY <1>8, <1>10, <1>13, <2>1, <2>3
    <3>2. hydrated /\ h = jobs
      BY <1>5, <3>1
    <3>3. \/ chain[j].stage \in Running
          \/ chain[j].stage = "ended" /\ chain[j].template.end = ""
      BY <1>1, <3>1, <3>2 DEF UnfinishedJobsRun
    <3>4. j \in Jobs
      <4>1. j \in 1..made
        BY <1>1, <3>1 DEF JobTypes
      <4>2. QED BY <1>4, <1>6, <4>1, OneClickAssumption DEF Jobs
    <3>5. QED BY <1>15, <2>3, <3>3, <3>4
  <2>4. QED BY <2>2, <2>3
<1>18. StoreInv'
  <2>1. SUFFICES ASSUME faults'.writes = 0, faults'.days = 0
                 PROVE  store' = jobs' /\ Keeps(store)'
    BY <2>1 DEF StoreInv
  <2>2. store' = jobs' /\ Keeps(h)
    BY <1>5, <1>12, <2>1
  <2>3. \A j \in DOMAIN jobs' : ~jobs'[j].old
    BY <1>4, <1>8, <1>10, <2>2 DEF Keeps
  <2>4. ASSUME NEW j \in 1..made', j \notin DOMAIN jobs'
        PROVE  made' - j >= MaxStoredJobs
    <3>1. CASE j \in DOMAIN f
      BY <1>4, <1>10, <2>4, <3>1
    <3>2. CASE j \notin DOMAIN f
      <4>1. j \in 1..made /\ j \notin DOMAIN h
        BY <1>4, <1>6, <1>8, <2>4, <3>2
      <4>2. made - j >= MaxStoredJobs
        BY <2>2, <4>1 DEF Keeps
      <4>3. QED BY <1>2, <1>4, <1>6, <4>1, <4>2, OneClickAssumption
    <3>3. QED BY <3>1, <3>2
  <2>5. ASSUME NEW j \in DOMAIN told' \cap DOMAIN jobs', told'[j] # Unfinished
        PROVE  jobs'[j].verdict = told'[j]
    <3>1. j # n /\ j \in DOMAIN told
      BY <1>13, <2>5
    <3>2. j \in DOMAIN h /\ jobs'[j] = h[j] /\ told'[j] = told[j]
      BY <1>8, <1>10, <1>13, <2>5, <3>1
    <3>3. QED BY <2>2, <2>5, <3>1, <3>2 DEF Keeps
  <2>6. QED BY <2>2, <2>3, <2>4, <2>5 DEF Keeps
<1>19. QED BY <1>14, <1>16, <1>17, <1>18 DEF ClickInv

LEMMA PollOK ==
    ASSUME ClickInv, NEW j \in Jobs, Poll(j)
    PROVE  ClickInv'
<1>1. JobTypes /\ RunningInv /\ UnfinishedJobsRun /\ StoreInv
  BY DEF ClickInv
<1>2. PICK h : h = Hydrated
  OBVIOUS
<1>3. /\ JobsOK(h)
      /\ hydrated => h = jobs
      /\ \A i \in DOMAIN h : h[i].verdict = Unfinished => hydrated
      /\ faults.writes = 0 /\ faults.days = 0 => Keeps(h)
  BY <1>2, HydratedOK
<1>4. /\ hydrated' = TRUE /\ jobs' = h /\ UNCHANGED <<made, chain>>
      /\ j \in DOMAIN told
      /\ told' = IF j \in DOMAIN h THEN [told EXCEPT ![j] = h[j].verdict] ELSE told
      /\ IF hydrated THEN UNCHANGED <<store, faults>> ELSE Persist(h)
  BY <1>2 DEF Poll
<1>5. /\ store' \in {h, store}
      /\ faults' \in [{"restarts", "writes", "days"} -> Nat]
      /\ faults'.writes = 0 /\ faults'.days = 0 =>
            faults.writes = 0 /\ faults.days = 0 /\ store' = h
  <2>1. CASE hydrated
    BY <1>1, <1>3, <1>4, <2>1 DEF JobTypes, StoreInv
  <2>2. CASE ~hydrated
    BY <1>1, <1>4, <2>2, PersistIs
  <2>3. QED BY <2>1, <2>2
<1>6. DOMAIN told \subseteq 1..made /\ told \in [DOMAIN told -> Verdicts]
  BY <1>1 DEF JobTypes
<1>7. /\ DOMAIN told' = DOMAIN told
      /\ \A i \in DOMAIN told : told'[i] = IF i = j /\ j \in DOMAIN h THEN h[j].verdict ELSE told[i]
  BY <1>4, <1>6
<1>8. told' \in [DOMAIN told' -> Verdicts]
  <2>1. j \in DOMAIN h => h[j].verdict \in Verdicts
    BY <1>3 DEF JobsOK, JobRecord
  <2>2. QED BY <1>4, <1>6, <2>1
<1>9. JobTypes'
  <2>1. JobsOK(jobs)' /\ JobsOK(store)'
    BY <1>1, <1>3, <1>4, <1>5 DEF JobTypes, JobsOK
  <2>2. QED BY <1>1, <1>4, <1>5, <1>6, <1>7, <1>8, <2>1 DEF JobTypes
<1>10. RunningInv'
  <2>1. SUFFICES ASSUME NEW i \in Jobs, chain[i].stage \in Running
                 PROVE  /\ i \in DOMAIN h => h[i].verdict = Unfinished
                        /\ i \in DOMAIN told' => told'[i] = Unfinished
    BY <1>4 DEF RunningInv
  <2>2. /\ hydrated
        /\ i \in DOMAIN jobs => jobs[i].verdict = Unfinished
        /\ i \in DOMAIN told => told[i] = Unfinished
    BY <1>1, <2>1 DEF RunningInv
  <2>3. QED BY <1>3, <1>7, <2>2
<1>11. UnfinishedJobsRun'
  <2>1. SUFFICES ASSUME NEW i \in DOMAIN h \cap DOMAIN told, h[i].verdict = Unfinished
                 PROVE  \/ chain[i].stage \in Running
                        \/ chain[i].stage = "ended" /\ chain[i].template.end = ""
    BY <1>4, <1>7 DEF UnfinishedJobsRun
  <2>2. h = jobs
    BY <1>3, <2>1
  <2>3. QED BY <1>1, <2>1, <2>2 DEF UnfinishedJobsRun
<1>12. StoreInv'
  <2>1. ASSUME faults'.writes = 0, faults'.days = 0
        PROVE  store' = h /\ Keeps(store)'
    <3>1. store' = h /\ Keeps(h)
      BY <1>3, <1>5, <2>1
    <3>2. \A i \in DOMAIN told' \cap DOMAIN h : told'[i] # Unfinished => h[i].verdict = told'[i]
      BY <1>7, <3>1 DEF Keeps
    <3>3. QED BY <1>4, <3>1, <3>2 DEF Keeps
  <2>2. QED BY <1>4, <2>1 DEF StoreInv
<1>13. QED BY <1>9, <1>10, <1>11, <1>12 DEF ClickInv

LEMMA GoesOnOK ==
    ASSUME ClickInv, NEW j \in Jobs, j <= made, chain[j].stage \in Running, NEW c, GoesOnAs(j, c)
    PROVE  ClickInv'
<1>1. JobTypes /\ RunningInv /\ UnfinishedJobsRun /\ StoreInv
  BY DEF ClickInv
<1>2. /\ IsChain(c) /\ c.stage \in Running
      /\ UNCHANGED <<made, jobs, hydrated, store, told, faults>>
  BY DEF GoesOnAs
<1>3. /\ chain'[j] = c
      /\ \A i \in Jobs : i # j => chain'[i] = chain[i]
      /\ chain' = [i \in Jobs |-> chain'[i]]
  <2>1. chain = [i \in Jobs |-> chain[i]] /\ chain' = [chain EXCEPT ![j] = c]
    BY <1>1 DEF JobTypes, GoesOnAs
  <2>2. QED BY <2>1
<1>4. JobTypes'
  BY <1>1, <1>2, <1>3 DEF JobTypes, JobsOK
<1>5. RunningInv'
  BY <1>1, <1>2, <1>3 DEF RunningInv
<1>6. UnfinishedJobsRun'
  <2>1. DOMAIN jobs \subseteq Jobs
    BY <1>1, OneClickAssumption DEF JobTypes, JobsOK, Jobs
  <2>2. QED BY <1>1, <1>2, <1>3, <2>1 DEF UnfinishedJobsRun
<1>7. StoreInv'
  BY <1>1, <1>2 DEF StoreInv, Keeps
<1>8. QED BY <1>4, <1>5, <1>6, <1>7 DEF ClickInv

LEMMA ReportsOK ==
    ASSUME ClickInv, NEW j \in Jobs, j <= made, chain[j].stage \in Running,
           NEW c, NEW verdict, ReportsAs(j, c, verdict)
    PROVE  ClickInv'
<1>1. JobTypes /\ RunningInv /\ UnfinishedJobsRun /\ StoreInv
  BY DEF ClickInv
<1>2. /\ IsChain(c) /\ verdict \in Verdicts
      /\ verdict = Unfinished => c.stage \in Running \/ (c.stage = "ended" /\ c.template.end = "")
      /\ c.stage \in Running => verdict = Unfinished
      /\ UNCHANGED <<made, hydrated, told>>
  BY DEF ReportsAs
<1>3. /\ chain'[j] = c
      /\ \A i \in Jobs : i # j => chain'[i] = chain[i]
      /\ chain' = [i \in Jobs |-> chain'[i]]
  <2>1. chain = [i \in Jobs |-> chain[i]] /\ chain' = [chain EXCEPT ![j] = c]
    BY <1>1 DEF JobTypes, ReportsAs
  <2>2. QED BY <2>1
<1>4. hydrated /\ (j \in DOMAIN told => told[j] = Unfinished)
  BY <1>1 DEF RunningInv
<1>5. PICK r : r = [verdict |-> verdict, old |-> FALSE]
  OBVIOUS
<1>6. r \in JobRecord /\ ~r.old /\ r.verdict = verdict
  BY <1>2, <1>5 DEF JobRecord
<1>7. /\ DOMAIN jobs' = DOMAIN jobs
      /\ jobs' \in [DOMAIN jobs' -> JobRecord]
      /\ \A i \in DOMAIN jobs : jobs'[i] = IF i = j THEN r ELSE jobs[i]
      /\ store' \in {jobs', store}
      /\ faults' \in [{"restarts", "writes", "days"} -> Nat]
      /\ faults'.writes = 0 /\ faults'.days = 0 =>
            faults.writes = 0 /\ faults.days = 0 /\ store' = jobs'
  <2>1. jobs \in [DOMAIN jobs -> JobRecord]
    BY <1>1 DEF JobTypes, JobsOK
  <2>2. CASE j \in DOMAIN jobs
    <3>1. jobs' = [jobs EXCEPT ![j] = r] /\ Persist(jobs')
      BY <1>5, <2>2 DEF ReportsAs, UpdateJobProgress
    <3>2. PICK f : f = [jobs EXCEPT ![j] = r]
      OBVIOUS
    <3>3. /\ store' \in {f, store}
          /\ faults' \in [{"restarts", "writes", "days"} -> Nat]
          /\ faults'.writes = 0 /\ faults'.days = 0 =>
                faults.writes = 0 /\ faults.days = 0 /\ store' = f
      BY <1>1, <3>1, <3>2, PersistIs
    <3>4. QED BY <1>6, <2>1, <2>2, <3>1, <3>2, <3>3
  <2>3. CASE j \notin DOMAIN jobs
    <3>1. UNCHANGED <<jobs, store, faults>>
      BY <2>3 DEF ReportsAs, UpdateJobProgress
    <3>2. faults.writes = 0 /\ faults.days = 0 => store = jobs
      BY <1>1, <1>4 DEF StoreInv
    <3>3. faults \in [{"restarts", "writes", "days"} -> Nat]
      BY <1>1 DEF JobTypes
    <3>4. QED BY <2>1, <2>3, <3>1, <3>2, <3>3
  <2>4. QED BY <2>2, <2>3
<1>8. DOMAIN jobs \subseteq 1..made /\ 1..made \subseteq Jobs
  BY <1>1, OneClickAssumption DEF JobTypes, JobsOK, Jobs
<1>9. JobTypes'
  <2>1. JobsOK(jobs)' /\ JobsOK(store)'
    BY <1>1, <1>2, <1>7, <1>8 DEF JobTypes, JobsOK
  <2>2. QED BY <1>1, <1>2, <1>3, <1>4, <1>7, <2>1 DEF JobTypes
<1>10. RunningInv'
  BY <1>1, <1>2, <1>3, <1>4, <1>6, <1>7 DEF RunningInv
<1>11. UnfinishedJobsRun'
  <2>1. SUFFICES ASSUME NEW i \in DOMAIN jobs \cap DOMAIN told, jobs'[i].verdict = Unfinished
                 PROVE  \/ chain'[i].stage \in Running
                        \/ chain'[i].stage = "ended" /\ chain'[i].template.end = ""
    BY <1>2, <1>7 DEF UnfinishedJobsRun
  <2>2. CASE i = j
    BY <1>2, <1>3, <1>6, <1>7, <2>1, <2>2
  <2>3. CASE i # j
    BY <1>1, <1>3, <1>7, <1>8, <2>1, <2>3 DEF UnfinishedJobsRun
  <2>4. QED BY <2>2, <2>3
<1>12. StoreInv'
  <2>1. ASSUME faults'.writes = 0, faults'.days = 0
        PROVE  store' = jobs' /\ Keeps(store)'
    <3>1. store' = jobs' /\ store = jobs /\ Keeps(jobs)
      BY <1>1, <1>4, <1>7, <2>1 DEF StoreInv
    <3>2. \A i \in DOMAIN jobs' : ~jobs'[i].old
      BY <1>6, <1>7, <3>1 DEF Keeps
    <3>3. \A i \in DOMAIN told \cap DOMAIN jobs : told[i] # Unfinished => jobs'[i].verdict = told[i]
      BY <1>4, <1>7, <3>1 DEF Keeps
    <3>4. QED BY <1>2, <1>7, <3>1, <3>2, <3>3 DEF Keeps
  <2>2. QED BY <2>1 DEF StoreInv
<1>13. QED BY <1>9, <1>10, <1>11, <1>12 DEF ClickInv

LEMMA DayOK ==
    ASSUME ClickInv, Day
    PROVE  ClickInv'
<1>1. JobTypes /\ RunningInv /\ UnfinishedJobsRun
  BY DEF ClickInv
<1>2. /\ faults' = [faults EXCEPT !.days = @ + 1]
      /\ jobs' = [j \in DOMAIN jobs |-> [jobs[j] EXCEPT !.old = TRUE]]
      /\ store' = [j \in DOMAIN store |-> [store[j] EXCEPT !.old = TRUE]]
      /\ UNCHANGED <<made, chain, hydrated, told>>
  BY DEF Day
<1>3. /\ faults' \in [{"restarts", "writes", "days"} -> Nat]
      /\ faults'.days # 0
  BY <1>1, <1>2 DEF JobTypes
<1>4. /\ DOMAIN jobs' = DOMAIN jobs
      /\ jobs' \in [DOMAIN jobs' -> JobRecord]
      /\ \A j \in DOMAIN jobs : jobs'[j].verdict = jobs[j].verdict
      /\ DOMAIN store' = DOMAIN store
      /\ store' \in [DOMAIN store' -> JobRecord]
  BY <1>1, <1>2 DEF JobTypes, JobsOK, JobRecord
<1>5. JobTypes'
  BY <1>1, <1>2, <1>3, <1>4 DEF JobTypes, JobsOK
<1>6. RunningInv'
  BY <1>1, <1>2, <1>4 DEF RunningInv
<1>7. UnfinishedJobsRun'
  BY <1>1, <1>2, <1>4 DEF UnfinishedJobsRun
<1>8. QED BY <1>3, <1>5, <1>6, <1>7 DEF ClickInv, StoreInv

LEMMA CleanupOK ==
    ASSUME ClickInv, CleanupOldJobs
    PROVE  ClickInv'
<1>1. JobTypes /\ RunningInv /\ UnfinishedJobsRun /\ StoreInv
  BY DEF ClickInv
<1>2. PICK f : f = [j \in {k \in DOMAIN jobs : ~jobs[k].old} |-> jobs[j]]
  OBVIOUS
<1>3. /\ jobs' = f /\ Persist(f)
      /\ UNCHANGED <<made, chain, hydrated, told>>
  BY <1>2 DEF CleanupOldJobs
<1>4. /\ store' \in {f, store}
      /\ faults' \in [{"restarts", "writes", "days"} -> Nat]
      /\ faults'.writes = 0 /\ faults'.days = 0 => faults.writes = 0 /\ faults.days = 0
  BY <1>1, <1>3, PersistIs
<1>5. /\ DOMAIN f \subseteq DOMAIN jobs
      /\ f \in [DOMAIN f -> JobRecord]
      /\ \A j \in DOMAIN f : f[j] = jobs[j]
  BY <1>1, <1>2 DEF JobTypes, JobsOK
<1>6. ~(faults.writes = 0 /\ faults.days = 0)
  <2>1. PICK j \in DOMAIN jobs : jobs[j].old
    BY DEF CleanupOldJobs
  <2>2. hydrated
    BY <1>1, <2>1 DEF JobTypes
  <2>3. QED BY <1>1, <2>1, <2>2 DEF StoreInv, Keeps
<1>7. JobTypes'
  <2>1. JobsOK(jobs)' /\ JobsOK(store)'
    BY <1>1, <1>3, <1>4, <1>5 DEF JobTypes, JobsOK
  <2>2. ~hydrated => DOMAIN f = {}
    BY <1>1, <1>5 DEF JobTypes
  <2>3. QED BY <1>1, <1>3, <1>4, <2>1, <2>2 DEF JobTypes
<1>8. RunningInv'
  BY <1>1, <1>3, <1>5 DEF RunningInv
<1>9. UnfinishedJobsRun'
  BY <1>1, <1>3, <1>5 DEF UnfinishedJobsRun
<1>10. StoreInv'
  BY <1>4, <1>6 DEF StoreInv
<1>11. QED BY <1>7, <1>8, <1>9, <1>10 DEF ClickInv

LEMMA NextOK ==
    ASSUME ClickInv, [Next]_vars
    PROVE  ClickInv'
<1>1. JobTypes
  BY DEF ClickInv
<1>2. CASE UNCHANGED <<jobVars, faults>>
  <2>1. UNCHANGED <<made, chain, jobs, hydrated, store, told, faults>>
    BY <1>2 DEF jobVars
  <2>2. QED BY <2>1 DEF ClickInv, JobTypes, JobsOK, RunningInv, UnfinishedJobsRun, StoreInv, Keeps
<1>3. CASE DeleteAnswers
  <2>1. faults \in [{"restarts", "writes", "days"} -> Nat]
    BY <1>1 DEF JobTypes
  <2>2. UNCHANGED faults /\ (Dies \/ UNCHANGED jobVars)
    BY <1>3 DEF DeleteAnswers
  <2>3. QED BY <1>2, <2>1, <2>2, DiesOK
<1>4. CASE Restart
  <2>1. faults \in [{"restarts", "writes", "days"} -> Nat]
    BY <1>1 DEF JobTypes
  <2>2. faults' = [faults EXCEPT !.restarts = @ + 1] /\ Dies
    BY <1>4 DEF Restart
  <2>3. /\ faults' \in [{"restarts", "writes", "days"} -> Nat]
        /\ faults'.writes = faults.writes /\ faults'.days = faults.days
    BY <2>1, <2>2
  <2>4. QED BY <2>2, <2>3, DiesOK
<1>5. ASSUME NEW j \in Jobs, ChainStep(j)
      PROVE  ClickInv'
  BY <1>1, <1>5, ChainStepIs, GoesOnOK, ReportsOK
<1>6. CASE UNCHANGED vars
  BY <1>2, <1>6 DEF vars
<1>7. QED BY <1>2, <1>3, <1>4, <1>5, <1>6, DeployOK, PollOK, DayOK, CleanupOK DEF Next

-----------------------------------------------------------------------------
(* The theorems.                                                           *)

LEMMA ClickInvAlways == Spec => []ClickInv
<1>1. Init => ClickInv
  BY InitOK
<1>2. ClickInv /\ [Next]_vars => ClickInv'
  BY NextOK
<1>3. QED BY <1>1, <1>2, PTL DEF Spec

\* A job a client polls is reported unfinished only while its chain is under
\* way, or after a chain whose template ends without words: also when the
\* process ends between two steps, and when a write of the list fails
\* (updateJobProgress, persistJobs, initialize).
THEOREM JobsCorrect == Spec => []UnfinishedJobsRun
<1>1. ClickInv => UnfinishedJobsRun
  BY DEF ClickInv
<1>2. QED BY <1>1, ClickInvAlways, PTL

\* What a client was told of how its job ended is repeated, across restarts,
\* until MAX_JOBS newer jobs have pushed the job out of the list.
THEOREM VerdictsCorrect == Spec => []VerdictsStay
<1>1. ClickInv => VerdictsStay
  <2>1. SUFFICES ASSUME ClickInv, NEW j \in DOMAIN told,
                        hydrated, faults.writes = 0, faults.days = 0
                 PROVE  IF j \in DOMAIN jobs
                        THEN told[j] # Unfinished => jobs[j].verdict = told[j]
                        ELSE made - j >= MaxStoredJobs
    BY DEF VerdictsStay
  <2>2. store = jobs /\ Keeps(store) /\ j \in 1..made
    BY <2>1 DEF ClickInv, StoreInv, JobTypes
  <2>3. QED BY <2>2 DEF Keeps
<1>2. QED BY <1>1, ClickInvAlways, PTL

-----------------------------------------------------------------------------
(***************************************************************************)
(* The sources of builds, for any deployments: an archive goes only with   *)
(* the build it was uploaded for; and as long as the app was not created   *)
(* again, the numbers of builds under way are distinct and every build     *)
(* finds in its directory what its own stages have put there.              *)
(***************************************************************************)

SourceTypes ==
    /\ stage \in [Deploys -> Stages]
    /\ version \in [Deploys -> Nat]
    /\ sort = [d \in Deploys |-> sort[d]]
    /\ imageOf = [d \in Deploys |-> imageOf[d]]
    /\ dirs = [v \in Versions |-> dirs[v]]
    /\ latest \in Nat
    /\ recreated \in Nat

WaitingIsQueued == \A d \in Deploys : waiting = d => stage[d] = "queued"

\* Deployments that have drawn their version, or will not.
Past == {d \in Deploys : Busy(d) \/ stage[d] \in {"dropped", "ended", "lost"}}

NumbersInv ==
    /\ latest <= Cardinality(Past)
    /\ \A d \in Deploys : Busy(d) => version[d] \in 1..latest
    /\ \A d, e \in Deploys : Busy(d) /\ Busy(e) /\ version[d] = version[e] => d = e

\* What the stages of a build leave in its directory, and in its image.
DirectoryInv(d) ==
    /\ stage[d] = "started" => dirs[version[d]] = None
    /\ stage[d] = "fetching" => dirs[version[d]] = {}
    /\ stage[d] \in {"fetched", "found"} => dirs[version[d]] = {d}
    /\ stage[d] \in {"building", "pushing", "made", "imaged"} => imageOf[d] = {d}

FirstAppInv ==
    recreated = 0 =>
        /\ NumbersInv
        /\ \A v \in Versions : v > latest => dirs[v] = None
        /\ \A d \in Deploys : DirectoryInv(d)

SourcesInv == SourceTypes /\ WaitingIsQueued /\ ArchiveOutlivesItsBuild /\ FirstAppInv

\* More deployments are past, none fewer.
LEMMA PastGrows ==
    ASSUME Past \subseteq Past'
    PROVE  /\ Cardinality(Past) \in Nat /\ Cardinality(Past') \in Nat
           /\ Cardinality(Past) <= Cardinality(Past')
           /\ \A d \in Past' \ Past : Cardinality(Past) + 1 <= Cardinality(Past')
<1> DEFINE P == Past
           Q == Past'
<1>1. IsFiniteSet(P) /\ IsFiniteSet(Q)
  <2>1. P \subseteq Deploys /\ Q \subseteq Deploys
    BY DEF Past
  <2>2. QED BY <2>1, SourcesAssumption, FS_Subset
<1>2. P \subseteq Q
  OBVIOUS
<1> HIDE DEF P, Q
<1>3. Cardinality(P) \in Nat /\ Cardinality(Q) \in Nat /\ Cardinality(P) <= Cardinality(Q)
  BY <1>1, <1>2, FS_Subset, FS_CardinalityType
<1>4. ASSUME NEW d \in Q \ P
      PROVE  Cardinality(P) + 1 <= Cardinality(Q)
  <2>1. P \subseteq Q /\ P # Q
    BY <1>2
  <2>2. Cardinality(P) < Cardinality(Q)
    <3>1. Cardinality(P) = Cardinality(Q) => P = Q
      BY <1>1, <1>2, FS_Subset
    <3>2. QED BY <1>3, <2>1, <3>1
  <2>3. QED BY <1>3, <2>2
<1>5. QED BY <1>3, <1>4 DEF P, Q

PastStages == {"started", "fetching", "fetched", "found", "building", "pushing", "made", "failing",
               "imaged", "unpacked", "dropped", "ended", "lost"}

LEMMA PastIs == \A d \in Deploys : d \in Past <=> stage[d] \in PastStages
BY DEF Past, PastStages, Busy

\* No build takes a number, and those that stay under way keep theirs.
LEMMA NumbersKept ==
    ASSUME NumbersInv, latest \in Nat, UNCHANGED latest, Past \subseteq Past',
           \A d \in Deploys : Busy(d)' => Busy(d) /\ version'[d] = version[d]
    PROVE  NumbersInv'
<1>1. latest <= Cardinality(Past')
  BY PastGrows DEF NumbersInv
<1>2. QED BY <1>1 DEF NumbersInv

\* The numbers of the builds under way have directories.
LEMMA VersionsFit ==
    ASSUME SourceTypes, NumbersInv, NEW d \in Deploys, Busy(d)
    PROVE  version[d] \in Versions
<1>1. IsFiniteSet(Deploys) /\ Past \subseteq Deploys
  BY SourcesAssumption DEF Past
<1>2. Cardinality(Past) \in Nat /\ Cardinality(Deploys) \in Nat /\ Cardinality(Past) <= Cardinality(Deploys)
  BY <1>1, FS_Subset, FS_CardinalityType
<1>3. version[d] \in 1..latest /\ latest \in Nat /\ latest <= Cardinality(Past)
  BY DEF NumbersInv, SourceTypes
<1>4. QED BY <1>2, <1>3 DEF Versions

\* f and g are functions over S that differ at x only.
Differ(f, g, S, x) ==
    /\ g = [y \in S |-> g[y]]
    /\ \A y \in S : y # x => g[y] = f[y]

\* A build goes on with its own number: what changes of the directories is at
\* its own, and its archive stays.
LEMMA ForwardOK ==
    ASSUME SourcesInv, NEW d \in Deploys, NEW next \in PastStages \ {"started"}, To(d, next),
           next = "fetching" => stage[d] = "started",
           Busy(d) \/ (stage[d] = "starting" /\ next = "dropped" /\ UNCHANGED dirs),
           UNCHANGED <<latest, recreated, waiting, sort, version, archives>>,
           Differ(dirs, dirs', Versions, version[d]),
           Differ(imageOf, imageOf', Deploys, d),
           recreated = 0 => DirectoryInv(d)'
    PROVE  SourcesInv'
<1>1. SourceTypes /\ WaitingIsQueued /\ ArchiveOutlivesItsBuild /\ FirstAppInv
  BY DEF SourcesInv
<1>f. /\ dirs' = [v \in Versions |-> dirs'[v]]
      /\ \A v \in Versions : v # version[d] => dirs'[v] = dirs[v]
      /\ imageOf' = [e \in Deploys |-> imageOf'[e]]
      /\ \A e \in Deploys : e # d => imageOf'[e] = imageOf[e]
  BY DEF Differ
<1>2. /\ stage' \in [Deploys -> Stages]
      /\ stage'[d] = next
      /\ \A e \in Deploys : e # d => stage'[e] = stage[e]
  BY <1>1 DEF To, SourceTypes, PastStages, Stages
<1>3. SourceTypes'
  BY <1>1, <1>2, <1>f DEF SourceTypes
<1>4. stage[d] # "queued"
  BY DEF Busy
<1>5. WaitingIsQueued'
  BY <1>1, <1>2, <1>4 DEF WaitingIsQueued
<1>6. ArchiveOutlivesItsBuild'
  <2>1. \A e \in Deploys : stage'[e] \in {"queued", "starting", "started", "fetching"} =>
            stage[e] \in {"queued", "starting", "started", "fetching"}
    BY <1>2 DEF PastStages
  <2>2. QED BY <1>1, <2>1 DEF ArchiveOutlivesItsBuild, IsSort
<1>7. FirstAppInv'
  <2>1. SUFFICES ASSUME recreated = 0
                 PROVE  /\ NumbersInv'
                        /\ \A v \in Versions : v > latest => dirs'[v] = None
                        /\ \A e \in Deploys : DirectoryInv(e)'
    BY DEF FirstAppInv
  <2>2. NumbersInv /\ \A v \in Versions : v > latest => dirs[v] = None
    BY <1>1, <2>1 DEF FirstAppInv
  <2>3. Past \subseteq Past'
    BY <1>2 DEF Past, Busy, PastStages
  <2>4. \A e \in Deploys : Busy(e)' => Busy(e)
    BY <1>2 DEF Busy
  <2>5. NumbersInv'
    BY <1>1, <2>2, <2>3, <2>4, NumbersKept DEF SourceTypes
  <2>6. ASSUME NEW v \in Versions, v > latest
        PROVE  dirs'[v] = None
    <3>1. CASE UNCHANGED dirs
      BY <2>2, <2>6, <3>1
    <3>2. CASE Busy(d)
      <4>1. version[d] # v
        BY <1>1, <2>2, <2>6, <3>2 DEF NumbersInv, SourceTypes
      <4>2. dirs'[v] = dirs[v]
        BY <1>f, <2>6, <4>1
      <4>3. QED BY <2>2, <2>6, <4>2
    <3>3. QED BY <3>1, <3>2
  <2>7. ASSUME NEW e \in Deploys, e # d
        PROVE  DirectoryInv(e)'
    <3>1. DirectoryInv(e) /\ stage'[e] = stage[e] /\ imageOf'[e] = imageOf[e]
      BY <1>1, <1>2, <1>f, <2>1, <2>7 DEF FirstAppInv
    <3>2. ASSUME stage[e] \in {"started", "fetching", "fetched", "found"}
          PROVE  dirs'[version[e]] = dirs[version[e]]
      <4>1. Busy(e) /\ (Busy(d) => version[d] # version[e])
        BY <2>2, <2>7, <3>2 DEF NumbersInv, Busy
      <4>2. CASE UNCHANGED dirs
        BY <4>2
      <4>3. CASE Busy(d)
        <5>1. version[d] # version[e]
          BY <4>1, <4>3
        <5>2. version[e] \in Versions
          BY <1>1, <2>2, <4>1, VersionsFit
        <5>3. QED BY <1>f, <5>1, <5>2
      <4>4. QED BY <4>2, <4>3
    <3>3. QED BY <3>1, <3>2 DEF DirectoryInv
  <2>8. QED BY <2>1, <2>5, <2>6, <2>7
<1>8. QED BY <1>3, <1>5, <1>6, <1>7 DEF SourcesInv

\* A deployment that has not begun to build: its stage moves, and that of the
\* one it replaces in the queue; nothing of a build changes.
LEMMA BeforeOK ==
    ASSUME SourcesInv, NEW next,
           stage' \in [Deploys -> Stages],
           \A e \in Deploys : \/ stage'[e] = stage[e]
                              \/ stage'[e] \in next /\ stage[e] \notin PastStages,
           next \cap PastStages \subseteq {"ended"},
           UNCHANGED <<latest, recreated, version, dirs, imageOf>>,
           sort' = [e \in Deploys |-> sort'[e]],
           WaitingIsQueued', ArchiveOutlivesItsBuild'
    PROVE  SourcesInv'
<1>1. SourceTypes /\ FirstAppInv
  BY DEF SourcesInv
<1>2. SourceTypes'
  BY <1>1 DEF SourceTypes
<1>3. \A e \in Deploys : stage'[e] = stage[e] \/ stage'[e] \notin PastStages \/ stage'[e] = "ended"
  OBVIOUS
<1>4. FirstAppInv'
  <2>1. SUFFICES ASSUME recreated = 0
                 PROVE  /\ NumbersInv'
                        /\ \A v \in Versions : v > latest => dirs[v] = None
                        /\ \A e \in Deploys : DirectoryInv(e)'
    BY DEF FirstAppInv
  <2>2. Past \subseteq Past'
    BY DEF Past, Busy, PastStages
  <2>3. \A e \in Deploys : Busy(e)' => Busy(e)
    BY <1>3 DEF Busy, PastStages
  <2>4. NumbersInv'
    BY <1>1, <2>1, <2>2, <2>3, NumbersKept DEF FirstAppInv, SourceTypes
  <2>5. ASSUME NEW e \in Deploys
        PROVE  DirectoryInv(e)'
    BY <1>1, <1>3, <2>1, <2>5 DEF FirstAppInv, DirectoryInv, PastStages
  <2>6. QED BY <1>1, <2>1, <2>4, <2>5 DEF FirstAppInv
<1>5. QED BY <1>2, <1>4 DEF SourcesInv

LEMMA ArrivalOK ==
    ASSUME SourcesInv, NEW d \in Deploys,
           \/ UploadFails(d)
           \/ \E by \in Channels, source \in Sources, withToken \in BOOLEAN : PostSource(d, by, source, withToken)
    PROVE  SourcesInv'
<1>1. SourceTypes /\ WaitingIsQueued /\ ArchiveOutlivesItsBuild
  BY DEF SourcesInv
<1>2. /\ stage[d] \in {"idle", "uploading"}
      /\ To(d, "uploading") \/ To(d, "ended")
      /\ UNCHANGED <<latest, recreated, version, dirs, imageOf, waiting, archives>>
  BY DEF UploadFails, PostSource, appVars, queueVars, diskVars
<1>3. \E k : sort' = [sort EXCEPT ![d] = k]
  BY DEF UploadFails, PostSource
<1>4. sort' = [e \in Deploys |-> sort'[e]] /\ \A e \in Deploys : e # d => sort'[e] = sort[e]
  BY <1>1, <1>3 DEF SourceTypes
<1>5. /\ stage' \in [Deploys -> Stages]
      /\ stage'[d] \in {"uploading", "ended"}
      /\ \A e \in Deploys : e # d => stage'[e] = stage[e]
  BY <1>1, <1>2 DEF To, SourceTypes, Stages
<1>6. WaitingIsQueued'
  BY <1>1, <1>2, <1>5 DEF WaitingIsQueued
<1>7. ArchiveOutlivesItsBuild'
  BY <1>1, <1>2, <1>4, <1>5 DEF ArchiveOutlivesItsBuild, IsSort
<1>8. stage[d] \notin PastStages /\ {"uploading", "ended"} \cap PastStages \subseteq {"ended"}
  BY <1>2 DEF PastStages
<1>9. QED BY <1>2, <1>4, <1>5, <1>6, <1>7, <1>8, BeforeOK

\* scheduleDeployNewVersion: the archive of an upload has been saved.
LEMMA ScheduleOK ==
    ASSUME SourcesInv, NEW d \in Deploys, stage[d] \in {"idle", "uploading"}, NEW by, Schedule(d, by),
           UNCHANGED <<latest, recreated, version, dirs, imageOf>>,
           NEW k, sort' = [sort EXCEPT ![d] = k],
           archives \subseteq archives',
           IsSort(d, "archive")' => d \in archives'
    PROVE  SourcesInv'
<1>1. SourceTypes /\ WaitingIsQueued /\ ArchiveOutlivesItsBuild
  BY DEF SourcesInv
<1>2. sort' = [e \in Deploys |-> sort'[e]] /\ \A e \in Deploys : e # d => sort'[e] = sort[e]
  BY <1>1 DEF SourceTypes
<1>3. /\ stage' \in [Deploys -> Stages]
      /\ stage'[d] \in {"starting", "queued"}
      /\ \A e \in Deploys : e # d => stage'[e] = stage[e] \/ (stage'[e] = "replaced" /\ stage[e] = "queued")
      /\ WaitingIsQueued'
  <2>1. CASE ~marked
    <3>1. stage' = [stage EXCEPT ![d] = "starting"] /\ UNCHANGED waiting
      BY <2>1 DEF Schedule, To
    <3>2. QED BY <1>1, <3>1 DEF SourceTypes, WaitingIsQueued, Stages
  <2>2. CASE marked
    <3>1. /\ stage' = [e \in Deploys |-> IF e = d THEN "queued"
                                         ELSE IF e = waiting THEN "replaced" ELSE stage[e]]
          /\ waiting' = d
      BY <2>2 DEF Schedule
    <3>2. QED BY <1>1, <3>1 DEF SourceTypes, WaitingIsQueued, Stages
  <2>3. QED BY <2>1, <2>2
<1>4. ArchiveOutlivesItsBuild'
  BY <1>1, <1>2, <1>3 DEF ArchiveOutlivesItsBuild, IsSort
<1>5. /\ \A e \in Deploys : \/ stage'[e] = stage[e]
                            \/ stage'[e] \in {"starting", "queued", "replaced"} /\ stage[e] \notin PastStages
      /\ {"starting", "queued", "replaced"} \cap PastStages \subseteq {"ended"}
  BY <1>3 DEF PastStages
<1>6. QED BY <1>2, <1>3, <1>4, <1>5, BeforeOK

LEMMA SchedulesOK ==
    ASSUME SourcesInv, NEW d \in Deploys, Uploaded(d) \/ TriggerBuild(d)
    PROVE  SourcesInv'
<1>1. SourceTypes
  BY DEF SourcesInv
<1>2. CASE Uploaded(d)
  <2>1. /\ stage[d] = "uploading" /\ Schedule(d, sort[d].by)
        /\ archives' = IF IsSort(d, "archive") THEN archives \cup {d} ELSE archives
        /\ UNCHANGED <<latest, recreated, version, dirs, imageOf, sort>>
    BY <1>2 DEF Uploaded, HandOff, appVars
  <2>2. PICK by, k : by = sort[d].by /\ k = sort[d]
    OBVIOUS
  <2>3. sort' = [sort EXCEPT ![d] = k]
    BY <1>1, <2>1, <2>2 DEF SourceTypes
  <2>4. archives \subseteq archives' /\ (IsSort(d, "archive")' => d \in archives')
    BY <2>1 DEF IsSort
  <2>5. QED BY <2>1, <2>2, <2>3, <2>4, ScheduleOK
<1>3. CASE TriggerBuild(d)
  <2>1. /\ stage[d] = "idle" /\ Schedule(d, "webhook")
        /\ sort' = [sort EXCEPT ![d] = [by |-> "webhook", source |-> "repository"]]
        /\ UNCHANGED <<latest, recreated, version, dirs, imageOf, archives>>
    BY <1>3 DEF TriggerBuild, appVars, diskVars
  <2>2. PICK k : k = [by |-> "webhook", source |-> "repository"]
    OBVIOUS
  <2>3. sort'[d].source = "repository"
    BY <1>1, <2>1 DEF SourceTypes
  <2>4. ~IsSort(d, "archive")'
    BY <2>3 DEF IsSort
  <2>5. QED BY <2>1, <2>2, <2>4, ScheduleOK
<1>4. QED BY <1>2, <1>3

LEMMA CreateOK ==
    ASSUME SourcesInv, NEW d \in Deploys, createNewVersion(d)
    PROVE  SourcesInv'
<1>1. SourceTypes /\ WaitingIsQueued /\ ArchiveOutlivesItsBuild /\ FirstAppInv
  BY DEF SourcesInv
<1>2. /\ stage[d] = "starting" /\ latest' = latest + 1
      /\ version' = [version EXCEPT ![d] = latest + 1]
      /\ stage' = [stage EXCEPT ![d] = "started"]
      /\ UNCHANGED <<recreated, waiting, sort, archives, dirs, imageOf>>
  BY DEF createNewVersion, To, queueVars, diskVars
<1>3. /\ stage' \in [Deploys -> Stages]
      /\ stage'[d] = "started"
      /\ version'[d] = latest + 1
      /\ version' \in [Deploys -> Nat]
      /\ \A e \in Deploys : e # d => stage'[e] = stage[e] /\ version'[e] = version[e]
  BY <1>1, <1>2 DEF SourceTypes, Stages
<1>4. SourceTypes'
  BY <1>1, <1>2, <1>3 DEF SourceTypes
<1>5. WaitingIsQueued' /\ ArchiveOutlivesItsBuild'
  BY <1>1, <1>2, <1>3 DEF WaitingIsQueued, ArchiveOutlivesItsBuild, IsSort
<1>6. FirstAppInv'
  <2>1. SUFFICES ASSUME recreated = 0
                 PROVE  /\ NumbersInv'
                        /\ \A v \in Versions : v > latest' => dirs[v] = None
                        /\ \A e \in Deploys : DirectoryInv(e)'
    BY <1>2 DEF FirstAppInv
  <2>2. /\ NumbersInv /\ latest \in Nat
        /\ \A v \in Versions : v > latest => dirs[v] = None
        /\ \A e \in Deploys : DirectoryInv(e)
    BY <1>1, <2>1 DEF FirstAppInv, SourceTypes
  <2>3. Past \subseteq Past' /\ d \in Past' \ Past
    BY <1>2, <1>3 DEF Past, Busy
  <2>4. latest' <= Cardinality(Past')
    BY <1>2, <2>2, <2>3, PastGrows DEF NumbersInv
  <2>5. \A e \in Deploys : e # d => (Busy(e)' <=> Busy(e))
    BY <1>3 DEF Busy
  <2>6. \A e \in Deploys : Busy(e)' => /\ version'[e] \in 1..latest'
                                       /\ version'[e] = latest + 1 => e = d
    BY <1>2, <1>3, <2>2, <2>5 DEF NumbersInv
  <2>7. NumbersInv'
    BY <1>3, <2>2, <2>4, <2>5, <2>6 DEF NumbersInv
  <2>8. ASSUME NEW e \in Deploys
        PROVE  DirectoryInv(e)'
    <3>1. CASE e # d
      BY <1>2, <1>3, <2>2, <3>1 DEF DirectoryInv
    <3>2. CASE e = d
      <4>1. latest + 1 \in Versions
        <5>1. Busy(d)'
          BY <1>3 DEF Busy
        <5>2. IsFiniteSet(Deploys) /\ Past' \subseteq Deploys
          BY SourcesAssumption DEF Past
        <5>3. Cardinality(Past') \in Nat /\ Cardinality(Deploys) \in Nat /\ Cardinality(Past') <= Cardinality(Deploys)
          BY <5>2, FS_Subset, FS_CardinalityType
        <5>4. QED BY <1>2, <2>2, <2>4, <5>3 DEF Versions
      <4>2. dirs'[version'[d]] = None
        BY <1>2, <1>3, <2>2, <4>1
      <4>3. QED BY <1>3, <3>2, <4>2 DEF DirectoryInv
    <3>3. QED BY <3>1, <3>2
  <2>9. \A v \in Versions : v \in Int /\ (v > latest' => v > latest)
    BY <1>2, <2>2 DEF Versions
  <2>10. QED BY <2>2, <2>7, <2>8, <2>9
<1>7. QED BY <1>4, <1>5, <1>6 DEF SourcesInv

\* The stages of a build, until its directory is removed.
LEMMA BuildStepOK ==
    ASSUME SourcesInv, NEW d \in Deploys,
           \/ NotTaken(d)
           \/ BeginToFetch(d)
           \/ Extract(d)
           \/ ExtractFails(d)
           \/ FindDefinition(d)
           \/ MakeTar(d)
           \/ PullImage(d)
           \/ BuildImageFromDockerFile(d)
           \/ retagAndPushIfDefaultPushExist(d)
           \/ BuildFails(d)
           \/ DockerFails(d)
           \/ RemoveDirectory(d)
    PROVE  SourcesInv'
<1>1. SourceTypes /\ FirstAppInv
  BY DEF SourcesInv
<1>2. UNCHANGED <<latest, recreated, waiting, sort, version, archives>>
  BY DEF NotTaken, BeginToFetch, Extract, ExtractFails, FindDefinition, MakeTar, PullImage,
         BuildImageFromDockerFile, retagAndPushIfDefaultPushExist, BuildFails, DockerFails,
         RemoveDirectory, appVars, queueVars, callVars, diskVars
<1>3. recreated = 0 => DirectoryInv(d)
  BY <1>1 DEF FirstAppInv
<1>4. ASSUME Busy(d), recreated = 0
      PROVE  version[d] \in Versions /\ DOMAIN dirs = Versions
  BY <1>1, <1>4, VersionsFit DEF FirstAppInv, SourceTypes
<1>5. stage \in [Deploys -> Stages]
  BY <1>1 DEF SourceTypes
<1>f. /\ UNCHANGED dirs => Differ(dirs, dirs', Versions, version[d])
      /\ UNCHANGED imageOf => Differ(imageOf, imageOf', Deploys, d)
      /\ \A x : dirs' = [dirs EXCEPT ![version[d]] = x] => Differ(dirs, dirs', Versions, version[d])
      /\ \A x : imageOf' = [imageOf EXCEPT ![d] = x] => Differ(imageOf, imageOf', Deploys, d)
  BY <1>1 DEF SourceTypes, Differ
<1>6. CASE NotTaken(d)
  <2>1. /\ To(d, "dropped") /\ "dropped" \in PastStages \ {"started"}
        /\ UNCHANGED <<dirs, imageOf>>
        /\ stage[d] = "starting" \/ Busy(d)
    BY <1>6 DEF NotTaken, PastStages, Busy, diskVars
  <2>2. DirectoryInv(d)'
    BY <1>5, <2>1 DEF To, DirectoryInv
  <2>3. QED BY <1>2, <2>1, <2>2, <1>f, ForwardOK
<1>7. CASE BeginToFetch(d)
  <2>1. PICK x : x = IF dirs[version[d]] = None THEN {} ELSE dirs[version[d]]
    OBVIOUS
  <2>2. /\ To(d, "fetching") /\ "fetching" \in PastStages \ {"started"}
        /\ stage[d] = "started" /\ Busy(d)
        /\ dirs' = [dirs EXCEPT ![version[d]] = x] /\ UNCHANGED imageOf
    BY <1>7, <2>1 DEF BeginToFetch, PastStages, Busy, DirectoryOf
  <2>3. recreated = 0 => DirectoryInv(d)'
    BY <1>2, <1>3, <1>4, <1>5, <2>1, <2>2 DEF To, DirectoryInv
  <2>4. QED BY <1>2, <2>2, <2>3, <1>f, ForwardOK
<1>8. CASE Extract(d)
  <2>1. PICK x : x = Content(d) \cup {d}
    OBVIOUS
  <2>2. /\ To(d, "fetched") /\ "fetched" \in PastStages \ {"started"}
        /\ stage[d] = "fetching" /\ Busy(d)
        /\ dirs' = [dirs EXCEPT ![version[d]] = x] /\ UNCHANGED imageOf
    BY <1>8, <2>1 DEF Extract, PastStages, Busy, DirectoryOf
  <2>3. recreated = 0 => x = {d}
    BY <1>3, <2>1, <2>2 DEF DirectoryInv, Content, DirectoryOf
  <2>4. recreated = 0 => DirectoryInv(d)'
    BY <1>2, <1>4, <1>5, <2>2, <2>3 DEF To, DirectoryInv
  <2>5. QED BY <1>2, <2>2, <2>4, <1>f, ForwardOK
<1>9. CASE ExtractFails(d) \/ BuildFails(d) \/ DockerFails(d)
  <2>1. /\ To(d, "failing") /\ "failing" \in PastStages \ {"started"} /\ Busy(d)
        /\ UNCHANGED <<dirs, imageOf>>
    BY <1>9 DEF ExtractFails, BuildFails, DockerFails, PastStages, Busy, diskVars
  <2>2. DirectoryInv(d)'
    BY <1>5, <2>1 DEF To, DirectoryInv
  <2>3. QED BY <1>2, <2>1, <2>2, <1>f, ForwardOK
<1>10. CASE FindDefinition(d)
  <2>1. /\ To(d, "found") /\ "found" \in PastStages \ {"started"} /\ stage[d] = "fetched" /\ Busy(d)
        /\ UNCHANGED <<dirs, imageOf>>
    BY <1>10 DEF FindDefinition, PastStages, Busy, diskVars
  <2>2. recreated = 0 => DirectoryInv(d)'
    BY <1>2, <1>3, <1>5, <2>1 DEF To, DirectoryInv
  <2>3. QED BY <1>2, <2>1, <2>2, <1>f, ForwardOK
<1>11. CASE MakeTar(d)
  <2>1. PICK y : y = Content(d)
    OBVIOUS
  <2>2. /\ To(d, "building") /\ "building" \in PastStages \ {"started"} /\ stage[d] = "found" /\ Busy(d)
        /\ dirs[version[d]] # None
        /\ imageOf' = [imageOf EXCEPT ![d] = y] /\ UNCHANGED dirs
    BY <1>11, <2>1 DEF MakeTar, PastStages, Busy, diskVars, DirectoryOf
  <2>3. recreated = 0 => y = {d}
    BY <1>3, <2>1, <2>2 DEF DirectoryInv, Content, DirectoryOf
  <2>4. recreated = 0 => DirectoryInv(d)'
    BY <1>1, <1>5, <2>2, <2>3 DEF To, DirectoryInv, SourceTypes
  <2>5. QED BY <1>2, <2>2, <2>4, <1>f, ForwardOK
<1>12. CASE PullImage(d) \/ BuildImageFromDockerFile(d) \/ retagAndPushIfDefaultPushExist(d)
  <2>1. PICK next \in {"made", "pushing"} :
            /\ To(d, next) /\ stage[d] \in {"building", "pushing"}
            /\ UNCHANGED <<dirs, imageOf>>
    BY <1>12 DEF PullImage, BuildImageFromDockerFile, retagAndPushIfDefaultPushExist, diskVars
  <2>2. next \in PastStages \ {"started"} /\ Busy(d)
    BY <2>1 DEF PastStages, Busy
  <2>3. recreated = 0 => DirectoryInv(d)'
    BY <1>3, <1>5, <2>1 DEF To, DirectoryInv
  <2>4. QED BY <1>2, <2>1, <2>2, <2>3, <1>f, ForwardOK
<1>13. CASE RemoveDirectory(d)
  <2>1. PICK next : next = IF stage[d] = "made" THEN "imaged" ELSE "unpacked"
    OBVIOUS
  <2>2. /\ To(d, next) /\ next \in PastStages \ {"started"} /\ next # "fetching" /\ Busy(d)
        /\ next = "imaged" => stage[d] = "made"
        /\ next \in {"imaged", "unpacked"}
        /\ dirs' = [dirs EXCEPT ![version[d]] = None] /\ UNCHANGED imageOf
    BY <1>13, <2>1 DEF RemoveDirectory, PastStages, Busy, DirectoryOf
  <2>3. recreated = 0 => DirectoryInv(d)'
    BY <1>3, <1>5, <2>2 DEF To, DirectoryInv
  <2>4. QED BY <1>2, <2>2, <2>3, <1>f, ForwardOK
<1>14. QED BY <1>6, <1>7, <1>8, <1>9, <1>10, <1>11, <1>12, <1>13

\* A build ends, and the one that waits is started.
LEMMA FinishOK ==
    ASSUME SourcesInv, NEW d \in Deploys, Ended(d) \/ Dropped(d)
    PROVE  SourcesInv'
<1>1. SourceTypes /\ WaitingIsQueued /\ ArchiveOutlivesItsBuild /\ FirstAppInv
  BY DEF SourcesInv
<1>2. PICK end : onBuildFinished(d, end) /\ end \in {"ended", "lost"} /\ archives \ {d} \subseteq archives'
  BY DEF Ended, Dropped
<1>3. /\ waiting' = None
      /\ stage' = [e \in Deploys |-> IF e = d THEN end ELSE IF e = waiting THEN "starting" ELSE stage[e]]
      /\ sort' = [sort EXCEPT ![d] = None]
      /\ version' = [version EXCEPT ![d] = 0]
      /\ imageOf' = [imageOf EXCEPT ![d] = {}]
      /\ UNCHANGED <<latest, recreated, dirs>>
  BY <1>2 DEF onBuildFinished, appVars
<1>4. /\ stage' \in [Deploys -> Stages] /\ stage'[d] = end
      /\ \A e \in Deploys : e # d => \/ stage'[e] = stage[e] /\ e # waiting
                                     \/ stage[e] = "queued" /\ stage'[e] = "starting"
  BY <1>1, <1>2, <1>3 DEF SourceTypes, WaitingIsQueued, Stages
<1>5. /\ version' \in [Deploys -> Nat] /\ sort' = [e \in Deploys |-> sort'[e]]
      /\ imageOf' = [e \in Deploys |-> imageOf'[e]]
      /\ \A e \in Deploys : e # d => version'[e] = version[e] /\ sort'[e] = sort[e] /\ imageOf'[e] = imageOf[e]
  BY <1>1, <1>3 DEF SourceTypes
<1>6. SourceTypes'
  BY <1>1, <1>3, <1>4, <1>5 DEF SourceTypes
<1>7. ArchiveOutlivesItsBuild'
  <2>1. SUFFICES ASSUME NEW e \in Deploys, stage'[e] \in {"queued", "starting", "started", "fetching"},
                        IsSort(e, "archive")'
                 PROVE  e \in archives'
    BY DEF ArchiveOutlivesItsBuild
  <2>2. e # d
    BY <1>2, <1>4, <2>1
  <2>3. stage[e] \in {"queued", "starting", "started", "fetching"} /\ IsSort(e, "archive")
    BY <1>4, <1>5, <2>1, <2>2 DEF IsSort
  <2>4. QED BY <1>1, <1>2, <2>2, <2>3 DEF ArchiveOutlivesItsBuild
<1>8. FirstAppInv'
  <2>1. SUFFICES ASSUME recreated = 0
                 PROVE  /\ NumbersInv'
                        /\ \A v \in Versions : v > latest => dirs[v] = None
                        /\ \A e \in Deploys : DirectoryInv(e)'
    BY <1>3 DEF FirstAppInv
  <2>2. Past \subseteq Past'
    BY <1>2, <1>4 DEF Past, Busy
  <2>3. \A e \in Deploys : Busy(e)' => Busy(e) /\ version'[e] = version[e]
    BY <1>2, <1>4, <1>5 DEF Busy
  <2>4. NumbersInv'
    BY <1>1, <1>3, <2>1, <2>2, <2>3, NumbersKept DEF FirstAppInv, SourceTypes
  <2>5. ASSUME NEW e \in Deploys
        PROVE  DirectoryInv(e)'
    <3>1. CASE e = d
      BY <1>2, <1>4, <3>1 DEF DirectoryInv
    <3>2. CASE e # d
      <4>1. DirectoryInv(e)
        BY <1>1, <2>1 DEF FirstAppInv
      <4>2. stage'[e] = stage[e] \/ stage'[e] = "starting"
        BY <1>4, <3>2
      <4>3. QED BY <1>3, <1>5, <3>2, <4>1, <4>2 DEF DirectoryInv
    <3>3. QED BY <3>1, <3>2
  <2>6. QED BY <1>1, <2>1, <2>4, <2>5 DEF FirstAppInv
<1>9. WaitingIsQueued'
  BY <1>3, SourcesAssumption DEF WaitingIsQueued
<1>10. QED BY <1>6, <1>7, <1>8, <1>9 DEF SourcesInv

LEMMA SourcesStep == SourcesInv /\ [SourcesNext]_sourcesVars => SourcesInv'
<1> SUFFICES ASSUME SourcesInv, [SourcesNext]_sourcesVars
             PROVE  SourcesInv'
  OBVIOUS
<1>1. ASSUME UNCHANGED <<latest, recreated, waiting, stage, sort, version, archives, dirs, imageOf>>
      PROVE  SourcesInv'
  <2>1. SourceTypes' /\ WaitingIsQueued' /\ ArchiveOutlivesItsBuild'
    BY <1>1 DEF SourcesInv, SourceTypes, WaitingIsQueued, ArchiveOutlivesItsBuild, IsSort
  <2>2. /\ Past' = Past
        /\ \A d \in Deploys : Busy(d)' <=> Busy(d)
    BY <1>1 DEF Past, Busy
  <2>3. NumbersInv => NumbersInv'
    BY <1>1, <2>2 DEF NumbersInv
  <2>4. \A d \in Deploys : DirectoryInv(d) => DirectoryInv(d)'
    BY <1>1 DEF DirectoryInv
  <2>5. FirstAppInv'
    BY <1>1, <2>3, <2>4 DEF SourcesInv, FirstAppInv
  <2>6. QED BY <2>1, <2>5 DEF SourcesInv
<1>2. CASE UNCHANGED sourcesVars
  BY <1>1, <1>2 DEF sourcesVars, appVars, queueVars, callVars, diskVars
<1>3. CASE DeleteApp \/ ChangeGrant
  BY <1>1, <1>3 DEF DeleteApp, ChangeGrant, queueVars, callVars, diskVars
<1>4. CASE CreateApp
  <2>1. /\ latest' = 0 /\ recreated' = recreated + 1 /\ recreated \in Nat
        /\ UNCHANGED <<waiting, stage, sort, version, archives, dirs, imageOf>>
    BY <1>4 DEF CreateApp, queueVars, callVars, diskVars, SourcesInv, SourceTypes
  <2>2. SourceTypes' /\ recreated' # 0
    BY <2>1 DEF SourcesInv, SourceTypes
  <2>3. WaitingIsQueued' /\ ArchiveOutlivesItsBuild'
    BY <2>1 DEF SourcesInv, WaitingIsQueued, ArchiveOutlivesItsBuild, IsSort
  <2>4. QED BY <2>2, <2>3 DEF SourcesInv, FirstAppInv
<1>5. QED BY <1>2, <1>3, <1>4, ArrivalOK, SchedulesOK, CreateOK, BuildStepOK, FinishOK DEF SourcesNext

LEMMA SourcesInitOK == SourcesInit => SourcesInv
<1> SUFFICES ASSUME SourcesInit
             PROVE  SourcesInv
  OBVIOUS
<1>1. /\ latest = 0 /\ recreated = 0 /\ waiting = None
      /\ stage = [d \in Deploys |-> "idle"]
      /\ sort = [d \in Deploys |-> None]
      /\ version = [d \in Deploys |-> 0]
      /\ dirs = [v \in Versions |-> None]
      /\ imageOf = [d \in Deploys |-> {}]
  BY DEF SourcesInit
<1>2. SourceTypes
  BY <1>1 DEF SourceTypes, Stages
<1>3. WaitingIsQueued
  BY <1>1, SourcesAssumption DEF WaitingIsQueued
<1>4. ArchiveOutlivesItsBuild
  BY <1>1 DEF ArchiveOutlivesItsBuild
<1>5. FirstAppInv
  <2>1. IsFiniteSet(Past)
    <3>1. Past \subseteq Deploys
      BY DEF Past
    <3>2. QED BY <3>1, SourcesAssumption, FS_Subset
  <2>2. Cardinality(Past) \in Nat
    BY <2>1, FS_CardinalityType
  <2>3. \A d \in Deploys : ~Busy(d)
    BY <1>1 DEF Busy
  <2>4. NumbersInv
    BY <1>1, <2>2, <2>3 DEF NumbersInv
  <2>5. \A d \in Deploys : DirectoryInv(d)
    BY <1>1 DEF DirectoryInv
  <2>6. QED BY <1>1, <2>4, <2>5 DEF FirstAppInv
<1>6. QED BY <1>2, <1>3, <1>4, <1>5 DEF SourcesInv

LEMMA SourcesInvAlways == SourcesSpec => []SourcesInv
BY SourcesInitOK, SourcesStep, PTL DEF SourcesSpec

\* Until the app is deleted and created again, the image of each build is made
\* of the source of that build, whichever builds of the app run at the same time
\* (getDirectoryForRawSource, ensureImage).
THEOREM SourcesCorrect == SourcesSpec => []BuildsReadTheirSource
<1>1. SourcesInv => BuildsReadTheirSource
  BY DEF SourcesInv, FirstAppInv, DirectoryInv, BuildsReadTheirSource
<1>2. QED BY <1>1, SourcesInvAlways, PTL

\* An archive that was handed over stays until its build has unpacked it,
\* whoever answers the upload and whichever builds end meanwhile.
THEOREM ArchivesCorrect == SourcesSpec => []ArchiveOutlivesItsBuild
<1>1. SourcesInv => ArchiveOutlivesItsBuild
  BY DEF SourcesInv
<1>2. QED BY <1>1, SourcesInvAlways, PTL

-----------------------------------------------------------------------------
(* The steps of a deployment, and their order.                              *)

-----------------------------------------------------------------------------
(* The order of the services.                                              *)

\* No service twice, and none before what it needs.
Ordered(apps, t) ==
    /\ apps \in Seq(Apps)
    /\ IsInjective(apps)
    /\ ToSet(apps) \subseteq ToSet(t.keys)
    /\ \A i \in 1..Len(apps) : \A s \in t.needs[apps[i]] : \E k \in 1..(i - 1) : apps[k] = s

Added(apps, t, s) ==
    IF s \in ToSet(apps) \/ ~(t.needs[s] \subseteq ToSet(apps)) THEN apps ELSE Append(apps, s)

LEMMA KeysAre ==
    ASSUME NEW t \in Template
    PROVE  /\ t.keys \in Seq(Apps) /\ Len(t.keys) \in Nat /\ DOMAIN t.keys = 1..Len(t.keys)
           /\ \A i \in 1..Len(t.keys) : t.keys[i] \in Apps
           /\ \A s \in ToSet(t.keys) : s \in Apps
<1>1. t.keys \in Seq(Apps)
  BY DEF Template
<1>2. PICK keys : keys = t.keys
  OBVIOUS
<1>3. keys \in Seq(Apps)
  BY <1>1, <1>2
<1>4. Len(keys) \in Nat /\ DOMAIN keys = 1..Len(keys) /\ \A i \in 1..Len(keys) : keys[i] \in Apps
  BY <1>3
<1>5. QED BY <1>2, <1>3, <1>4 DEF ToSet

\* One iteration of createAppsArrayInOrder looks at each service in turn.
LEMMA PassSteps ==
    ASSUME NEW t \in Template, NEW apps \in Seq(Apps)
    PROVE  \E h : /\ h[0] = apps
                  /\ \A i \in 1..Len(t.keys) : h[i] = Added(h[i - 1], t, t.keys[i])
                  /\ Pass(apps, t) = h[Len(t.keys)]
<1> DEFINE n == Len(t.keys)
           step == [x \in (1..n) \X Seq(Apps) |-> Added(x[2], t, t.keys[x[1]])]
           pick == [d \in SUBSET (1..n) |-> Max(d)]
           Folds(g) == g = [d \in SUBSET DOMAIN t.keys |->
              IF d = {} THEN apps
              ELSE IF \/ t.keys[Max(d)] \in ToSet(g[d \ {Max(d)}])
                      \/ ~(t.needs[t.keys[Max(d)]] \subseteq ToSet(g[d \ {Max(d)}]))
                   THEN g[d \ {Max(d)}]
                   ELSE Append(g[d \ {Max(d)}], t.keys[Max(d)])]
<1>1. n \in Nat /\ DOMAIN t.keys = 1..n /\ \A i \in 1..n : t.keys[i] \in Apps
  BY KeysAre
<1>2. PICK g \in [SUBSET (1..n) -> Seq(Apps)] : IsFold(g, 1..n, pick, apps, step)
  <2>1. IsFiniteSet(1..n)
    BY <1>1, FS_Interval
  <2>2. Picks(pick, 1..n)
    BY <1>1, LastFirst DEF Picks
  <2>3. step \in [(1..n) \X Seq(Apps) -> Seq(Apps)]
    <3>1. \A acc \in Seq(Apps), i \in 1..n : Added(acc, t, t.keys[i]) \in Seq(Apps)
      BY <1>1 DEF Added
    <3>2. QED BY <3>1
  <2> HIDE DEF step, pick, n
  <2>4. QED BY <2>1, <2>2, <2>3, FoldExists
<1>3. Folds(g)
  <2>1. ASSUME NEW d \in SUBSET (1..n), d # {}
        PROVE  g[d] = Added(g[d \ {Max(d)}], t, t.keys[Max(d)])
    <3>1. Max(d) \in 1..n /\ d \ {Max(d)} \in SUBSET (1..n) /\ pick[d] = Max(d)
      BY <1>1, <2>1, LastFirst
    <3>2. g[d] = step[<<Max(d), g[d \ {Max(d)}]>>] /\ g[d \ {Max(d)}] \in Seq(Apps)
      BY <1>2, <2>1, <3>1 DEF IsFold
    <3>3. QED BY <3>1, <3>2
  <2>2. g = [d \in SUBSET (1..n) |-> g[d]] /\ g[{}] = apps
    BY <1>2 DEF IsFold
  <2>3. QED BY <1>1, <2>1, <2>2 DEF Added
<1>4. Pass(apps, t) = (CHOOSE f : Folds(f))[DOMAIN t.keys]
  BY Zenon DEF Pass, FoldLeft, MapThenFoldSet
<1>5. PICK f : Folds(f) /\ Pass(apps, t) = f[1..n]
  <2> HIDE DEF Folds
  <2>1. QED BY <1>1, <1>3, <1>4, Zenon
<1>6. PICK h : h = [i \in 0..n |-> f[1..i]]
  OBVIOUS
<1>7. f[{}] = apps /\ 1..0 = {}
  BY <1>5
<1>8. h[0] = apps
  BY <1>1, <1>6, <1>7
<1>9. ASSUME NEW i \in 1..n
      PROVE  h[i] = Added(h[i - 1], t, t.keys[i])
  <2>1. 1..i \in SUBSET (1..n) /\ 1..i # {} /\ Max(1..i) = i /\ (1..i) \ {Max(1..i)} = 1..(i - 1)
    BY <1>1, LastOfInterval
  <2>2. f[1..i] = Added(f[1..(i - 1)], t, t.keys[i])
    BY <1>1, <1>5, <2>1 DEF Added
  <2>3. i \in 0..n /\ i - 1 \in 0..n
    BY <1>1
  <2>4. QED BY <1>6, <2>2, <2>3
<1>10. h[n] = f[1..n]
  BY <1>1, <1>6
<1>11. QED BY <1>5, <1>8, <1>9, <1>10

\* A service that is added has what it needs before it.
LEMMA AddedOrdered ==
    ASSUME NEW t \in Template, NEW apps, Ordered(apps, t), NEW s \in ToSet(t.keys)
    PROVE  LET next == Added(apps, t, s)
           IN  /\ Ordered(next, t)
               /\ ToSet(apps) \subseteq ToSet(next)
               /\ Len(apps) <= Len(next)
               /\ t.needs[s] \subseteq ToSet(apps) => s \in ToSet(next)
<1>1. CASE s \in ToSet(apps) \/ ~(t.needs[s] \subseteq ToSet(apps))
  <2>1. Added(apps, t, s) = apps
    BY <1>1 DEF Added
  <2>2. Len(apps) \in Nat
    BY DEF Ordered
  <2>3. QED BY <1>1, <2>1, <2>2
<1>2. CASE s \notin ToSet(apps) /\ t.needs[s] \subseteq ToSet(apps)
  <2>1. PICK next : next = Append(apps, s)
    OBVIOUS
  <2>2. s \in Apps /\ apps \in Seq(Apps)
    BY KeysAre DEF Ordered
  <2>3. /\ next \in Seq(Apps)
        /\ Len(next) = Len(apps) + 1
        /\ DOMAIN next = 1..(Len(apps) + 1)
        /\ \A i \in 1..Len(apps) : next[i] = apps[i]
        /\ next[Len(apps) + 1] = s
    BY <2>1, <2>2
  <2>4. DOMAIN apps = 1..Len(apps) /\ Len(apps) \in Nat
    BY <2>2
  <2>5. ToSet(next) = ToSet(apps) \cup {s}
    <3>1. ToSet(next) = {next[i] : i \in 1..(Len(apps) + 1)} /\ ToSet(apps) = {apps[i] : i \in 1..Len(apps)}
      BY <2>3, <2>4 DEF ToSet
    <3>2. QED BY <2>3, <2>4, <3>1
  <2>6. IsInjective(next)
    <3>1. \A i, k \in 1..Len(apps) : next[i] = next[k] => i = k
      BY <2>3, <2>4 DEF Ordered, IsInjective
    <3>2. \A i \in 1..Len(apps) : next[i] # s
      BY <1>2, <2>3, <2>4 DEF ToSet
    <3>3. \A i \in DOMAIN next : i \in 1..Len(apps) \/ i = Len(apps) + 1
      BY <2>3, <2>4
    <3>4. QED BY <2>3, <3>1, <3>2, <3>3 DEF IsInjective
  <2>7. ASSUME NEW i \in 1..Len(next), NEW u \in t.needs[next[i]]
        PROVE  \E k \in 1..(i - 1) : next[k] = u
    <3>1. CASE i \in 1..Len(apps)
      <4>1. PICK k \in 1..(i - 1) : apps[k] = u
        BY <2>3, <2>7, <3>1 DEF Ordered
      <4>2. k \in 1..Len(apps)
        BY <2>4, <3>1
      <4>3. QED BY <2>3, <4>1, <4>2
    <3>2. CASE i = Len(apps) + 1
      <4>1. PICK k \in 1..Len(apps) : apps[k] = u
        BY <1>2, <2>3, <2>4, <2>7, <3>2 DEF ToSet
      <4>2. QED BY <2>3, <2>4, <3>2, <4>1
    <3>3. QED BY <2>3, <2>4, <3>1, <3>2
  <2>8. Ordered(next, t)
    BY <2>3, <2>5, <2>6, <2>7 DEF Ordered
  <2>9. Added(apps, t, s) = next
    BY <1>2, <2>1 DEF Added
  <2>10. QED BY <2>3, <2>4, <2>5, <2>8, <2>9
<1>3. QED BY <1>1, <1>2

LEMMA PassOrdered ==
    ASSUME NEW t \in Template, NEW apps, Ordered(apps, t)
    PROVE  /\ Ordered(Pass(apps, t), t)
           /\ ToSet(apps) \subseteq ToSet(Pass(apps, t))
           /\ Len(apps) <= Len(Pass(apps, t))
           /\ \A s \in ToSet(t.keys) : t.needs[s] \subseteq ToSet(apps) => s \in ToSet(Pass(apps, t))
<1> DEFINE n == Len(t.keys)
<1>1. /\ n \in Nat /\ DOMAIN t.keys = 1..n
      /\ \A i \in 1..n : t.keys[i] \in ToSet(t.keys)
      /\ apps \in Seq(Apps) /\ Len(apps) \in Nat
  BY KeysAre DEF ToSet, Ordered
<1>2. PICK h : /\ h[0] = apps
               /\ \A i \in 1..n : h[i] = Added(h[i - 1], t, t.keys[i])
               /\ Pass(apps, t) = h[n]
  BY <1>1, PassSteps
<1> DEFINE Fine(i) == /\ Ordered(h[i], t)
                      /\ ToSet(apps) \subseteq ToSet(h[i])
                      /\ Len(apps) <= Len(h[i])
                      /\ \A k \in 1..i : t.needs[t.keys[k]] \subseteq ToSet(apps) => t.keys[k] \in ToSet(h[i])
           T == {i \in Nat : i <= n => Fine(i)}
<1>3. 0 \in T
  BY <1>1, <1>2
<1>4. ASSUME NEW i \in Nat, i \in T
      PROVE  i + 1 \in T
  <2>1. CASE i + 1 <= n
    <3>1. i + 1 \in 1..n /\ (i + 1) - 1 = i /\ Fine(i)
      BY <1>1, <1>4, <2>1
    <3>2. h[i + 1] = Added(h[i], t, t.keys[i + 1])
      <4> HIDE DEF n
      <4>1. QED BY <1>2, <3>1
    <3>3. /\ Ordered(h[i + 1], t)
          /\ ToSet(h[i]) \subseteq ToSet(h[i + 1])
          /\ Len(h[i]) <= Len(h[i + 1])
          /\ t.needs[t.keys[i + 1]] \subseteq ToSet(h[i]) => t.keys[i + 1] \in ToSet(h[i + 1])
      BY <1>1, <3>1, <3>2, AddedOrdered
    <3>4. Len(h[i]) \in Nat /\ Len(h[i + 1]) \in Nat
      <4>1. h[i] \in Seq(Apps) /\ h[i + 1] \in Seq(Apps)
        BY <3>1, <3>3 DEF Ordered
      <4>2. QED BY <4>1
    <3>5. Len(apps) <= Len(h[i + 1]) /\ ToSet(apps) \subseteq ToSet(h[i + 1])
      BY <1>1, <3>1, <3>3, <3>4
    <3>6. ASSUME NEW k \in 1..(i + 1), t.needs[t.keys[k]] \subseteq ToSet(apps)
          PROVE  t.keys[k] \in ToSet(h[i + 1])
      <4>1. CASE k = i + 1
        BY <3>1, <3>3, <3>6, <4>1
      <4>2. CASE k \in 1..i
        BY <3>1, <3>3, <3>6, <4>2
      <4>3. QED BY <4>1, <4>2
    <3>7. Fine(i + 1) /\ i + 1 \in Nat
      BY <3>3, <3>5, <3>6
    <3> HIDE DEF Fine
    <3>8. QED BY <3>7
  <2>2. i + 1 \in Nat
    OBVIOUS
  <2>3. QED BY <2>1, <2>2
<1>5. Fine(n)
  <2>1. Nat \subseteq T
    <3> HIDE DEF T
    <3>1. QED BY <1>3, <1>4, AllNumbers
  <2> HIDE DEF Fine
  <2>2. QED BY <1>1, <2>1
<1>6. ASSUME NEW s \in ToSet(t.keys), t.needs[s] \subseteq ToSet(apps)
      PROVE  s \in ToSet(h[n])
  <2>1. PICK k \in 1..n : t.keys[k] = s
    BY <1>1 DEF ToSet
  <2>2. QED BY <1>5, <1>6, <2>1
<1>7. QED BY <1>2, <1>5, <1>6

\* The iterations, from none to one more than there are services.
LEMMA OrderSteps ==
    ASSUME NEW t \in Template
    PROVE  \E h : /\ h[0] = <<>>
                  /\ \A n \in Nat : h[n + 1] = Pass(h[n], t) /\ Ordered(h[n], t)
                  /\ InOrder(t) = h[Len(t.keys) + 1]
<1> DEFINE A == {apps \in Seq(Apps) : Ordered(apps, t)}
           step == [x \in Nat \X A |-> Pass(x[2], t)]
           Repeats(g) == g = [n \in Nat |-> IF n = 0 THEN <<>> ELSE Pass(g[n - 1], t)]
<1>1. <<>> \in A
  <2>1. <<>> \in Seq(Apps) /\ Len(<<>>) = 0 /\ DOMAIN <<>> = {} /\ 1..0 = {}
    OBVIOUS
  <2>2. Ordered(<<>>, t)
    BY <2>1 DEF Ordered, IsInjective, ToSet
  <2>3. QED BY <2>1, <2>2
<1>2. step \in [Nat \X A -> A]
  <2>1. \A apps \in A : Pass(apps, t) \in A
    BY PassOrdered DEF Ordered
  <2> HIDE DEF A
  <2>2. QED BY <2>1
<1>3. PICK g \in [Nat -> A] : IsRecursion(g, <<>>, step)
  <2> HIDE DEF A, step
  <2>1. QED BY <1>1, <1>2, RecursionExists
<1>4. Repeats(g)
  <2>1. ASSUME NEW n \in Nat
        PROVE  g[n] = IF n = 0 THEN <<>> ELSE Pass(g[n - 1], t)
    <3>1. n # 0 => n - 1 \in Nat /\ g[n - 1] \in A
      BY <1>3
    <3> HIDE DEF A
    <3>2. QED BY <1>3, <3>1 DEF IsRecursion
  <2>2. QED BY <1>3, <2>1
<1>5. InOrder(t) = (CHOOSE f : Repeats(f))[Len(t.keys) + 1]
  BY Zenon DEF InOrder
<1>6. PICK f : Repeats(f) /\ InOrder(t) = f[Len(t.keys) + 1]
  <2> HIDE DEF Repeats
  <2>1. QED BY <1>4, <1>5, Zenon
<1>7. f[0] = <<>> /\ \A n \in Nat : f[n + 1] = Pass(f[n], t)
  <2>1. \A n \in Nat : n + 1 \in Nat /\ n + 1 # 0 /\ (n + 1) - 1 = n
    OBVIOUS
  <2>2. QED BY <1>6, <2>1
<1>8. \A n \in Nat : Ordered(f[n], t)
  <2> DEFINE T == {n \in Nat : Ordered(f[n], t)}
  <2>1. 0 \in T
    BY <1>1, <1>7
  <2>2. ASSUME NEW n \in Nat, n \in T
        PROVE  n + 1 \in T
    BY <1>7, <2>2, PassOrdered
  <2>3. Nat \subseteq T
    <3> HIDE DEF T
    <3>1. QED BY <2>1, <2>2, AllNumbers
  <2>4. QED BY <2>3
<1>9. QED BY <1>6, <1>7, <1>8

LEMMA SizeOf ==
    ASSUME NEW E, NEW s \in Seq(E)
    PROVE  /\ IsFiniteSet(ToSet(s)) /\ Cardinality(ToSet(s)) \in Nat
           /\ Cardinality(ToSet(s)) <= Len(s)
           /\ IsInjective(s) => Cardinality(ToSet(s)) = Len(s)
<1>1. Len(s) \in Nat /\ s \in [1..Len(s) -> ToSet(s)]
  BY DEF ToSet
<1>2. s \in Surjection(1..Len(s), ToSet(s))
  BY <1>1 DEF Surjection, ToSet
<1>3. IsFiniteSet(1..Len(s)) /\ Cardinality(1..Len(s)) = Len(s)
  BY <1>1, FS_Interval
<1>4. IsInjective(s) => s \in Injection(1..Len(s), ToSet(s))
  BY <1>1 DEF Injection
<1>5. QED BY <1>2, <1>3, <1>4, FS_Surjection, FS_CardinalityType

Blocked(S, t) == \A s \in S : t.needs[s] \ (ToSet(t.keys) \ S) # {}

\* Services of which each needs another one of them, or what nobody defines,
\* are never added.
LEMMA UnsolvableStays ==
    ASSUME NEW t \in Template, NEW apps, Ordered(apps, t),
           NEW S \in SUBSET ToSet(t.keys), Blocked(S, t)
    PROVE  ToSet(apps) \cap S = {}
<1> DEFINE T == {n \in Nat : \A i \in 1..Len(apps) : i <= n => apps[i] \notin S}
<1>1. Len(apps) \in Nat /\ DOMAIN apps = 1..Len(apps)
  BY DEF Ordered
<1>2. 0 \in T
  BY <1>1
<1>3. ASSUME NEW n \in Nat, n \in T
      PROVE  n + 1 \in T
  <2>1. ASSUME NEW i \in 1..Len(apps), i <= n + 1, apps[i] \in S
        PROVE  FALSE
    <3>1. PICK u \in t.needs[apps[i]] : u \notin ToSet(t.keys) \ S
      BY <2>1 DEF Blocked
    <3>2. PICK k \in 1..(i - 1) : apps[k] = u
      BY DEF Ordered
    <3>3. k \in 1..Len(apps) /\ k <= n
      BY <1>1, <2>1
    <3>4. u \in ToSet(t.keys)
      BY <1>1, <3>2, <3>3 DEF Ordered, ToSet
    <3>5. QED BY <1>3, <3>1, <3>2, <3>3, <3>4
  <2>2. n + 1 \in Nat
    OBVIOUS
  <2>3. QED BY <2>1, <2>2
<1>4. Nat \subseteq T
  <2> HIDE DEF T
  <2>1. QED BY <1>2, <1>3, AllNumbers
<1>5. QED BY <1>1, <1>4 DEF ToSet

\* createAppsArrayInOrder finds an order exactly when there is one.
LEMMA ResolvedIff ==
    ASSUME NEW t \in Templates
    PROVE  Resolved(t) <=> t.keys # <<>> /\ ~Unsolvable(t)
<1> DEFINE n == Len(t.keys)
<1>1. t \in Template /\ IsInjective(t.keys)
  BY OneClickAssumption
<1>2. /\ n \in Nat /\ IsFiniteSet(ToSet(t.keys)) /\ Cardinality(ToSet(t.keys)) = n
  BY <1>1, KeysAre, SizeOf
<1>3. PICK h : /\ h[0] = <<>>
               /\ \A i \in Nat : h[i + 1] = Pass(h[i], t) /\ Ordered(h[i], t)
               /\ InOrder(t) = h[n + 1]
  BY <1>1, OrderSteps
<1>4. \A i \in Nat : /\ Ordered(h[i], t) /\ h[i] \in Seq(Apps) /\ Len(h[i]) \in Nat
                     /\ Cardinality(ToSet(h[i])) = Len(h[i])
                     /\ ToSet(h[i]) \subseteq ToSet(t.keys)
  BY <1>3, SizeOf DEF Ordered
<1>5. ASSUME Len(InOrder(t)) = n, Unsolvable(t)
      PROVE  FALSE
  <2>1. PICK S \in (SUBSET ToSet(t.keys)) \ {{}} : Blocked(S, t)
    BY <1>5 DEF Unsolvable, Blocked
  <2>2. n + 1 \in Nat
    BY <1>2
  <2>3. ToSet(h[n + 1]) = ToSet(t.keys)
    BY <1>2, <1>3, <1>4, <1>5, <2>2, FS_Subset
  <2>4. S \in SUBSET ToSet(t.keys) /\ S # {} /\ Ordered(h[n + 1], t)
    BY <1>4, <2>1, <2>2
  <2>5. ToSet(h[n + 1]) \cap S = {}
    BY <1>1, <2>1, <2>4, UnsolvableStays
  <2>6. QED BY <2>3, <2>4, <2>5
<1>6. ASSUME ~Unsolvable(t), NEW i \in Nat, ToSet(h[i]) # ToSet(t.keys)
      PROVE  Len(h[i + 1]) >= Len(h[i]) + 1
  <2>1. PICK S : S = ToSet(t.keys) \ ToSet(h[i])
    OBVIOUS
  <2>2. S # {} /\ S \in SUBSET ToSet(t.keys) /\ ToSet(t.keys) \ S = ToSet(h[i])
    BY <1>4, <1>6, <2>1
  <2>3. PICK s \in S : t.needs[s] \ ToSet(h[i]) = {}
    BY <1>6, <2>2 DEF Unsolvable
  <2>4. s \in ToSet(h[i + 1]) /\ s \notin ToSet(h[i]) /\ ToSet(h[i]) \subseteq ToSet(h[i + 1])
    BY <1>1, <1>3, <2>1, <2>3, PassOrdered
  <2>5. i + 1 \in Nat
    OBVIOUS
  <2>6. IsFiniteSet(ToSet(h[i + 1]))
    BY <1>4, <2>5, SizeOf
  <2>7. /\ Cardinality(ToSet(h[i])) <= Cardinality(ToSet(h[i + 1]))
        /\ Cardinality(ToSet(h[i])) # Cardinality(ToSet(h[i + 1]))
    BY <2>4, <2>6, FS_Subset
  <2>8. QED BY <1>4, <2>5, <2>7
<1>7. ASSUME ~Unsolvable(t)
      PROVE  Len(InOrder(t)) = n
  <2> DEFINE T == {i \in Nat : Len(h[i]) >= i \/ Len(h[i]) = n}
  <2>1. 0 \in T
    BY <1>4
  <2>2. ASSUME NEW i \in Nat, i \in T
        PROVE  i + 1 \in T
    <3>1. i + 1 \in Nat /\ Len(h[i]) \in Nat /\ Len(h[i + 1]) \in Nat
      BY <1>4
    <3>2. CASE ToSet(h[i]) = ToSet(t.keys)
      <4>1. Len(h[i]) = n /\ Len(h[i + 1]) >= Len(h[i])
        BY <1>1, <1>2, <1>3, <1>4, <3>2, PassOrdered
      <4>2. Len(h[i + 1]) <= n
        BY <1>2, <1>4, <3>1, FS_Subset
      <4>3. QED BY <1>2, <3>1, <4>1, <4>2
    <3>3. CASE ToSet(h[i]) # ToSet(t.keys)
      <4>1. Len(h[i + 1]) >= Len(h[i]) + 1
        BY <1>6, <1>7, <3>3
      <4>2. Len(h[i]) # n
        BY <1>2, <1>4, <3>3, FS_Subset
      <4>3. QED BY <2>2, <3>1, <4>1, <4>2
    <3>4. QED BY <3>2, <3>3
  <2>3. n + 1 \in T
    <3>1. Nat \subseteq T
      <4> HIDE DEF T
      <4>1. QED BY <2>1, <2>2, AllNumbers
    <3>2. QED BY <1>2, <3>1
  <2>4. n + 1 \in Nat /\ Len(h[n + 1]) <= n /\ Len(h[n + 1]) \in Nat
    <3>1. n + 1 \in Nat
      BY <1>2
    <3>2. QED BY <1>2, <1>4, <3>1, FS_Subset
  <2>5. Len(h[n + 1]) = n
    BY <1>2, <2>3, <2>4
  <2>6. QED BY <1>3, <2>5
<1>8. QED BY <1>5, <1>7 DEF Resolved

-----------------------------------------------------------------------------
(* The steps of a chain.                                                   *)

LEMMA FlattenSteps ==
    ASSUME NEW E, NEW n \in Nat \ {0}, NEW q \in [1..n -> Seq(E)]
    PROVE  \E h : /\ h[1] = q[1]
                  /\ \A i \in 2..n : h[i] = h[i - 1] \o q[i]
                  /\ FlattenSeq(q) = h[n]
<1> DEFINE step == [x \in Nat \X Seq(E) |-> IF x[1] \in 1..n THEN x[2] \o q[x[1]] ELSE x[2]]
           Flat(f) == f = [i \in 1..Len(q) |-> IF i = 1 THEN q[i] ELSE f[i - 1] \o q[i]]
<1>1. q \in Seq(Seq(E)) /\ Len(q) = n /\ Len(q) # 0
  OBVIOUS
<1>2. step \in [Nat \X Seq(E) -> Seq(E)]
  <2>1. \A i \in 1..n : q[i] \in Seq(E)
    OBVIOUS
  <2>2. \A s \in Seq(E), i \in 1..n : s \o q[i] \in Seq(E)
    BY <2>1
  <2>3. QED BY <2>2
<1>3. PICK g \in [Nat -> Seq(E)] : IsRecursion(g, <<>>, step)
  <2>1. <<>> \in Seq(E)
    OBVIOUS
  <2> HIDE DEF step
  <2>2. QED BY <1>2, <2>1, RecursionExists
<1>4. PICK k : k = [i \in 1..n |-> g[i]]
  OBVIOUS
<1>5. Flat(k)
  <2>1. ASSUME NEW i \in 1..n
        PROVE  k[i] = IF i = 1 THEN q[i] ELSE k[i - 1] \o q[i]
    <3>1. i \in Nat /\ i # 0 /\ i - 1 \in Nat
      OBVIOUS
    <3>2. q[i] \in Seq(E) /\ g[i - 1] \in Seq(E)
      BY <1>3, <3>1
    <3>3. g[i] = g[i - 1] \o q[i]
      <4>1. g[i] = step[<<i, g[i - 1]>>]
        <5> HIDE DEF step
        <5>1. QED BY <1>3, <3>1 DEF IsRecursion
      <4>2. <<i, g[i - 1]>> \in Nat \X Seq(E)
        BY <3>1, <3>2
      <4>3. QED BY <4>1, <4>2
    <3>4. CASE i = 1
      <4>1. g[0] = <<>>
        BY <1>3 DEF IsRecursion
      <4>2. g[i - 1] = g[0]
        BY <3>4
      <4>3. g[i] = q[i]
        <5>1. \A u \in Seq(E) : <<>> \o u = u
          OBVIOUS
        <5>2. QED BY <3>2, <3>3, <4>1, <4>2, <5>1
      <4>4. QED BY <1>4, <3>4, <4>3
    <3>5. CASE i # 1
      <4>1. i - 1 \in 1..n
        BY <3>1, <3>5
      <4>2. QED BY <1>4, <3>3, <3>5, <4>1
    <3>6. QED BY <3>4, <3>5
  <2>2. k = [i \in 1..n |-> k[i]]
    BY <1>4
  <2>3. QED BY <1>1, <2>1, <2>2
<1>6. FlattenSeq(q) = (CHOOSE f : Flat(f))[Len(q)]
  BY <1>1, Zenon DEF FlattenSeq
<1>7. PICK h : Flat(h) /\ FlattenSeq(q) = h[n]
  <2> HIDE DEF Flat
  <2>1. QED BY <1>1, <1>5, <1>6, Zenon
<1>8. \A i \in 1..n : h[i] = IF i = 1 THEN q[i] ELSE h[i - 1] \o q[i]
  <2>1. h = [i \in 1..n |-> IF i = 1 THEN q[i] ELSE h[i - 1] \o q[i]]
    BY <1>1, <1>7
  <2>2. QED BY <2>1, Zenon
<1>9. h[1] = q[1] /\ \A i \in 2..n : h[i] = h[i - 1] \o q[i]
  <2>1. 1 \in 1..n /\ \A i \in 2..n : i \in 1..n /\ i # 1
    OBVIOUS
  <2>2. QED BY <1>8, <2>1
<1>10. QED BY <1>7, <1>9

\* What the concatenation of two sequences holds.
IsJoin(w, u, v, m, n, E) ==
    /\ w \in Seq(E) /\ Len(w) = m + n
    /\ \A x \in 1..m : w[x] = u[x]
    /\ \A x \in 1..n : w[m + x] = v[x]

LEMMA Joined ==
    ASSUME NEW E, NEW u \in Seq(E), NEW v \in Seq(E), NEW m, NEW n, Len(u) = m, Len(v) = n
    PROVE  IsJoin(u \o v, u, v, m, n, E)
<1>1. m \in Nat /\ n \in Nat
  OBVIOUS
<1>2. u \o v \in Seq(E) /\ Len(u \o v) = m + n
  OBVIOUS
<1>3. \A x \in 1..m : (u \o v)[x] = u[x]
  OBVIOUS
<1>4. \A x \in 1..n : (u \o v)[m + x] = v[x]
  OBVIOUS
<1>5. QED BY <1>1, <1>2, <1>3, <1>4 DEF IsJoin

Triples(q, n) == \A k \in 1..n : Len(q[k]) = 3

LEMMA FlattenTriples ==
    ASSUME NEW E, NEW n \in Nat \ {0}, NEW q \in [1..n -> Seq(E)], Triples(q, n)
    PROVE  /\ FlattenSeq(q) \in Seq(E) /\ Len(FlattenSeq(q)) = 3 * n
           /\ \A k \in 1..n : \A l \in 1..3 : FlattenSeq(q)[3 * (k - 1) + l] = q[k][l]
<1>1. PICK h : /\ h[1] = q[1]
               /\ \A i \in 2..n : h[i] = h[i - 1] \o q[i]
               /\ FlattenSeq(q) = h[n]
  BY FlattenSteps
<1> DEFINE Flat(i) == /\ h[i] \in Seq(E) /\ Len(h[i]) = 3 * i
                      /\ \A k \in 1..i : \A l \in 1..3 : h[i][3 * (k - 1) + l] = q[k][l]
           T == {m \in Nat : m < n => Flat(m + 1)}
<1>2. 0 \in T
  <2>1. q[1] \in Seq(E) /\ Len(q[1]) = 3
    BY DEF Triples
  <2>2. \A k \in 1..1 : k = 1
    OBVIOUS
  <2>3. \A l \in 1..3 : 3 * (1 - 1) + l = l
    OBVIOUS
  <2>4. Flat(1)
    BY <1>1, <2>1, <2>2, <2>3
  <2>5. QED BY <2>4
<1>3. ASSUME NEW m \in Nat, m \in T
      PROVE  m + 1 \in T
  <2>1. CASE m + 1 < n
    <3>1. m + 2 \in 2..n /\ (m + 2) - 1 = m + 1 /\ Flat(m + 1) /\ m + 2 \in 1..n
      BY <1>3, <2>1
    <3>2. q[m + 2] \in Seq(E) /\ Len(q[m + 2]) = 3 /\ h[m + 1] \in Seq(E) /\ Len(h[m + 1]) = 3 * (m + 1)
      BY <3>1 DEF Triples
    <3>3. h[m + 2] = h[m + 1] \o q[m + 2]
      BY <1>1, <3>1
    <3>4. /\ h[m + 2] \in Seq(E) /\ Len(h[m + 2]) = 3 * (m + 1) + 3
          /\ \A x \in 1..(3 * (m + 1)) : h[m + 2][x] = h[m + 1][x]
          /\ \A x \in 1..3 : h[m + 2][3 * (m + 1) + x] = q[m + 2][x]
      <4>1. IsJoin(h[m + 1] \o q[m + 2], h[m + 1], q[m + 2], 3 * (m + 1), 3, E)
        BY <3>2, Joined, Zenon
      <4>2. IsJoin(h[m + 2], h[m + 1], q[m + 2], 3 * (m + 1), 3, E)
        BY <3>3, <4>1, Zenon
      <4>3. QED BY <4>2 DEF IsJoin
    <3>5. ASSUME NEW k \in 1..(m + 2), NEW l \in 1..3
          PROVE  h[m + 2][3 * (k - 1) + l] = q[k][l]
      <4>1. CASE k = m + 2
        <5>1. 3 * (k - 1) + l = 3 * (m + 1) + l
          BY <4>1
        <5>2. QED BY <3>4, <4>1, <5>1
      <4>2. CASE k \in 1..(m + 1)
        <5>1. 3 * (k - 1) + l \in 1..(3 * (m + 1))
          BY <4>2
        <5>2. QED BY <3>1, <3>4, <4>2, <5>1
      <4>3. QED BY <4>1, <4>2
    <3>6. Len(h[m + 2]) = 3 * (m + 2)
      BY <3>4
    <3>7. Flat(m + 2) /\ (m + 1) + 1 = m + 2
      BY <3>4, <3>5, <3>6
    <3> HIDE DEF Flat
    <3>8. QED BY <3>7
  <2>2. QED BY <2>1
<1>4. Flat(n)
  <2>1. Nat \subseteq T
    <3> HIDE DEF T
    <3>1. QED BY <1>2, <1>3, AllNumbers
  <2>2. n - 1 \in Nat /\ n - 1 < n /\ (n - 1) + 1 = n
    OBVIOUS
  <2> HIDE DEF Flat
  <2>3. QED BY <2>1, <2>2
<1>5. QED BY <1>1, <1>4

StepKinds == {"project", "register", "configure", "deploy"}
Lead(t) == IF Len(t.keys) > 1 THEN 1 ELSE 0

LEMMA StepsAre ==
    ASSUME NEW t \in Templates, Resolved(t)
    PROVE  /\ Steps(t) \in Seq(StepKinds \X (Apps \cup {None}))
           /\ Len(Steps(t)) = Lead(t) + 3 * Len(t.keys)
           /\ Lead(t) = 1 => Steps(t)[1] = <<"project", None>>
           /\ \A k \in 1..Len(t.keys) :
                 /\ Steps(t)[Lead(t) + 3 * (k - 1) + 1] = <<"register", InOrder(t)[k]>>
                 /\ Steps(t)[Lead(t) + 3 * (k - 1) + 2] = <<"configure", InOrder(t)[k]>>
                 /\ Steps(t)[Lead(t) + 3 * (k - 1) + 3] = <<"deploy", InOrder(t)[k]>>
<1> DEFINE n == Len(t.keys)
           E == StepKinds \X (Apps \cup {None})
           q == [i \in 1..n |-> StepsOf(InOrder(t)[i])]
<1>1. t \in Template
  BY OneClickAssumption
<1>2. n \in Nat \ {0}
  <2>1. t.keys \in Seq(Apps) /\ t.keys # <<>> /\ n \in Nat
    BY <1>1, KeysAre DEF Resolved
  <2>2. n # 0
    <3>1. PICK keys : keys = t.keys
      OBVIOUS
    <3>2. Len(keys) # 0
      BY <2>1, <3>1
    <3>3. QED BY <3>1, <3>2
  <2>3. QED BY <2>1, <2>2
<1>3. InOrder(t) \in Seq(Apps) /\ Len(InOrder(t)) = n
  <2>1. PICK h : (\A m \in Nat : Ordered(h[m], t)) /\ InOrder(t) = h[n + 1]
    BY <1>1, OrderSteps
  <2>2. n + 1 \in Nat
    BY <1>2
  <2>3. QED BY <2>1, <2>2 DEF Ordered, Resolved
<1>4. ASSUME NEW i \in 1..n
      PROVE  /\ q[i] \in Seq(E) /\ Len(q[i]) = 3
             /\ q[i][1] = <<"register", InOrder(t)[i]>>
             /\ q[i][2] = <<"configure", InOrder(t)[i]>>
             /\ q[i][3] = <<"deploy", InOrder(t)[i]>>
  <2>1. PICK a : a = InOrder(t)[i]
    OBVIOUS
  <2>2. a \in Apps
    BY <1>2, <1>3, <2>1
  <2>3. q[i] = <<<<"register", a>>, <<"configure", a>>, <<"deploy", a>>>>
    BY <2>1 DEF StepsOf
  <2>4. \A x \in StepKinds : <<x, a>> \in E
    BY <2>2
  <2>5. <<"register", a>> \in E /\ <<"configure", a>> \in E /\ <<"deploy", a>> \in E
    BY <2>4 DEF StepKinds
  <2> HIDE DEF E
  <2>6. \A x \in E, y \in E, z \in E :
           <<x, y, z>> \in Seq(E) /\ Len(<<x, y, z>>) = 3
           /\ <<x, y, z>>[1] = x /\ <<x, y, z>>[2] = y /\ <<x, y, z>>[3] = z
    OBVIOUS
  <2>7. PICK u : u = q[i]
    OBVIOUS
  <2>8. u \in Seq(E) /\ Len(u) = 3 /\ u[1] = <<"register", a>> /\ u[2] = <<"configure", a>> /\ u[3] = <<"deploy", a>>
    <3> HIDE DEF q
    <3>1. u = <<<<"register", a>>, <<"configure", a>>, <<"deploy", a>>>>
      BY <2>3, <2>7
    <3>2. QED BY <2>5, <2>6, <3>1
  <2> HIDE DEF q
  <2>9. QED BY <2>1, <2>7, <2>8, Zenon
<1>5. /\ FlattenSeq(q) \in Seq(E) /\ Len(FlattenSeq(q)) = 3 * n
      /\ \A k \in 1..n : \A l \in 1..3 : FlattenSeq(q)[3 * (k - 1) + l] = q[k][l]
  <2>1. Triples(q, n)
    BY <1>4 DEF Triples
  <2>2. q \in [1..n -> Seq(E)]
    <3>1. q = [i \in 1..n |-> q[i]]
      OBVIOUS
    <3> HIDE DEF q, E
    <3>2. QED BY <1>4, <3>1
  <2> HIDE DEF q, E, n
  <2>3. QED BY <1>2, <2>1, <2>2, FlattenTriples
<1>6. PICK lead : lead = IF n > 1 THEN <<<<"project", None>>>> ELSE <<>>
  OBVIOUS
<1>7. Steps(t) = lead \o FlattenSeq(q)
  BY <1>6 DEF Steps
<1>8. lead \in Seq(E) /\ Len(lead) = Lead(t) /\ (Lead(t) = 1 => lead[1] = <<"project", None>>) /\ Lead(t) \in {0, 1}
  <2>1. CASE n > 1
    <3>1. <<"project", None>> \in E
      BY DEF StepKinds
    <3>2. lead = <<<<"project", None>>>> /\ Lead(t) = 1
      BY <1>6, <2>1 DEF Lead
    <3> HIDE DEF E
    <3>3. QED BY <3>1, <3>2
  <2>2. CASE ~(n > 1)
    <3>1. lead = <<>> /\ Lead(t) = 0
      BY <1>6, <2>2 DEF Lead
    <3> HIDE DEF E
    <3>2. QED BY <3>1
  <2>3. QED BY <2>1, <2>2
<1>9. PICK flat : flat = FlattenSeq(q)
  OBVIOUS
<1>10. /\ lead \o flat \in Seq(E) /\ Len(lead \o flat) = Lead(t) + 3 * n
       /\ \A x \in 1..Lead(t) : (lead \o flat)[x] = lead[x]
       /\ \A x \in 1..(3 * n) : (lead \o flat)[Lead(t) + x] = flat[x]
  <2>1. Lead(t) \in Nat /\ 3 * n \in Nat
    BY <1>2, <1>8
  <2>2. flat \in Seq(E) /\ Len(flat) = 3 * n
    BY <1>5, <1>9
  <2> HIDE DEF q, E
  <2>3. IsJoin(lead \o flat, lead, flat, Lead(t), 3 * n, E)
    BY <1>8, <2>2, Joined, Zenon
  <2>4. QED BY <2>3 DEF IsJoin
<1>11. ASSUME NEW k \in 1..n, NEW l \in 1..3
       PROVE  (lead \o flat)[Lead(t) + 3 * (k - 1) + l] = q[k][l]
  <2>1. 3 * (k - 1) + l \in 1..(3 * n) /\ Lead(t) + 3 * (k - 1) + l = Lead(t) + (3 * (k - 1) + l)
    BY <1>2, <1>8
  <2> HIDE DEF q, E, n
  <2>2. QED BY <1>5, <1>9, <1>10, <2>1
<1>12. Steps(t) = lead \o flat
  BY <1>7, <1>9
<1>13. Lead(t) = 1 => (lead \o flat)[1] = <<"project", None>>
  <2>1. 1 \in 1..1
    OBVIOUS
  <2>2. QED BY <1>8, <1>10, <2>1
<1>14. ASSUME NEW k \in 1..n
       PROVE  /\ (lead \o flat)[Lead(t) + 3 * (k - 1) + 1] = <<"register", InOrder(t)[k]>>
              /\ (lead \o flat)[Lead(t) + 3 * (k - 1) + 2] = <<"configure", InOrder(t)[k]>>
              /\ (lead \o flat)[Lead(t) + 3 * (k - 1) + 3] = <<"deploy", InOrder(t)[k]>>
  <2>1. 1 \in 1..3 /\ 2 \in 1..3 /\ 3 \in 1..3
    OBVIOUS
  <2> HIDE DEF q, n, E
  <2>2. QED BY <1>4, <1>11, <2>1
<1>15. QED BY <1>10, <1>12, <1>13, <1>14

-----------------------------------------------------------------------------
(* The trees of the projects.                                               *)

Trees == UNION {[D -> ProjectIds \cup {None}] : D \in SUBSET ProjectIds}
Outcomes == [parent : Trees, rejected : Nat]

LEMMA TreesAre ==
    \A q : q \in Trees <=> /\ q = [p \in DOMAIN q |-> q[p]]
                           /\ DOMAIN q \subseteq ProjectIds
                           /\ \A p \in DOMAIN q : q[p] \in ProjectIds \cup {None}
<1>1. ASSUME NEW q, q \in Trees
      PROVE  /\ q = [p \in DOMAIN q |-> q[p]]
             /\ DOMAIN q \subseteq ProjectIds
             /\ \A p \in DOMAIN q : q[p] \in ProjectIds \cup {None}
  <2>1. PICK D \in SUBSET ProjectIds : q \in [D -> ProjectIds \cup {None}]
    BY <1>1 DEF Trees
  <2>2. QED BY <2>1
<1>2. ASSUME NEW q, q = [p \in DOMAIN q |-> q[p]], DOMAIN q \subseteq ProjectIds,
             \A p \in DOMAIN q : q[p] \in ProjectIds \cup {None}
      PROVE  q \in Trees
  <2>1. q \in [DOMAIN q -> ProjectIds \cup {None}]
    BY <1>2
  <2>2. QED BY <1>2, <2>1 DEF Trees
<1>3. QED BY <1>1, <1>2

\* Nothing refers to a project that is not there.
Whole(q) ==
    /\ \A p \in DOMAIN q : q[p] \in DOMAIN q \cup {None}
    /\ \A a \in DOMAIN appProject : appProject[a] \in Projects => appProject[a] \in DOMAIN q

LEMMA DeleteOne ==
    ASSUME NEW acc \in Outcomes, NEW id \in ProjectIds
    PROVE  /\ DeleteProject(acc, id) \in Outcomes
           /\ Whole(acc.parent) => Whole(DeleteProject(acc, id).parent)
<1>1. acc.parent \in Trees /\ acc.rejected \in Nat
  BY DEF Outcomes
<1>2. CASE acc.rejected = 2
  BY <1>2 DEF DeleteProject
<1>3. CASE DeleteProject(acc, id) = [acc EXCEPT !.rejected = @ + 1]
  <2>1. DeleteProject(acc, id).parent = acc.parent
    BY <1>3 DEF Outcomes
  <2>2. DeleteProject(acc, id) \in Outcomes
    BY <1>1, <1>3 DEF Outcomes
  <2>3. QED BY <2>1, <2>2
<1>4. CASE /\ DeleteProject(acc, id) = [acc EXCEPT !.parent = Without(@, id)]
           /\ \A a \in DOMAIN appProject : appProject[a] # id
           /\ \A p \in DOMAIN acc.parent : acc.parent[p] # id
  <2>1. PICK q : q = acc.parent
    OBVIOUS
  <2>2. PICK r : r = Without(q, id)
    OBVIOUS
  <2>3. DOMAIN r = DOMAIN q \ {id} /\ r = [p \in DOMAIN r |-> r[p]] /\ \A p \in DOMAIN r : r[p] = q[p]
    BY <2>2 DEF Without
  <2>4. r \in Trees
    BY <1>1, <2>1, <2>3, TreesAre
  <2>5. DeleteProject(acc, id) = [acc EXCEPT !.parent = r]
    BY <1>4, <2>1, <2>2
  <2>6. DeleteProject(acc, id) \in Outcomes /\ DeleteProject(acc, id).parent = r
    BY <2>4, <2>5 DEF Outcomes
  <2>7. Whole(q) => Whole(r)
    BY <1>4, <2>1, <2>3 DEF Whole
  <2>8. QED BY <2>1, <2>6, <2>7
<1>5. QED BY <1>2, <1>3, <1>4 DEF DeleteProject

\* The timers delete the projects of the order in turn.
LEMMA DeletionSteps ==
    ASSUME op.order \in Seq(ProjectIds), parent \in Trees
    PROVE  \E h : /\ h[0] = [parent |-> parent, rejected |-> 0]
                  /\ \A i \in 1..Len(op.order) : h[i] = DeleteProject(h[i - 1], op.order[i])
                  /\ Deletion = h[Len(op.order)]
<1> DEFINE n == Len(op.order)
           base == [parent |-> parent, rejected |-> 0]
           step == [x \in (1..n) \X Outcomes |-> DeleteProject(x[2], op.order[x[1]])]
           pick == [d \in SUBSET (1..n) |-> Max(d)]
           Folds(g) == g = [d \in SUBSET DOMAIN op.order |->
              IF d = {} THEN base ELSE DeleteProject(g[d \ {Max(d)}], op.order[Max(d)])]
<1>1. n \in Nat /\ DOMAIN op.order = 1..n /\ \A i \in 1..n : op.order[i] \in ProjectIds
  OBVIOUS
<1>2. PICK g \in [SUBSET (1..n) -> Outcomes] : IsFold(g, 1..n, pick, base, step)
  <2>1. IsFiniteSet(1..n)
    BY <1>1, FS_Interval
  <2>2. Picks(pick, 1..n)
    BY <1>1, LastFirst DEF Picks
  <2>3. step \in [(1..n) \X Outcomes -> Outcomes]
    <3>1. \A acc \in Outcomes, i \in 1..n : DeleteProject(acc, op.order[i]) \in Outcomes
      BY <1>1, DeleteOne
    <3>2. QED BY <3>1
  <2>4. base \in Outcomes
    BY DEF Outcomes
  <2> HIDE DEF step, pick, n, base
  <2>5. QED BY <2>1, <2>2, <2>3, <2>4, FoldExists
<1>3. Folds(g)
  <2>1. ASSUME NEW d \in SUBSET (1..n), d # {}
        PROVE  g[d] = DeleteProject(g[d \ {Max(d)}], op.order[Max(d)])
    <3>1. Max(d) \in 1..n /\ d \ {Max(d)} \in SUBSET (1..n) /\ pick[d] = Max(d)
      BY <1>1, <2>1, LastFirst
    <3>2. g[d] = step[<<Max(d), g[d \ {Max(d)}]>>] /\ g[d \ {Max(d)}] \in Outcomes
      BY <1>2, <2>1, <3>1 DEF IsFold
    <3>3. QED BY <3>1, <3>2
  <2>2. g = [d \in SUBSET (1..n) |-> g[d]] /\ g[{}] = base
    BY <1>2 DEF IsFold
  <2> HIDE DEF base
  <2>3. QED BY <1>1, <2>1, <2>2
<1>4. Deletion = (CHOOSE f : Folds(f))[DOMAIN op.order]
  BY Zenon DEF Deletion, FoldLeft, MapThenFoldSet
<1>5. PICK f : Folds(f) /\ Deletion = f[1..n]
  <2> HIDE DEF Folds
  <2>1. QED BY <1>1, <1>3, <1>4, Zenon
<1>6. PICK h : h = [i \in 0..n |-> f[1..i]]
  OBVIOUS
<1>7. f[{}] = base /\ 1..0 = {}
  BY <1>5
<1>8. h[0] = base
  BY <1>1, <1>6, <1>7
<1>9. ASSUME NEW i \in 1..n
      PROVE  h[i] = DeleteProject(h[i - 1], op.order[i])
  <2>1. 1..i \in SUBSET (1..n) /\ 1..i # {} /\ Max(1..i) = i /\ (1..i) \ {Max(1..i)} = 1..(i - 1)
    BY <1>1, LastOfInterval
  <2>2. f[1..i] = DeleteProject(f[1..(i - 1)], op.order[i])
    BY <1>1, <1>5, <2>1
  <2>3. i \in 0..n /\ i - 1 \in 0..n
    BY <1>1
  <2>4. QED BY <1>6, <2>2, <2>3
<1>10. h[n] = f[1..n]
  BY <1>1, <1>6
<1>11. QED BY <1>5, <1>8, <1>9, <1>10

LEMMA DeletionKeeps ==
    ASSUME op.order \in Seq(ProjectIds), parent \in Trees, Whole(parent)
    PROVE  Deletion.parent \in Trees /\ Whole(Deletion.parent)
<1> DEFINE n == Len(op.order)
<1>1. PICK h : /\ h[0] = [parent |-> parent, rejected |-> 0]
               /\ \A i \in 1..n : h[i] = DeleteProject(h[i - 1], op.order[i])
               /\ Deletion = h[n]
  BY DeletionSteps
<1>2. n \in Nat /\ \A i \in 1..n : op.order[i] \in ProjectIds
  OBVIOUS
<1> DEFINE T == {m \in Nat : m <= n => h[m] \in Outcomes /\ Whole(h[m].parent)}
<1>3. 0 \in T
  <2>1. h[0] \in Outcomes /\ h[0].parent = parent
    BY <1>1 DEF Outcomes
  <2>2. QED BY <2>1
<1>4. ASSUME NEW m \in Nat, m \in T
      PROVE  m + 1 \in T
  <2>1. CASE m + 1 <= n
    <3>1. m + 1 \in 1..n /\ h[m] \in Outcomes /\ Whole(h[m].parent)
      BY <1>2, <1>4, <2>1
    <3>2. h[m + 1] = DeleteProject(h[m], op.order[m + 1]) /\ op.order[m + 1] \in ProjectIds
      BY <1>1, <1>2, <3>1
    <3>3. h[m + 1] \in Outcomes /\ Whole(h[m + 1].parent)
      BY <3>1, <3>2, DeleteOne
    <3>4. QED BY <3>3
  <2>2. QED BY <2>1
<1>5. n \in T
  <2>1. Nat \subseteq T
    <3> HIDE DEF T
    <3>1. QED BY <1>3, <1>4, AllNumbers
  <2>2. QED BY <1>2, <2>1
<1>6. QED BY <1>1, <1>2, <1>5 DEF Outcomes

-----------------------------------------------------------------------------
(* Services come after their needs.                                         *)

-----------------------------------------------------------------------------
(* What a chain is from its deployment on.                                 *)

\* Its steps are those of its template, or it was refused.
AsOrdered(c) ==
    c.template.sound /\ c.template.named =>
        /\ c.stage = "refused" <=> ~Resolved(c.template)
        /\ c.stage # "refused" => c.steps = Steps(c.template)

\* While the configuration of an app is under way, its project has been read.
HasRead(c) == c.stage = "docker" => c.steps[c.at][2] \in DOMAIN c.read

\* d is what has become of c.
SameChain(c, d) ==
    /\ d.template = c.template
    /\ d.steps = c.steps
    /\ d.stage = "refused" <=> c.stage = "refused"
    /\ HasRead(c) => HasRead(d)

\* The project of an app is read while it is there.
ReadsMore(c, d) ==
    \E app \in DOMAIN appProject :
        /\ appProject[app] \in Places
        /\ d.read = With(c.read, app, appProject[app])
        /\ UNCHANGED <<parent, appProject, op>>

LEMMA LeftSame ==
    ASSUME NEW c, IsChain(c), c.stage # "refused", NEW now \in Over \ {"refused"}
    PROVE  SameChain(c, Left(c, now)) /\ Left(c, now).read = c.read
BY DEF IsChain, Left, SameChain, HasRead, Over

LEMMA NextStepSame ==
    ASSUME NEW j, NEW d, IsChain(d), d.stage # "refused", NextStep(j, d)
    PROVE  \E e : chain' = [chain EXCEPT ![j] = e] /\ SameChain(d, e) /\ e.read = d.read /\ made' = made
<1>1. PICK at : at = d.at + 1
  OBVIOUS
<1>2. PICK next : next = [d EXCEPT !.at = at, !.stage = "run"]
  OBVIOUS
<1>3. SameChain(d, next) /\ next.read = d.read
  BY <1>2 DEF IsChain, SameChain, HasRead
<1>4. SameChain(d, Left(d, "ended")) /\ Left(d, "ended").read = d.read
  BY LeftSame DEF Over
<1>5. PICK e : e = IF next.at > Len(d.steps) THEN Left(d, "ended") ELSE next
  OBVIOUS
<1>6. chain' = [chain EXCEPT ![j] = e] /\ made' = made
  BY <1>1, <1>2, <1>5 DEF NextStep
<1>7. SameChain(d, e) /\ e.read = d.read
  BY <1>3, <1>4, <1>5
<1>8. QED BY <1>6, <1>7

\* A step of a chain: it reads the project of an app, or what it has read stays.
LEMMA ChainStepSame ==
    ASSUME JobTypes, NEW j \in Jobs, ChainStep(j)
    PROVE  /\ made' = made
           /\ \E e : /\ chain' = [chain EXCEPT ![j] = e]
                     /\ SameChain(chain[j], e)
                     /\ e.read = chain[j].read \/ ReadsMore(chain[j], e)
<1>1. j <= made /\ chain[j].stage \in Running /\ IsChain(chain[j])
  BY ChainStepIs DEF JobTypes
<1>2. chain[j].stage # "refused"
  BY <1>1 DEF Running
<1>3. PICK c : c = chain[j]
  OBVIOUS
<1>4. CASE StepFails(j)
  <2>1. chain' = [chain EXCEPT ![j] = Left(c, "ended")] /\ made' = made
    BY <1>3, <1>4 DEF StepFails
  <2>2. SameChain(c, Left(c, "ended")) /\ Left(c, "ended").read = c.read
    BY <1>1, <1>2, <1>3, LeftSame DEF Over
  <2>3. QED BY <1>3, <2>1, <2>2
<1>5. CASE ProjectStep(j)
  <2>1. PICK id : NextStep(j, [chain[j] EXCEPT !.project = id])
    BY <1>5 DEF ProjectStep
  <2>2. PICK d : d = [chain[j] EXCEPT !.project = id]
    OBVIOUS
  <2>3. IsChain(d) /\ SameChain(c, d) /\ d.read = c.read /\ d.stage = c.stage
    BY <1>1, <1>3, <2>2 DEF IsChain, SameChain, HasRead
  <2>4. PICK e : chain' = [chain EXCEPT ![j] = e] /\ SameChain(d, e) /\ e.read = d.read /\ made' = made
    BY <1>2, <1>3, <2>1, <2>2, <2>3, NextStepSame
  <2>5. SameChain(c, e)
    BY <2>3, <2>4 DEF SameChain
  <2>6. QED BY <1>3, <2>3, <2>4, <2>5
<1>6. CASE ConfigureWrites(j) \/ BuildEnds(j)
  <2>1. NextStep(j, c)
    BY <1>3, <1>6 DEF ConfigureWrites, BuildEnds
  <2>2. PICK e : chain' = [chain EXCEPT ![j] = e] /\ SameChain(c, e) /\ e.read = c.read /\ made' = made
    BY <1>1, <1>2, <1>3, <2>1, NextStepSame
  <2>3. QED BY <1>3, <2>2
<1>7. CASE RegisterStep(j) \/ DeployStep(j)
  <2>1. PICK e : e = [chain[j] EXCEPT !.stage = "build"]
    OBVIOUS
  <2>2. chain' = [chain EXCEPT ![j] = e] /\ made' = made
    BY <1>7, <2>1 DEF RegisterStep, DeployStep, Waits
  <2>3. SameChain(chain[j], e) /\ e.read = chain[j].read
    BY <1>1, <1>2, <2>1 DEF IsChain, SameChain, HasRead
  <2>4. QED BY <2>2, <2>3
<1>8. CASE ConfigureStep(j)
  <2>1. PICK app : app = c.steps[c.at][2]
    OBVIOUS
  <2>2. app \in DOMAIN appProject /\ appProject[app] \in Places /\ UNCHANGED <<parent, appProject, op>>
    BY <1>3, <1>8, <2>1 DEF ConfigureStep, AppOf, projectVars
  <2>3. PICK read : read = With(c.read, app, appProject[app])
    OBVIOUS
  <2>4. PICK e : e = [c EXCEPT !.stage = "docker", !.read = read]
    OBVIOUS
  <2>5. chain' = [chain EXCEPT ![j] = e] /\ made' = made
    BY <1>3, <1>8, <2>1, <2>3, <2>4 DEF ConfigureStep, Waits, AppOf
  <2>6. app \in DOMAIN read
    BY <2>3 DEF With
  <2>7. SameChain(c, e) /\ e.read = read
    BY <1>1, <1>2, <1>3, <2>1, <2>4, <2>6 DEF IsChain, SameChain, HasRead
  <2>8. ReadsMore(c, e)
    BY <2>2, <2>3, <2>7 DEF ReadsMore
  <2>9. QED BY <1>3, <2>5, <2>7, <2>8
<1>9. QED BY <1>4, <1>5, <1>6, <1>7, <1>8 DEF ChainStep

LEMMA DiesSame ==
    ASSUME JobTypes, Dies
    PROVE  /\ made' = made
           /\ \A j \in 1..made : SameChain(chain[j], chain'[j]) /\ chain'[j].read = chain[j].read
<1>1. SUFFICES ASSUME NEW j \in 1..made
               PROVE  SameChain(chain[j], chain'[j]) /\ chain'[j].read = chain[j].read
  BY DEF Dies
<1>2. j \in Jobs /\ IsChain(chain[j])
  BY OneClickAssumption DEF JobTypes, Jobs
<1>3. chain'[j] = IF chain[j].stage \in Running THEN Left(chain[j], "dead") ELSE chain[j]
  BY <1>2 DEF Dies
<1>4. CASE chain[j].stage \in Running
  <2>1. chain[j].stage # "refused" /\ "dead" \in Over \ {"refused"}
    BY <1>4 DEF Running, Over
  <2>2. QED BY <1>2, <1>3, <1>4, <2>1, LeftSame
<1>5. CASE chain[j].stage \notin Running
  BY <1>3, <1>5 DEF SameChain
<1>6. QED BY <1>4, <1>5

LEMMA DeployNew ==
    ASSUME JobTypes, NEW t \in Templates, Deploy(t)
    PROVE  \E c : /\ made' = made + 1 /\ chain' = [chain EXCEPT ![made + 1] = c]
                  /\ made < MaxJobs
                  /\ AsOrdered(c) /\ HasRead(c)
<1> DEFINE refused == t.sound /\ (~t.named \/ ~Resolved(t))
<1>1. PICK steps : steps = IF refused \/ ~t.sound THEN <<>> ELSE Steps(t)
  OBVIOUS
<1>2. PICK now : now = IF ~t.sound THEN "thrown" ELSE IF refused THEN "refused" ELSE "run"
  OBVIOUS
<1>3. PICK c : c = [template |-> t, steps |-> steps, at |-> 1, project |-> None, read |-> <<>>, stage |-> now]
  OBVIOUS
<1>4. chain' = [chain EXCEPT ![made + 1] = c] /\ made' = made + 1 /\ made < MaxJobs
  BY <1>1, <1>2, <1>3 DEF Deploy
<1>5. c.template = t /\ c.stage = now /\ c.steps = steps
  BY <1>3
<1>6. AsOrdered(c)
  BY <1>1, <1>2, <1>5 DEF AsOrdered
<1>7. HasRead(c)
  BY <1>2, <1>5 DEF HasRead
<1>8. QED BY <1>4, <1>6, <1>7

\* What a step does to the chains there are, and to a new one.
LEMMA ChainsFollow ==
    ASSUME JobTypes, [Next]_vars
    PROVE  /\ made' \in {made, made + 1}
           /\ \A j \in 1..made : /\ SameChain(chain[j], chain'[j])
                                 /\ chain'[j].read = chain[j].read \/ ReadsMore(chain[j], chain'[j])
           /\ made' = made + 1 => AsOrdered(chain'[made']) /\ HasRead(chain'[made'])
<1>1. made \in Nat /\ 1..made \subseteq Jobs /\ chain = [j \in Jobs |-> chain[j]]
  BY OneClickAssumption DEF JobTypes, Jobs
<1>2. CASE UNCHANGED <<made, chain>>
  BY <1>1, <1>2 DEF SameChain
<1>3. ASSUME NEW t \in Templates, Deploy(t)
      PROVE  /\ made' = made + 1
             /\ \A j \in 1..made : chain'[j] = chain[j]
             /\ AsOrdered(chain'[made']) /\ HasRead(chain'[made'])
  <2>1. PICK c : /\ made' = made + 1 /\ chain' = [chain EXCEPT ![made + 1] = c]
                 /\ made < MaxJobs
                 /\ AsOrdered(c) /\ HasRead(c)
    BY <1>3, DeployNew
  <2>2. made + 1 \in Jobs
    BY <1>1, <2>1, OneClickAssumption DEF Jobs
  <2>3. chain'[made'] = c
    BY <1>1, <2>1, <2>2
  <2>4. \A j \in 1..made : chain'[j] = chain[j]
    BY <1>1, <2>1
  <2>5. QED BY <2>1, <2>3, <2>4
<1>4. ASSUME NEW t \in Templates, Deploy(t)
      PROVE  \A j \in 1..made : SameChain(chain[j], chain'[j]) /\ chain'[j].read = chain[j].read
  BY <1>3, <1>4 DEF SameChain
<1>5. ASSUME NEW j \in Jobs, ChainStep(j)
      PROVE  /\ made' = made
             /\ \A i \in 1..made : /\ SameChain(chain[i], chain'[i])
                                   /\ chain'[i].read = chain[i].read \/ ReadsMore(chain[i], chain'[i])
  <2>1. PICK e : /\ chain' = [chain EXCEPT ![j] = e] /\ made' = made
                 /\ SameChain(chain[j], e)
                 /\ e.read = chain[j].read \/ ReadsMore(chain[j], e)
    BY <1>5, ChainStepSame
  <2>2. ASSUME NEW i \in 1..made
        PROVE  /\ SameChain(chain[i], chain'[i])
               /\ chain'[i].read = chain[i].read \/ ReadsMore(chain[i], chain'[i])
    <3>1. CASE i = j
      <4>1. chain'[i] = e
        BY <1>1, <2>1, <3>1
      <4>2. QED BY <2>1, <3>1, <4>1
    <3>2. CASE i # j
      <4>1. chain'[i] = chain[i]
        BY <1>1, <2>1, <3>2
      <4>2. QED BY <4>1 DEF SameChain
    <3>3. QED BY <3>1, <3>2
  <2>3. QED BY <2>1, <2>2
<1>6. CASE Dies
  <2>1. made' # made + 1
    BY <1>1, <1>6 DEF Dies
  <2>2. QED BY <1>6, <2>1, DiesSame
<1>7. CASE UNCHANGED vars
  BY <1>2, <1>7 DEF vars, jobVars
<1>8. ASSUME Next
      PROVE  \/ UNCHANGED <<made, chain>>
             \/ \E t \in Templates : Deploy(t)
             \/ \E j \in Jobs : ChainStep(j)
             \/ Dies
  <2>1. CASE Dashboard(Building) /\ UNCHANGED <<jobVars, faults>>
    BY <2>1 DEF jobVars
  <2>2. CASE DeleteAnswers
    BY <2>2 DEF DeleteAnswers, jobVars
  <2>3. ASSUME NEW j \in Jobs, Poll(j)
        PROVE  UNCHANGED <<made, chain>>
    BY <2>3 DEF Poll
  <2>4. CASE Day \/ CleanupOldJobs
    BY <2>4 DEF Day, CleanupOldJobs
  <2>5. CASE Restart
    BY <2>5 DEF Restart
  <2>6. QED BY <1>8, <2>1, <2>2, <2>3, <2>4, <2>5 DEF Next
<1>9. made # made + 1
  BY <1>1
<1>10. QED BY <1>2, <1>3, <1>4, <1>5, <1>6, <1>7, <1>8, <1>9

-----------------------------------------------------------------------------
(* The order of the steps.                                                 *)

ChainsInv == \A j \in 1..made : AsOrdered(chain[j]) /\ HasRead(chain[j])

LEMMA ChainsStep ==
    ASSUME ClickInv, ChainsInv, [Next]_vars
    PROVE  ChainsInv'
<1>1. JobTypes /\ made \in Nat
  BY OneClickAssumption DEF ClickInv, JobTypes
<1>2. /\ made' \in {made, made + 1}
      /\ \A j \in 1..made : SameChain(chain[j], chain'[j])
      /\ made' = made + 1 => AsOrdered(chain'[made']) /\ HasRead(chain'[made'])
  BY <1>1, ChainsFollow
<1>3. ASSUME NEW j \in 1..made
      PROVE  AsOrdered(chain'[j]) /\ HasRead(chain'[j])
  <2>1. SameChain(chain[j], chain'[j]) /\ AsOrdered(chain[j]) /\ HasRead(chain[j])
    BY <1>2, <1>3 DEF ChainsInv
  <2>2. QED BY <2>1 DEF SameChain, AsOrdered
<1>4. ASSUME NEW j \in 1..made'
      PROVE  AsOrdered(chain'[j]) /\ HasRead(chain'[j])
  <2>1. CASE j \in 1..made
    BY <1>3, <2>1
  <2>2. CASE j \notin 1..made
    <3>1. made' = made + 1 /\ j = made'
      BY <1>1, <1>2, <2>2
    <3>2. QED BY <1>2, <3>1
  <2>3. QED BY <2>1, <2>2
<1>5. QED BY <1>4 DEF ChainsInv

\* Where a service is registered in the steps of its template, and where what
\* it needs is deployed.
LEMMA NeedsComeFirst ==
    ASSUME NEW t \in Templates, Resolved(t), NEW i \in 1..Len(Steps(t)), Steps(t)[i][1] = "register",
           NEW s \in t.needs[Steps(t)[i][2]]
    PROVE  \E k \in 1..(i - 1) : Steps(t)[k] = <<"deploy", s>>
<1> DEFINE n == Len(t.keys)
<1>1. t \in Template
  BY OneClickAssumption
<1>2. PICK steps : steps = Steps(t)
  OBVIOUS
<1>3. PICK order : order = InOrder(t)
  OBVIOUS
<1>4. /\ Len(steps) = Lead(t) + 3 * n
      /\ Lead(t) = 1 => steps[1] = <<"project", None>>
      /\ \A k \in 1..n :
            /\ steps[Lead(t) + 3 * (k - 1) + 1] = <<"register", order[k]>>
            /\ steps[Lead(t) + 3 * (k - 1) + 2] = <<"configure", order[k]>>
            /\ steps[Lead(t) + 3 * (k - 1) + 3] = <<"deploy", order[k]>>
  BY <1>2, <1>3, StepsAre
<1>5. n \in Nat /\ Len(order) = n
  BY <1>1, <1>3, KeysAre DEF Resolved
<1>6. Ordered(order, t)
  <2>1. PICK h : (\A m \in Nat : Ordered(h[m], t)) /\ InOrder(t) = h[n + 1]
    BY <1>1, OrderSteps
  <2>2. n + 1 \in Nat
    BY <1>5
  <2>3. QED BY <1>3, <2>1, <2>2
<1>7. PICK lead \in {0, 1} : lead = Lead(t)
  BY DEF Lead
<1>8. i # 1 \/ lead = 0
  <2>1. <<"project", None>>[1] # "register"
    OBVIOUS
  <2>2. QED BY <1>2, <1>4, <1>7, <2>1
<1>9. \E k \in 1..n : \E l \in 1..3 : i = lead + 3 * (k - 1) + l
  <2>1. i \in 1..(lead + 3 * n) /\ i > lead
    BY <1>2, <1>4, <1>5, <1>7, <1>8
  <2>2. PICK k \in Int, r \in 0..2 : i - lead - 1 = 3 * k + r
    <3>1. i - lead - 1 \in Int
      BY <2>1, <1>5
    <3>2. (i - lead - 1) = 3 * ((i - lead - 1) \div 3) + ((i - lead - 1) % 3)
      BY <3>1
    <3>3. (i - lead - 1) \div 3 \in Int /\ (i - lead - 1) % 3 \in 0..2
      BY <3>1
    <3>4. QED BY <3>2, <3>3
  <2>3. k + 1 \in 1..n /\ r + 1 \in 1..3 /\ i = lead + 3 * ((k + 1) - 1) + (r + 1)
    BY <1>5, <2>1, <2>2
  <2>4. QED BY <2>3
<1>10. PICK k \in 1..n, l \in 1..3 : i = lead + 3 * (k - 1) + l
  BY <1>9
<1>11. l = 1 /\ steps[i] = <<"register", order[k]>>
  <2>1. l = 2 => steps[i] = <<"configure", order[k]>>
    BY <1>4, <1>7, <1>10
  <2>2. l = 3 => steps[i] = <<"deploy", order[k]>>
    BY <1>4, <1>7, <1>10
  <2>3. l = 1 => steps[i] = <<"register", order[k]>>
    BY <1>4, <1>7, <1>10
  <2>4. l \in {1, 2, 3} /\ steps[i][1] = "register"
    BY <1>2
  <2>5. QED BY <2>1, <2>2, <2>3, <2>4
<1>12. s \in t.needs[order[k]]
  BY <1>2, <1>11
<1>13. PICK m \in 1..(k - 1) : order[m] = s
  BY <1>5, <1>6, <1>12 DEF Ordered
<1>14. steps[lead + 3 * (m - 1) + 3] = <<"deploy", s>>
  <2>1. m \in 1..n
    BY <1>5, <1>13
  <2>2. steps[lead + 3 * (m - 1) + 3] = <<"deploy", order[m]>>
    BY <1>4, <1>7, <2>1, Zenon
  <2>3. QED BY <1>13, <2>2
<1>15. lead + 3 * (m - 1) + 3 \in 1..(i - 1)
  BY <1>5, <1>7, <1>10, <1>11, <1>13
<1>16. QED BY <1>2, <1>14, <1>15

\* The steps of a one-click app, for any templates: a template is refused when
\* its dependencies form a cycle or name a service nobody defines, and only
\* then; each service is registered after the deployments of what it needs
\* (createAppsArrayInOrder, startDeployProcess).
THEOREM OrderCorrect == Spec => []ServicesComeAfterTheirNeeds
<1>1. Init => ChainsInv
  <2>1. SUFFICES ASSUME Init
                 PROVE  1..made = {}
    BY DEF ChainsInv
  <2>2. QED BY <2>1 DEF Init
<1>2. ClickInv /\ ChainsInv /\ [Next]_vars => ChainsInv'
  BY ChainsStep
<1>3. ClickInv /\ ChainsInv => ServicesComeAfterTheirNeeds
  <2>1. SUFFICES ASSUME ClickInv, ChainsInv, NEW j \in 1..made,
                        chain[j].template.sound, chain[j].template.named
                 PROVE  /\ chain[j].stage = "refused" <=> chain[j].template.keys = <<>> \/ Unsolvable(chain[j].template)
                        /\ chain[j].stage # "refused" =>
                           \A i \in 1..Len(chain[j].steps) : chain[j].steps[i][1] = "register" =>
                              \A s \in chain[j].template.needs[chain[j].steps[i][2]] :
                                 \E k \in 1..(i - 1) : chain[j].steps[k] = <<"deploy", s>>
    BY DEF ServicesComeAfterTheirNeeds
  <2>2. j \in Jobs /\ IsChain(chain[j])
    BY <2>1, OneClickAssumption DEF ClickInv, JobTypes, Jobs
  <2>3. PICK t \in Templates : t = chain[j].template
    BY <2>2 DEF IsChain
  <2>4. /\ chain[j].stage = "refused" <=> ~Resolved(t)
        /\ chain[j].stage # "refused" => chain[j].steps = Steps(t)
    BY <2>1, <2>3 DEF ChainsInv, AsOrdered
  <2>5. Resolved(t) <=> t.keys # <<>> /\ ~Unsolvable(t)
    BY <2>3, ResolvedIff, OneClickAssumption
  <2>6. ASSUME chain[j].stage # "refused"
        PROVE  \A i \in 1..Len(Steps(t)) : Steps(t)[i][1] = "register" =>
                  \A s \in t.needs[Steps(t)[i][2]] : \E k \in 1..(i - 1) : Steps(t)[k] = <<"deploy", s>>
    BY <2>4, <2>6, NeedsComeFirst
  <2>7. ASSUME chain[j].stage # "refused"
        PROVE  \A i \in 1..Len(chain[j].steps) : chain[j].steps[i][1] = "register" =>
                  \A s \in t.needs[chain[j].steps[i][2]] : \E k \in 1..(i - 1) : chain[j].steps[k] = <<"deploy", s>>
    <3>1. PICK steps : steps = chain[j].steps
      OBVIOUS
    <3>2. steps = Steps(t)
      BY <2>4, <2>7, <3>1
    <3>3. \A i \in 1..Len(steps) : steps[i][1] = "register" =>
             \A s \in t.needs[steps[i][2]] : \E k \in 1..(i - 1) : steps[k] = <<"deploy", s>>
      <4>1. \A i \in 1..Len(Steps(t)) : Steps(t)[i][1] = "register" =>
               \A s \in t.needs[Steps(t)[i][2]] : \E k \in 1..(i - 1) : Steps(t)[k] = <<"deploy", s>>
        BY <2>6, <2>7
      <4>2. QED BY <3>2, <4>1
    <3>4. QED BY <3>1, <3>3
  <2>8. chain[j].stage = "refused" <=> t.keys = <<>> \/ Unsolvable(t)
    BY <2>4, <2>5
  <2>9. QED BY <2>3, <2>7, <2>8, Zenon
<1>4. QED BY <1>1, <1>2, <1>3, ClickInvAlways, PTL DEF Spec

-----------------------------------------------------------------------------
(* Projects stay whole.                                                     *)

\* What the tree needs: the move that holds the lock leads to a project there
\* is, a deletion has its order.
TreeInv ==
    /\ parent \in Trees
    /\ \A p \in Projects : parent[p] \in Places
    /\ op.kind = "delete" => op.order \in Seq(ProjectIds)
    /\ op.kind = "move" => op.to \in Places

LEMMA SaveProjectKeeps ==
    ASSUME TreeInv, NEW id \in ProjectIds, NEW to, SaveProject(id, to)
    PROVE  /\ parent' \in Trees
           /\ Places \subseteq Places'
           /\ \A p \in Projects' : parent'[p] \in Places'
<1>1. parent \in Trees /\ to \in Places /\ parent' = With(parent, id, to)
  BY DEF TreeInv, SaveProject
<1>2. DOMAIN parent \subseteq ProjectIds /\ \A p \in DOMAIN parent : parent[p] \in ProjectIds \cup {None}
  BY <1>1, TreesAre
<1>3. /\ DOMAIN parent' = DOMAIN parent \cup {id}
      /\ parent' = [p \in DOMAIN parent' |-> parent'[p]]
      /\ \A p \in DOMAIN parent' : parent'[p] = IF p = id THEN to ELSE parent[p]
  BY <1>1 DEF With
<1>4. to \in ProjectIds \cup {None}
  BY <1>1, <1>2 DEF Places, Projects
<1>5. parent' \in Trees
  <2>1. PICK q : q = parent'
    OBVIOUS
  <2>2. QED BY <1>2, <1>3, <1>4, <2>1, TreesAre
<1>6. QED BY <1>1, <1>3, <1>5 DEF TreeInv, Places, Projects

LEMMA OrdersAre ==
    ASSUME NEW S, S \subseteq ProjectIds, NEW order \in FromTheLeafsToRoot(S)
    PROVE  order \in Seq(ProjectIds)
<1>1. order \in SetToSeqs(S)
  BY DEF FromTheLeafsToRoot
<1>2. IsFiniteSet(S) /\ Cardinality(S) \in Nat
  BY ProjectsAssumption, FS_Subset, FS_CardinalityType
<1>3. order \in [1..Cardinality(S) -> S]
  BY <1>1 DEF SetToSeqs
<1>4. QED BY <1>2, <1>3

\* What a step does to the tree.
LEMMA TreeStep ==
    ASSUME TreeInv, [Next]_vars
    PROVE  /\ TreeInv'
           /\ \A a \in DOMAIN appProject : appProject[a] \in Places => appProject[a] \in Places'
<1> DEFINE StaysPlaced == \A a \in DOMAIN appProject : appProject[a] \in Places => appProject[a] \in Places'
<1>1. ASSUME UNCHANGED <<parent, op>>
      PROVE  TreeInv' /\ StaysPlaced
  BY <1>1 DEF TreeInv, Places, Projects
<1>2. ASSUME UNCHANGED parent /\ op' = Idle
      PROVE  TreeInv' /\ StaysPlaced
  BY <1>2 DEF TreeInv, Places, Projects, Idle
<1>3. ASSUME NEW id \in ProjectIds, NEW to, SaveProject(id, to), UNCHANGED op
      PROVE  TreeInv' /\ StaysPlaced
  <2>1. /\ parent' \in Trees
        /\ Places \subseteq Places'
        /\ \A p \in Projects' : parent'[p] \in Places'
    BY <1>3, SaveProjectKeeps
  <2>2. QED BY <1>3, <2>1 DEF TreeInv
<1>4. ASSUME NEW a, NEW to, StartMove(a, to)
      PROVE  TreeInv' /\ StaysPlaced
  BY <1>4 DEF StartMove, TreeInv, Places, Projects
<1>5. ASSUME NEW a, NEW busy, StartRemove(a, busy)
      PROVE  TreeInv' /\ StaysPlaced
  BY <1>5 DEF StartRemove, TreeInv, Places, Projects
<1>6. ASSUME NEW ids \in SUBSET ProjectIds, StartDelete(ids)
      PROVE  TreeInv' /\ StaysPlaced
  <2>1. PICK order \in FromTheLeafsToRoot(ids \cap Levels) : op' = [kind |-> "delete", order |-> order, ids |-> ids]
    BY <1>6 DEF StartDelete
  <2>2. order \in Seq(ProjectIds)
    BY <2>1, OrdersAre
  <2>3. op'.kind = "delete" /\ op'.order = order
    BY <2>1
  <2>4. UNCHANGED parent
    BY <1>6 DEF StartDelete
  <2>5. QED BY <2>2, <2>3, <2>4 DEF TreeInv, Places, Projects
<1>7. ASSUME DeleteEnds
      PROVE  TreeInv' /\ StaysPlaced
  <2>1. op.order \in Seq(ProjectIds) /\ parent \in Trees
    BY <1>7 DEF DeleteEnds, TreeInv
  <2>2. Whole(parent)
    BY DEF TreeInv, Whole, Places, Projects
  <2>3. Deletion.parent \in Trees /\ Whole(Deletion.parent)
    BY <2>1, <2>2, DeletionKeeps
  <2>4. parent' = Deletion.parent /\ op' = Idle
    BY <1>7 DEF DeleteEnds
  <2>5. parent' \in Trees /\ \A p \in DOMAIN parent' : parent'[p] \in DOMAIN parent' \cup {None}
    BY <2>3, <2>4 DEF Whole
  <2>6. StaysPlaced
    BY <2>3, <2>4 DEF Whole, Places, Projects
  <2>7. QED BY <2>4, <2>5, <2>6 DEF TreeInv, Places, Projects, Idle
<1>8. ASSUME NEW j \in Jobs, ChainStep(j)
      PROVE  TreeInv' /\ StaysPlaced
  <2>1. CASE ProjectStep(j)
    <3>1. PICK id \in ProjectIds : SaveProject(id, None)
      BY <2>1 DEF ProjectStep
    <3>2. UNCHANGED op
      BY <2>1 DEF ProjectStep
    <3>3. QED BY <1>3, <3>1, <3>2
  <2>2. UNCHANGED <<parent, op>> \/ ProjectStep(j)
    BY <1>8 DEF ChainStep, StepFails, RegisterStep, ConfigureStep, ConfigureWrites, DeployStep, BuildEnds,
                projectVars
  <2>3. QED BY <1>1, <2>1, <2>2
<1>9. ASSUME NEW busy, Dashboard(busy)
      PROVE  TreeInv' /\ StaysPlaced
  <2>1. ASSUME NEW id \in ProjectIds, NEW to, Save(id, to)
        PROVE  TreeInv' /\ StaysPlaced
    BY <1>3, <2>1 DEF Save
  <2>2. ASSUME NEW a, NEW to, Register(a, to)
        PROVE  UNCHANGED <<parent, op>>
    BY <2>2 DEF Register
  <2>3. MoveEnds \/ RemoveEnds => UNCHANGED parent /\ op' = Idle
    BY DEF MoveEnds, RemoveEnds
  <2>4. \/ \E id \in ProjectIds : \E to : Save(id, to)
        \/ \E a, to : Register(a, to)
        \/ \E a, to : StartMove(a, to)
        \/ \E a : StartRemove(a, busy)
        \/ \E ids \in SUBSET ProjectIds : StartDelete(ids)
        \/ MoveEnds \/ RemoveEnds
    BY <1>9, Zenon DEF Dashboard
  <2> HIDE DEF StaysPlaced
  <2>5. CASE \E id \in ProjectIds : \E to : Save(id, to)
    BY <2>1, <2>5, Zenon
  <2>6. CASE \E a, to : Register(a, to)
    BY <1>1, <2>2, <2>6, Zenon
  <2>7. CASE \E a, to : StartMove(a, to)
    BY <1>4, <2>7, Zenon
  <2>8. CASE \E a : StartRemove(a, busy)
    BY <1>5, <2>8, Zenon
  <2>9. CASE \E ids \in SUBSET ProjectIds : StartDelete(ids)
    BY <1>6, <2>9, Zenon
  <2>10. CASE MoveEnds \/ RemoveEnds
    BY <1>2, <2>3, <2>10, Zenon
  <2>11. QED BY <2>4, <2>5, <2>6, <2>7, <2>8, <2>9, <2>10, Zenon
<1>10. ASSUME Next
       PROVE  TreeInv' /\ StaysPlaced
  <2>1. \/ \E busy : Dashboard(busy)
        \/ DeleteEnds
        \/ \E j \in Jobs : ChainStep(j)
        \/ UNCHANGED parent /\ op' = Idle
        \/ UNCHANGED <<parent, op>>
    <3>1. ASSUME NEW t \in Templates, Deploy(t)
          PROVE  UNCHANGED <<parent, op>>
      BY <3>1 DEF Deploy, projectVars
    <3>2. ASSUME NEW j \in Jobs, Poll(j)
          PROVE  UNCHANGED <<parent, op>>
      BY <3>2 DEF Poll, projectVars
    <3>3. Day \/ CleanupOldJobs => UNCHANGED <<parent, op>>
      BY DEF Day, CleanupOldJobs, projectVars
    <3>4. Restart => UNCHANGED parent /\ op' = Idle
      BY DEF Restart
    <3>5. DeleteAnswers => DeleteEnds
      BY DEF DeleteAnswers
    <3>6. QED BY <1>10, <3>1, <3>2, <3>3, <3>4, <3>5 DEF Next
  <2> HIDE DEF StaysPlaced
  <2>2. QED BY <1>1, <1>2, <1>7, <1>8, <1>9, <2>1
<1>11. UNCHANGED vars => UNCHANGED <<parent, op>>
  BY DEF vars, projectVars
<1> HIDE DEF StaysPlaced
<1>12. QED BY <1>1, <1>10, <1>11 DEF StaysPlaced

\* What has become of an app's project: it is there, it is what it was, or a
\* deployment has written what it had read.
Follows(a) ==
    \/ appProject'[a] \in Places'
    \/ a \in DOMAIN appProject /\ appProject'[a] = appProject[a] /\ appProject[a] \notin Places
    \/ \E j \in 1..made :
          /\ a \in DOMAIN chain[j].read
          /\ chain[j].read[a] = appProject'[a]
          /\ chain'[j].read = chain[j].read

\* Registering and moving an app look for the project, and no step takes it away.
LEMMA AppsFollow ==
    ASSUME JobTypes, ChainsInv, TreeInv, [Next]_vars, NEW a \in DOMAIN appProject'
    PROVE  Follows(a)
<1>1. \A b \in DOMAIN appProject : appProject[b] \in Places => appProject[b] \in Places'
  BY TreeStep
<1>2. a \in DOMAIN appProject /\ appProject'[a] = appProject[a] => Follows(a)
  BY <1>1 DEF Follows
<1>3. CASE UNCHANGED appProject
  BY <1>2, <1>3
<1>4. ASSUME NEW b, NEW to \in Places, UNCHANGED parent, appProject' = With(appProject, b, to)
      PROVE  Follows(a)
  <2>1. appProject'[a] = IF a = b THEN to ELSE appProject[a]
    BY <1>4 DEF With
  <2>2. a # b => a \in DOMAIN appProject
    BY <1>4 DEF With
  <2>3. to \in Places'
    BY <1>4 DEF Places, Projects
  <2>4. QED BY <1>2, <2>1, <2>2, <2>3 DEF Follows
<1>5. ASSUME NEW b, NEW to, RegisterApp(b, to), UNCHANGED parent
      PROVE  Follows(a)
  BY <1>4, <1>5 DEF RegisterApp
<1>6. CASE MoveEnds
  <2>1. UNCHANGED parent /\ op.to \in Places
    BY <1>6 DEF MoveEnds, TreeInv
  <2>2. appProject' = appProject \/ appProject' = [appProject EXCEPT ![op.app] = op.to]
    BY <1>6 DEF MoveEnds
  <2>3. a \in DOMAIN appProject
    BY <2>2
  <2>4. appProject'[a] = appProject[a] \/ appProject'[a] = op.to
    BY <2>2, <2>3
  <2>5. op.to \in Places'
    BY <2>1 DEF Places, Projects
  <2>6. QED BY <1>2, <2>3, <2>4, <2>5 DEF Follows
<1>7. CASE RemoveEnds
  <2>1. appProject' = appProject \/ appProject' = Without(appProject, op.app)
    BY <1>7 DEF RemoveEnds
  <2>2. a \in DOMAIN appProject /\ appProject'[a] = appProject[a]
    BY <2>1 DEF Without
  <2>3. QED BY <1>2, <2>2
<1>8. ASSUME NEW j \in Jobs, ConfigureWrites(j)
      PROVE  Follows(a)
  <2>1. PICK app : app = AppOf(j)
    OBVIOUS
  <2>2. appProject' = [appProject EXCEPT ![app] = chain[j].read[app]]
    BY <1>8, <2>1 DEF ConfigureWrites
  <2>3. a \in DOMAIN appProject
    BY <2>2
  <2>4. a # app => appProject'[a] = appProject[a]
    BY <2>2, <2>3
  <2>5. ASSUME a = app
        PROVE  Follows(a)
    <3>1. appProject'[a] = chain[j].read[a]
      BY <2>2, <2>3, <2>5
    <3>2. chain[j].stage = "docker"
      BY <1>8 DEF ConfigureWrites, StepIs
    <3>3. j <= made /\ j \in 1..made
      BY <3>2, OneClickAssumption DEF JobTypes, NoChain, Jobs
    <3>4. a \in DOMAIN chain[j].read
      BY <2>1, <2>5, <3>2, <3>3 DEF ChainsInv, HasRead, AppOf
    <3>5. chain'[j].read = chain[j].read
      <4>1. IsChain(chain[j]) /\ chain[j].stage # "refused"
        BY <3>2, <3>3 DEF JobTypes
      <4>2. NextStep(j, chain[j])
        BY <1>8 DEF ConfigureWrites
      <4>3. PICK c : c = chain[j]
        OBVIOUS
      <4>4. PICK e : chain' = [chain EXCEPT ![j] = e] /\ e.read = c.read
        BY <4>1, <4>2, <4>3, NextStepSame
      <4>5. chain'[j] = e
        BY <4>4 DEF JobTypes
      <4>6. QED BY <4>3, <4>4, <4>5
    <3>6. QED BY <3>1, <3>3, <3>4, <3>5 DEF Follows
  <2>6. QED BY <1>2, <2>3, <2>4, <2>5
<1>9. ASSUME NEW j \in Jobs, ChainStep(j)
      PROVE  Follows(a)
  <2>1. CASE RegisterStep(j)
    BY <1>5, <2>1 DEF RegisterStep
  <2>2. RegisterStep(j) \/ ConfigureWrites(j) \/ UNCHANGED appProject
    BY <1>9 DEF ChainStep, StepFails, ProjectStep, ConfigureStep, DeployStep, BuildEnds, projectVars
  <2>3. QED BY <1>3, <1>8, <2>1, <2>2
<1>10. ASSUME NEW busy, Dashboard(busy)
       PROVE  Follows(a)
  <2>1. \/ \E b, to : RegisterApp(b, to) /\ UNCHANGED parent
        \/ MoveEnds \/ RemoveEnds
        \/ UNCHANGED appProject
    BY <1>10 DEF Dashboard, Save, Register, StartMove, StartRemove, StartDelete
  <2>2. QED BY <1>3, <1>5, <1>6, <1>7, <2>1
<1>11. ASSUME Next
       PROVE  \/ \E busy : Dashboard(busy)
              \/ \E j \in Jobs : ChainStep(j)
              \/ UNCHANGED appProject
  <2>1. ASSUME NEW t \in Templates, Deploy(t)
        PROVE  UNCHANGED appProject
    BY <2>1 DEF Deploy, projectVars
  <2>2. ASSUME NEW j \in Jobs, Poll(j)
        PROVE  UNCHANGED appProject
    BY <2>2 DEF Poll, projectVars
  <2>3. Day \/ CleanupOldJobs \/ Restart \/ DeleteAnswers => UNCHANGED appProject
    BY DEF Day, CleanupOldJobs, Restart, DeleteAnswers, DeleteEnds, projectVars
  <2>4. QED BY <1>11, <2>1, <2>2, <2>3 DEF Next
<1>12. UNCHANGED vars => UNCHANGED appProject
  BY DEF vars, projectVars
<1>13. QED BY <1>3, <1>9, <1>10, <1>11, <1>12

\* What a chain has read of an app whose project is not there stays as it is.
LEMMA ReadStays ==
    ASSUME NEW c, NEW d, d.read = c.read \/ ReadsMore(c, d), NEW a \in DOMAIN appProject,
           appProject[a] \notin Places, a \in DOMAIN c.read
    PROVE  a \in DOMAIN d.read /\ d.read[a] = c.read[a]
<1>1. CASE d.read = c.read
  BY <1>1
<1>2. CASE ReadsMore(c, d)
  <2>1. PICK app \in DOMAIN appProject :
           appProject[app] \in Places /\ d.read = With(c.read, app, appProject[app])
    BY <1>2 DEF ReadsMore
  <2>2. a # app
    BY <2>1
  <2>3. QED BY <2>1, <2>2 DEF With
<1>3. QED BY <1>1, <1>2

LEMMA WholeStep ==
    ASSUME ClickInv, ChainsInv, TreeInv, ProjectsStayWhole, [Next]_vars
    PROVE  ProjectsStayWhole'
<1>1. JobTypes /\ made \in Nat
  BY OneClickAssumption DEF ClickInv, JobTypes
<1>2. /\ made' \in {made, made + 1}
      /\ \A j \in 1..made : chain'[j].read = chain[j].read \/ ReadsMore(chain[j], chain'[j])
  BY <1>1, ChainsFollow
<1>3. 1..made \subseteq 1..made'
  BY <1>1, <1>2
<1>4. \A p \in Projects' : parent'[p] \in Places'
  BY TreeStep DEF TreeInv
<1>5. ASSUME NEW a \in DOMAIN appProject', appProject'[a] \notin Places'
      PROVE  \E j \in 1..made' : a \in DOMAIN chain'[j].read /\ chain'[j].read[a] = appProject'[a]
  <2>1. Follows(a)
    BY <1>1, AppsFollow
  <2>2. CASE \E j \in 1..made :
                /\ a \in DOMAIN chain[j].read
                /\ chain[j].read[a] = appProject'[a]
                /\ chain'[j].read = chain[j].read
    BY <1>3, <2>2
  <2>3. CASE a \in DOMAIN appProject /\ appProject'[a] = appProject[a] /\ appProject[a] \notin Places
    <3>1. PICK j \in 1..made : a \in DOMAIN chain[j].read /\ chain[j].read[a] = appProject[a]
      BY <2>3 DEF ProjectsStayWhole
    <3>2. a \in DOMAIN chain'[j].read /\ chain'[j].read[a] = chain[j].read[a]
      BY <1>2, <2>3, <3>1, ReadStays
    <3>3. QED BY <1>3, <2>3, <3>1, <3>2
  <2>4. QED BY <1>5, <2>1, <2>2, <2>3 DEF Follows
<1>6. QED BY <1>4, <1>5 DEF ProjectsStayWhole

\* However the dashboard's requests and deployments overlap, for any projects,
\* apps and templates: the parent of a project is there, and so is the project
\* of an app, or a deployment had read it (deleteProject, updateAppDefinition,
\* createConfigurationPromise).
THEOREM ProjectsCorrect == Spec => []ProjectsStayWhole
<1> DEFINE Inv == ChainsInv /\ TreeInv /\ ProjectsStayWhole
<1>1. Init => Inv
  <2>1. SUFFICES ASSUME Init
                 PROVE  Inv
    OBVIOUS
  <2>2. 1..made = {} /\ DOMAIN parent = {} /\ DOMAIN appProject = {} /\ op = Idle
    BY <2>1 DEF Init, ProjectsInit
  <2>3. parent \in Trees
    <3>1. parent = [p \in DOMAIN parent |-> parent[p]]
      BY <2>1 DEF Init, ProjectsInit
    <3>2. QED BY <2>2, <3>1, TreesAre
  <2>4. QED BY <2>2, <2>3 DEF ChainsInv, TreeInv, ProjectsStayWhole, Projects, Idle
<1>2. ClickInv /\ Inv /\ [Next]_vars => Inv'
  BY ChainsStep, TreeStep, WholeStep
<1>3. Inv => ProjectsStayWhole
  OBVIOUS
<1>4. QED BY <1>1, <1>2, <1>3, ClickInvAlways, PTL DEF Spec

=============================================================================
