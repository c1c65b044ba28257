---------------------------- MODULE NginxReload ----------------------------
(***************************************************************************)
(* LoadBalancerManager.rePopulateNginxConfigFile.  A caller is promised a  *)
(* reload; one reload runs at a time, and the requests that come meanwhile *)
(* wait on a stack.  A reload copies the definitions into configuration    *)
(* files, a few at a time with I/O in between, has nginx test all the      *)
(* files together, and signals nginx to load them:                         *)
(*                                                                         *)
(*   apps -> base -> captain -> test -> signal                             *)
(*                                                                         *)
(* The definitions and what becomes of an answer belong to the callers:    *)
(* see AppConfig.                                                          *)
(***************************************************************************)
EXTENDS Integers, SequencesExt

CONSTANTS
    Apps,       \* app names; each has a part of the definitions and a file
    System,     \* the part of the definitions that holds both system configs
    Base,       \* nginx.conf, rendered from the base config
    Captain,    \* captain-root.conf, rendered from the captain config
    Requests,   \* what a reload may have been requested for
    NoRequest   \* no reload is in process

ASSUME PartsAssumption ==
    /\ System \notin Apps
    /\ {Base, Captain} \cap Apps = {}
    /\ Base # Captain
    /\ NoRequest \notin Requests

VARIABLES
    definitions,  \* per part, what the data store holds
    files,        \* per file, what it was rendered from
    loaded,       \* per file, what nginx runs
    reload        \* reloadInProcess and requestedReloadPromises

Parts == Apps \cup {System}

Files == Apps \cup {Base, Captain}

\* The part of the definitions a file is rendered from.
Source(f) == IF f \in Apps THEN f ELSE System

\* A configuration is known by the change whose text it holds (0 is the
\* default), whether nginx accepts that text, and the number of writes of its
\* part of the definitions so far.
Content == [by : Nat, sound : BOOLEAN, rev : Nat]

Blank == [by |-> 0, sound |-> TRUE, rev |-> 0]

Stages == {"idle", "apps", "base", "captain", "test"}

ReloadState ==
    [waiting : Seq(Requests), serving : Requests \cup {NoRequest}, stage : Stages]

Idle == [waiting |-> <<>>, serving |-> NoRequest, stage |-> "idle"]

\* A reload is in process while there is anything to do.
WellFormed(q) ==
    /\ q.serving = NoRequest <=> q.stage = "idle"
    /\ q.serving = NoRequest => q.waiting = <<>>

ReloadTypeOK ==
    /\ definitions \in [Parts -> Content]
    /\ files \in [Files -> Content]
    /\ loaded \in [Files -> Content]
    /\ reload \in ReloadState
    /\ WellFormed(reload)

ReloadInit ==
    /\ definitions = [p \in Parts |-> Blank]
    /\ files = [f \in Files |-> Blank]
    /\ loaded = [f \in Files |-> Blank]
    /\ reload = Idle

-----------------------------------------------------------------------------
(* The queue, as functions of its state                                    *)

\* consumeQueueIfAnyInNginxReloadQueue: pop, unless a reload is in process.
ConsumeQueue(q) ==
    IF q.serving # NoRequest \/ q.waiting = <<>> THEN q
    ELSE [waiting |-> Front(q.waiting), serving |-> Last(q.waiting),
          stage |-> "apps"]

\* Mutant: a request that finds a reload in process joins it.
RePopulateBounces(q, r) ==
    IF q.serving # NoRequest THEN q
    ELSE ConsumeQueue([q EXCEPT !.waiting = Append(@, r)])

RePopulateNginxConfigFile(q, r) ==
    ConsumeQueue([q EXCEPT !.waiting = Append(@, r)])

\* Mutant: a reload that ends does not take up the next request.
UnlockOnly(q) ==
    [waiting |-> q.waiting, serving |-> NoRequest, stage |-> "idle"]

\* The end of a reload, successful or not.
Unlock(q) ==
    ConsumeQueue([waiting |-> q.waiting, serving |-> NoRequest, stage |-> "idle"])

-----------------------------------------------------------------------------
(* The steps of a reload.  Nothing but a reload writes the files, so       *)
(* reading the definitions and renaming the new file into place is one     *)
(* step.                                                                   *)

GoTo(stage) == reload' = [reload EXCEPT !.stage = stage]

Render(fs) == files' = [f \in Files |-> IF f \in fs THEN definitions[Source(f)]
                                        ELSE files[f]]

RenderApps ==
    /\ reload.stage = "apps"
    /\ Render(Apps)
    /\ GoTo("base")
    /\ UNCHANGED loaded

\* Mutant: an existing nginx.conf is left alone.
EnsureBaseNginxConfOnce ==
    /\ reload.stage = "base"
    /\ IF files[Base] = Blank THEN Render({Base}) ELSE UNCHANGED files
    /\ GoTo("captain")
    /\ UNCHANGED loaded

EnsureBaseNginxConf ==
    /\ reload.stage = "base"
    /\ Render({Base})
    /\ GoTo("captain")
    /\ UNCHANGED loaded

CreateRootConfFile ==
    /\ reload.stage = "captain"
    /\ Render({Captain})
    /\ GoTo("test")
    /\ UNCHANGED loaded

AllSound == \A f \in Files : files[f].sound

\* nginx -t reads all the files; when it says that the test is successful nginx
\* is told to load them.  The files do not change in between.
ValidateNginxConfigAndReload ==
    /\ reload.stage = "test"
    /\ AllSound
    /\ loaded' = files
    /\ UNCHANGED files

ValidationFails ==
    /\ reload.stage = "test"
    /\ ~AllSound
    /\ UNCHANGED <<files, loaded>>

\* The file system or Docker fails, or a template cannot be rendered.  A
\* signal may have reached nginx all the same.
Breaks ==
    /\ reload.stage # "idle"
    /\ \/ UNCHANGED loaded
       \/ reload.stage = "test" /\ AllSound /\ loaded' = files
    /\ UNCHANGED files

\* The files the reload in process has already rendered.
Rendered ==
    {f \in Files : \/ reload.stage = "test"
                   \/ reload.stage = "captain" /\ f # Captain
                   \/ reload.stage = "base" /\ f \in Apps}
=============================================================================
