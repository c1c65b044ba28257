----------------------------- MODULE AppConfig -----------------------------
(***************************************************************************)
(* Changes of the configuration, and the reloads of nginx they wait for:   *)
(* updateAppDefinition and patchAppDefinition with their revert when nginx *)
(* refuses the result, setNginxConfig with its own, and the changes of     *)
(* domains and certificates, which have none.                              *)
(*                                                                         *)
(* An action is one turn of the event loop, as in BuildQueue.  The data    *)
(* store answers within the turn, so only Docker, the file system and      *)
(* nginx come between two steps of a change.                               *)
(***************************************************************************)
EXTENDS NginxReload

CONSTANTS
    MaxChanges,   \* bound on the changes
    MaxEvents,    \* bound on the restarts and renewals together
    Startup,      \* the reload of a starting process
    Nobody        \* a reload whose promise nobody waits for

Changes == 1..MaxChanges

ASSUME ChangesAssumption ==
    /\ MaxChanges \in Nat
    /\ MaxEvents \in Nat
    /\ Requests = Changes \cup {Startup, Nobody}
    /\ {Startup, Nobody} \cap Changes = {}
    /\ Startup # Nobody

VARIABLES
    changes,   \* number of changes so far
    kind,      \* the operation a change is
    part,      \* the part of the definitions it writes
    status,    \* how far it got
    copy,      \* the configuration it holds: the one to write, then the one found
    wrote,     \* the revision it made
    saved,     \* per part, the last update that wrote it (history)
    process,   \* the state of the Node process
    missed,    \* parts written, or wiped, with no reload to show for it
    events     \* number of restarts and renewals so far

chainVars == <<kind, part, status, copy, wrote>>
changeVars == <<changes, kind, part, status, copy, wrote, saved>>
vars == <<definitions, files, loaded, reload, changeVars, process, missed,
          events>>

Kinds == {"none", "update", "patch", "system", "domain"}
Statuses == {"unused", "checking", "updating", "reloading", "ok", "failed"}
Open == {"checking", "updating", "reloading"}

TypeOK ==
    /\ ReloadTypeOK
    /\ changes \in 0..MaxChanges
    /\ kind \in [Changes -> Kinds]
    /\ part \in [Changes -> Parts]
    /\ status \in [Changes -> Statuses]
    /\ copy \in [Changes -> Content]
    /\ wrote \in [Changes -> Nat]
    /\ saved \in [Parts -> 0..MaxChanges]
    /\ process \in {"up", "starting", "down"}
    /\ missed \subseteq Parts
    /\ events \in 0..MaxEvents

Init ==
    /\ ReloadInit
    /\ changes = 0
    /\ kind = [c \in Changes |-> "none"]
    /\ part = [c \in Changes |-> System]
    /\ status = [c \in Changes |-> "unused"]
    /\ copy = [c \in Changes |-> Blank]
    /\ wrote = [c \in Changes |-> 0]
    /\ saved = [p \in Parts |-> 0]
    /\ process = "up"
    /\ missed = {}
    /\ events = 0

-----------------------------------------------------------------------------
\* What the definitions of p are after a write of the text of t.
Rewritten(p, t) ==
    [by |-> t.by, sound |-> t.sound, rev |-> definitions[p].rev + 1]

Write(p, t) == definitions' = [definitions EXCEPT ![p] = Rewritten(p, t)]

\* A change arrives: what it is, where it goes, what it holds.
Arrives(k, p, t, s, rev) ==
    LET c == changes + 1
    IN  /\ process = "up"
        /\ c \in Changes
        /\ changes' = c
        /\ kind' = [kind EXCEPT ![c] = k]
        /\ part' = [part EXCEPT ![c] = p]
        /\ copy' = [copy EXCEPT ![c] = t]
        /\ status' = [status EXCEPT ![c] = s]
        /\ wrote' = [wrote EXCEPT ![c] = rev]
        /\ UNCHANGED saved

\* A change is answered, and what its chain held is gone.
Ended(c, s) ==
    /\ kind' = [kind EXCEPT ![c] = "none"]
    /\ part' = [part EXCEPT ![c] = System]
    /\ status' = [status EXCEPT ![c] = s]
    /\ copy' = [copy EXCEPT ![c] = Blank]
    /\ wrote' = [wrote EXCEPT ![c] = 0]

\* updateAppDefinition, up to the questions it asks Docker about nodes.
StartUpdate(a, sound) ==
    /\ Arrives("update", a, [by |-> changes + 1, sound |-> sound, rev |-> 0],
               "checking", 0)
    /\ UNCHANGED <<definitions, files, loaded, reload, process, missed, events>>

\* patchAppDefinition of some other field: every field that the patch leaves
\* out is read here, and handed to updateAppDefinition.
StartPatch(a) ==
    /\ Arrives("patch", a, definitions[a], "checking", 0)
    /\ UNCHANGED <<definitions, files, loaded, reload, process, missed, events>>

\* A question about the node is answered badly, or not at all.
CheckFails(c) ==
    /\ status[c] = "checking"
    /\ Ended(c, "failed")
    /\ UNCHANGED <<definitions, files, loaded, reload, changes, saved, process,
                   missed, events>>

\* The rest of updateAppDefinition: read what there is, write all fields.
SaveDefinition(c) ==
    /\ status[c] = "checking"
    /\ Write(part[c], copy[c])
    /\ copy' = [copy EXCEPT ![c] = definitions[part[c]]]
    /\ wrote' = [wrote EXCEPT ![c] = definitions[part[c]].rev + 1]
    /\ status' = [status EXCEPT ![c] = "updating"]
    /\ saved' = IF kind[c] = "update" THEN [saved EXCEPT ![part[c]] = c] ELSE saved
    /\ UNCHANGED <<files, loaded, reload, changes, kind, part, process, missed,
                   events>>

\* ensureServiceInitedAndUpdated: Docker took the update, now nginx.
ServiceUpdated(c) ==
    /\ status[c] = "updating"
    /\ status' = [status EXCEPT ![c] = "reloading"]
    /\ reload' = RePopulateNginxConfigFile(reload, c)
    /\ UNCHANGED <<definitions, files, loaded, changes, kind, part, copy,
                   wrote, saved, process, missed, events>>

\* Docker did not: the definition stays, and nginx hears nothing of it.
ServiceUpdateFails(c) ==
    /\ status[c] = "updating"
    /\ Ended(c, "failed")
    /\ missed' = missed \cup {part[c]}
    /\ UNCHANGED <<definitions, files, loaded, reload, changes, saved, process,
                   events>>

\* setNginxConfig.
SetNginxConfig(sound) ==
    LET t == [by |-> changes + 1, sound |-> sound, rev |-> 0]
    IN  /\ Arrives("system", System, definitions[System], "reloading",
                   definitions[System].rev + 1)
        /\ Write(System, t)
        /\ reload' = RePopulateNginxConfigFile(reload, changes + 1)
        /\ UNCHANGED <<files, loaded, process, missed, events>>

\* A domain or a certificate of an app, after all that is asked of others: the
\* definition is read and written with everything else as it was.
ChangeDomain(a) ==
    /\ Arrives("domain", a, Blank, "reloading", definitions[a].rev + 1)
    /\ Write(a, definitions[a])
    /\ reload' = RePopulateNginxConfigFile(reload, changes + 1)
    /\ UNCHANGED <<files, loaded, process, missed, events>>

-----------------------------------------------------------------------------
(* A reload goes on                                                        *)

RenderStep ==
    /\ \/ RenderApps /\ missed' = missed \ Apps
       \/ EnsureBaseNginxConf /\ missed' = missed
       \/ CreateRootConfFile /\ missed' = missed \ {System}
    /\ UNCHANGED <<definitions, changeVars, process, events>>

\* Mutant: the reverted definition is left to the next reload.
RevertSilently(c) ==
    /\ Write(part[c], copy[c])
    /\ reload' = Unlock(reload)

\* The definition as it was, and a reload nobody waits for.  The reload that
\* ends takes up the next request before this one is made.
Revert(c) ==
    /\ Write(part[c], copy[c])
    /\ reload' = RePopulateNginxConfigFile(Unlock(reload), Nobody)

Revertible == {"update", "patch", "system"}

\* The process ends: what was under way in it is gone.
Dies ==
    /\ process' = "down"
    /\ reload' = Idle
    /\ status' = [c \in Changes |-> IF status[c] \in Open THEN "failed" ELSE status[c]]
    /\ kind' = [c \in Changes |-> "none"]
    /\ part' = [c \in Changes |-> System]
    /\ copy' = [c \in Changes |-> Blank]
    /\ wrote' = [c \in Changes |-> 0]
    /\ missed' = Parts

Succeeds ==
    /\ ValidateNginxConfigAndReload
    /\ reload' = Unlock(reload)
    /\ \/ \E c \in Changes : reload.serving = c /\ Ended(c, "ok") /\ UNCHANGED process
       \/ reload.serving = Startup /\ process' = "up" /\ UNCHANGED chainVars
       \/ reload.serving = Nobody /\ UNCHANGED <<process, chainVars>>
    /\ UNCHANGED <<definitions, changes, saved, missed, events>>

Refuses ==
    /\ ValidationFails
    /\ \/ \E c \in Changes :
            /\ reload.serving = c
            /\ \/ kind[c] \in Revertible /\ Ended(c, "failed") /\ Revert(c)
               \/ /\ kind[c] \notin Revertible
                  /\ Ended(c, "failed")
                  /\ reload' = Unlock(reload)
                  /\ UNCHANGED definitions
            /\ UNCHANGED <<process, missed>>
       \/ reload.serving = Startup /\ Dies /\ UNCHANGED definitions
       \/ /\ reload.serving = Nobody
          /\ reload' = Unlock(reload)
          /\ UNCHANGED <<definitions, process, chainVars, missed>>
    /\ UNCHANGED <<changes, saved, events>>

\* Any other error is passed on and takes nothing back.
ReloadBreaks ==
    /\ Breaks
    /\ \/ \E c \in Changes :
            /\ reload.serving = c
            /\ Ended(c, "failed")
            /\ reload' = Unlock(reload)
            /\ missed' = Parts
            /\ UNCHANGED process
       \/ reload.serving = Startup /\ Dies
       \/ /\ reload.serving = Nobody
          /\ reload' = Unlock(reload)
          /\ missed' = Parts
          /\ UNCHANGED <<process, chainVars>>
    /\ UNCHANGED <<definitions, changes, saved, events>>

-----------------------------------------------------------------------------
\* The health check, an operator or an unhandled rejection ends the process.
Restart ==
    /\ events < MaxEvents
    /\ process # "down"
    /\ events' = events + 1
    /\ Dies
    /\ UNCHANGED <<definitions, files, loaded, changes, saved>>

\* renewAllCertsAndReload, every twenty hours: new certificates are no new
\* definitions, and its caller only logs what becomes of the reload.
RenewAllCertsAndReload ==
    /\ process = "up"
    /\ events < MaxEvents
    /\ events' = events + 1
    /\ reload' = RePopulateNginxConfigFile(reload, Nobody)
    /\ UNCHANGED <<definitions, files, loaded, changeVars, process, missed>>

\* CaptainManager.initialize empties the directory of the generated files and
\* waits for a reload.
Initialize ==
    /\ process = "down"
    /\ process' = "starting"
    /\ files' = [f \in Files |-> Blank]
    /\ reload' = RePopulateNginxConfigFile(reload, Startup)
    /\ UNCHANGED <<definitions, loaded, changeVars, missed, events>>

Next ==
    \/ \E a \in Apps : \/ \E sound \in BOOLEAN : StartUpdate(a, sound)
                       \/ StartPatch(a)
                       \/ ChangeDomain(a)
    \/ \E sound \in BOOLEAN : SetNginxConfig(sound)
    \/ \E c \in Changes : \/ CheckFails(c)
                          \/ SaveDefinition(c)
                          \/ ServiceUpdated(c)
                          \/ ServiceUpdateFails(c)
    \/ RenderStep
    \/ Succeeds
    \/ Refuses
    \/ ReloadBreaks
    \/ Restart
    \/ RenewAllCertsAndReload
    \/ Initialize

Spec == Init /\ [][Next]_vars

\* Docker, nginx and the file system answer, one way or the other, and Docker
\* starts the process again.
Fairness ==
    /\ WF_vars(RenderStep \/ Succeeds \/ Refuses \/ ReloadBreaks)
    /\ WF_vars(Initialize)
    /\ \A c \in Changes : /\ WF_vars(CheckFails(c) \/ SaveDefinition(c))
                          /\ WF_vars(ServiceUpdated(c) \/ ServiceUpdateFails(c))

FairSpec == Spec /\ Fairness

-----------------------------------------------------------------------------
(* Properties                                                              *)

\* A change that is answered without an error is in what nginx runs: the reload it
\* waited for read the definitions after the change had written them, whatever
\* else was reloaded in between and in whatever order requests were taken.
AnswersAreFresh ==
    [][\A c \in Changes :
          status'[c] = "ok" /\ status[c] # "ok" =>
              \A f \in Files :
                  Source(f) = part[c] => loaded'[f].rev >= wrote[c]]_vars

\* A file that is behind its definition will be rewritten: a reload is waiting,
\* or the one in process has not come to the file, or the writer has still to
\* ask.  Otherwise something broke (missed).  So a refused configuration does
\* not stay in the files, where the next start of nginx would find it.
StaleFilesAreDue ==
    \A f \in Files :
        \/ files[f].rev = definitions[Source(f)].rev
        \/ Source(f) \in missed
        \/ reload.waiting # <<>>
        \/ reload.serving # NoRequest /\ f \notin Rendered
        \/ \E c \in Changes : status[c] = "updating" /\ part[c] = Source(f)

\* Every change is answered in the end, or its process is gone.
ChangesEnd ==
    \A c \in Changes : status[c] \in Open ~> status[c] \notin Open

\* patchAppDefinition: "Only fields explicitly included in the request body are
\* updated; omitted fields retain their current values."  So an update that is
\* told "Updated App Definition Saved" is what the data store holds, unless an
\* update made after it holds the field now.
SavedUpdatesStay ==
    [][\A c \in Changes :
          kind[c] = "update" /\ status'[c] = "ok" /\ status[c] # "ok" =>
              definitions'[part[c]].by \in {c, saved[part[c]]}]_vars
=============================================================================
