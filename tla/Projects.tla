------------------------------ MODULE Projects ------------------------------
(***************************************************************************)
(* The tree of projects (ProjectsDataStore, ProjectsRouter) and the project *)
(* of each app.  Requests of the dashboard take the lock of UserRouter: the *)
(* one that waits, for its timers or for Docker, keeps the others out (a     *)
(* client that leaves early, which Domains has, is left out here).           *)
(* Deployments of one-click apps write the same definitions without it.      *)
(***************************************************************************)
EXTENDS Naturals, SequencesExt, JavaScript

CONSTANTS
    ProjectIds, Apps,
    MaxOps     \* bound on the requests of the dashboard

ASSUME ProjectsAssumption ==
    /\ MaxOps \in Nat
    /\ None \notin ProjectIds \cup Apps
    /\ IsFiniteSet(ProjectIds)

VARIABLES
    parent,       \* the parent of each project there is
    appProject,   \* the project of each app there is
    op,           \* the request that holds the lock
    ops,          \* the requests so far
    gone          \* projects reported as deleted and not saved since

projectVars == <<parent, appProject, op, ops, gone>>

Projects == DOMAIN parent
\* None: no parent, no project.
Places == Projects \cup {None}

Idle == [kind |-> "idle"]

ProjectsTypeOK ==
    /\ Projects \subseteq ProjectIds
    /\ \A p \in Projects : parent[p] \in ProjectIds \cup {None}
    /\ DOMAIN appProject \subseteq Apps
    /\ \A a \in DOMAIN appProject : appProject[a] \in ProjectIds \cup {None}
    /\ op \in {Idle}
              \cup [kind : {"delete"}, order : Seq(ProjectIds), ids : SUBSET ProjectIds]
              \cup [kind : {"move"}, app : Apps, to : ProjectIds \cup {None}]
              \cup [kind : {"remove"}, app : Apps]
    /\ ops \in 0..MaxOps
    /\ gone \subseteq ProjectIds

ProjectsInit ==
    /\ parent = <<>>
    /\ appProject = <<>>
    /\ op = Idle
    /\ ops = 0
    /\ gone = {}

-----------------------------------------------------------------------------
(* The store                                                               *)

With(f, x, v) == [y \in DOMAIN f \cup {x} |-> IF y = x THEN v ELSE f[y]]
Without(f, x) == [y \in DOMAIN f \ {x} |-> f[y]]

\* saveProject looks at the direct parent only, and does not ask whether the
\* project is there: an update of a deleted one brings it back.
SaveProject(id, to) ==
    /\ to \in Places
    /\ to # id
    /\ parent' = With(parent, id, to)
    /\ gone' = gone \ {id}

\* organizeFromTheLeafsToRoot starts from the projects without a parent: what
\* hangs on a cycle is in no level.
Levels == LET level[n \in Nat] ==
                IF n = 0 THEN {p \in Projects : parent[p] = None}
                ELSE {p \in Projects : parent[p] \in level[n - 1]}
          IN  UNION {level[n] : n \in 0..Cardinality(Projects)}

\* Its order: every project comes before its parent.
FromTheLeafsToRoot(S) ==
    {order \in SetToSeqs(S) :
        \A i, j \in 1..Len(order) : parent[order[i]] = order[j] => i < j}

\* Mutant: sub projects are not looked for.
DeleteAnyLevel(acc, id) ==
    IF acc.rejected = 2 THEN acc
    ELSE IF \/ id \notin DOMAIN acc.parent
            \/ \E a \in DOMAIN appProject : appProject[a] = id
    THEN [acc EXCEPT !.rejected = @ + 1]
    ELSE [acc EXCEPT !.parent = Without(@, id)]

\* deleteProject.  After a rejection nobody waits for the later deletions, so
\* the second one ends the process.
DeleteProject(acc, id) ==
    IF acc.rejected = 2 THEN acc
    ELSE IF \/ id \notin DOMAIN acc.parent
            \/ \E a \in DOMAIN appProject : appProject[a] = id
            \/ \E p \in DOMAIN acc.parent : acc.parent[p] = id
    THEN [acc EXCEPT !.rejected = @ + 1]
    ELSE [acc EXCEPT !.parent = Without(@, id)]

-----------------------------------------------------------------------------
(* The dashboard's requests                                                *)

Begins == /\ op = Idle
          /\ ops < MaxOps
          /\ ops' = ops + 1

\* POST /projects/register and /projects/update.
Save(id, to) ==
    /\ Begins
    /\ SaveProject(id, to)
    /\ UNCHANGED <<appProject, op>>

\* registerAppDefinition looks for the project and registers in one turn.
RegisterApp(a, to) ==
    /\ a \notin DOMAIN appProject
    /\ to \in Places
    /\ appProject' = With(appProject, a, to)

\* POST /appDefinitions/register
Register(a, to) ==
    /\ Begins
    /\ RegisterApp(a, to)
    /\ UNCHANGED <<parent, op, gone>>

\* updateAppDefinition looks for the project, then asks Docker, then writes.
StartMove(a, to) ==
    /\ Begins
    /\ a \in DOMAIN appProject
    /\ to \in Places
    /\ op' = [kind |-> "move", app |-> a, to |-> to]
    /\ UNCHANGED <<parent, appProject, gone>>

MoveEnds ==
    /\ op.kind = "move"
    /\ appProject' \in {appProject, [appProject EXCEPT ![op.app] = op.to]}
    /\ op' = Idle
    /\ UNCHANGED <<parent, ops, gone>>

\* removeApps asks Docker first; busy are the apps that are being built.
StartRemove(a, busy) ==
    /\ Begins
    /\ a \in DOMAIN appProject \ busy
    /\ op' = [kind |-> "remove", app |-> a]
    /\ UNCHANGED <<parent, appProject, gone>>

RemoveEnds ==
    /\ op.kind = "remove"
    /\ appProject' \in {appProject, Without(appProject, op.app)}
    /\ op' = Idle
    /\ UNCHANGED <<parent, ops, gone>>

\* POST /projects/delete: the order is fixed before the 500 ms of each.
StartDelete(ids) ==
    /\ Begins
    /\ \E order \in FromTheLeafsToRoot(ids \cap Levels) :
          op' = [kind |-> "delete", order |-> order, ids |-> ids]
    /\ UNCHANGED <<parent, appProject, gone>>

\* The timers of one request fire one after the other.
Deletion == FoldLeft(DeleteProject, [parent |-> parent, rejected |-> 0], op.order)

DeleteEnds ==
    /\ op.kind = "delete"
    /\ parent' = Deletion.parent
    /\ gone' = IF Deletion.rejected = 0 THEN gone \cup op.ids ELSE gone
    /\ op' = Idle
    /\ UNCHANGED <<appProject, ops>>

Dashboard(busy) ==
    \/ \E id \in ProjectIds, to \in ProjectIds \cup {None} : Save(id, to)
    \/ \E a \in Apps, to \in ProjectIds \cup {None} : Register(a, to) \/ StartMove(a, to)
    \/ \E a \in Apps : StartRemove(a, busy)
    \/ \E ids \in (SUBSET ProjectIds) \ {{}} : StartDelete(ids)
    \/ MoveEnds
    \/ RemoveEnds

-----------------------------------------------------------------------------
(* Properties                                                              *)

\* 'Project deleted' (ProjectsRouter) is answered of no project that stays.
DeletedProjectsAreGone == gone \cap Projects = {}
=============================================================================
