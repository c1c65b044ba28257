----------------------------- MODULE AppVersions -----------------------------
(***************************************************************************)
(* The version history of one app definition, as AppsDataStore keeps it:   *)
(* a bounded list of versions, newest last, and the number of the one that *)
(* is deployed.  Each operator is one operation of the store on a record   *)
(* it has just read; the caller writes the result back.                    *)
(***************************************************************************)
EXTENDS Integers, Sequences, FiniteSetsExt

CONSTANTS
    MaxVersionHistory,  \* CaptainConstants.configs.maxVersionHistory, 50
    NoImage             \* a version whose image has not been built

\* With a history of one version the list would be emptied before every
\* deploy and each version would get number 0.
ASSUME HistoryAssumption ==
    /\ MaxVersionHistory \in Nat
    /\ MaxVersionHistory >= 2

Version(Images) == [version : Nat, image : Images \cup {NoImage}]

Definition(Images) ==
    [versions : Seq(Version(Images)), deployedVersion : Nat, paused : BOOLEAN]

\* The record registerAppDefinition stores: one instance, nothing deployed.
FreshDefinition ==
    [versions |-> <<>>, deployedVersion |-> 0, paused |-> FALSE]

\* Utils.dropFirstElements: the newest n elements.
DropFirstElements(s, n) ==
    IF Len(s) <= n THEN s ELSE SubSeq(s, Len(s) - n + 1, Len(s))

Kept(def) == DropFirstElements(def.versions, MaxVersionHistory - 1)

\* Mutants of NewVersionIndex: only the length of the list counts; the bump to
\* one above a kept number is missing; positions counted from 0.
NewVersionIndexIsLength(def) == Len(Kept(def))

NewVersionIndexNoBump(def) ==
    Max({Len(Kept(def))} \cup {Kept(def)[i].version : i \in DOMAIN Kept(def)})

NewVersionIndexOffByOne(def) ==
    Max({Len(Kept(def)) - 1} \cup
        {Kept(def)[i].version + 1 : i \in DOMAIN Kept(def)})

\* One more than every version kept, and at least their number.
NewVersionIndex(def) ==
    LET kept == Kept(def)
    IN  Max({Len(kept)} \cup {kept[i].version + 1 : i \in DOMAIN kept})

CreateNewVersion(def) ==
    [def EXCEPT !.versions =
        Append(Kept(def), [version |-> NewVersionIndex(def), image |-> NoImage])]

IndexesOf(def, v) == {i \in DOMAIN def.versions : def.versions[i].version = v}

HasVersion(def, v) == IndexesOf(def, v) # {}

\* Precondition: HasVersion(def, v).  The loop stops at the first match.
SetDeployedVersionAndImage(def, v, img) ==
    [versions |-> [def.versions EXCEPT ![Min(IndexesOf(def, v))].image = img],
     deployedVersion |-> v,
     paused |-> def.paused]

\* The image ensureServiceInitedAndUpdated hands to Docker; NoImage makes it
\* throw.
DeployedImage(def) ==
    IF HasVersion(def, def.deployedVersion)
    THEN def.versions[Min(IndexesOf(def, def.deployedVersion))].image
    ELSE NoImage

\* rollbackAgentDeployment throws unless the version is there with an image.
CanRollBack(def, v) ==
    \E i \in IndexesOf(def, v) : def.versions[i].image # NoImage

RollBack(def, v) == [def EXCEPT !.deployedVersion = v]

\* pauseFailedAgentApp: no instances.
Pause(def) == [def EXCEPT !.paused = TRUE]

\* Numbers strictly increase along the list.
Increasing(def) ==
    \A i, j \in DOMAIN def.versions :
        i < j => def.versions[i].version < def.versions[j].version
=============================================================================
