------------------------------- MODULE MCParts -------------------------------
(***************************************************************************)
(* Parts of CapRover that share nothing, each checked by itself: a         *)
(* behaviour is one of any of them, while the others do not begin.         *)
(***************************************************************************)
EXTENDS AgentKeys, RateLimiter, ProFeatures, BuildSources, AppPage, OneClickPage, Monitoring, Themes

CONSTANTS a, b

VARIABLE part   \* the part that is looked at

partsVars == <<part, keysVars, limiterVars, proVars, sourcesVars, appPageVars, oneClickPageVars,
               monitoringVars, themesVars>>

PartsInit ==
    /\ part \in {"keys", "limiter", "pro", "sources", "app page", "deploy token", "catalog",
                "both monitors", "GoAccess", "themes"}
    /\ KeysInit
    /\ LimiterInit
    /\ ProInit /\ apiIndex = 0   \* the two domains are alike
    /\ SourcesInit
    /\ AppPageInit
    /\ OneClickPageInit
    /\ MonitoringInit
    /\ ThemesInit

OnlyKeys ==
    /\ part = "keys"
    /\ UNCHANGED <<part, limiterVars, proVars, sourcesVars, appPageVars, oneClickPageVars,
                   monitoringVars, themesVars>>
    /\ KeysNext

OnlyLimiter ==
    /\ part = "limiter"
    /\ UNCHANGED <<part, keysVars, proVars, sourcesVars, appPageVars, oneClickPageVars,
                   monitoringVars, themesVars>>
    /\ LimiterNext

OnlyPro ==
    /\ part = "pro"
    /\ UNCHANGED <<part, keysVars, limiterVars, sourcesVars, appPageVars, oneClickPageVars,
                   monitoringVars, themesVars>>
    /\ ProNext

OnlySources ==
    /\ part = "sources"
    /\ UNCHANGED <<part, keysVars, limiterVars, proVars, appPageVars, oneClickPageVars,
                   monitoringVars, themesVars>>
    /\ SourcesNext

\* The page of an app: what is typed and saved, and the token is left alone; or
\* the deploy token, and nothing is typed.
OnlyAppPage ==
    /\ part \in {"app page", "deploy token"}
    /\ UNCHANGED <<part, keysVars, limiterVars, proVars, sourcesVars, oneClickPageVars,
                   monitoringVars, themesVars>>
    /\ AppPageNext
    /\ part = "app page" => \A t \in Tabs : call'[t].op \notin {"toggle", "rotate"}
    /\ part = "deploy token" => typed' = 0 /\ \A t \in Tabs : call'[t].op # "domains"

OnlyOneClickPage ==
    /\ part = "catalog"
    /\ UNCHANGED <<part, keysVars, limiterVars, proVars, sourcesVars, appPageVars, monitoringVars,
                   themesVars>>
    /\ OneClickPageNext

\* The monitors: both are turned on and off, and no settings are typed; or
\* GoAccess alone, with settings.
OnlyMonitoring ==
    /\ part \in {"both monitors", "GoAccess"}
    /\ UNCHANGED <<part, keysVars, limiterVars, proVars, sourcesVars, appPageVars,
                   oneClickPageVars, themesVars>>
    /\ MonitoringNext
    /\ part = "both monitors" => edits' = 0
    /\ part = "GoAccess" => \A v \in Viewers : update'[v].monitor # "netdata"

OnlyThemes ==
    /\ part = "themes"
    /\ UNCHANGED <<part, keysVars, limiterVars, proVars, sourcesVars, appPageVars,
                   oneClickPageVars, monitoringVars>>
    /\ ThemesNext

PartsNext ==
    \/ OnlyKeys
    \/ OnlyLimiter
    \/ OnlyPro
    \/ OnlySources
    \/ OnlyAppPage
    \/ OnlyOneClickPage
    \/ OnlyMonitoring
    \/ OnlyThemes

PartsSpec == PartsInit /\ [][PartsNext]_partsVars

\* The values of two alike actors: it does not matter which of them has which.
Together(f) == Range(f)

\* What is typed: of a call, the fields that it saves and those that it read.
OwnFields(group) == [f \in Fields \ {"domains"} |-> group[f]]
IsHere(t) == page[t] \in {"ready", "working"}
\* A page that is to be loaded again is like one that is closed.
PageIs(t) == IF IsHere(t) THEN page[t] ELSE "closed"
CallIs(t) ==
    LET c == call[t] IN
    IF c = NoCall THEN <<>>
    ELSE <<c.op, c.at, [f \in (Group(c.op) \cap Fields) \ {"domains"} |-> c.fields[f]],
           OwnFields(c.base), t \in beside>>
FieldsTogether ==
    <<app, typed, open, raced \ {"token"}, [f \in Fields \ raced |-> kept[f]],
      Together([t \in Tabs |-> <<PageIs(t), IF IsHere(t) THEN OwnFields(draft[t]) ELSE <<>>, CallIs(t)>>])>>

\* The token: all saves that do not toggle it are alike.
TokenCallIs(t) ==
    LET c == call[t] IN
    IF c = NoCall THEN <<>>
    ELSE <<IF c.op \in Saves \ {"toggle"} THEN "save" ELSE c.op, c.at,
           IF c.op = "toggle" THEN <<c.enable, c.with>> ELSE <<>>, c.under, t \in beside>>
TokenTogether ==
    <<token, given, open, revoked, "token" \in raced,
      Together([t \in Tabs |->
          <<PageIs(t), IF IsHere(t) THEN <<tokenOn[t], revealed[t]>> ELSE <<>>, TokenCallIs(t)>>])>>

\* GoAccess: of an update, what its next steps take from it, and what its page
\* will show.  One of NetData only holds the lock.
StillNeeded(x) ==
    CASE x.at \in {"sent", "admitted", "recorded"} -> x.to
      [] x.at \in {"scheduled", "removed"} -> RunsWith(x.to)
      [] OTHER -> <<>>
UpdateIs(u) ==
    LET x == update[u]
        shown == u \in Viewers /\ monitoring[u] = "working"
    IN  IF x.monitor = "goaccess" THEN <<x.at, IF shown THEN x.to ELSE StillNeeded(x)>> ELSE <<x.at>>
ViewersTogether ==
    <<info["goaccess"], container["goaccess"], crontab, accessLogs, serverState, edits, lockFree, failed,
      UpdateIs(Start),
      Together([v \in Viewers |->
          <<monitoring[v], current[v]["goaccess"], UpdateIs(v), v \in together>>])>>

\* Of a login, whether it was verified, if that is asked; the last configuration
\* that was saved, unless changes overlapped.  Which domain of the account service
\* is asked makes no difference.
ProCallIs(c) ==
    IF proCall[c] # None /\ ~proCall[c].on THEN [proCall[c] EXCEPT !.valid = FALSE] ELSE proCall[c]
ProTogether ==
    <<proStore, service, lock, IF disturbed THEN <<>> ELSE <<saved>>,
      Together([c \in ProCalls |-> ProCallIs(c)])>>

\* Of the catalog nothing is used while a deployment is shown, and of the jobs
\* those that the page asks for.
CatalogTogether ==
    <<repositories, [j \in DOMAIN jobs |-> IF Watched(j) THEN jobs[j] ELSE <<>>], started, unlocked,
      view, selected, template, values, jobId, polling,
      IF jobId = 0 THEN <<offered, listed, loading, working>> ELSE <<>>, Together(ask)>>

CallerIs(c) == <<at[c], keyCall[c], copy[c]>>
CallersTogether == <<[i \in DOMAIN queue |-> CallerIs(queue[i])], Together([c \in Callers |-> CallerIs(c)])>>

\* A deployment is told by how far it is; by its name only where that is not enough.
DeployIs(d) ==
    LET is(e) == <<stage[e], sort[e], version[e], e = waiting, e \in direct, e \in archives,
                   e \in keyFiles>> IN
    <<is(d), IF \E e \in Deploys \ {d} : is(e) = is(d) THEN d ELSE None>>
These(ds) == {DeployIs(d) : d \in ds}
DeploysTogether ==
    <<[v \in Versions |-> IF dirs[v] = None THEN None ELSE These(dirs[v])],
      {<<DeployIs(d), These(imageOf[d])>> : d \in Deploys}>>

\* A theme is told by its name, of those that users give by any of them (p), and
\* a request by what its answer still needs.  What is edited does not matter once
\* it cannot be saved.
Under(p, name) == IF name \in ThemeNames THEN p[name] ELSE name
NamesOf(p, list) == {Under(p, list[i].name) : i \in DOMAIN list}
ThemeRequestIs(p, r) ==
    CASE r.at = "none" -> <<>>
      [] r.at = "failed" \/ (r.at = "done" /\ r.op = "current") -> <<"ends">>
      [] r.at = "done" /\ r.op \in {"update", "delete"} -> <<r.op>>
      [] OTHER -> <<r.op, r.at, Under(p, r.oldName), Under(p, r.theme.name), NamesOf(p, r.list),
                    Under(p, r.found.name)>>
ThemesUnder(p) ==
    <<NamesOf(p, themes), Len(themes), Under(p, currentTheme), owed, {Under(p, name) : name \in replaced}, settings,
      NamesOf(p, listedThemes), Under(p, selectedTheme.name), typedThemes,
      IF typedThemes < MaxContents THEN <<editor.shown, Under(p, editor.oldName)>> ELSE <<>>, Together([c \in ThemeCalls |-> ThemeRequestIs(p, request[c])])>>
ThemesTogether == {ThemesUnder(p) : p \in Permutations(ThemeNames)}

\* A state is told by the variables of its part; the others keep their values.
MCView ==
    <<part,
      CASE part = "keys" -> <<keyStoreVars, requests, answered, CallersTogether>>
        [] part = "limiter" -> limiterVars
        [] part = "pro" -> ProTogether
        [] part = "sources" -> <<appVars, marked, DeploysTogether>>
        [] part = "app page" -> FieldsTogether
        [] part = "deploy token" -> TokenTogether
        [] part = "catalog" -> CatalogTogether
        [] part \in {"both monitors", "GoAccess"} -> ViewersTogether
        [] part = "themes" -> ThemesTogether>>

\* Agent keys: one that may deploy to one app, and one that may read them all.
MCPolicy == [allowAppCreation |-> "true", allowDockerfileDeploys |-> "unset", prefixes |-> TRUE]
MCKeyInputs ==
    {[role |-> "deploy", appNames |-> {a}, expiresAt |-> "soon", shape |-> TRUE, policy |-> MCPolicy],
     [role |-> "read", appNames |-> {}, expiresAt |-> "never", shape |-> TRUE, policy |-> None]}
MCDeployments ==
    {[appName |-> x, createApp |-> n, described |-> FALSE, shape |-> TRUE, definition |-> k] :
        x \in AppNames, n \in {"true", "unset"}, k \in {"our image", "dockerfile"}}
=============================================================================
