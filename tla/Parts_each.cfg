SPECIFICATION PartsSpec
CONSTANTS
  \* AgentKeys
  KeyIds = {k1, k2}
  a = a
  b = b
  AppNames = {a, b}
  KeyInputs <- MCKeyInputs
  Deployments <- MCDeployments
  Callers = {c1, c2}
  MaxTokens = 2
  None = None
  \* RateLimiter
  Clients = {p, q, r}
  Nginx = Nginx
  MaxAttempts = 1
  WindowTicks = 2
  MaxBuckets = 2
  MaxCount = 2
  \* ProFeatures
  ApiKeys = {key}
  Configs = {x}
  NoAlerts = NoAlerts
  ProCalls = {p1, p2}
  MaxSecrets = 2
  \* BuildSources
  Deploys = {d1, d2, d3}
  MaxRecreated = 1
  \* AppPage
  Tabs = {t1, t2}
  Fields = {"configuration", "repoPassword", "domains"}
  MaxTyped = 1
  MaxDrawn = 2
  \* OneClickPage
  Repos = {r1}
  Official = Official
  Asks = {a1, a2}
  MaxJobs = 1
  MaxSteps = 1
  MayGo = FALSE
  \* Monitoring
  Viewers = {v1, v2}
  Monitors = {"netdata", "goaccess"}
  Start = Start
  MaxEdits = 1
  \* Themes
  ThemeNames = {n1, n2}
  BuiltIn = BuiltIn
  NoName = NoName
  ThemeCalls = {s1, s2}
  MaxThemes = 2
  MaxContents = 3
INVARIANTS
  KeyChangesAreKept
  EndedTokensAreRefused
  RefusedHaveUsedTheirWindow
  LoginsAreVerified
  SavedConfigStays
  BuildsReadTheirSource
  ArchiveOutlivesItsBuild
  RevokedTokensStayRevoked
  SavedValuesStay
  SelectedIsDeployed
  GoAccessAsRecorded
  CurrentThemeExists
CHECK_DEADLOCK FALSE
VIEW MCView
