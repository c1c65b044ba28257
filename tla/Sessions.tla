------------------------------ MODULE Sessions ------------------------------
(***************************************************************************)
(* Signing in: AuthSessionManager, LoginRouter, Authenticator, the user    *)
(* injection of Injector, /changepassword, and the retrying client of the  *)
(* dashboard (frontend/lib/api-client.ts).                                 *)
(*                                                                         *)
(* A login leaves two cookies in the browser: an access token, signed with *)
(* the token version of the process, and a refresh token, of which the     *)
(* store keeps a record.  The tabs of a browser share its cookies; every   *)
(* fetch carries the cookies of the moment it is sent, and its answer sets *)
(* cookies when it is delivered, so the calls of two tabs interleave       *)
(* around the server.  The server handles a call in one turn of its event  *)
(* loop, but for a login, which awaits the verification of its one-time    *)
(* password; it may die between two file writes of a password change.      *)
(***************************************************************************)
EXTENDS Integers, FiniteSets, JavaScript

CONSTANTS
    Tabs,          \* each has its own refreshPromise
    Calls,         \* what a tab may have open at once
    TabOf,         \* [Calls -> Tabs]
    KindsOf,       \* what a call may be for: the dashboard and the login
                   \* page make different ones
    Browsers,
    BrowserOf,     \* [Tabs -> Browsers]: the tabs of a browser share cookies
    MaxSessions,   \* the records the store keeps (10)
    Lifetime,      \* REFRESH_SESSION_LIFETIME_MS
    AccessLife,    \* ACCESS_COOKIE_LIFETIME_MS
    Keep,          \* an answer that does not set the cookie
    MaxTime, MaxTokens, MaxChanges, MaxCrashes

ASSUME SessionsAssumption ==
    /\ TabOf \in [Calls -> Tabs]
    /\ KindsOf \in [Calls -> SUBSET {"request", "change", "refresh", "login", "logout"}]
    /\ BrowserOf \in [Tabs -> Browsers]
    /\ Calls \cap Tabs = {}
    /\ MaxSessions \in Nat \ {0}
    /\ Lifetime \in Nat \ {0}
    /\ AccessLife \in Nat \ {0}
    /\ MaxTokens \in Nat
    /\ None \notin Nat
    /\ Keep # None

VARIABLES
    now,
    sessions,   \* refreshSessions: a list, in the order of the ids
    tokens,     \* how many refresh tokens were issued
    logins,     \* history, per token that a login issued: when, the password
                \* that was in force then, and the one that was typed
    disk,       \* the password (known by how often it changed) and the
                \* authTokenVersion in the data store
    version,    \* tokenVersion of the process
    answered,   \* history: the last password whose change was answered
    crashes,
    jar,        \* the cookies of each browser
    flight      \* the fetch of each call, and of each tab's refreshPromise

vars == <<now, sessions, tokens, logins, disk, version, answered, crashes,
          jar, flight>>

server == <<sessions, tokens, logins, disk, version, answered>>

Flights == Calls \cup Tabs

Browser(x) == BrowserOf[IF x \in Tabs THEN x ELSE TabOf[x]]

\* The ids of refresh tokens.  A session is known by the token of its login.
Ids == 1..MaxTokens

Session == [id : Ids, login : Ids, expires : Nat]

Access == [login : Ids, version : Nat, expires : Nat]

\* None: no cookie.
Cookies == [access : Access \cup {None}, refresh : Ids \cup {None}]

SetCookies == [access : Access \cup {None, Keep}, refresh : Ids \cup {None, Keep}]

Kinds == {"request", "change", "refresh", "login", "logout"}

\* "checking": a login whose one-time password is being verified; ok says that
\* its password matches the hash it read.  "waiting": a request that was
\* refused awaits the refreshPromise of its tab.
Stages == {"idle", "sent", "checking", "answered", "waiting"}

Flight == [kind : Kinds, stage : Stages, retried : BOOLEAN, password : Nat,
           cookies : Cookies, ok : BOOLEAN, set : SetCookies]

NoCookies == [access |-> None, refresh |-> None]

NothingSet == [access |-> Keep, refresh |-> Keep]

Landed == [kind |-> "request", stage |-> "idle", retried |-> FALSE,
           password |-> 0, cookies |-> NoCookies, ok |-> FALSE,
           set |-> NothingSet]

\* Types.
TypeOK ==
    /\ now \in Nat
    /\ sessions \in SUBSET Session
    /\ tokens \in 0..MaxTokens
    /\ logins \in [Ids -> [at : Nat, password : Nat, typed : Nat]]
    /\ disk \in [password : Nat, version : Nat]
    /\ version \in Nat
    /\ answered \in Nat
    /\ crashes \in Nat
    /\ jar \in [Browsers -> Cookies]
    /\ flight \in [Flights -> Flight]

Init ==
    /\ now = 0
    /\ sessions = {}
    /\ tokens = 0
    /\ logins = [i \in Ids |-> [at |-> 0, password |-> 0, typed |-> 0]]
    /\ disk = [password |-> 0, version |-> 0]
    /\ version = 0
    /\ answered = 0
    /\ crashes = 0
    /\ jar = [b \in Browsers |-> NoCookies]
    /\ flight = [x \in Flights |-> Landed]

-----------------------------------------------------------------------------
(* What the server knows of the cookies of a call                          *)

\* decodeAuthTokenFromCookies
AccessAccepted(a) == a # None /\ a.version = version /\ now < a.expires

\* getRefreshSessions drops the expired records.
Active == {s \in sessions : now < s.expires}

\* consumeRefreshSession: the record of the token, if it is usable.
Usable(r) == {s \in Active : s.id = r}

Read(r) == IF r = None THEN sessions ELSE Active

\* revokeRefreshSession
Revoked(r) == Read(r) \ Usable(r)

\* Mutant: the list is cut at the wrong end.
OldestSessions(S) == {s \in S : Cardinality({r \in S : r.id < s.id}) < MaxSessions}

\* .slice(-10)
NewestSessions(S) == {s \in S : Cardinality({r \in S : r.id > s.id}) < MaxSessions}

\* Mutant: the renewed token is nobody's.
FreshAccessForNobody(login) ==
    [login |-> 0, version |-> version, expires |-> now + AccessLife]

FreshAccess(login) ==
    [login |-> login, version |-> version, expires |-> now + AccessLife]

\* injectUser: what the answer to an admitted call sets.  A refresh cookie
\* admits a call whose access cookie does not, and pays for a new one.
Injected(c) ==
    IF AccessAccepted(c.access) THEN {NothingSet}
    ELSE {[access |-> FreshAccess(s.login), refresh |-> Keep] : s \in Usable(c.refresh)}

InjectReads(c) == IF AccessAccepted(c.access) THEN sessions ELSE Read(c.refresh)

-----------------------------------------------------------------------------
(* The network and the browser                                             *)

Sent(kind, retried, cookies) ==
    [kind |-> kind, stage |-> "sent", retried |-> retried,
     password |-> disk.password, cookies |-> cookies, ok |-> FALSE,
     set |-> NothingSet]

Answered(f, ok, set) ==
    [kind |-> f.kind, stage |-> "answered", retried |-> f.retried,
     password |-> 0, cookies |-> NoCookies, ok |-> ok, set |-> set]

Answer(x, ok, set) ==
    flight' = [flight EXCEPT ![x] = Answered(flight[x], ok, set)]

Incoming(x, kind) == flight[x].stage = "sent" /\ flight[x].kind = kind

WithCookies(c, set) ==
    [access |-> IF set.access = Keep THEN c.access ELSE set.access,
     refresh |-> IF set.refresh = Keep THEN c.refresh ELSE set.refresh]

Waiting(t) == {c \in Calls : TabOf[c] = t /\ flight[c].stage = "waiting"}

\* A tab starts a call.  The password that is typed is the one of the moment.
Send(c, kind) ==
    /\ flight[c].stage = "idle"
    /\ flight' = [flight EXCEPT ![c] = Sent(kind, FALSE, jar[Browser(c)])]
    /\ UNCHANGED <<now, jar, crashes, server>>

\* clientApiRequest: a first refusal waits for the refreshPromise of its tab,
\* which is fetched unless it is under way.
AwaitRefresh(c) ==
    LET t == TabOf[c] IN
    flight' = [x \in Flights |->
                  IF x = c THEN [Landed EXCEPT !.stage = "waiting", !.kind = flight[c].kind]
                  ELSE IF x = t /\ flight[t].stage = "idle"
                       THEN Sent("refresh", FALSE, jar[Browser(c)])
                       ELSE flight[x]]

\* Mutant: a refresh that fails leaves the calls that await it.
RefreshSettlesIfOk(t, ok, cookies) ==
    flight' = [x \in Flights |->
                  IF x = t THEN Landed
                  ELSE IF x \in Waiting(t) /\ ok THEN Sent(flight[x].kind, TRUE, cookies)
                       ELSE flight[x]]

\* The refreshPromise of t settles: the calls that await it are sent again,
\* or end with their refusals.
RefreshSettles(t, ok, cookies) ==
    flight' = [x \in Flights |->
                  IF x = t THEN Landed
                  ELSE IF x \in Waiting(t)
                       THEN IF ok THEN Sent(flight[x].kind, TRUE, cookies) ELSE Landed
                       ELSE flight[x]]

Retries(f) == f.kind \in {"request", "change"} /\ ~f.ok /\ ~f.retried

\* An answer arrives: the browser takes its cookies, then the caller goes on.
Deliver(x) ==
    LET f == flight[x]
        b == Browser(x)
        cookies == WithCookies(jar[b], f.set)
    IN
    /\ f.stage = "answered"
    /\ jar' = [jar EXCEPT ![b] = cookies]
    /\ \/ x \in Tabs /\ RefreshSettles(x, f.ok, cookies)
       \/ x \in Calls /\ Retries(f) /\ AwaitRefresh(x)
       \/ x \in Calls /\ ~Retries(f) /\ flight' = [flight EXCEPT ![x] = Landed]
    /\ UNCHANGED <<now, crashes, server>>

\* The fetch fails, before or after the server handled the call; a login that
\* is being verified goes on, and its answer may be lost.
Lost(x) ==
    \/ x \in Tabs /\ RefreshSettles(x, FALSE, NoCookies)
    \/ x \in Calls /\ flight' = [flight EXCEPT ![x] = Landed]

Lose(x) ==
    /\ flight[x].stage \in {"sent", "answered"}
    /\ Lost(x)
    /\ UNCHANGED <<now, jar, crashes, server>>

-----------------------------------------------------------------------------
(* The server                                                              *)

\* POST /login, up to the first await: the hash is read, with which the
\* password will be compared.
ReadHash(x) ==
    /\ Incoming(x, "login")
    /\ flight' = [flight EXCEPT ![x].stage = "checking",
                                ![x].ok = flight[x].password = disk.password]
    /\ UNCHANGED <<now, jar, crashes, server>>

\* The one-time password is verified, or is not needed: the tokens are of the
\* version of this later moment, whatever was changed since the hash was read.
FinishLogin(x) ==
    LET id == tokens + 1
        session == [id |-> id, login |-> id, expires |-> now + Lifetime]
    IN
    /\ flight[x].stage = "checking" /\ flight[x].ok
    /\ tokens < MaxTokens
    /\ tokens' = id
    /\ logins' = [logins EXCEPT ![id] = [at |-> now, password |-> disk.password,
                                        typed |-> flight[x].password]]
    /\ sessions' = NewestSessions(Active \cup {session})
    /\ Answer(x, TRUE, [access |-> FreshAccess(id), refresh |-> id])
    /\ UNCHANGED <<now, jar, disk, version, answered, crashes>>

\* The password or the one-time password is wrong, or cannot be verified.
RefuseLogin(x) ==
    /\ flight[x].stage = "checking"
    /\ Answer(x, FALSE, NothingSet)
    /\ UNCHANGED <<now, jar, crashes, server>>

\* Mutant: the record of the old token stays.
RotatedBesides(s, id) ==
    NewestSessions(Active \cup {[id |-> id, login |-> s.login, expires |-> s.expires]})

\* Mutant: a rotation starts a new lifetime.
RotatedAnew(s, id) ==
    NewestSessions((Active \ {s})
                   \cup {[id |-> id, login |-> s.login, expires |-> now + Lifetime]})

\* The record is replaced by one of the same deadline.
Rotated(s, id) ==
    NewestSessions((Active \ {s})
                   \cup {[id |-> id, login |-> s.login, expires |-> s.expires]})

\* POST /login/refresh: consumeRefreshSession with rotation.
ServeRefresh(x) ==
    LET r == flight[x].cookies.refresh
        id == tokens + 1
    IN
    /\ Incoming(x, "refresh")
    /\ tokens < MaxTokens
    /\ \/ \E s \in Usable(r) :
             /\ tokens' = id
             /\ sessions' = Rotated(s, id)
             /\ Answer(x, TRUE, [access |-> FreshAccess(s.login), refresh |-> id])
       \/ /\ Usable(r) = {}
          /\ sessions' = Read(r)
          /\ Answer(x, FALSE, NothingSet)
          /\ UNCHANGED tokens
    /\ UNCHANGED <<now, jar, logins, disk, version, answered, crashes>>

\* POST /login/logout
ServeLogout(x) ==
    LET r == flight[x].cookies.refresh IN
    /\ Incoming(x, "logout")
    /\ sessions' = Revoked(r)
    /\ Answer(x, TRUE, NoCookies)
    /\ UNCHANGED <<now, jar, tokens, logins, disk, version, answered, crashes>>

\* Any other call of the API, as far as injectUser takes it.
ServeRequest(x) ==
    LET c == flight[x].cookies IN
    /\ Incoming(x, "request")
    /\ sessions' = InjectReads(c)
    /\ \/ \E set \in Injected(c) : Answer(x, TRUE, set)
       \/ Injected(c) = {} /\ Answer(x, FALSE, NothingSet)
    /\ UNCHANGED <<now, jar, tokens, logins, disk, version, answered, crashes>>

\* POST /user/changepassword, when injectUser refuses or the old password is
\* wrong; the second is an answer like any other to the client.
RefuseChange(x) ==
    LET c == flight[x].cookies IN
    /\ Incoming(x, "change")
    /\ sessions' = InjectReads(c)
    /\ \/ Injected(c) = {} /\ Answer(x, FALSE, NothingSet)
       \/ /\ flight[x].password # disk.password
          /\ \E set \in Injected(c) : Answer(x, TRUE, set)
    /\ UNCHANGED <<now, jar, tokens, logins, disk, version, answered, crashes>>

\* Mutant: the new token version is not saved.
ChangedInMemory == [password |-> disk.password + 1, version |-> disk.version]

\* setHashedPassword, setAuthTokenVersion
Changed == [password |-> disk.password + 1, version |-> disk.version + 1]

\* A change also rotates the token version of the process, revokes all
\* refresh sessions, and is answered.
ServeChange(x) ==
    /\ Incoming(x, "change")
    /\ flight[x].password = disk.password
    /\ disk.password < MaxChanges
    /\ \E set \in Injected(flight[x].cookies) : Answer(x, TRUE, set)
    /\ disk' = Changed
    /\ version' = disk.version + 1
    /\ sessions' = {}
    /\ answered' = disk.password + 1
    /\ UNCHANGED <<now, jar, tokens, logins, crashes>>

\* A process that dies takes the logins with it that await a verification.
Interrupted == [x \in Flights |-> IF flight[x].stage = "checking" THEN Landed ELSE flight[x]]

\* The process dies after the first write of a change, or after the second.
DieInChange(x) ==
    LET c == flight[x].cookies IN
    /\ Incoming(x, "change")
    /\ flight[x].password = disk.password
    /\ disk.password < MaxChanges
    /\ crashes < MaxCrashes
    /\ Injected(c) # {}
    /\ \E v \in {disk.version, disk.version + 1} :
          /\ disk' = [password |-> disk.password + 1, version |-> v]
          /\ version' = v
    /\ sessions' = InjectReads(c)
    /\ crashes' = crashes + 1
    /\ flight' = [Interrupted EXCEPT ![x] = Landed]
    /\ UNCHANGED <<now, jar, tokens, logins, answered>>

\* CaptainManager.initialize takes the version from the data store.
Restart ==
    /\ crashes < MaxCrashes
    /\ crashes' = crashes + 1
    /\ version' = disk.version
    /\ flight' = Interrupted
    /\ UNCHANGED <<now, jar, sessions, tokens, logins, disk, answered>>

\* The maxAge of the access cookie is the life of its token.
Aged(c, t) ==
    [access |-> IF c.access # None /\ c.access.expires <= t THEN None ELSE c.access,
     refresh |-> c.refresh]

Tick ==
    /\ now < MaxTime
    /\ now' = now + 1
    /\ jar' = [b \in Browsers |-> Aged(jar[b], now + 1)]
    /\ UNCHANGED <<flight, crashes, server>>

-----------------------------------------------------------------------------
Serve(x) ==
    \/ ReadHash(x)
    \/ FinishLogin(x)
    \/ RefuseLogin(x)
    \/ ServeRefresh(x)
    \/ ServeLogout(x)
    \/ ServeRequest(x)
    \/ RefuseChange(x)
    \/ ServeChange(x)
    \/ DieInChange(x)

Next ==
    \/ \E c \in Calls : \E kind \in KindsOf[c] : Send(c, kind)
    \/ \E x \in Flights : Serve(x) \/ Deliver(x) \/ Lose(x)
    \/ Restart
    \/ Tick

Spec == Init /\ [][Next]_vars

-----------------------------------------------------------------------------
(* Properties                                                              *)

\* However the refreshes of the tabs of a browser meet, a login has one
\* refresh record at most: of two rotations of one token one is refused.
OneSessionPerLogin ==
    \A s, t \in sessions : s.login = t.login => s = t

\* The access tokens that browsers hold, or that are on their way to them.
AccessTokens ==
    ({jar[b].access : b \in Browsers} \cup {flight[x].cookies.access : x \in Flights}
     \cup {flight[x].set.access : x \in Flights}) \ {None, Keep}

\* Neither rotations nor the cookies that requests renew carry a login past
\* its absolute lifetime, by more than the life of one access token.
SessionsEndInTime ==
    /\ \A s \in sessions : s.expires = logins[s.login].at + Lifetime
    /\ \A a \in AccessTokens : a.expires < logins[a.login].at + Lifetime + AccessLife

\* Once a password change is answered, what the logins left behind that ended
\* before it was written is not accepted any more, whenever the process
\* restarts.  A login that the change overtakes, between its hash and its
\* tokens, is accepted until the next change: see OldPasswordsAreRefused.
OldLoginsAreRefused ==
    /\ \A s \in sessions : logins[s.login].password >= answered
    /\ \A a \in AccessTokens : a.version = version => logins[a.login].password >= answered

\* What the logins by an earlier password left behind is not accepted once a
\* change is answered.  Not so: a login that awaits the verification of its
\* one-time password while the change is made is given tokens of the new
\* version, and a session, for the old password.
OldPasswordsAreRefused ==
    /\ \A s \in sessions : logins[s.login].typed >= answered
    /\ \A a \in AccessTokens : a.version = version => logins[a.login].typed >= answered

\* A usable session leaves the store by its own rotation or logout, by a
\* password change, or because MaxSessions newer tokens push it out; and the
\* limit never costs the session of the token that is just being given out.
OnlyNewerSessionsPushOut ==
    [][/\ tokens' # tokens => \E s \in sessions' : s.id = tokens'
       /\ \A s \in sessions \ sessions' :
           \/ now >= s.expires
           \/ disk'.password # disk.password
           \/ \E x \in Flights : flight[x].stage = "sent" /\ flight'[x].stage = "answered"
                                 /\ flight[x].kind \in {"refresh", "logout"}
                                 /\ flight[x].cookies.refresh = s.id
           \/ Cardinality({r \in sessions' : r.id > s.id}) = MaxSessions]_vars

\* A call that was refused waits only while its tab has a refresh under way:
\* it is never left behind by the promise it shares with other calls.
WaitersHaveARefresh ==
    \A c \in Calls : flight[c].stage = "waiting" => flight[TabOf[c]].stage \in {"sent", "answered"}
=============================================================================
