---------------------------- MODULE SessionsProofs ----------------------------
(***************************************************************************)
(* What a login leaves behind, for any browsers, tabs and calls: one       *)
(* refresh record at most, that ends in time, and that an answered change  *)
(* of the password puts an end to.  Then what two-factor login and the Pro *)
(* account owe to their requests (ProFeatures); the limiter of logins,     *)
(* which refuses only who has used up a window alone; and the themes.      *)
(***************************************************************************)
EXTENDS Sessions, ProFeatures, RateLimiter, Themes, SharedLemmas

\* What holds of a record of the store.
SessionOK(s) ==
    /\ s.login <= tokens
    /\ s.expires = logins[s.login].at + Lifetime
    /\ logins[s.login].password >= answered

\* What holds of an access token, wherever it is.
AccessOK(a) ==
    /\ a.login <= tokens
    /\ a.expires < logins[a.login].at + Lifetime + AccessLife
    /\ a.version <= version
    /\ a.version = version => logins[a.login].password >= answered

\* Where access tokens are.
CookiesOK(c) == c.access # None => AccessOK(c.access)

SetOK(set) == set.access \notin {None, Keep} => AccessOK(set.access)

JarsOK == \A b \in Browsers : CookiesOK(jar[b])

FlightsOK == \A x \in Flights : CookiesOK(flight[x].cookies) /\ SetOK(flight[x].set)

\* The process and the store agree on the version, and a change is answered
\* after it was written.
ChangesOK == version = disk.version /\ answered <= disk.password

StoreOK == OneSessionPerLogin /\ \A s \in sessions : SessionOK(s)

\* The inductive invariant.
SessionsInv == TypeOK /\ ChangesOK /\ StoreOK /\ JarsOK /\ FlightsOK

-------------------------------------------------------------------------------
(* Operators                                                               *)

\* A record that a refresh token opens is in the store and has not ended.
LEMMA UsableIsThere ==
    ASSUME NEW r PROVE Usable(r) \subseteq Active /\ Active \subseteq sessions
BY DEF Usable, Active

\* Cutting the list leaves a part of it.
LEMMA NewestAreThere == ASSUME NEW S PROVE NewestSessions(S) \subseteq S
BY DEF NewestSessions

\* Reading the store, revoking a session and rotating one only drop records,
\* but for the new one of a rotation.
LEMMA ReadsDrop ==
    ASSUME NEW r, NEW c
    PROVE  /\ Read(r) \subseteq sessions
           /\ Revoked(r) \subseteq sessions
           /\ InjectReads(c) \subseteq sessions
BY DEF Read, Revoked, InjectReads, Active

\* A new access token is one.
LEMMA FreshIsAccess ==
    ASSUME TypeOK, NEW l \in Ids PROVE FreshAccess(l) \in Access
BY SessionsAssumption DEF TypeOK, FreshAccess, Access

\* What an answer to an admitted call sets is well typed.
LEMMA InjectedTyped ==
    ASSUME TypeOK, NEW c \in Cookies, NEW set \in Injected(c) PROVE set \in SetCookies
<1>1. CASE AccessAccepted(c.access)
    BY <1>1 DEF Injected, NothingSet, SetCookies
<1>2. CASE ~AccessAccepted(c.access)
    <2>1. PICK s \in Usable(c.refresh) :
            set = [access |-> FreshAccess(s.login), refresh |-> Keep]
        BY <1>2 DEF Injected
    <2>2. s \in Session
        BY <2>1, UsableIsThere DEF TypeOK
    <2>3. FreshAccess(s.login) \in Access
        BY <2>2, FreshIsAccess DEF Session
    <2> QED
        BY <2>1, <2>3 DEF SetCookies
<1> QED
    BY <1>1, <1>2

\* The idle fetch, and one that is sent, are well typed.
LEMMA FlightsTyped ==
    ASSUME TypeOK
    PROVE  /\ Landed \in Flight
           /\ \A k \in Kinds : [Landed EXCEPT !.stage = "waiting", !.kind = k] \in Flight
           /\ \A k \in Kinds, again \in BOOLEAN, c \in Cookies : Sent(k, again, c) \in Flight
           /\ \A f \in Flight, ok \in BOOLEAN, set \in SetCookies : Answered(f, ok, set) \in Flight
BY DEF TypeOK, Landed, Flight, Kinds, Stages, Cookies, SetCookies, NoCookies, NothingSet, Sent, Answered

\* An answer is well typed.
LEMMA AnswerTyped ==
    ASSUME TypeOK, NEW x \in Flights, NEW ok \in BOOLEAN, NEW set \in SetCookies,
           Answer(x, ok, set)
    PROVE  flight' \in [Flights -> Flight]
BY FlightsTyped DEF Answer, TypeOK

\* Cookies of a browser stay cookies whatever an answer sets.
LEMMA CookiesTyped ==
    ASSUME NEW c \in Cookies, NEW set \in SetCookies PROVE WithCookies(c, set) \in Cookies
BY DEF WithCookies, Cookies, SetCookies

\* Every fetch belongs to a browser.
LEMMA BrowserTyped == ASSUME NEW x \in Flights PROVE Browser(x) \in Browsers
BY SessionsAssumption DEF Browser, Flights

\* A settled refresh leaves every fetch well typed.
LEMMA SettlesTyped ==
    ASSUME TypeOK, NEW t \in Tabs, NEW ok, NEW c \in Cookies, RefreshSettles(t, ok, c)
    PROVE  flight' \in [Flights -> Flight]
<1>1. \A x \in Flights : flight[x] \in Flight /\ flight[x].kind \in Kinds
    BY DEF TypeOK, Flight
<1>2. \A x \in Flights : Sent(flight[x].kind, TRUE, c) \in Flight
    BY <1>1, FlightsTyped
<1> QED
    BY <1>1, <1>2, FlightsTyped DEF RefreshSettles

LEMMA AwaitTyped ==
    ASSUME TypeOK, NEW c \in Calls, AwaitRefresh(c)
    PROVE  flight' \in [Flights -> Flight]
<1>1. \A x \in Flights : flight[x] \in Flight /\ flight[x].kind \in Kinds
    BY DEF TypeOK, Flight
<1>2. c \in Flights
    BY DEF Flights
<1>3. jar[Browser(c)] \in Cookies
    BY <1>2, BrowserTyped DEF TypeOK
<1>4. Sent("refresh", FALSE, jar[Browser(c)]) \in Flight
    BY <1>3, FlightsTyped DEF Kinds
<1>5. [Landed EXCEPT !.stage = "waiting", !.kind = flight[c].kind] \in Flight
    BY <1>1, <1>2, FlightsTyped
<1> QED
    BY <1>1, <1>4, <1>5 DEF AwaitRefresh

LEMMA LostTyped ==
    ASSUME TypeOK, NEW x \in Flights, Lost(x)
    PROVE  flight' \in [Flights -> Flight]
<1>1. NoCookies \in Cookies
    BY DEF NoCookies, Cookies
<1>2. CASE x \in Tabs /\ RefreshSettles(x, FALSE, NoCookies)
    BY <1>1, <1>2, SettlesTyped
<1>3. CASE flight' = [flight EXCEPT ![x] = Landed]
    BY <1>3, FlightsTyped DEF TypeOK
<1> QED
    BY <1>2, <1>3 DEF Lost

\* What a process that dies leaves on the way.
LEMMA InterruptedTyped ==
    ASSUME TypeOK PROVE Interrupted \in [Flights -> Flight]
BY FlightsTyped DEF Interrupted, TypeOK

-------------------------------------------------------------------------------
(* Types                                                                   *)

\* Every step keeps the types.
LEMMA TypesStay == TypeOK /\ [Next]_vars => TypeOK'
<1> SUFFICES ASSUME TypeOK, [Next]_vars PROVE TypeOK'
    OBVIOUS
<1> USE DEF server
<1>0. \A x \in Flights : /\ flight[x] \in Flight
                         /\ flight[x].kind \in Kinds
                         /\ flight[x].cookies \in Cookies
                         /\ flight[x].set \in SetCookies
    BY DEF TypeOK, Flight
<1>n. /\ NothingSet \in SetCookies
      /\ [access |-> None, refresh |-> None] \in SetCookies
    BY DEF NothingSet, SetCookies
<1>1. ASSUME NEW c \in Calls, NEW kind \in KindsOf[c], Send(c, kind) PROVE TypeOK'
    <2>1. c \in Flights /\ kind \in Kinds
        BY SessionsAssumption DEF Flights, Kinds
    <2>2. jar[Browser(c)] \in Cookies
        BY <2>1, BrowserTyped DEF TypeOK
    <2>3. Sent(kind, FALSE, jar[Browser(c)]) \in Flight
        BY <2>1, <2>2, FlightsTyped
    <2> QED
        BY <1>1, <2>1, <2>3 DEF Send, TypeOK
<1>2. ASSUME NEW x \in Flights, FinishLogin(x) PROVE TypeOK'
    <2> DEFINE id == tokens + 1
               session == [id |-> id, login |-> id, expires |-> now + Lifetime]
    <2>1. id \in Ids /\ id \in 0 .. MaxTokens
        BY <1>2, SessionsAssumption DEF FinishLogin, TypeOK, Ids
    <2>2. FreshAccess(id) \in Access
        BY <2>1, FreshIsAccess
    <2>3. [access |-> FreshAccess(id), refresh |-> id] \in SetCookies
        BY <2>1, <2>2 DEF SetCookies
    <2>4. flight' \in [Flights -> Flight]
        BY <1>2, <2>3, AnswerTyped DEF FinishLogin
    <2>5. session \in Session
        BY <2>1, SessionsAssumption DEF Session, TypeOK
    <2>6. sessions' \subseteq Active \cup {session}
        BY <1>2, NewestAreThere DEF FinishLogin
    <2>7. sessions' \subseteq Session
        BY <2>5, <2>6 DEF TypeOK, Active
    <2>8. flight[x].password \in Nat
        BY <1>0 DEF Flight
    <2>9. logins' \in [Ids -> [at : Nat, password : Nat, typed : Nat]]
        BY <1>2, <2>1, <2>8 DEF FinishLogin, TypeOK
    <2> QED
        BY <1>2, <2>1, <2>4, <2>7, <2>9 DEF FinishLogin, TypeOK
<1>14. ASSUME NEW x \in Flights, RefuseLogin(x) PROVE TypeOK'
    BY <1>14, <1>n, AnswerTyped DEF RefuseLogin, TypeOK
<1>15. ASSUME NEW x \in Flights, ReadHash(x) PROVE TypeOK'
    <2>1. [flight[x] EXCEPT !.stage = "checking", !.ok = flight[x].password = disk.password] \in Flight
        BY <1>0 DEF Flight, Stages
    <2>2. flight' \in [Flights -> Flight]
        BY <1>15, <2>1 DEF ReadHash, TypeOK
    <2> QED
        BY <1>15, <2>2 DEF ReadHash, TypeOK
<1>3. ASSUME NEW x \in Flights, ServeRefresh(x) PROVE TypeOK'
    <2> DEFINE r == flight[x].cookies.refresh
               id == tokens + 1
    <2>1. ASSUME NEW s \in Usable(r), tokens' = id, sessions' = Rotated(s, id),
                 Answer(x, TRUE, [access |-> FreshAccess(s.login), refresh |-> id])
          PROVE TypeOK'
        <3>1. id \in Ids /\ id \in 0 .. MaxTokens
            BY <1>3, SessionsAssumption DEF ServeRefresh, TypeOK, Ids
        <3>2. s \in Session
            BY UsableIsThere DEF TypeOK
        <3>3. FreshAccess(s.login) \in Access
            BY <3>2, FreshIsAccess DEF Session
        <3>4. [access |-> FreshAccess(s.login), refresh |-> id] \in SetCookies
            BY <3>1, <3>3 DEF SetCookies
        <3>5. flight' \in [Flights -> Flight]
            BY <2>1, <3>4, AnswerTyped
        <3>6. [id |-> id, login |-> s.login, expires |-> s.expires] \in Session
            BY <3>1, <3>2 DEF Session
        <3>7. sessions' \subseteq Session
            BY <2>1, <3>6, NewestAreThere DEF Rotated, TypeOK, Active
        <3> QED
            BY <1>3, <2>1, <3>1, <3>5, <3>7 DEF ServeRefresh, TypeOK
    <2>2. CASE sessions' = Read(r) /\ Answer(x, FALSE, NothingSet) /\ UNCHANGED tokens
        BY <1>3, <2>2, <1>n, AnswerTyped, ReadsDrop DEF ServeRefresh, TypeOK
    <2> QED
        BY <1>3, <2>1, <2>2 DEF ServeRefresh
<1>4. ASSUME NEW x \in Flights, ServeLogout(x) PROVE TypeOK'
    BY <1>4, <1>n, AnswerTyped, ReadsDrop DEF ServeLogout, TypeOK, NoCookies
<1>5. ASSUME NEW x \in Flights, ServeRequest(x) PROVE TypeOK'
    <2>1. flight' \in [Flights -> Flight]
        BY <1>0, <1>5, <1>n, AnswerTyped, InjectedTyped DEF ServeRequest
    <2> QED
        BY <1>5, <2>1, ReadsDrop DEF ServeRequest, TypeOK
<1>6. ASSUME NEW x \in Flights, RefuseChange(x) PROVE TypeOK'
    <2>1. flight' \in [Flights -> Flight]
        BY <1>0, <1>6, <1>n, AnswerTyped, InjectedTyped DEF RefuseChange
    <2> QED
        BY <1>6, <2>1, ReadsDrop DEF RefuseChange, TypeOK
<1>7. ASSUME NEW x \in Flights, ServeChange(x) PROVE TypeOK'
    <2>1. flight' \in [Flights -> Flight]
        BY <1>0, <1>7, AnswerTyped, InjectedTyped DEF ServeChange
    <2> QED
        BY <1>7, <2>1 DEF ServeChange, Changed, TypeOK
<1>8. ASSUME NEW x \in Flights, DieInChange(x) PROVE TypeOK'
    <2>1. flight' \in [Flights -> Flight]
        BY <1>8, InterruptedTyped, FlightsTyped DEF DieInChange
    <2> QED
        BY <1>8, <2>1, ReadsDrop DEF DieInChange, TypeOK
<1>9. ASSUME NEW x \in Flights, Deliver(x) PROVE TypeOK'
    <2> DEFINE cookies == WithCookies(jar[Browser(x)], flight[x].set)
    <2>1. cookies \in Cookies
        BY <1>0, BrowserTyped, CookiesTyped DEF TypeOK
    <2>2. flight' \in [Flights -> Flight]
        BY <1>9, <2>1, SettlesTyped, AwaitTyped, FlightsTyped DEF Deliver, TypeOK
    <2>3. jar' \in [Browsers -> Cookies]
        BY <1>9, <2>1, BrowserTyped DEF Deliver, TypeOK
    <2> QED
        BY <1>9, <2>2, <2>3 DEF Deliver, TypeOK
<1>10. ASSUME NEW x \in Flights, Lose(x) PROVE TypeOK'
    BY <1>10, LostTyped DEF Lose, TypeOK
<1>11. CASE Restart
    BY <1>11, InterruptedTyped DEF Restart, TypeOK
<1>12. CASE Tick
    <2>1. \A b \in Browsers : Aged(jar[b], now + 1) \in Cookies
        BY DEF TypeOK, Aged, Cookies
    <2> QED
        BY <1>12, <2>1 DEF Tick, TypeOK
<1>13. CASE UNCHANGED vars
    BY <1>13 DEF vars, TypeOK
<1> QED
    BY <1>1, <1>2, <1>3, <1>4, <1>5, <1>6, <1>7, <1>8, <1>9, <1>10, <1>11, <1>12, <1>13, <1>14, <1>15
    DEF Next, Serve

-------------------------------------------------------------------------------
(* Tokens on the way                                                       *)

\* Time has been given nothing to spoil: a token stays fine while the server
\* only issues more, and, at the same version, answers no other change.
TokensStay ==
    /\ tokens <= tokens'
    /\ \A l \in Ids : l <= tokens => logins'[l] = logins[l]
    /\ version <= version'
    /\ version' = version => answered' = answered

LEMMA TokenStays ==
    ASSUME TypeOK, TypeOK', TokensStay, NEW a \in Access, AccessOK(a) PROVE AccessOK(a)'
<1>1. a.login \in Ids /\ a.version \in Nat /\ a.login \in Nat
    BY DEF Access, Ids
<1>2. logins'[a.login] = logins[a.login] /\ a.login <= tokens /\ tokens <= tokens'
    BY <1>1 DEF TokensStay, AccessOK
<1>3. a.login <= tokens'
    BY <1>1, <1>2 DEF TypeOK
<1>4. a.version <= version'
    BY <1>1 DEF TokensStay, AccessOK, TypeOK
<1>5. a.version = version' => version' = version /\ answered' = answered
    BY <1>1 DEF TokensStay, AccessOK, TypeOK
<1> QED
    BY <1>2, <1>3, <1>4, <1>5 DEF AccessOK

LEMMA CookiesStay ==
    ASSUME TypeOK, TypeOK', TokensStay, NEW c \in Cookies, CookiesOK(c) PROVE CookiesOK(c)'
BY TokenStays DEF CookiesOK, Cookies

LEMMA SetsStay ==
    ASSUME TypeOK, TypeOK', TokensStay, NEW set \in SetCookies, SetOK(set) PROVE SetOK(set)'
BY TokenStays DEF SetOK, SetCookies

\* No cookies, and none set, are fine.
LEMMA NothingIsFine ==
    /\ CookiesOK(NoCookies) /\ CookiesOK(NoCookies)'
    /\ SetOK(NothingSet) /\ SetOK(NothingSet)'
    /\ SetOK(NoCookies) /\ SetOK(NoCookies)'
BY DEF CookiesOK, SetOK, NoCookies, NothingSet

LEMMA JarsStay ==
    ASSUME TypeOK, TypeOK', TokensStay, JarsOK, UNCHANGED jar PROVE JarsOK'
<1>1. \A b \in Browsers : jar[b] \in Cookies /\ CookiesOK(jar[b])
    BY DEF TypeOK, JarsOK
<1>2. \A b \in Browsers : CookiesOK(jar[b])'
    BY <1>1, CookiesStay
<1> QED
    BY <1>2 DEF JarsOK

\* A fetch that is as it was.
LEMMA FlightStays ==
    ASSUME TypeOK, TypeOK', TokensStay, FlightsOK, NEW x \in Flights, flight'[x] = flight[x]
    PROVE  (CookiesOK(flight[x].cookies) /\ SetOK(flight[x].set))'
<1>1. /\ flight[x].cookies \in Cookies /\ CookiesOK(flight[x].cookies)
      /\ flight[x].set \in SetCookies /\ SetOK(flight[x].set)
    BY DEF TypeOK, Flight, FlightsOK
<1>2. PICK c \in Cookies, set \in SetCookies : c = flight[x].cookies /\ set = flight[x].set
    BY <1>1
<1>3. CookiesOK(c)' /\ SetOK(set)'
    BY <1>1, <1>2, CookiesStay, SetsStay
<1>4. flight'[x].cookies = c /\ flight'[x].set = set
    BY <1>2
<1> QED
    BY <1>3, <1>4 DEF CookiesOK, SetOK

\* An answer carries what it sets, and no cookies.
LEMMA AnswerFine ==
    ASSUME TypeOK, TypeOK', TokensStay, FlightsOK, NEW x \in Flights, NEW ok,
           NEW set, SetOK(set)', Answer(x, ok, set)
    PROVE  FlightsOK'
<1> SUFFICES ASSUME NEW y \in Flights
             PROVE  (CookiesOK(flight[y].cookies) /\ SetOK(flight[y].set))'
    BY DEF FlightsOK
<1>1. CASE y = x
    <2>1. flight'[y] = Answered(flight[x], ok, set)
        BY <1>1 DEF Answer, TypeOK
    <2>2. flight'[y].cookies = NoCookies /\ flight'[y].set = set
        BY <2>1 DEF Answered
    <2> QED
        BY <2>2, NothingIsFine DEF CookiesOK, SetOK
<1>2. CASE y # x
    <2>1. flight'[y] = flight[y]
        BY <1>2 DEF Answer, TypeOK
    <2> QED
        BY <2>1, FlightStays
<1> QED
    BY <1>1, <1>2

\* A fetch that ends leaves nothing behind, whoever is sent again.
LEMMA SettlesFine ==
    ASSUME TypeOK, TypeOK', TokensStay, FlightsOK, NEW t \in Tabs, NEW ok,
           NEW c, CookiesOK(c)', RefreshSettles(t, ok, c)
    PROVE  FlightsOK'
<1> SUFFICES ASSUME NEW y \in Flights
             PROVE  (CookiesOK(flight[y].cookies) /\ SetOK(flight[y].set))'
    BY DEF FlightsOK
<1>1. CASE flight'[y] = Landed
    BY <1>1, NothingIsFine DEF Landed
<1>2. CASE flight'[y] = Sent(flight[y].kind, TRUE, c)
    <2>1. flight'[y].cookies = c /\ flight'[y].set = NothingSet
        BY <1>2 DEF Sent
    <2> QED
        BY <2>1, NothingIsFine DEF CookiesOK, SetOK
<1>3. CASE flight'[y] = flight[y]
    BY <1>3, FlightStays
<1> QED
    BY <1>1, <1>2, <1>3 DEF RefreshSettles

LEMMA AwaitFine ==
    ASSUME TypeOK, TypeOK', TokensStay, FlightsOK, NEW x \in Calls,
           CookiesOK(jar[Browser(x)]), AwaitRefresh(x)
    PROVE  FlightsOK'
<1> SUFFICES ASSUME NEW y \in Flights
             PROVE  (CookiesOK(flight[y].cookies) /\ SetOK(flight[y].set))'
    BY DEF FlightsOK
<1>1. CASE y = x
    <2>1. flight'[y].cookies = NoCookies /\ flight'[y].set = NothingSet
        BY <1>1 DEF AwaitRefresh, Landed
    <2> QED
        BY <2>1, NothingIsFine DEF CookiesOK, SetOK
<1>2. CASE flight'[y] = Sent("refresh", FALSE, jar[Browser(x)])
    <2>1. jar[Browser(x)] \in Cookies
        BY BrowserTyped DEF TypeOK, Flights
    <2>2. PICK c \in Cookies : c = jar[Browser(x)]
        BY <2>1
    <2>3. CookiesOK(c)'
        BY <2>2, CookiesStay
    <2>4. flight'[y].cookies = c /\ flight'[y].set = NothingSet
        BY <1>2, <2>2 DEF Sent
    <2> QED
        BY <2>3, <2>4, NothingIsFine DEF CookiesOK, SetOK
<1>3. CASE flight'[y] = flight[y]
    BY <1>3, FlightStays
<1> QED
    BY <1>1, <1>2, <1>3 DEF AwaitRefresh

\* Fetches that land, and others that stay as they were.
LEMMA DropsFine ==
    ASSUME TypeOK, TypeOK', TokensStay, FlightsOK,
           \A y \in Flights : flight'[y] = Landed \/ flight'[y] = flight[y]
    PROVE  FlightsOK'
<1> SUFFICES ASSUME NEW y \in Flights
             PROVE  (CookiesOK(flight[y].cookies) /\ SetOK(flight[y].set))'
    BY DEF FlightsOK
<1>1. CASE flight'[y] = Landed
    BY <1>1, NothingIsFine DEF Landed
<1>2. CASE flight'[y] = flight[y]
    BY <1>2, FlightStays
<1> QED
    BY <1>1, <1>2

LEMMA LandedFine ==
    ASSUME TypeOK, TypeOK', TokensStay, FlightsOK, NEW x \in Flights,
           flight' = [flight EXCEPT ![x] = Landed]
    PROVE  FlightsOK'
BY DropsFine DEF TypeOK

LEMMA LostFine ==
    ASSUME TypeOK, TypeOK', TokensStay, FlightsOK, NEW x \in Flights, Lost(x)
    PROVE  FlightsOK'
<1>1. CASE x \in Tabs /\ RefreshSettles(x, FALSE, NoCookies)
    BY <1>1, SettlesFine, NothingIsFine
<1>2. CASE flight' = [flight EXCEPT ![x] = Landed]
    BY <1>2, LandedFine
<1> QED
    BY <1>1, <1>2 DEF Lost

\* What an admitted call is given is fine, and ends with the session that
\* paid for it.
LEMMA InjectedFine ==
    ASSUME TypeOK, StoreOK, NEW c, NEW set \in Injected(c) PROVE SetOK(set)
<1>1. CASE set = NothingSet
    BY <1>1, NothingIsFine
<1>2. CASE \E s \in Usable(c.refresh) : set = [access |-> FreshAccess(s.login), refresh |-> Keep]
    <2>1. PICK s \in Usable(c.refresh) :
            set = [access |-> FreshAccess(s.login), refresh |-> Keep]
        BY <1>2
    <2>2. s \in Session /\ s \in sessions /\ now < s.expires
        BY <2>1 DEF Usable, Active, TypeOK
    <2>3. SessionOK(s)
        BY <2>2 DEF StoreOK
    <2>4. AccessOK(FreshAccess(s.login))
        BY <2>2, <2>3, SessionsAssumption DEF SessionOK, AccessOK, FreshAccess, Session, TypeOK
    <2> QED
        BY <2>1, <2>4 DEF SetOK
<1> QED
    BY <1>1, <1>2 DEF Injected

\* A store that only lost records is as sound as it was.
LEMMA StoreShrinks ==
    ASSUME TypeOK, StoreOK, sessions' \subseteq sessions, UNCHANGED <<tokens, logins, answered>>
    PROVE  StoreOK'
BY DEF StoreOK, OneSessionPerLogin, SessionOK

-------------------------------------------------------------------------------
(* Steps                                                                   *)

LEMMA InvStarts == Init => SessionsInv
<1> SUFFICES ASSUME Init PROVE SessionsInv
    OBVIOUS
<1>1. TypeOK
    BY SessionsAssumption DEF Init, TypeOK, Cookies, NoCookies, Landed, Flight,
       Kinds, Stages, SetCookies, NothingSet
<1>2. JarsOK /\ FlightsOK
    BY NothingIsFine DEF Init, JarsOK, FlightsOK, Landed
<1> QED
    BY <1>1, <1>2 DEF Init, SessionsInv, ChangesOK, StoreOK, OneSessionPerLogin

\* While the server keeps its counts, everything on the way is as fine as it was.
LEMMA QuietIsFine ==
    ASSUME TypeOK, UNCHANGED <<tokens, logins, version, answered>> PROVE TokensStay
BY DEF TypeOK, TokensStay

\* A new token is issued: no older login is touched.
LEMMA IssueIsFine ==
    ASSUME TypeOK, tokens' = tokens + 1, UNCHANGED <<version, answered>>,
           logins' = logins \/ \E l : logins' = [logins EXCEPT ![tokens + 1] = l]
    PROVE  TokensStay
<1>1. tokens \in Nat /\ version \in Nat
    BY DEF TypeOK
<1>2. ASSUME NEW l \in Ids, l <= tokens PROVE logins'[l] = logins[l]
    <2>1. l # tokens + 1
        BY <1>1, <1>2 DEF Ids
    <2> QED
        BY <1>2, <2>1 DEF TypeOK
<1> QED
    BY <1>1, <1>2 DEF TokensStay

\* A login that goes on to its verification, or is refused.
LEMMA LoginGoesOn ==
    ASSUME SessionsInv, TypeOK', NEW x \in Flights, ReadHash(x) \/ RefuseLogin(x)
    PROVE  SessionsInv'
<1> USE DEF SessionsInv
<1>0. UNCHANGED <<now, jar, sessions, tokens, logins, disk, version, answered>>
    BY DEF ReadHash, RefuseLogin, server
<1>1. TokensStay
    BY <1>0, QuietIsFine
<1>2. CASE RefuseLogin(x)
    BY <1>0, <1>1, <1>2, NothingIsFine, AnswerFine, JarsStay, StoreShrinks
    DEF RefuseLogin, ChangesOK
<1>3. CASE ReadHash(x)
    <2>1. FlightsOK'
        <3> SUFFICES ASSUME NEW y \in Flights
                     PROVE  (CookiesOK(flight[y].cookies) /\ SetOK(flight[y].set))'
            BY DEF FlightsOK
        <3>1. /\ flight'[y].cookies = flight[y].cookies /\ flight'[y].set = flight[y].set
              /\ flight[y].cookies \in Cookies /\ flight[y].set \in SetCookies
            BY <1>3 DEF ReadHash, TypeOK, Flight
        <3>2. PICK c \in Cookies, set \in SetCookies : c = flight[y].cookies /\ set = flight[y].set
            BY <3>1
        <3>3. CookiesOK(c)' /\ SetOK(set)'
            BY <1>1, <3>2, CookiesStay, SetsStay DEF FlightsOK
        <3> QED
            BY <3>1, <3>2, <3>3 DEF CookiesOK, SetOK
    <2> QED
        BY <1>0, <1>1, <2>1, JarsStay, StoreShrinks DEF ChangesOK
<1> QED
    BY <1>2, <1>3

\* A login that ends is given a session and tokens of this moment.
LEMMA LoginKeepsInv ==
    ASSUME SessionsInv, TypeOK', NEW x \in Flights, FinishLogin(x) PROVE SessionsInv'
<1> USE DEF SessionsInv
<1> DEFINE id == tokens + 1
           session == [id |-> id, login |-> id, expires |-> now + Lifetime]
<1>1. /\ tokens' = id
      /\ logins' = [logins EXCEPT ![id] = [at |-> now, password |-> disk.password,
                                          typed |-> flight[x].password]]
      /\ sessions' = NewestSessions(Active \cup {session})
      /\ Answer(x, TRUE, [access |-> FreshAccess(id), refresh |-> id])
      /\ UNCHANGED <<now, jar, disk, version, answered>>
    BY DEF FinishLogin
<1>2. TokensStay
    <2>1. \E l : logins' = [logins EXCEPT ![tokens + 1] = l]
        BY <1>1
    <2> QED
        BY <1>1, <2>1, IssueIsFine
<1>3. id \in Ids /\ tokens \in Nat
    BY SessionsAssumption DEF FinishLogin, TypeOK, Ids
<1>4. logins'[id].at = now /\ logins'[id].password = disk.password
    BY <1>1, <1>3 DEF TypeOK
<1>5. \A s \in sessions : s \in Session /\ SessionOK(s) /\ s.login # id /\ logins'[s.login] = logins[s.login]
    BY <1>1, <1>3 DEF StoreOK, SessionOK, TypeOK, Session, Ids
<1>6. StoreOK'
    <2>1. sessions' \subseteq sessions \cup {session}
        BY <1>1, NewestAreThere DEF Active
    <2>2. \A s \in sessions' : SessionOK(s)'
        <3> SUFFICES ASSUME NEW s \in sessions' PROVE SessionOK(s)'
            OBVIOUS
        <3>1. CASE s \in sessions
            BY <1>1, <1>3, <1>5, <3>1 DEF SessionOK, Session, Ids
        <3>2. CASE s = session
            BY <1>1, <1>3, <1>4, <3>2 DEF SessionOK, ChangesOK, TypeOK
        <3> QED
            BY <2>1, <3>1, <3>2
    <2>3. OneSessionPerLogin'
        BY <1>5, <2>1 DEF StoreOK, OneSessionPerLogin
    <2> QED
        BY <2>2, <2>3 DEF StoreOK
<1>7. PICK set : set = [access |-> FreshAccess(id), refresh |-> id]
    OBVIOUS
<1>8. SetOK(set)'
    BY <1>1, <1>3, <1>4, <1>7, SessionsAssumption
    DEF SetOK, AccessOK, FreshAccess, ChangesOK, TypeOK
<1>9. FlightsOK'
    BY <1>1, <1>2, <1>7, <1>8, AnswerFine
<1>10. JarsOK' /\ ChangesOK'
    BY <1>1, <1>2, JarsStay DEF ChangesOK
<1> QED
    BY <1>6, <1>9, <1>10

LEMMA RefreshKeepsInv ==
    ASSUME SessionsInv, TypeOK', NEW x \in Flights, ServeRefresh(x) PROVE SessionsInv'
<1> USE DEF SessionsInv
<1> DEFINE r == flight[x].cookies.refresh
           id == tokens + 1
<1>0. UNCHANGED <<now, jar, logins, disk, version, answered>>
    BY DEF ServeRefresh
<1>1. ASSUME NEW s \in Usable(r), tokens' = id, sessions' = Rotated(s, id),
             Answer(x, TRUE, [access |-> FreshAccess(s.login), refresh |-> id])
      PROVE SessionsInv'
    <2> DEFINE new == [id |-> id, login |-> s.login, expires |-> s.expires]
    <2>1. TokensStay
        BY <1>0, <1>1, IssueIsFine
    <2>2. s \in Session /\ s \in sessions /\ now < s.expires /\ SessionOK(s)
        BY <1>1 DEF Usable, Active, TypeOK, StoreOK
    <2>3. sessions' \subseteq (sessions \ {s}) \cup {new}
        BY <1>1, NewestAreThere DEF Rotated, Active
    <2>4. \A t \in sessions \cup {new} : SessionOK(t)'
        <3>1. \A t \in sessions : SessionOK(t)
            BY DEF StoreOK
        <3>2. SessionOK(new)
            BY <2>2 DEF SessionOK
        <3>3. tokens \in Nat /\ \A t \in sessions \cup {new} : t.login \in Nat
            <4>1. tokens \in Nat /\ sessions \subseteq Session
                BY DEF TypeOK
            <4>2. \A t \in Session : t.login \in Nat
                BY DEF Session, Ids
            <4> QED
                BY <2>2, <4>1, <4>2
        <3>4. SUFFICES ASSUME NEW t \in sessions \cup {new} PROVE SessionOK(t)'
            OBVIOUS
        <3> HIDE DEF new
        <3>5. SessionOK(t) /\ t.login \in Nat
            BY <3>1, <3>2, <3>3
        <3> QED
            BY <1>0, <1>1, <3>3, <3>5 DEF SessionOK
    <2>5. OneSessionPerLogin'
        BY <2>2, <2>3 DEF StoreOK, OneSessionPerLogin
    <2>6. StoreOK'
        BY <2>3, <2>4, <2>5 DEF StoreOK
    <2>7. PICK set : set = [access |-> FreshAccess(s.login), refresh |-> id]
        OBVIOUS
    <2>8. SetOK(set)'
        <3>1. /\ logins[s.login].at \in Nat /\ now \in Nat /\ s.expires \in Nat
              /\ s.login \in Nat /\ tokens \in Nat
            <4>1. s.login \in Ids /\ s.expires \in Nat
                BY <2>2 DEF Session
            <4>2. logins[s.login] \in [at : Nat, password : Nat, typed : Nat]
                BY <4>1 DEF TypeOK
            <4>3. s.login \in Nat /\ now \in Nat /\ tokens \in Nat
                BY <4>1 DEF TypeOK, Ids
            <4> QED
                BY <4>1, <4>2, <4>3
        <3>2. s.login <= tokens' /\ now + AccessLife < logins[s.login].at + Lifetime + AccessLife
            BY <1>1, <2>2, <3>1, SessionsAssumption DEF SessionOK
        <3>3. logins[s.login].password >= answered /\ version \in Nat
            BY <2>2 DEF SessionOK, TypeOK
        <3>4. /\ set.access.login = s.login /\ set.access.version = version
              /\ set.access.expires = now + AccessLife
            BY <2>7 DEF FreshAccess
        <3> QED
            BY <1>0, <3>2, <3>3, <3>4 DEF SetOK, AccessOK
    <2>9. FlightsOK'
        BY <1>1, <2>1, <2>7, <2>8, AnswerFine
    <2>10. JarsOK' /\ ChangesOK'
        BY <1>0, <2>1, JarsStay DEF ChangesOK
    <2> QED
        BY <2>6, <2>9, <2>10
<1>2. CASE sessions' = Read(r) /\ Answer(x, FALSE, NothingSet) /\ UNCHANGED tokens
    <2>1. TokensStay
        BY <1>0, <1>2, QuietIsFine
    <2>2. StoreOK'
        BY <1>0, <1>2, ReadsDrop, StoreShrinks
    <2> QED
        BY <1>0, <1>2, <2>1, <2>2, NothingIsFine, AnswerFine, JarsStay DEF ChangesOK
<1> QED
    BY <1>1, <1>2 DEF ServeRefresh

\* Calls that read the store, and at most renew an access token.
LEMMA ReadersKeepInv ==
    ASSUME SessionsInv, TypeOK', NEW x \in Flights,
           ServeLogout(x) \/ ServeRequest(x) \/ RefuseChange(x)
    PROVE  SessionsInv'
<1> USE DEF SessionsInv
<1>0. UNCHANGED <<now, jar, tokens, logins, disk, version, answered>>
    BY DEF ServeLogout, ServeRequest, RefuseChange
<1>1. TokensStay
    BY <1>0, QuietIsFine
<1>2. sessions' \subseteq sessions
    BY ReadsDrop DEF ServeLogout, ServeRequest, RefuseChange
<1>3. StoreOK' /\ JarsOK' /\ ChangesOK'
    BY <1>0, <1>1, <1>2, StoreShrinks, JarsStay DEF ChangesOK
<1>4. FlightsOK'
    <2>1. PICK ok, set : Answer(x, ok, set) /\ set \in Injected(flight[x].cookies) \cup {NothingSet, NoCookies}
        BY DEF ServeLogout, ServeRequest, RefuseChange
    <2>2. SetOK(set)
        BY <2>1, InjectedFine, NothingIsFine
    <2>3. set \in SetCookies
        <3>1. flight[x].cookies \in Cookies
            BY DEF TypeOK, Flight
        <3> QED
            BY <2>1, <3>1, InjectedTyped DEF NothingSet, NoCookies, SetCookies
    <2>4. SetOK(set)'
        BY <1>1, <2>2, <2>3, SetsStay
    <2> QED
        BY <1>1, <2>1, <2>4, AnswerFine
<1> QED
    BY <1>3, <1>4

\* An answered change empties the store and leaves every token with an older
\* version, the one of its own answer included.
LEMMA ChangeKeepsInv ==
    ASSUME SessionsInv, TypeOK', NEW x \in Flights, ServeChange(x) PROVE SessionsInv'
<1> USE DEF SessionsInv
<1>0. /\ UNCHANGED <<now, jar, tokens, logins>>
      /\ disk' = Changed /\ version' = disk.version + 1 /\ sessions' = {}
      /\ answered' = disk.password + 1
    BY DEF ServeChange
<1>1. version' = version + 1
    BY <1>0 DEF ChangesOK
<1>2. TokensStay
    BY <1>0, <1>1 DEF TokensStay, TypeOK
<1>3. StoreOK' /\ JarsOK'
    BY <1>0, <1>2, JarsStay DEF StoreOK, OneSessionPerLogin
<1>4. ChangesOK'
    BY <1>0 DEF ChangesOK, Changed, TypeOK
<1>5. FlightsOK'
    <2>1. PICK set \in Injected(flight[x].cookies) : Answer(x, TRUE, set)
        BY DEF ServeChange
    <2>2. set \in SetCookies
        BY InjectedTyped DEF TypeOK, Flight
    <2>3. SetOK(set)'
        BY <1>2, <2>2, InjectedFine, SetsStay
    <2> QED
        BY <1>2, <2>1, <2>3, AnswerFine
<1> QED
    BY <1>3, <1>4, <1>5

\* A change that is cut short is not answered: older tokens may go on.
LEMMA DeathKeepsInv ==
    ASSUME SessionsInv, TypeOK', NEW x \in Flights, DieInChange(x) PROVE SessionsInv'
<1> USE DEF SessionsInv
<1>0. /\ UNCHANGED <<now, jar, tokens, logins, answered>>
      /\ sessions' \subseteq sessions
      /\ flight' = [Interrupted EXCEPT ![x] = Landed]
    BY ReadsDrop DEF DieInChange
<1>1. PICK v \in {disk.version, disk.version + 1} :
        disk' = [password |-> disk.password + 1, version |-> v] /\ version' = v
    BY DEF DieInChange
<1>2. TokensStay
    BY <1>0, <1>1 DEF TokensStay, ChangesOK, TypeOK
<1>3. StoreOK' /\ JarsOK' /\ FlightsOK'
    <2>1. \A y \in Flights : flight'[y] = Landed \/ flight'[y] = flight[y]
        BY <1>0 DEF Interrupted
    <2> QED
        BY <1>0, <1>2, <2>1, StoreShrinks, JarsStay, DropsFine
<1>4. ChangesOK'
    BY <1>0, <1>1 DEF ChangesOK, TypeOK
<1> QED
    BY <1>3, <1>4

\* The browser takes the cookies of an answer, and the caller goes on.
LEMMA DeliveryKeepsInv ==
    ASSUME SessionsInv, TypeOK', NEW x \in Flights, Deliver(x) PROVE SessionsInv'
<1> USE DEF SessionsInv
<1>0. /\ UNCHANGED <<now, sessions, tokens, logins, disk, version, answered>>
      /\ Browser(x) \in Browsers
    BY BrowserTyped DEF Deliver, server
<1>1. TokensStay
    BY <1>0, QuietIsFine
<1>2. PICK cookies : cookies = WithCookies(jar[Browser(x)], flight[x].set)
    OBVIOUS
<1>3. cookies \in Cookies
    BY <1>0, <1>2, CookiesTyped DEF TypeOK, Flight
<1>4. CookiesOK(cookies)
    BY <1>0, <1>2 DEF CookiesOK, SetOK, WithCookies, JarsOK, FlightsOK
<1>5. CookiesOK(cookies)'
    BY <1>1, <1>3, <1>4, CookiesStay
<1>6. JarsOK'
    <2> SUFFICES ASSUME NEW b \in Browsers PROVE CookiesOK(jar[b])'
        BY DEF JarsOK
    <2>1. CASE b = Browser(x)
        <3>1. jar'[b] = cookies
            BY <1>2, <2>1 DEF Deliver, TypeOK
        <3> QED
            BY <1>5, <3>1 DEF CookiesOK
    <2>2. CASE b # Browser(x)
        <3>1. PICK c \in Cookies : c = jar[b]
            BY DEF TypeOK
        <3>2. CookiesOK(c)'
            BY <1>1, <3>1, CookiesStay DEF JarsOK
        <3>3. jar'[b] = c
            BY <2>2, <3>1 DEF Deliver, TypeOK
        <3> QED
            BY <3>2, <3>3 DEF CookiesOK
    <2> QED
        BY <2>1, <2>2
<1>7. FlightsOK'
    <2>1. CASE x \in Tabs /\ RefreshSettles(x, flight[x].ok, cookies)
        BY <1>1, <1>5, <2>1, SettlesFine
    <2>2. CASE x \in Calls /\ AwaitRefresh(x)
        BY <1>0, <1>1, <2>2, AwaitFine DEF JarsOK
    <2>3. CASE flight' = [flight EXCEPT ![x] = Landed]
        BY <1>1, <2>3, LandedFine
    <2> QED
        BY <1>2, <2>1, <2>2, <2>3 DEF Deliver
<1>8. StoreOK' /\ ChangesOK'
    BY <1>0, StoreShrinks DEF ChangesOK
<1> QED
    BY <1>6, <1>7, <1>8

\* Every step keeps the invariant.
LEMMA InvStays == SessionsInv /\ [Next]_vars => SessionsInv'
<1> SUFFICES ASSUME SessionsInv, [Next]_vars PROVE SessionsInv'
    OBVIOUS
<1> USE DEF SessionsInv
<1>0. TypeOK'
    BY TypesStay
<1>1. ASSUME NEW c \in Calls, NEW kind \in KindsOf[c], Send(c, kind) PROVE SessionsInv'
    <2>1. UNCHANGED <<now, jar, sessions, tokens, logins, disk, version, answered>>
        BY <1>1 DEF Send, server
    <2>2. TokensStay
        BY <2>1, QuietIsFine
    <2>3. PICK k \in Cookies : k = jar[Browser(c)] /\ CookiesOK(k)
        BY BrowserTyped DEF TypeOK, Flights, JarsOK
    <2>4. CookiesOK(k)'
        BY <1>0, <2>2, <2>3, CookiesStay
    <2>5. FlightsOK'
        <3> SUFFICES ASSUME NEW y \in Flights
                     PROVE  (CookiesOK(flight[y].cookies) /\ SetOK(flight[y].set))'
            BY DEF FlightsOK
        <3>1. CASE y = c
            <4>1. flight'[y] = Sent(kind, FALSE, k)
                BY <1>1, <2>3, <3>1 DEF Send, TypeOK
            <4>2. flight'[y].cookies = k /\ flight'[y].set = NothingSet
                BY <4>1 DEF Sent
            <4> QED
                BY <2>4, <4>2, NothingIsFine DEF CookiesOK, SetOK
        <3>2. CASE y # c
            <4>1. flight'[y] = flight[y]
                BY <1>1, <3>2 DEF Send, TypeOK
            <4> QED
                BY <1>0, <2>2, <4>1, FlightStays
        <3> QED
            BY <3>1, <3>2
    <2> QED
        BY <1>0, <2>1, <2>2, <2>5, StoreShrinks, JarsStay DEF ChangesOK
<1>2. ASSUME NEW x \in Flights, Serve(x) PROVE SessionsInv'
    BY <1>0, <1>2, LoginGoesOn, LoginKeepsInv, RefreshKeepsInv, ReadersKeepInv, ChangeKeepsInv, DeathKeepsInv
    DEF Serve
<1>3. ASSUME NEW x \in Flights, Deliver(x) PROVE SessionsInv'
    BY <1>0, <1>3, DeliveryKeepsInv
<1>4. ASSUME NEW x \in Flights, Lose(x) PROVE SessionsInv'
    <2>1. UNCHANGED <<now, jar, sessions, tokens, logins, disk, version, answered>> /\ Lost(x)
        BY <1>4 DEF Lose, server
    <2>2. TokensStay
        BY <2>1, QuietIsFine
    <2> QED
        BY <1>0, <2>1, <2>2, StoreShrinks, JarsStay, LostFine DEF ChangesOK
<1>5. CASE Restart
    <2>1. /\ UNCHANGED <<now, jar, sessions, tokens, logins, disk, version, answered>>
          /\ \A y \in Flights : flight'[y] = Landed \/ flight'[y] = flight[y]
        BY <1>5 DEF Restart, ChangesOK, Interrupted
    <2>2. TokensStay
        BY <2>1, QuietIsFine
    <2> QED
        BY <1>0, <2>1, <2>2, StoreShrinks, JarsStay, DropsFine DEF ChangesOK
<1>6. CASE Tick
    <2>1. UNCHANGED <<flight, sessions, tokens, logins, disk, version, answered>>
        BY <1>6 DEF Tick, server
    <2>2. JarsOK'
        BY <1>6, <2>1 DEF Tick, TypeOK, JarsOK, CookiesOK, Aged, AccessOK
    <2> QED
        BY <1>0, <2>1, <2>2 DEF ChangesOK, StoreOK, OneSessionPerLogin, SessionOK, FlightsOK,
           CookiesOK, SetOK, AccessOK
<1>7. CASE UNCHANGED vars
    BY <1>0, <1>7 DEF vars, ChangesOK, StoreOK, OneSessionPerLogin, SessionOK, JarsOK, FlightsOK,
       CookiesOK, SetOK, AccessOK
<1> QED
    BY <1>1, <1>2, <1>3, <1>4, <1>5, <1>6, <1>7 DEF Next

LEMMA InvHolds == Spec => []SessionsInv
BY InvStarts, InvStays, PTL DEF Spec

\* The deadline and the version of every access token a browser may present.
LEMMA TokensAreFine ==
    ASSUME SessionsInv, NEW a \in AccessTokens PROVE AccessOK(a)
BY DEF SessionsInv, AccessTokens, JarsOK, FlightsOK, CookiesOK, SetOK

-------------------------------------------------------------------------------
(* Theorems                                                                *)

\* Every state is well typed, for any browsers, tabs, calls and lifetimes.
THEOREM SessionsTyped == Spec => []TypeOK
BY InvHolds, PTL DEF SessionsInv

\* AuthSessionManager keeps one refresh record per login, however the
\* rotations of several tabs meet.
THEOREM SessionsUnique == Spec => []OneSessionPerLogin
<1>1. SessionsInv => OneSessionPerLogin
    BY DEF SessionsInv, StoreOK
<1> QED
    BY <1>1, InvHolds, PTL

\* No rotation and no renewed cookie outlives the login it comes from.
THEOREM LoginsEnd == Spec => []SessionsEndInTime
<1>1. SessionsInv => SessionsEndInTime
    BY TokensAreFine DEF SessionsInv, StoreOK, SessionOK, AccessOK, SessionsEndInTime
<1> QED
    BY <1>1, InvHolds, PTL

\* After a password change was answered, no record and no access token is
\* accepted of a login that ended before it was written, also after a crash
\* within another change.
THEOREM ChangesEndLogins == Spec => []OldLoginsAreRefused
<1>1. SessionsInv => OldLoginsAreRefused
    BY TokensAreFine DEF SessionsInv, StoreOK, SessionOK, AccessOK, OldLoginsAreRefused
<1> QED
    BY <1>1, InvHolds, PTL
-----------------------------------------------------------------------------
(***************************************************************************)
(* The Pro account, for any keys, configurations, secrets and requests:    *)
(* what a request has seen is still true when it goes on, unless changing  *)
(* requests overlapped, or the key was refused under one of them.          *)
(***************************************************************************)

Changing(x) == x # None /\ x.op # "login"

\* An update of the configuration that is written, and not yet answered.
Underway(x) == x # None /\ x.op = "configs" /\ x.at \in {"asking", "answered"}

OneChange ==
    ~disturbed => \A c \in ProCalls : Changing(proCall[c]) =>
        /\ lock
        /\ \A d \in ProCalls : Changing(proCall[d]) => d = c

StoreFine ==
    ~disturbed =>
        /\ otp => proved = secret
        /\ (\A c \in ProCalls : ~Underway(proCall[c])) => ensureProConfigType(config) = saved

LoginFine(x) ==
    x.op = "login" /\ x.on => otp /\ (x.at \in {"signed", "asking again", "in"} => x.valid)

OtpFine(x) ==
    /\ x.op = "otp" /\ x.at = "asking" => disturbed \/ ~otp
    /\ x.op = "otp" /\ x.at = "answered" =>
          x.token \in 0..MaxSecrets /\ (disturbed \/ (~otp /\ x.token = secret))

ConfigFine(x) ==
    /\ x.op = "configs" /\ x.at = "asking" =>
          x.new \in Configs /\ (disturbed \/ (config = x.new /\ x.old = saved))
    /\ x.op = "configs" /\ x.at = "answered" => disturbed \/ x.old = saved

CallFine(x) ==
    x # None =>
        /\ x.op # "login" => x.at \in {"begun", "asking", "answered"}
        /\ LoginFine(x)
        /\ OtpFine(x)
        /\ ConfigFine(x)

ProInv ==
    /\ ProTypeOK
    /\ OneChange
    /\ StoreFine
    /\ \A c \in ProCalls : CallFine(proCall[c])

\* One call comes, goes on or ends.
LEMMA ProCallsMove ==
    ASSUME ProTypeOK, NEW c \in ProCalls, NEW x \in ProCall \cup {None},
           proCall' = [proCall EXCEPT ![c] = x]
    PROVE  /\ proCall' \in [ProCalls -> ProCall \cup {None}]
           /\ proCall'[c] = x
           /\ \A d \in ProCalls : d # c => proCall'[d] = proCall[d]
BY DEF ProTypeOK

\* A call comes, goes on or ends, and what is stored stays.
LEMMA CallGoesOn ==
    ASSUME ProInv, NEW c \in ProCalls, NEW x \in ProCall \cup {None},
           proCall' = [proCall EXCEPT ![c] = x],
           UNCHANGED <<proStore, service, proHistory>>,
           apiIndex' \in Domains, lock' \in BOOLEAN,
           CallFine(x),
           Underway(x) <=> Underway(proCall[c]),
           disturbed \/ (Changing(x) => lock' /\ (Changing(proCall[c]) \/ ~lock)),
           ~Changing(x) => lock' = lock \/ Changing(proCall[c])
    PROVE  ProInv'
<1>1. ProTypeOK /\ OneChange /\ StoreFine /\ \A d \in ProCalls : CallFine(proCall[d])
  BY DEF ProInv
<1>2. /\ proCall' \in [ProCalls -> ProCall \cup {None}]
      /\ proCall'[c] = x
      /\ \A d \in ProCalls : d # c => proCall'[d] = proCall[d]
  BY <1>1, ProCallsMove
<1>3. UNCHANGED <<proKey, otp, config, goodKeys, secret, disturbed, proved, saved>>
  BY DEF proStore, service, proHistory
<1>4. ProTypeOK'
  BY <1>1, <1>2, <1>3 DEF ProTypeOK
<1>5. OneChange'
  <2>1. ASSUME ~disturbed, NEW d \in ProCalls, Changing(proCall'[d])
        PROVE  lock' /\ \A e \in ProCalls : Changing(proCall'[e]) => e = d
    <3>1. CASE d = c
      BY <1>1, <1>2, <2>1, <3>1 DEF OneChange
    <3>2. CASE d # c
      <4>1. Changing(proCall[d]) /\ lock /\ ~Changing(proCall[c])
        BY <1>1, <1>2, <2>1, <3>2 DEF OneChange
      <4>2. ~Changing(x) /\ lock'
        BY <2>1, <4>1
      <4>3. QED BY <1>1, <1>2, <2>1, <3>2, <4>1, <4>2 DEF OneChange
    <3>3. QED BY <3>1, <3>2
  <2>2. QED BY <1>3, <2>1 DEF OneChange
<1>6. StoreFine'
  <2>1. \A d \in ProCalls : Underway(proCall'[d]) <=> Underway(proCall[d])
    BY <1>2
  <2>2. QED BY <1>1, <1>3, <2>1 DEF StoreFine, ensureProConfigType
<1>7. ASSUME NEW d \in ProCalls
      PROVE  CallFine(proCall[d])'
  <2>1. CallFine(proCall'[d])
    BY <1>1, <1>2
  <2>2. QED BY <1>3, <2>1 DEF CallFine, LoginFine, OtpFine, ConfigFine
<1>8. QED BY <1>4, <1>5, <1>6, <1>7 DEF ProInv
LEMMA NewCallOK ==
    ASSUME ProInv, NEW c \in ProCalls, NEW x \in ProCall, Admit(c, x),
           x.at = "begun", x.op = "login" /\ x.on => otp
    PROVE  ProInv'
<1>1. CallFine(x)
  BY DEF CallFine, LoginFine, OtpFine, ConfigFine
<1>2. lock \in BOOLEAN /\ apiIndex \in Domains
  BY DEF ProInv, ProTypeOK
<1>3. /\ proCall[c] = None
      /\ x.op # "login" => ~lock
      /\ lock' = (lock \/ x.op # "login")
      /\ proCall' = [proCall EXCEPT ![c] = x]
      /\ UNCHANGED <<proStore, service, apiIndex, proHistory>>
  BY DEF Admit, LockIsFree
<1>4. ~Underway(x) /\ ~Underway(proCall[c]) /\ ~Changing(proCall[c])
  BY <1>3 DEF Underway, Changing
<1>5. QED BY <1>1, <1>2, <1>3, <1>4, ProCallAssumption, CallGoesOn DEF Changing

LEMMA ArriveOK ==
    ASSUME ProInv, NEW c \in ProCalls, Arrive(c)
    PROVE  ProInv'
<1>1. otp \in BOOLEAN /\ secret \in 0..MaxSecrets
  BY DEF ProInv, ProTypeOK
<1>2. Tokens \subseteq (1..MaxSecrets) \cup {None}
  BY <1>1, ProAssumption DEF Tokens
<1>3. ASSUME NEW op \in Changes \cup {"login"}, NEW key \in ApiKeys \cup {None},
             NEW enable \in BOOLEAN, NEW token \in (1..MaxSecrets) \cup {None},
             NEW new \in Configs \cup {None},
             Admit(c, NewCall(op, key, enable, token, new))
      PROVE  ProInv'
  <2>1. PICK on : on = (otp /\ op = "login")
    OBVIOUS
  <2>2. on \in BOOLEAN /\ (on => otp)
    BY <1>1, <2>1
  <2>3. PICK x : x = [op |-> op, at |-> "begun", apiKey |-> key, enable |-> enable,
                      token |-> token, new |-> new, old |-> None, on |-> on, valid |-> FALSE]
    OBVIOUS
  <2>4. x = NewCall(op, key, enable, token, new)
    BY <2>1, <2>3 DEF NewCall
  <2>5. x \in ProCall /\ x.at = "begun" /\ x.on = on
    BY <2>2, <2>3 DEF ProCall
  <2>6. Admit(c, x)
    BY <1>3, <2>4
  <2>7. QED BY <2>2, <2>5, <2>6, NewCallOK
<1>4. {"apikey", "disconnect", "otp", "configs", "login"} \subseteq Changes \cup {"login"}
  BY DEF Changes
<1>5. CASE \E key \in ApiKeys : Admit(c, NewCall("apikey", key, FALSE, None, None))
  BY <1>3, <1>4, <1>5
<1>6. CASE Admit(c, NewCall("disconnect", None, FALSE, None, None))
  BY <1>3, <1>4, <1>6
<1>7. CASE \E enable \in BOOLEAN, token \in Tokens :
              Admit(c, NewCall("otp", None, enable, token, None))
  BY <1>2, <1>3, <1>4, <1>7
<1>8. CASE \E new \in Configs \cup {None} : Admit(c, NewCall("configs", None, FALSE, None, new))
  BY <1>3, <1>4, <1>8
<1>9. CASE \E token \in Tokens : Admit(c, NewCall("login", None, FALSE, token, None))
  BY <1>2, <1>3, <1>4, <1>9
<1>10. QED BY <1>5, <1>6, <1>7, <1>8, <1>9 DEF Arrive

\* A call that goes on to where it may be, with what it carries.
LEMMA GoesOK ==
    ASSUME ProInv, NEW c \in ProCalls, proCall[c] # None,
           NEW at \in {"asking", "asking again", "answered", "signed", "in"}, NEW valid \in BOOLEAN,
           proCall' = [proCall EXCEPT ![c] = [proCall[c] EXCEPT !.at = at, !.valid = valid]],
           UNCHANGED <<proStore, service, lock, proHistory>>, apiIndex' \in Domains,
           \/ proCall[c].op = "apikey" /\ at = "asking"
           \/ proCall[c].op = "otp" /\ at = "asking" /\ ~otp
           \/ proCall[c].op = "otp" /\ at = "answered" /\ proCall[c].at = "asking"
                /\ proCall[c].token = secret
           \/ proCall[c].op = "configs" /\ at = "answered" /\ proCall[c].at = "asking"
           \/ proCall[c].op = "login"
                /\ (proCall[c].on /\ at \in {"signed", "asking again", "in"} => valid)
    PROVE  ProInv'
<1>1. proCall[c] \in ProCall /\ CallFine(proCall[c]) /\ OneChange
      /\ lock \in BOOLEAN /\ secret \in 0..MaxSecrets
  BY DEF ProInv, ProTypeOK
<1>2. PICK x : x = [proCall[c] EXCEPT !.at = at, !.valid = valid]
  OBVIOUS
<1>3. /\ x \in ProCall
      /\ x.at = at /\ x.valid = valid
      /\ x.op = proCall[c].op /\ x.on = proCall[c].on /\ x.token = proCall[c].token
      /\ x.new = proCall[c].new /\ x.old = proCall[c].old
  BY <1>1, <1>2 DEF ProCall
<1>4. LoginFine(proCall[c]) /\ OtpFine(proCall[c]) /\ ConfigFine(proCall[c])
  BY <1>1 DEF CallFine
<1>5. LoginFine(x)
  BY <1>3, <1>4 DEF LoginFine
<1>6. OtpFine(x)
  BY <1>1, <1>3, <1>4 DEF OtpFine
<1>7. ConfigFine(x)
  BY <1>3, <1>4 DEF ConfigFine
<1>8. CallFine(x)
  BY <1>3, <1>5, <1>6, <1>7 DEF CallFine
<1>9. x # None /\ (Changing(x) <=> Changing(proCall[c])) /\ (Underway(x) <=> Underway(proCall[c]))
  BY <1>3, ProCallAssumption DEF Changing, Underway
<1>10. disturbed \/ (Changing(x) => lock' /\ Changing(proCall[c]))
  BY <1>1, <1>9 DEF OneChange
<1>11. QED BY <1>1, <1>2, <1>3, <1>8, <1>9, <1>10, CallGoesOn

\* A call ends, with nothing of it underway.
LEMMA ReplyOK ==
    ASSUME ProInv, NEW c \in ProCalls, proCall[c] # None, Reply(c), ~Underway(proCall[c]),
           UNCHANGED <<proStore, service, proHistory>>, apiIndex' \in Domains
    PROVE  ProInv'
<1>1. lock \in BOOLEAN
  BY DEF ProInv, ProTypeOK
<1>2. PICK x : x = None
  OBVIOUS
<1>3. CallFine(x) /\ ~Underway(x) /\ ~Changing(x)
  BY <1>2 DEF CallFine, Underway, Changing
<1>4. /\ proCall' = [proCall EXCEPT ![c] = x]
      /\ lock' = (lock /\ proCall[c].op = "login")
  BY <1>2 DEF Reply
<1>5. lock' \in BOOLEAN /\ (lock' = lock \/ Changing(proCall[c]))
  BY <1>1, <1>4 DEF Changing
<1>6. QED BY <1>2, <1>3, <1>4, <1>5, CallGoesOn

LEMMA LoginStepOK ==
    ASSUME ProInv, NEW c \in ProCalls, LoginStep(c)
    PROVE  ProInv'
<1>1. ProTypeOK /\ CallFine(proCall[c])
  BY DEF ProInv
<1>2. proCall[c] # None /\ proCall[c].op = "login"
  BY DEF LoginStep, LoginBegins, isOtpTokenValid, VerifyToken, Is
<1>3. /\ UNCHANGED <<proStore, service, lock, proHistory>> /\ apiIndex' = apiIndex
  BY DEF LoginStep, LoginBegins, isOtpTokenValid, VerifyToken
<1>4. proCall[c] \in ProCall /\ apiIndex \in Domains
  BY <1>1, <1>2 DEF ProTypeOK
<1>5. PICK valid : valid = proCall[c].valid
  OBVIOUS
<1>6. valid \in BOOLEAN
  BY <1>4, <1>5 DEF ProCall
<1>7. ASSUME NEW at, proCall' = [proCall EXCEPT ![c].at = at]
      PROVE  proCall' = [proCall EXCEPT ![c] = [proCall[c] EXCEPT !.at = at, !.valid = valid]]
  BY <1>1, <1>4, <1>5, <1>7 DEF ProTypeOK, ProCall
<1>8. CASE LoginBegins(c)
  <2>1. proCall' = [proCall EXCEPT ![c].at = "answered"]
    BY <1>8 DEF LoginBegins, Goes
  <2>2. QED BY <1>2, <1>3, <1>4, <1>6, <1>7, <2>1, GoesOK
<1>9. CASE VerifyToken(c, "asking", "signed") \/ VerifyToken(c, "asking again", "in")
  <2>1. PICK done \in {"signed", "in"} :
            proCall' = [proCall EXCEPT ![c] = [proCall[c] EXCEPT !.at = done, !.valid = TRUE]]
    BY <1>1, <1>4, <1>9 DEF VerifyToken, Goes, ProTypeOK, ProCall
  <2>2. QED BY <1>2, <1>3, <1>4, <2>1, GoesOK
<1>10. CASE isOtpTokenValid(c, "answered", "asking", "signed")
  <2>1. PICK at \in {"asking", "signed"} :
            /\ otp => at = "asking"
            /\ proCall' = [proCall EXCEPT ![c].at = at]
    BY <1>10 DEF isOtpTokenValid, Goes
  <2>2. proCall[c].on => at = "asking"
    BY <1>1, <1>2, <2>1 DEF CallFine, LoginFine
  <2>3. QED BY <1>2, <1>3, <1>4, <1>6, <1>7, <2>1, <2>2, GoesOK
<1>11. CASE isOtpTokenValid(c, "signed", "asking again", "in")
  <2>1. PICK at \in {"asking again", "in"} : proCall' = [proCall EXCEPT ![c].at = at]
    BY <1>11 DEF isOtpTokenValid, Goes
  <2>2. proCall[c].on => valid
    BY <1>1, <1>2, <1>5, <1>11 DEF CallFine, LoginFine, isOtpTokenValid, Is
  <2>3. QED BY <1>2, <1>3, <1>4, <1>6, <1>7, <2>1, <2>2, GoesOK
<1>12. QED BY <1>8, <1>9, <1>10, <1>11 DEF LoginStep

\* The requests ask the service.
LEMMA AskOK ==
    ASSUME ProInv, NEW c \in ProCalls, AskForKey(c) \/ AskForOtp(c) \/ VerifyForOtp(c)
    PROVE  ProInv'
<1>1. ProTypeOK
  BY DEF ProInv
<1>2. /\ proCall[c] # None /\ proCall[c].at \in {"begun", "asking"}
      /\ UNCHANGED <<proStore, service, lock, proHistory>> /\ apiIndex' = apiIndex
  BY DEF AskForKey, AskForOtp, VerifyForOtp, Is
<1>3. proCall[c] \in ProCall /\ apiIndex \in Domains
  BY <1>1, <1>2 DEF ProTypeOK
<1>4. PICK valid : valid = proCall[c].valid
  OBVIOUS
<1>5. valid \in BOOLEAN
  BY <1>3, <1>4 DEF ProCall
<1>6. PICK at \in {"asking", "answered"} :
         /\ proCall' = [proCall EXCEPT ![c].at = at]
         /\ \/ proCall[c].op = "apikey" /\ at = "asking"
            \/ proCall[c].op = "otp" /\ at = "asking" /\ ~otp
            \/ proCall[c].op = "otp" /\ at = "answered" /\ proCall[c].at = "asking"
                 /\ proCall[c].token = secret
  BY DEF AskForKey, AskForOtp, VerifyForOtp, Is, Goes
<1>7. proCall' = [proCall EXCEPT ![c] = [proCall[c] EXCEPT !.at = at, !.valid = valid]]
  BY <1>1, <1>3, <1>4, <1>6 DEF ProTypeOK, ProCall
<1>8. QED BY <1>2, <1>3, <1>5, <1>6, <1>7, GoesOK

\* A call that has failed.
LEMMA FailOK ==
    ASSUME ProInv, NEW c \in ProCalls, IsAsking(c), Fail(c),
           UNCHANGED <<proStore, service, proHistory>>, apiIndex' \in Domains
    PROVE  ProInv'
<1>1. ProTypeOK /\ CallFine(proCall[c])
  BY DEF ProInv
<1>2. proCall[c] # None /\ proCall[c] \in ProCall
  BY <1>1 DEF IsAsking, ProTypeOK
<1>3. CASE proCall[c].op = "configs"
  <2>1. proCall[c].at = "asking"
    BY <1>1, <1>2, <1>3 DEF IsAsking, CallFine
  <2>2. PICK valid : valid = proCall[c].valid
    OBVIOUS
  <2>3. valid \in BOOLEAN
    BY <1>2, <2>2 DEF ProCall
  <2>4. proCall' = [proCall EXCEPT ![c] = [proCall[c] EXCEPT !.at = "answered", !.valid = valid]]
        /\ lock' = lock
    BY <1>1, <1>2, <1>3, <2>2 DEF Fail, Goes, ProTypeOK, ProCall
  <2>5. QED BY <1>2, <1>3, <2>1, <2>3, <2>4, GoesOK
<1>4. CASE proCall[c].op # "configs"
  BY <1>2, <1>4, ReplyOK DEF Fail, Underway
<1>5. QED BY <1>3, <1>4

LEMMA EndsOK ==
    ASSUME ProInv, NEW c \in ProCalls, Ends(c) \/ Refused(c)
    PROVE  ProInv'
<1>1. UNCHANGED <<proStore, service, proHistory>> /\ apiIndex' = apiIndex /\ apiIndex \in Domains
  BY DEF Ends, Refused, ProInv, ProTypeOK
<1>2. CASE Refused(c)
  BY <1>1, <1>2, FailOK DEF Refused
<1>3. CASE Ends(c)
  <2>1. proCall[c] # None /\ ~Underway(proCall[c]) /\ Reply(c)
    BY <1>3 DEF Ends, Is, Underway
  <2>2. QED BY <1>1, <2>1, ReplyOK
<1>4. QED BY <1>2, <1>3
-----------------------------------------------------------------------------
(* What is stored changes.                                                 *)

\* The other calls are logins, or requests were disturbed.
LEMMA OthersFine ==
    ASSUME ProInv, NEW d \in ProCalls,
           \/ proCall'[d] = proCall[d] /\ (proCall[d] = None \/ (otp => otp'))
           \/ proCall[d] # None /\ proCall'[d] = [proCall[d] EXCEPT !.on = FALSE],
           disturbed => disturbed', disturbed' \/ ~Changing(proCall[d])
    PROVE  CallFine(proCall[d])'
<1>1. ProTypeOK /\ CallFine(proCall[d])
  BY DEF ProInv
<1>2. CASE proCall[d] = None
  BY <1>2 DEF CallFine
<1>3. CASE proCall[d] # None
  <2>1. proCall[d] \in ProCall
    BY <1>1, <1>3 DEF ProTypeOK
  <2>2. /\ proCall'[d].op = proCall[d].op /\ proCall'[d].at = proCall[d].at
        /\ proCall'[d].token = proCall[d].token /\ proCall'[d].valid = proCall[d].valid
        /\ proCall'[d].new = proCall[d].new
        /\ proCall'[d].on => proCall[d].on /\ (otp => otp')
    <3>1. CASE proCall'[d] = proCall[d] /\ (otp => otp')
      BY <3>1
    <3>2. CASE proCall'[d] = [proCall[d] EXCEPT !.on = FALSE]
      BY <2>1, <3>2 DEF ProCall
    <3>3. QED BY <1>3, <3>1, <3>2
  <2>3. LoginFine(proCall[d]) /\ OtpFine(proCall[d]) /\ ConfigFine(proCall[d])
        /\ (proCall[d].op # "login" => proCall[d].at \in {"begun", "asking", "answered"})
    BY <1>1, <1>3 DEF CallFine
  <2>4. proCall[d].op = "login" \/ disturbed'
    BY <1>3 DEF Changing
  <2>5. LoginFine(proCall[d])'
    BY <2>2, <2>3 DEF LoginFine
  <2>6. OtpFine(proCall[d])'
    BY <2>2, <2>3, <2>4 DEF OtpFine
  <2>7. ConfigFine(proCall[d])'
    BY <2>2, <2>3, <2>4 DEF ConfigFine
  <2>8. QED BY <2>2, <2>3, <2>5, <2>6, <2>7 DEF CallFine
<1>4. QED BY <1>2, <1>3

\* A changing request ends: what else is under way are logins.
LEMMA ChangeEnds ==
    ASSUME ProInv, NEW c \in ProCalls, Changing(proCall[c]),
           proCall' \in [ProCalls -> ProCall \cup {None}],
           proCall'[c] = None,
           \A d \in ProCalls \ {c} :
               \/ proCall'[d] = proCall[d] /\ (proCall[d] = None \/ (otp => otp'))
               \/ proCall[d] # None /\ proCall'[d] = [proCall[d] EXCEPT !.on = FALSE],
           disturbed => disturbed'
    PROVE  /\ \A d \in ProCalls : CallFine(proCall[d])'
           /\ ~disturbed => \A d \in ProCalls : ~Changing(proCall'[d])
           /\ OneChange'
           /\ ~disturbed => \A d \in ProCalls : ~Underway(proCall'[d])
<1>1. ProTypeOK /\ OneChange
  BY DEF ProInv
<1>2. \A d \in ProCalls \ {c} : Changing(proCall'[d]) => Changing(proCall[d])
  <2>1. ASSUME NEW d \in ProCalls \ {c}, proCall[d] # None,
               proCall'[d] = [proCall[d] EXCEPT !.on = FALSE]
        PROVE  proCall'[d].op = proCall[d].op
    <3>1. proCall[d] \in ProCall
      BY <1>1, <2>1 DEF ProTypeOK
    <3>2. QED BY <2>1, <3>1 DEF ProCall
  <2>2. QED BY <2>1 DEF Changing
<1>3. \A d \in ProCalls \ {c} : disturbed \/ ~Changing(proCall[d])
  BY <1>1 DEF OneChange
<1>4. \A d \in ProCalls : CallFine(proCall[d])'
  <2>1. CallFine(proCall[c])'
    BY DEF CallFine
  <2>2. ASSUME NEW d \in ProCalls \ {c}
        PROVE  CallFine(proCall[d])'
    BY <1>3, <2>2, OthersFine
  <2>3. QED BY <2>1, <2>2
<1>5. ~disturbed => \A d \in ProCalls : ~Changing(proCall'[d])
  BY <1>2, <1>3 DEF Changing
<1>6. \A d \in ProCalls : Underway(proCall'[d]) => Changing(proCall'[d])
  BY DEF Underway, Changing
<1>7. OneChange'
  BY <1>5 DEF OneChange, Changing
<1>8. QED BY <1>4, <1>5, <1>6, <1>7

\* A request is answered, and two-factor login is not turned off.
LEMMA ReplyIs ==
    ASSUME ProInv, NEW c \in ProCalls, Changing(proCall[c]), Reply(c), otp => otp',
           disturbed' = disturbed
    PROVE  /\ proCall' \in [ProCalls -> ProCall \cup {None}]
           /\ lock' \in BOOLEAN
           /\ \A d \in ProCalls : CallFine(proCall[d])'
           /\ OneChange'
           /\ ~disturbed => \A d \in ProCalls : ~Underway(proCall'[d])
<1>1. ProTypeOK
  BY DEF ProInv
<1>2. /\ proCall' \in [ProCalls -> ProCall \cup {None}]
      /\ proCall'[c] = None
      /\ \A d \in ProCalls \ {c} : proCall'[d] = proCall[d]
  BY <1>1 DEF Reply, ProTypeOK
<1>3. lock' \in BOOLEAN
  BY <1>1 DEF Reply, ProTypeOK
<1>4. QED BY <1>2, <1>3, ChangeEnds

LEMMA AnsweredOK ==
    ASSUME ProInv, NEW c \in ProCalls,
           SetApiKey(c) \/ ShowSecret(c) \/ EnableOtp(c) \/ ConfigIsSent(c) \/ RevertConfig(c)
    PROVE  ProInv'
<1>1. ProTypeOK /\ StoreFine /\ OneChange /\ CallFine(proCall[c])
  BY DEF ProInv
<1>2. Changing(proCall[c]) /\ Reply(c) /\ proCall[c] \in ProCall
  BY <1>1 DEF SetApiKey, ShowSecret, EnableOtp, ConfigIsSent, RevertConfig, Is, Changing, ProTypeOK
<1>3. (otp => otp') /\ disturbed' = disturbed /\ apiIndex' = apiIndex /\ goodKeys' = goodKeys
  BY <1>1 DEF SetApiKey, ShowSecret, EnableOtp, ConfigIsSent, RevertConfig, proStore, service,
              proHistory
<1>4. /\ proCall' \in [ProCalls -> ProCall \cup {None}]
      /\ lock' \in BOOLEAN
      /\ \A d \in ProCalls : CallFine(proCall[d])'
      /\ OneChange'
      /\ ~disturbed => \A d \in ProCalls : ~Underway(proCall'[d])
  BY <1>2, <1>3, ReplyIs
<1>5. \A d \in ProCalls \ {c} : disturbed \/ ~Underway(proCall[d])
  BY <1>1, <1>2 DEF OneChange, Changing, Underway
<1>6. CASE SetApiKey(c)
  <2>1. UNCHANGED <<otp, config, secret, proved, saved>> /\ proKey' = proCall[c].apiKey
    BY <1>6 DEF SetApiKey, service, proHistory
  <2>2. ~Underway(proCall[c])
    BY <1>6 DEF SetApiKey, Is, Underway
  <2>3. StoreFine'
    BY <1>1, <1>3, <1>5, <2>1, <2>2 DEF StoreFine, ensureProConfigType
  <2>4. ProTypeOK'
    BY <1>1, <1>2, <1>3, <1>4, <2>1 DEF ProTypeOK, ProCall
  <2>5. QED BY <1>4, <2>3, <2>4 DEF ProInv
<1>7. CASE ShowSecret(c)
  <2>1. UNCHANGED <<proKey, otp, config, proved, saved>> /\ secret < MaxSecrets /\ secret' = secret + 1
    BY <1>7 DEF ShowSecret, proStore, proHistory
  <2>2. ~Underway(proCall[c]) /\ (disturbed \/ ~otp)
    BY <1>1, <1>7 DEF ShowSecret, Is, Underway, CallFine, OtpFine
  <2>3. StoreFine'
    BY <1>1, <1>3, <1>5, <2>1, <2>2 DEF StoreFine, ensureProConfigType
  <2>4. ProTypeOK'
    BY <1>1, <1>3, <1>4, <2>1, ProAssumption DEF ProTypeOK
  <2>5. QED BY <1>4, <2>3, <2>4 DEF ProInv
<1>8. CASE EnableOtp(c)
  <2>1. UNCHANGED <<proKey, config, secret, saved>> /\ otp' = TRUE /\ proved' = proCall[c].token
    BY <1>8 DEF EnableOtp, service
  <2>2. /\ ~Underway(proCall[c])
        /\ proCall[c].token \in 0..MaxSecrets
        /\ disturbed \/ proCall[c].token = secret
    BY <1>1, <1>8 DEF EnableOtp, Is, Underway, CallFine, OtpFine
  <2>3. StoreFine'
    BY <1>1, <1>3, <1>5, <2>1, <2>2 DEF StoreFine, ensureProConfigType
  <2>4. ProTypeOK'
    BY <1>1, <1>3, <1>4, <2>1, <2>2 DEF ProTypeOK
  <2>5. QED BY <1>4, <2>3, <2>4 DEF ProInv
<1>9. CASE ConfigIsSent(c)
  <2>1. UNCHANGED <<proKey, otp, config, secret, proved>> /\ saved' = proCall[c].new
    BY <1>9 DEF ConfigIsSent, proStore, service
  <2>2. disturbed \/ (config = saved' /\ saved' \in Configs)
    BY <1>1, <1>9, <2>1 DEF ConfigIsSent, Is, CallFine, ConfigFine
  <2>3. StoreFine'
    BY <1>1, <1>3, <2>1, <2>2 DEF StoreFine, ensureProConfigType
  <2>4. saved' \in Configs
    BY <1>1, <1>9, <2>1 DEF ConfigIsSent, Is, CallFine, ConfigFine
  <2>5. ProTypeOK'
    BY <1>1, <1>3, <1>4, <2>1, <2>4 DEF ProTypeOK
  <2>6. QED BY <1>4, <2>3, <2>5 DEF ProInv
<1>10. CASE RevertConfig(c)
  <2>1. UNCHANGED <<proKey, otp, secret, proved, saved>> /\ config' = proCall[c].old
    BY <1>10 DEF RevertConfig, service, proHistory
  <2>2. disturbed \/ config' = saved
    BY <1>1, <1>10, <2>1 DEF RevertConfig, Is, CallFine, ConfigFine
  <2>3. ensureProConfigType(saved) = saved
    BY <1>1 DEF ProTypeOK, ensureProConfigType
  <2>4. StoreFine'
    BY <1>1, <1>3, <2>1, <2>2, <2>3 DEF StoreFine, ensureProConfigType
  <2>5. ProTypeOK'
    BY <1>1, <1>2, <1>3, <1>4, <2>1 DEF ProTypeOK, ProCall
  <2>6. QED BY <1>4, <2>4, <2>5 DEF ProInv
<1>11. QED BY <1>6, <1>7, <1>8, <1>9, <1>10

\* The key, the alerts or two-factor login are dropped; an earlier login that
\* is under way is no longer under two-factor from its beginning to its end.
LEMMA OtpEnds ==
    ASSUME ProInv, NEW c \in ProCalls, otp' = FALSE,
           OtpChanges([proCall EXCEPT ![c] = None])
    PROVE  /\ proCall' \in [ProCalls -> ProCall \cup {None}]
           /\ proCall'[c] = None
           /\ \A d \in ProCalls \ {c} :
                  \/ proCall'[d] = None /\ proCall[d] = None
                  \/ proCall[d] # None /\ proCall'[d] = [proCall[d] EXCEPT !.on = FALSE]
<1>1. proCall \in [ProCalls -> ProCall \cup {None}]
  BY DEF ProInv, ProTypeOK
<1>2. PICK calls : calls = [proCall EXCEPT ![c] = None]
  OBVIOUS
<1>3. calls \in [ProCalls -> ProCall \cup {None}] /\ calls[c] = None
      /\ \A d \in ProCalls \ {c} : calls[d] = proCall[d]
  BY <1>1, <1>2
<1>4. proCall' = [d \in ProCalls |-> IF calls[d] = None THEN None ELSE [calls[d] EXCEPT !.on = FALSE]]
  BY <1>2 DEF OtpChanges
<1>5. ASSUME NEW x \in ProCall
      PROVE  [x EXCEPT !.on = FALSE] \in ProCall
  BY DEF ProCall
<1>6. \A d \in ProCalls : proCall'[d] \in ProCall \cup {None}
  BY <1>3, <1>4, <1>5
<1>7. QED BY <1>3, <1>4, <1>6

LEMMA DropsOK ==
    ASSUME ProInv, NEW c \in ProCalls, Disconnect(c) \/ DisableOtp(c)
    PROVE  ProInv'
<1>1. ProTypeOK /\ StoreFine /\ OneChange
  BY DEF ProInv
<1>2. /\ Changing(proCall[c]) /\ ~Underway(proCall[c])
      /\ otp' = FALSE /\ lock' = FALSE
      /\ OtpChanges([proCall EXCEPT ![c] = None])
      /\ UNCHANGED <<goodKeys, secret, apiIndex, disturbed, proved>>
  BY DEF Disconnect, DisableOtp, Is, Changing, Underway, ClearAll, service, proHistory
<1>3. /\ proCall' \in [ProCalls -> ProCall \cup {None}]
      /\ proCall'[c] = None
      /\ \A d \in ProCalls \ {c} :
             \/ proCall'[d] = None /\ proCall[d] = None
             \/ proCall[d] # None /\ proCall'[d] = [proCall[d] EXCEPT !.on = FALSE]
  BY <1>2, OtpEnds
<1>4. /\ \A d \in ProCalls : CallFine(proCall[d])'
      /\ OneChange'
      /\ ~disturbed => \A d \in ProCalls : ~Underway(proCall'[d])
  BY <1>2, <1>3, ChangeEnds
<1>5. ProTypeOK'
  <2>1. proKey' \in {proKey, None} /\ config' \in {config, None} /\ saved' \in {saved, NoAlerts}
    BY DEF Disconnect, DisableOtp, ClearAll, proHistory
  <2>2. QED BY <1>1, <1>2, <1>3, <2>1 DEF ProTypeOK
<1>6. StoreFine'
  <2>1. CASE Disconnect(c)
    <3>1. config' = None /\ saved' = NoAlerts
      BY <2>1 DEF Disconnect, ClearAll
    <3>2. ensureProConfigType(config)' = saved'
      BY <3>1, ProAssumption DEF ensureProConfigType
    <3>3. QED BY <1>2, <3>2 DEF StoreFine
  <2>2. CASE DisableOtp(c)
    <3>1. config' = config /\ saved' = saved
      BY <2>2 DEF DisableOtp, proHistory
    <3>2. \A d \in ProCalls \ {c} : disturbed \/ ~Underway(proCall[d])
      BY <1>1, <1>2 DEF OneChange, Changing, Underway
    <3>3. QED BY <1>1, <1>2, <3>1, <3>2 DEF StoreFine, ensureProConfigType
  <2>3. QED BY <2>1, <2>2
<1>7. QED BY <1>4, <1>5, <1>6 DEF ProInv

\* The key that was sent has been invalidated: an update of the configuration
\* under another call is disturbed by it.
LEMMA KeyRefusedOK ==
    ASSUME ProInv, NEW c \in ProCalls, KeyRefused(c)
    PROVE  ProInv'
<1>1. ProTypeOK /\ StoreFine /\ OneChange /\ \A d \in ProCalls : CallFine(proCall[d])
  BY DEF ProInv
<1>2. /\ proCall[c] # None
      /\ proKey' = None /\ otp' = FALSE /\ config' = None /\ saved' = NoAlerts
      /\ OtpChanges([proCall EXCEPT ![c] = None])
      /\ lock' = (lock /\ proCall[c].op = "login")
      /\ UNCHANGED <<goodKeys, secret, apiIndex, proved>>
  BY DEF KeyRefused, IsAsking, Invalidated, ClearAll, service
<1>3. /\ proCall' \in [ProCalls -> ProCall \cup {None}]
      /\ proCall'[c] = None
      /\ \A d \in ProCalls \ {c} :
             \/ proCall'[d] = None /\ proCall[d] = None
             \/ proCall[d] # None /\ proCall'[d] = [proCall[d] EXCEPT !.on = FALSE]
  BY <1>2, OtpEnds
<1>4. PICK hurt : hurt = \E d \in ProCalls \ {c} : proCall[d] # None /\ proCall[d].op = "configs"
  OBVIOUS
<1>5. disturbed' = (disturbed \/ hurt)
  BY <1>4 DEF KeyRefused
<1>6. ProTypeOK'
  BY <1>1, <1>2, <1>3, <1>4, <1>5 DEF ProTypeOK
<1>7. StoreFine'
  <2>1. ensureProConfigType(config)' = saved'
    BY <1>2, ProAssumption DEF ensureProConfigType
  <2>2. QED BY <1>2, <2>1 DEF StoreFine
<1>8. ASSUME NEW d \in ProCalls \ {c}, proCall[d] # None
      PROVE  /\ proCall'[d].op = proCall[d].op
             /\ proCall'[d].at = proCall[d].at
             /\ proCall'[d].token = proCall[d].token
             /\ proCall'[d].new = proCall[d].new
             /\ ~proCall'[d].on
  <2>1. proCall[d] \in ProCall /\ proCall'[d] = [proCall[d] EXCEPT !.on = FALSE]
    BY <1>1, <1>3, <1>8 DEF ProTypeOK
  <2>2. QED BY <2>1 DEF ProCall
<1>9. ASSUME NEW d \in ProCalls
      PROVE  CallFine(proCall[d])'
  <2>1. CASE d = c \/ proCall[d] = None
    BY <1>3, <2>1 DEF CallFine
  <2>2. CASE d # c /\ proCall[d] # None
    <3>1. proCall[d].op # "configs" \/ disturbed'
      BY <1>4, <1>5, <2>2
    <3>2. /\ proCall[d].op # "login" => proCall[d].at \in {"begun", "asking", "answered"}
          /\ OtpFine(proCall[d]) /\ ConfigFine(proCall[d])
      BY <1>1, <2>2 DEF CallFine
    <3>3. LoginFine(proCall[d])'
      BY <1>8, <2>2 DEF LoginFine
    <3>4. OtpFine(proCall[d])'
      BY <1>2, <1>5, <1>8, <2>2, <3>2 DEF OtpFine
    <3>5. ConfigFine(proCall[d])'
      BY <1>8, <2>2, <3>1, <3>2 DEF ConfigFine
    <3>6. QED BY <1>8, <2>2, <3>2, <3>3, <3>4, <3>5 DEF CallFine
  <2>3. QED BY <2>1, <2>2
<1>10. OneChange'
  <2>1. \A d \in ProCalls : Changing(proCall'[d]) => d # c /\ Changing(proCall[d])
    BY <1>3, <1>8 DEF Changing
  <2>2. ~disturbed /\ Changing(proCall[c]) => \A d \in ProCalls : ~Changing(proCall'[d])
    BY <1>1, <2>1 DEF OneChange
  <2>3. ~Changing(proCall[c]) => lock' = lock
    BY <1>1, <1>2 DEF Changing, ProTypeOK
  <2>4. ~disturbed' => ~disturbed
    BY <1>5
  <2>5. QED BY <1>1, <2>1, <2>2, <2>3, <2>4 DEF OneChange
<1>11. QED BY <1>6, <1>7, <1>9, <1>10 DEF ProInv

\* Nothing came back: what was asked may have been done.
LEMMA NoAnswerOK ==
    ASSUME ProInv, NEW c \in ProCalls, NoAnswer(c)
    PROVE  ProInv'
<1>1. ProTypeOK /\ StoreFine /\ OneChange /\ CallFine(proCall[c])
  BY DEF ProInv
<1>2. /\ IsAsking(c) /\ Fail(c) /\ apiIndex' \in Domains
      /\ UNCHANGED <<proKey, otp, config, goodKeys, disturbed, proved, saved>>
  BY <1>1 DEF NoAnswer, Unknown, ProTypeOK, Domains, proStore, proHistory
<1>3. CASE secret' = secret
  BY <1>2, <1>3, FailOK DEF proStore, service, proHistory
<1>4. CASE secret' # secret
  <2>1. /\ secret < MaxSecrets /\ secret' = secret + 1 /\ proCall[c].op = "otp"
    BY <1>4 DEF NoAnswer
  <2>2. /\ Reply(c) /\ Changing(proCall[c]) /\ ~Underway(proCall[c])
        /\ disturbed \/ ~otp
    <3>1. proCall[c] # None
      BY <1>2 DEF IsAsking
    <3>2. proCall[c].at = "asking"
      BY <1>1, <1>2, <2>1, <3>1 DEF IsAsking, CallFine
    <3>3. QED BY <1>1, <1>2, <2>1, <3>1, <3>2 DEF Fail, Changing, Underway, CallFine, OtpFine
  <2>3. /\ proCall' \in [ProCalls -> ProCall \cup {None}]
        /\ lock' \in BOOLEAN
        /\ \A d \in ProCalls : CallFine(proCall[d])'
        /\ OneChange'
        /\ ~disturbed => \A d \in ProCalls : ~Underway(proCall'[d])
    BY <1>2, <2>2, ReplyIs
  <2>4. \A d \in ProCalls : disturbed \/ ~Underway(proCall[d])
    BY <1>1, <2>2 DEF OneChange, Changing, Underway
  <2>5. StoreFine'
    BY <1>1, <1>2, <2>2, <2>4 DEF StoreFine, ensureProConfigType
  <2>6. ProTypeOK'
    BY <1>1, <1>2, <2>1, <2>3, ProAssumption DEF ProTypeOK
  <2>7. QED BY <2>3, <2>5, <2>6 DEF ProInv
<1>5. QED BY <1>3, <1>4

\* The configuration is written before the service is asked.
LEMMA WriteConfigOK ==
    ASSUME ProInv, NEW c \in ProCalls, WriteConfig(c)
    PROVE  ProInv'
<1>1. ProTypeOK /\ StoreFine /\ OneChange /\ \A d \in ProCalls : CallFine(proCall[d])
  BY DEF ProInv
<1>2. /\ proCall[c] # None /\ proCall[c].op = "configs" /\ proCall[c].at = "begun"
      /\ proCall[c].new \in Configs /\ config' = proCall[c].new
      /\ UNCHANGED <<proKey, otp, goodKeys, secret, apiIndex, lock, disturbed, proved, saved>>
  BY DEF WriteConfig, Is, validateProConfig, service, proHistory
<1>3. proCall[c] \in ProCall
  BY <1>1, <1>2 DEF ProTypeOK
<1>4. PICK old : old = ensureProConfigType(config)
  OBVIOUS
<1>5. old \in Configs \cup {NoAlerts}
  BY <1>4 DEF ensureProConfigType
<1>6. PICK x : x = [proCall[c] EXCEPT !.at = "asking", !.old = old]
  OBVIOUS
<1>7. /\ x \in ProCall
      /\ x.op = "configs" /\ x.at = "asking" /\ x.new = proCall[c].new /\ x.old = old
  BY <1>2, <1>3, <1>5, <1>6 DEF ProCall
<1>8. proCall' = [proCall EXCEPT ![c] = x]
  BY <1>1, <1>3, <1>4, <1>6 DEF WriteConfig, Goes, ProTypeOK, ProCall
<1>9. /\ proCall' \in [ProCalls -> ProCall \cup {None}]
      /\ proCall'[c] = x
      /\ \A d \in ProCalls : d # c => proCall'[d] = proCall[d]
  BY <1>1, <1>7, <1>8, ProCallsMove
<1>10. disturbed \/ \A d \in ProCalls \ {c} : ~Changing(proCall[d])
  BY <1>1, <1>2 DEF OneChange, Changing
<1>11. ProTypeOK'
  BY <1>1, <1>2, <1>9 DEF ProTypeOK
<1>12. OneChange'
  <2>1. \A d \in ProCalls : Changing(proCall'[d]) => Changing(proCall[d])
    BY <1>2, <1>9 DEF Changing
  <2>2. QED BY <1>1, <1>2, <2>1 DEF OneChange
<1>13. StoreFine'
  <2>1. Underway(x)
    BY <1>7, ProCallAssumption DEF Underway
  <2>2. QED BY <1>1, <1>2, <1>9, <2>1 DEF StoreFine
<1>14. ASSUME NEW d \in ProCalls
       PROVE  CallFine(proCall[d])'
  <2>1. CASE d = c
    <3>1. disturbed \/ old = saved
      <4>1. ~Underway(proCall[c]) /\ (disturbed \/ \A e \in ProCalls \ {c} : ~Underway(proCall[e]))
        BY <1>2, <1>10 DEF Changing, Underway
      <4>2. QED BY <1>1, <1>4, <4>1 DEF StoreFine
    <3>2. ConfigFine(proCall[d])'
      BY <1>2, <1>7, <1>9, <2>1, <3>1 DEF ConfigFine
    <3>3. QED BY <1>7, <1>9, <2>1, <3>2 DEF CallFine, LoginFine, OtpFine
  <2>2. CASE d # c
    BY <1>2, <1>9, <1>10, <2>2, OthersFine
  <2>3. QED BY <2>1, <2>2
<1>15. QED BY <1>11, <1>12, <1>13, <1>14 DEF ProInv

\* A client is gone, or a key no longer good.
LEMMA WorldOK ==
    ASSUME ProInv,
           (\E c \in ProCalls : Disconnects(c)) \/ (\E key \in ApiKeys : InvalidateKey(key))
    PROVE  ProInv'
<1>1. ProTypeOK /\ StoreFine /\ OneChange /\ \A d \in ProCalls : CallFine(proCall[d])
  BY DEF ProInv
<1>2. UNCHANGED <<proKey, otp, config, secret, apiIndex, proCall, proved, saved>>
      /\ (disturbed => disturbed') /\ disturbed' \in BOOLEAN /\ lock' \in BOOLEAN
      /\ (lock' = lock \/ disturbed')
      /\ goodKeys' \subseteq ApiKeys
  BY <1>1 DEF Disconnects, InvalidateKey, proStore, service, proHistory, ProTypeOK
<1>3. ProTypeOK'
  BY <1>1, <1>2 DEF ProTypeOK
<1>4. StoreFine' /\ OneChange'
  BY <1>1, <1>2 DEF StoreFine, OneChange, ensureProConfigType
<1>5. \A d \in ProCalls : CallFine(proCall[d])'
  BY <1>1, <1>2 DEF CallFine, LoginFine, OtpFine, ConfigFine
<1>6. QED BY <1>3, <1>4, <1>5 DEF ProInv

LEMMA ProInitOK == ProInit => ProInv
<1> SUFFICES ASSUME ProInit
             PROVE  ProInv
  OBVIOUS
<1>1. /\ proKey = None /\ otp = FALSE /\ config = None /\ goodKeys = ApiKeys /\ secret = 0
      /\ apiIndex \in Domains /\ lock = FALSE /\ disturbed = FALSE /\ proved = 0
      /\ saved = NoAlerts
      /\ proCall = [c \in ProCalls |-> None]
  BY DEF ProInit
<1>2. ProTypeOK
  <2>1. 0 \in 0..MaxSecrets
    BY ProAssumption
  <2>2. proCall \in [ProCalls -> ProCall \cup {None}]
    BY <1>1
  <2>3. otp \in BOOLEAN /\ lock \in BOOLEAN /\ disturbed \in BOOLEAN
    BY <1>1
  <2>4. QED BY <1>1, <2>1, <2>2, <2>3 DEF ProTypeOK
<1>3. ensureProConfigType(config) = saved
  BY <1>1, ProAssumption DEF ensureProConfigType
<1>4. StoreFine
  BY <1>1, <1>3 DEF StoreFine
<1>5. OneChange /\ \A c \in ProCalls : CallFine(proCall[c])
  BY <1>1 DEF OneChange, Changing, CallFine
<1>6. QED BY <1>2, <1>4, <1>5 DEF ProInv

LEMMA ProStep == ProInv /\ [ProNext]_proVars => ProInv'
<1> SUFFICES ASSUME ProInv, [ProNext]_proVars
             PROVE  ProInv'
  OBVIOUS
<1>1. CASE UNCHANGED proVars
  <2>1. UNCHANGED <<proKey, otp, config, goodKeys, secret, apiIndex, lock, proCall, disturbed,
                    proved, saved>>
    BY <1>1 DEF proVars, proStore, service, proHistory
  <2>2. QED BY <2>1 DEF ProInv, ProTypeOK, OneChange, StoreFine, CallFine, LoginFine, OtpFine,
                        ConfigFine, ensureProConfigType
<1>2. CASE (\E c \in ProCalls : Disconnects(c)) \/ (\E key \in ApiKeys : InvalidateKey(key))
  BY <1>2, WorldOK
<1>3. ASSUME NEW c \in ProCalls,
             \/ Arrive(c)
             \/ AskForKey(c)
             \/ SetApiKey(c)
             \/ Disconnect(c)
             \/ AskForOtp(c)
             \/ DisableOtp(c)
             \/ ShowSecret(c)
             \/ VerifyForOtp(c)
             \/ EnableOtp(c)
             \/ WriteConfig(c)
             \/ ConfigIsSent(c)
             \/ RevertConfig(c)
             \/ LoginStep(c)
             \/ Refused(c)
             \/ KeyRefused(c)
             \/ NoAnswer(c)
             \/ Ends(c)
      PROVE  ProInv'
  BY <1>3, ArriveOK, AskOK, AnsweredOK, DropsOK, WriteConfigOK, LoginStepOK, EndsOK, KeyRefusedOK,
     NoAnswerOK
<1>4. QED BY <1>1, <1>2, <1>3 DEF ProNext

LEMMA ProInvAlways == ProSpec => []ProInv
BY ProInitOK, ProStep, PTL DEF ProSpec

\* The data store, the service and the requests have their types, with no more
\* secrets drawn than there may be.
THEOREM ProTyped == ProSpec => []ProTypeOK
<1>1. ProInv => ProTypeOK
  BY DEF ProInv
<1>2. QED BY <1>1, ProInvAlways, PTL

\* A login under two-factor, on from the beginning of the login to its end, had
\* a token that the service verified, whatever else was set, refused or dropped
\* meanwhile (POST /login, getAuthToken, getAuthTokenForCookies).
THEOREM TwoFactorCorrect == ProSpec => []LoginsAreVerified
<1>1. ProInv => LoginsAreVerified
  BY DEF ProInv, CallFine, LoginFine, LoginsAreVerified, Is
<1>2. QED BY <1>1, ProInvAlways, PTL

\* Unless changing requests overlapped, two-factor login is on with the secret
\* that the user's app was seen to have (set2fa).
THEOREM SecretCorrect == ProSpec => []EnabledSecretIsProved
<1>1. ProInv => EnabledSecretIsProved
  BY DEF ProInv, StoreFine, EnabledSecretIsProved
<1>2. QED BY <1>1, ProInvAlways, PTL

\* Unless changing requests overlapped, the data store has the configuration
\* that was last answered to be set (updateConfig takes back what failed).
THEOREM ConfigCorrect == ProSpec => []SavedConfigStays
<1>1. ProInv => SavedConfigStays
  BY DEF ProInv, StoreFine, Underway, SavedConfigStays
<1>2. QED BY <1>1, ProInvAlways, PTL

-----------------------------------------------------------------------------
(* Arrays: what filter leaves, and where an element is.                     *)

IfIn(acc, e, S) == IF e \in S THEN Append(acc, e) ELSE acc

LEMMA FilteredSteps ==
    ASSUME NEW E, NEW a \in Seq(E), NEW S
    PROVE  \E h :
              /\ h \in [0..Len(a) -> Seq(E)]
              /\ h[0] = <<>>
              /\ \A i \in 1..Len(a) : h[i] = IfIn(h[i - 1], a[i], S)
              /\ Filtered(a, S) = h[Len(a)]
<1> DEFINE n == Len(a)
           step == [x \in (1..n) \X Seq(E) |-> IF a[x[1]] \in S THEN Append(x[2], a[x[1]]) ELSE x[2]]
           pick == [t \in SUBSET (1..n) |-> Max(t)]
           Folds(g) == g = [t \in SUBSET DOMAIN a |->
                               IF t = {} THEN <<>>
                               ELSE IF a[Max(t)] \in S THEN Append(g[t \ {Max(t)}], a[Max(t)]) ELSE g[t \ {Max(t)}]]
<1>1. n \in Nat /\ DOMAIN a = 1..n /\ \A i \in 1..n : a[i] \in E
  OBVIOUS
<1>2. PICK g \in [SUBSET (1..n) -> Seq(E)] : IsFold(g, 1..n, pick, <<>>, step)
  <2>1. IsFiniteSet(1..n)
    BY <1>1, FS_Interval
  <2>2. Picks(pick, 1..n)
    BY <1>1, LastFirst DEF Picks
  <2>3. step \in [(1..n) \X Seq(E) -> Seq(E)]
    BY <1>1
  <2>4. <<>> \in Seq(E)
    OBVIOUS
  <2> HIDE DEF step, pick, n
  <2>5. QED BY <2>1, <2>2, <2>3, <2>4, FoldExists
<1>3. Folds(g)
  <2>1. ASSUME NEW t \in SUBSET (1..n), t # {}
        PROVE  g[t] = IF a[Max(t)] \in S THEN Append(g[t \ {Max(t)}], a[Max(t)]) ELSE g[t \ {Max(t)}]
    <3>1. Max(t) \in 1..n /\ t \ {Max(t)} \in SUBSET (1..n) /\ pick[t] = Max(t)
      BY <1>1, <2>1, LastFirst
    <3>2. g[t] = step[<<Max(t), g[t \ {Max(t)}]>>] /\ g[t \ {Max(t)}] \in Seq(E)
      BY <1>2, <2>1, <3>1 DEF IsFold
    <3>3. QED BY <3>1, <3>2
  <2>2. g = [t \in SUBSET (1..n) |-> g[t]] /\ g[{}] = <<>>
    BY <1>2 DEF IsFold
  <2>3. QED BY <1>1, <2>1, <2>2
<1>4. Filtered(a, S) = (CHOOSE f : Folds(f))[DOMAIN a]
  BY Zenon DEF Filtered, FoldLeft, MapThenFoldSet
<1>5. PICK f : Folds(f) /\ Filtered(a, S) = f[1..n]
  <2> HIDE DEF Folds
  <2>1. QED BY <1>1, <1>3, <1>4, Zenon
<1>6. PICK h : h = [i \in 0..n |-> f[1..i]]
  OBVIOUS
<1>7. f[{}] = <<>> /\ 1..0 = {}
  BY <1>5
<1>8. h[0] = <<>>
  BY <1>1, <1>6, <1>7
<1>9. ASSUME NEW i \in 1..n
      PROVE  h[i] = IfIn(h[i - 1], a[i], S)
  <2>1. 1..i \in SUBSET (1..n) /\ 1..i # {} /\ Max(1..i) = i /\ (1..i) \ {Max(1..i)} = 1..(i - 1)
    BY <1>1, LastOfInterval
  <2>2. f[1..i] = IF a[i] \in S THEN Append(f[1..(i - 1)], a[i]) ELSE f[1..(i - 1)]
    BY <1>1, <1>5, <2>1
  <2>3. i \in 0..n /\ i - 1 \in 0..n
    BY <1>1
  <2>4. QED BY <1>6, <2>2, <2>3 DEF IfIn
<1>10. h \in [0..n -> Seq(E)]
  <2> DEFINE T == {i \in Nat : i <= n => h[i] \in Seq(E)}
  <2>1. 0 \in T
    <3>1. h[0] \in Seq(E)
      BY <1>8
    <3>2. QED BY <3>1
  <2>2. ASSUME NEW i \in Nat, i \in T
        PROVE  i + 1 \in T
    <3>1. CASE i + 1 <= n
      <4>1. i + 1 \in 1..n /\ h[i] \in Seq(E) /\ (i + 1) - 1 = i
        BY <1>1, <2>2, <3>1
      <4>2. a[i + 1] \in E
        BY <1>1, <4>1
      <4>3. h[i + 1] = IfIn(h[i], a[i + 1], S)
        <5> HIDE DEF n
        <5>1. QED BY <1>9, <4>1
      <4>4. h[i + 1] \in Seq(E)
        BY <4>1, <4>2, <4>3 DEF IfIn
      <4>5. QED BY <4>4
    <3>2. QED BY <3>1
  <2>3. \A i \in 0..n : h[i] \in Seq(E)
    <3>1. Nat \subseteq T
      <4> HIDE DEF T
      <4>1. QED BY <2>1, <2>2, AllNumbers
    <3>2. QED BY <1>1, <3>1
  <2>4. QED BY <1>6, <2>3
<1>11. h[n] = f[1..n]
  BY <1>1, <1>6
<1>12. QED BY <1>5, <1>8, <1>9, <1>10, <1>11

FilterOf(R, E, a, S) ==
    /\ R \in Seq(E)
    /\ \A k \in 1..Len(R) : \E i \in 1..Len(a) : a[i] \in S /\ R[k] = a[i]
    /\ \A i \in 1..Len(a) : a[i] \in S => \E k \in 1..Len(R) : R[k] = a[i]

\* What array.filter leaves: the elements that are in S.
LEMMA FilteredIs ==
    ASSUME NEW E, NEW a \in Seq(E), NEW S
    PROVE  FilterOf(Filtered(a, S), E, a, S)
<1>1. PICK h :
         /\ h \in [0..Len(a) -> Seq(E)]
         /\ h[0] = <<>>
         /\ \A i \in 1..Len(a) : h[i] = IfIn(h[i - 1], a[i], S)
         /\ Filtered(a, S) = h[Len(a)]
  BY FilteredSteps, Zenon
<1> DEFINE n == Len(a)
<1>2. n \in Nat
  OBVIOUS
<1> DEFINE Filters(g, m) ==
               /\ \A k \in 1..Len(g) : \E i \in 1..m : a[i] \in S /\ g[k] = a[i]
               /\ \A i \in 1..m : a[i] \in S => \E k \in 1..Len(g) : g[k] = a[i]
           T == {m \in Nat : m <= n => Filters(h[m], m)}
<1>3. 0 \in T
  BY <1>1
<1>4. ASSUME NEW m \in Nat, m \in T
      PROVE  m + 1 \in T
  <2>1. SUFFICES ASSUME m + 1 <= n
                 PROVE  Filters(h[m + 1], m + 1)
    <3> HIDE DEF Filters
    <3>1. m + 1 \in Nat
      OBVIOUS
    <3>2. QED BY <3>1
  <2>2. m \in 0..n /\ m + 1 \in 1..n /\ (m + 1) - 1 = m /\ Filters(h[m], m)
    <3>1. m <= n /\ m \in 0..n /\ m + 1 \in 1..n /\ (m + 1) - 1 = m
      BY <1>2, <2>1
    <3> HIDE DEF Filters
    <3>2. QED BY <1>4, <3>1
  <2>3. PICK g \in Seq(E) : g = h[m]
    BY <1>1, <2>2
  <2>4. a[m + 1] \in E
    BY <2>2
  <2>5. h[m + 1] = IF a[m + 1] \in S THEN Append(g, a[m + 1]) ELSE g
    BY <1>1, <2>2, <2>3 DEF IfIn
  <2>6. CASE a[m + 1] \in S
    <3>1. PICK g2 : g2 = h[m + 1]
      OBVIOUS
    <3>2. Len(g) \in Nat /\ Len(g2) = Len(g) + 1 /\ g2[Len(g) + 1] = a[m + 1] /\ \A k \in 1..Len(g) : g2[k] = g[k]
      BY <2>3, <2>4, <2>5, <2>6, <3>1
    <3>3. ASSUME NEW k \in 1..Len(g2)
          PROVE  \E i \in 1..(m + 1) : a[i] \in S /\ g2[k] = a[i]
      <4>1. CASE k = Len(g) + 1
        BY <2>6, <3>2, <4>1
      <4>2. CASE k # Len(g) + 1
        <5>1. k \in 1..Len(g)
          BY <3>2, <4>2
        <5>2. PICK i \in 1..m : a[i] \in S /\ g[k] = a[i]
          BY <2>2, <2>3, <5>1
        <5>3. QED BY <3>2, <5>1, <5>2
      <4>3. QED BY <4>1, <4>2
    <3>4. ASSUME NEW i \in 1..(m + 1), a[i] \in S
          PROVE  \E k \in 1..Len(g2) : g2[k] = a[i]
      <4>1. CASE i = m + 1
        <5>1. Len(g) + 1 \in 1..Len(g2)
          BY <3>2
        <5>2. QED BY <3>2, <4>1, <5>1
      <4>2. CASE i # m + 1
        <5>1. PICK k \in 1..Len(g) : g[k] = a[i]
          BY <2>2, <2>3, <3>4, <4>2
        <5>2. QED BY <3>2, <5>1
      <4>3. QED BY <4>1, <4>2
    <3>5. QED BY <3>1, <3>3, <3>4
  <2>7. CASE a[m + 1] \notin S
    <3>1. h[m + 1] = g
      BY <2>5, <2>7
    <3>2. \A i \in 1..(m + 1) : a[i] \in S => i \in 1..m
      BY <2>7
    <3>3. QED BY <2>2, <2>3, <3>1, <3>2
  <2>8. QED BY <2>6, <2>7
<1>5. Filters(h[n], n)
  <2>1. Nat \subseteq T
    <3> HIDE DEF T
    <3>1. QED BY <1>3, <1>4, AllNumbers
  <2>2. n \in T /\ n <= n
    <3> HIDE DEF T
    <3>1. QED BY <1>2, <2>1
  <2> HIDE DEF Filters
  <2>3. QED BY <2>2
<1>6. h[n] \in Seq(E)
  BY <1>1, <1>2
<1>7. QED BY <1>1, <1>5, <1>6 DEF FilterOf

\* The least of some numbers.
LEMMA LeastOf ==
    ASSUME NEW t \in SUBSET Nat, t # {}
    PROVE  Min(t) \in t /\ \A y \in t : Min(t) <= y
<1>1. PICK x \in t : \A y \in t : ~(<<y, x>> \in OpToRel(<, Nat))
  <2>1. IsWellFoundedOn(OpToRel(<, Nat), Nat)
    BY NatLessThanWellFounded, Zenon
  <2>2. QED BY <2>1, WFMin, Zenon
<1>2. \A y \in t : y \in Nat => ~(y < x)
  BY <1>1 DEF OpToRel
<1>3. \A y \in t : x <= y
  BY <1>2
<1>4. QED BY <1>3, Zenon DEF Min

LEMMA IndexIs ==
    ASSUME NEW S \in Seq(Bucket), NEW key
    PROVE  \/ IndexOf(S, key) = 0
           \/ IndexOf(S, key) \in 1..Len(S) /\ S[IndexOf(S, key)].key = key
<1> DEFINE I == {i \in 1..Len(S) : S[i].key = key}
<1>1. IndexOf(S, key) = IF I # {} THEN Min(I) ELSE 0
  BY Zenon DEF IndexOf, SelectInSeq
<1>2. CASE I # {}
  <2>1. I \in SUBSET Nat
    OBVIOUS
  <2>2. Min(I) \in I
    <3> HIDE DEF I
    <3>1. QED BY <1>2, <2>1, LeastOf
  <2>3. QED BY <1>1, <1>2, <2>2
<1>3. QED BY <1>1, <1>2

-----------------------------------------------------------------------------
(* The attempts of a client, by their age.                                  *)

AddStep(f, S) == [x \in S \X Nat |-> f[x[1]] + x[2]]

Adds(g, S, f) == \A s \in SUBSET S : \A x \in s : g[s] = f[x] + g[s \ {x}]

\* In which order the values are added does not matter.
LEMMA AnyOrder ==
    ASSUME NEW S, IsFiniteSet(S), NEW f \in [S -> Nat], NEW pick, Picks(pick, S),
           NEW g \in [SUBSET S -> Nat],
           IsFold(g, S, pick, 0, AddStep(f, S))
    PROVE  Adds(g, S, f)
<1> DEFINE T == {m \in Nat : \A s \in SUBSET S : Cardinality(s) <= m => \A x \in s : g[s] = f[x] + g[s \ {x}]}
<1>1. \A s \in SUBSET S : IsFiniteSet(s) /\ Cardinality(s) \in Nat
  BY FS_Subset, FS_CardinalityType
<1>2. \A s \in SUBSET S : \A x \in s : s \ {x} \in SUBSET S /\ Cardinality(s \ {x}) = Cardinality(s) - 1
  BY <1>1, FS_RemoveElement
<1>3. ASSUME NEW s \in SUBSET S, s # {}
      PROVE  pick[s] \in s /\ g[s] = f[pick[s]] + g[s \ {pick[s]}]
  <2>1. pick[s] \in s /\ pick[s] \in S
    BY <1>3 DEF Picks
  <2>2. g[s \ {pick[s]}] \in Nat
    OBVIOUS
  <2>3. g[s] = AddStep(f, S)[<<pick[s], g[s \ {pick[s]}]>>]
    BY <1>3, Zenon DEF IsFold
  <2>4. QED BY <2>1, <2>2, <2>3 DEF AddStep
<1>4. 0 \in T
  <2>1. \A s \in SUBSET S : Cardinality(s) <= 0 => s = {}
    BY <1>1, FS_EmptySet
  <2>2. QED BY <2>1
<1>5. ASSUME NEW m \in Nat, m \in T
      PROVE  m + 1 \in T
  <2>1. SUFFICES ASSUME NEW s \in SUBSET S, Cardinality(s) <= m + 1, NEW x \in s
                 PROVE  g[s] = f[x] + g[s \ {x}]
    OBVIOUS
  <2>2. PICK p \in s : p = pick[s] /\ g[s] = f[p] + g[s \ {p}]
    BY <1>3
  <2>3. CASE p = x
    BY <2>2, <2>3
  <2>4. CASE p # x
    <3>1. Cardinality(s \ {x}) <= m /\ Cardinality(s \ {p}) <= m
      BY <1>1, <1>2, <2>1
    <3>2. s \ {x} \in SUBSET S /\ s \ {p} \in SUBSET S /\ p \in s \ {x} /\ x \in s \ {p}
      BY <2>4
    <3>3. g[s \ {x}] = f[p] + g[(s \ {x}) \ {p}]
      BY <1>5, <3>1, <3>2
    <3>4. g[s \ {p}] = f[x] + g[(s \ {p}) \ {x}]
      BY <1>5, <3>1, <3>2
    <3>5. (s \ {p}) \ {x} = (s \ {x}) \ {p} /\ (s \ {x}) \ {p} \in SUBSET S
      OBVIOUS
    <3>6. PICK r \in Nat : r = g[(s \ {x}) \ {p}]
      BY <3>5
    <3>7. g[s \ {x}] = f[p] + r /\ g[s \ {p}] = f[x] + r
      BY <3>3, <3>4, <3>5, <3>6
    <3>8. f[p] \in Nat /\ f[x] \in Nat
      OBVIOUS
    <3>9. PICK u, v : u = f[p] /\ v = f[x]
      OBVIOUS
    <3>10. u \in Nat /\ v \in Nat /\ g[s] = u + (v + r) /\ g[s \ {x}] = u + r
      BY <2>2, <3>7, <3>8, <3>9
    <3>11. u + (v + r) = v + (u + r)
      BY <3>6, <3>10
    <3>12. QED BY <3>9, <3>10, <3>11
  <2>5. QED BY <2>3, <2>4
<1>6. Nat \subseteq T
  <2> HIDE DEF T
  <2>1. QED BY <1>4, <1>5, AllNumbers
<1>7. ASSUME NEW s \in SUBSET S, NEW x \in s
      PROVE  g[s] = f[x] + g[s \ {x}]
  <2>1. Cardinality(s) \in T /\ Cardinality(s) <= Cardinality(s)
    <3>1. Cardinality(s) \in Nat
      BY <1>1
    <3> HIDE DEF T
    <3>2. QED BY <1>6, <3>1
  <2>2. QED BY <2>1
<1>8. QED BY <1>7 DEF Adds

Ticks == 0 .. WindowTicks - 1
SumStep(f) == [x \in Nat \X Nat |-> x[2] + (IF x[1] - 1 \in Ticks THEN f[x[1] - 1] ELSE 0)]

\* The attempts of the last n ticks.
LastTicks(f) == CHOOSE g \in [Nat -> Nat] : IsRecursion(g, 0, SumStep(f))

LEMMA LastTicksIs ==
    ASSUME NEW f \in [Ticks -> Nat]
    PROVE  /\ LastTicks(f) \in [Nat -> Nat]
           /\ LastTicks(f)[0] = 0
           /\ \A n \in 0 .. WindowTicks - 1 : LastTicks(f)[n + 1] = LastTicks(f)[n] + f[n]
<1>1. SumStep(f) \in [Nat \X Nat -> Nat]
  BY DEF SumStep
<1>2. \E g \in [Nat -> Nat] : IsRecursion(g, 0, SumStep(f))
  BY <1>1, RecursionExists
<1>3. PICK g \in [Nat -> Nat] : g = LastTicks(f) /\ IsRecursion(g, 0, SumStep(f))
  BY <1>2, Zenon DEF LastTicks
<1>4. g[0] = 0
  BY <1>3 DEF IsRecursion
<1>5. ASSUME NEW n \in 0 .. WindowTicks - 1
      PROVE  g[n + 1] = g[n] + f[n]
  <2>1. n \in Nat /\ n + 1 \in Nat /\ n + 1 # 0 /\ (n + 1) - 1 = n /\ n \in Ticks
    BY LimiterAssumption DEF Ticks
  <2>2. g[n + 1] = SumStep(f)[<<n + 1, g[n]>>]
    BY <1>3, <2>1 DEF IsRecursion
  <2>3. QED BY <2>1, <2>2 DEF SumStep
<1>6. QED BY <1>3, <1>4, <1>5

LEMMA SumIs ==
    ASSUME NEW f \in [Ticks -> Nat]
    PROVE  FoldFunction(+, 0, f) = LastTicks(f)[WindowTicks]
<1> DEFINE step == AddStep(f, Ticks)
           pick == [d \in SUBSET Ticks |-> CHOOSE x \in d : TRUE]
           Folds(g) == g = [d \in SUBSET DOMAIN f |->
               IF d = {} THEN 0 ELSE f[CHOOSE x \in d : TRUE] + g[d \ {CHOOSE x \in d : TRUE}]]
<1>1. IsFiniteSet(Ticks) /\ WindowTicks \in Nat /\ DOMAIN f = Ticks
  BY LimiterAssumption, FS_Interval DEF Ticks
<1>2. Picks(pick, Ticks)
  BY DEF Picks
<1>3. PICK g \in [SUBSET Ticks -> Nat] : IsFold(g, Ticks, pick, 0, step)
  <2>1. step \in [Ticks \X Nat -> Nat]
    BY DEF AddStep
  <2>2. 0 \in Nat
    OBVIOUS
  <2> HIDE DEF step, pick
  <2>3. QED BY <1>1, <1>2, <2>1, <2>2, FoldExists
<1>4. Folds(g)
  <2>1. ASSUME NEW d \in SUBSET Ticks
        PROVE  g[d] = IF d = {} THEN 0 ELSE f[CHOOSE x \in d : TRUE] + g[d \ {CHOOSE x \in d : TRUE}]
    <3>1. CASE d = {}
      BY <1>3, <3>1 DEF IsFold
    <3>2. CASE d # {}
      <4>1. PICK p \in Ticks : p = pick[d]
        BY <1>2, <3>2 DEF Picks
      <4>2. g[d] = step[<<p, g[d \ {p}]>>] /\ g[d \ {p}] \in Nat
        <5> HIDE DEF step, pick
        <5>1. QED BY <1>3, <3>2, <4>1 DEF IsFold
      <4>3. g[d] = f[p] + g[d \ {p}]
        BY <4>2 DEF AddStep
      <4>4. p = CHOOSE x \in d : TRUE
        BY <4>1
      <4>5. QED BY <3>2, <4>3, <4>4
    <3>3. QED BY <3>1, <3>2
  <2>2. g = [d \in SUBSET Ticks |-> g[d]]
    BY <1>3
  <2>3. QED BY <1>1, <2>1, <2>2
<1>5. FoldFunction(+, 0, f) = (CHOOSE h : Folds(h))[DOMAIN f]
  BY Zenon DEF FoldFunction, FoldFunctionOnSet, MapThenFoldSet
<1>6. PICK h : Folds(h) /\ FoldFunction(+, 0, f) = h[Ticks]
  <2> HIDE DEF Folds
  <2>1. QED BY <1>1, <1>4, <1>5, Zenon
<1>7. \A s \in SUBSET Ticks : IsFiniteSet(s) /\ Cardinality(s) \in Nat
  BY <1>1, FS_Subset, FS_CardinalityType
<1>8. h[Ticks] = g[Ticks]
  <2> DEFINE T == {m \in Nat : \A s \in SUBSET Ticks : Cardinality(s) <= m => h[s] = g[s]}
  <2>1. h[{}] = 0 /\ g[{}] = 0
    BY <1>1, <1>4, <1>6
  <2>2. 0 \in T
    <3>1. \A s \in SUBSET Ticks : Cardinality(s) <= 0 => s = {}
      BY <1>7, FS_EmptySet
    <3>2. \A s \in SUBSET Ticks : Cardinality(s) <= 0 => h[s] = g[s]
      BY <2>1, <3>1, Zenon
    <3>3. QED BY <3>2
  <2>3. ASSUME NEW m \in Nat, m \in T
        PROVE  m + 1 \in T
    <3>1. SUFFICES ASSUME NEW s \in SUBSET Ticks, Cardinality(s) <= m + 1, s # {}
                   PROVE  h[s] = g[s]
      <4>1. CASE \A s \in SUBSET Ticks : Cardinality(s) <= m + 1 => h[s] = g[s]
        BY <4>1
      <4>2. CASE \E s \in SUBSET Ticks : Cardinality(s) <= m + 1 /\ h[s] # g[s]
        BY <2>1, <4>2
      <4>3. QED BY <4>1, <4>2
    <3>2. PICK p \in s : p = CHOOSE x \in s : TRUE
      BY <3>1
    <3>3. s \ {p} \in SUBSET Ticks /\ Cardinality(s \ {p}) <= m
      <4>1. Cardinality(s \ {p}) = Cardinality(s) - 1
        BY <1>7, FS_RemoveElement
      <4>2. QED BY <1>7, <3>1, <4>1
    <3>4. h[s \ {p}] = g[s \ {p}]
      BY <2>3, <3>3
    <3>5. h[s] = f[p] + h[s \ {p}]
      BY <1>1, <1>6, <3>1, <3>2
    <3>6. g[s] = f[p] + g[s \ {p}]
      BY <1>1, <1>4, <3>1, <3>2
    <3>7. QED BY <3>4, <3>5, <3>6
  <2>4. Cardinality(Ticks) \in T /\ Cardinality(Ticks) <= Cardinality(Ticks) /\ Ticks \in SUBSET Ticks
    <3>1. Cardinality(Ticks) \in Nat
      BY <1>7
    <3>2. Nat \subseteq T
      <4> HIDE DEF T
      <4>1. QED BY <2>2, <2>3, AllNumbers
    <3> HIDE DEF T
    <3>3. QED BY <3>1, <3>2
  <2>5. QED BY <2>4
<1>9. ASSUME NEW n \in Ticks
      PROVE  g[0..n] = f[n] + g[0..(n - 1)]
  <2>1. 0..n \in SUBSET Ticks /\ n \in 0..n /\ (0..n) \ {n} = 0..(n - 1)
    BY <1>1 DEF Ticks
  <2>2. \A s \in SUBSET Ticks : \A x \in s : g[s] = f[x] + g[s \ {x}]
    <3>1. IsFold(g, Ticks, pick, 0, AddStep(f, Ticks)) /\ g \in [SUBSET Ticks -> Nat] /\ f \in [Ticks -> Nat]
      BY <1>3
    <3>2. Adds(g, Ticks, f)
      <4> HIDE DEF pick
      <4>1. QED BY <1>1, <1>2, <3>1, AnyOrder, Zenon
    <3>3. QED BY <3>2 DEF Adds
  <2>3. QED BY <2>1, <2>2
<1>10. g[Ticks] = LastTicks(f)[WindowTicks]
  <2> DEFINE T == {n \in Nat : n <= WindowTicks => g[0..(n - 1)] = LastTicks(f)[n]}
  <2>1. 0 \in T
    <3>1. 0..(0 - 1) = {} /\ g[{}] = 0
      BY <1>1, <1>4
    <3>2. LastTicks(f)[0] = 0
      BY LastTicksIs
    <3>3. QED BY <3>1, <3>2
  <2>2. ASSUME NEW n \in Nat, n \in T
        PROVE  n + 1 \in T
    <3>1. SUFFICES ASSUME n + 1 <= WindowTicks
                   PROVE  g[0..((n + 1) - 1)] = LastTicks(f)[n + 1]
      OBVIOUS
    <3>2. n \in Ticks /\ n \in 0 .. WindowTicks - 1 /\ n <= WindowTicks /\ (n + 1) - 1 = n
      BY <1>1, <3>1 DEF Ticks
    <3>3. g[0..(n - 1)] = LastTicks(f)[n]
      BY <2>2, <3>2
    <3>4. LastTicks(f)[n + 1] = LastTicks(f)[n] + f[n] /\ LastTicks(f)[n] \in Nat /\ f[n] \in Nat
      BY <3>2, LastTicksIs
    <3>5. g[0..n] = f[n] + g[0..(n - 1)]
      BY <1>9, <3>2
    <3>6. QED BY <3>2, <3>3, <3>4, <3>5
  <2>3. WindowTicks \in T
    <3>1. Nat \subseteq T
      <4> HIDE DEF T
      <4>1. QED BY <2>1, <2>2, AllNumbers
    <3> HIDE DEF T
    <3>2. QED BY <1>1, <3>1
  <2>4. 0..(WindowTicks - 1) = Ticks
    BY DEF Ticks
  <2>5. QED BY <1>1, <2>3, <2>4
<1>11. QED BY <1>6, <1>8, <1>10

Shifted(f) == [t \in Ticks |-> IF t = 0 THEN 0 ELSE f[t - 1]]
OneMore(f) == [f EXCEPT ![0] = @ + 1]

LEMMA LastTicksGrow ==
    ASSUME NEW f \in [Ticks -> Nat], NEW n \in 0 .. WindowTicks
    PROVE  LastTicks(f)[n] <= LastTicks(f)[WindowTicks]
<1> DEFINE T == {k \in Nat : k <= WindowTicks => \A m \in 0..k : LastTicks(f)[m] <= LastTicks(f)[k]}
<1>1. WindowTicks \in Nat
  BY LimiterAssumption
<1>2. 0 \in T
  BY LastTicksIs
<1>3. ASSUME NEW k \in Nat, k \in T
      PROVE  k + 1 \in T
  <2>1. SUFFICES ASSUME k + 1 <= WindowTicks, NEW m \in 0..(k + 1)
                 PROVE  LastTicks(f)[m] <= LastTicks(f)[k + 1]
    OBVIOUS
  <2>2. k \in 0 .. WindowTicks - 1 /\ k \in Ticks /\ k <= WindowTicks
    BY <1>1, <2>1 DEF Ticks
  <2>3. LastTicks(f)[k + 1] = LastTicks(f)[k] + f[k] /\ LastTicks(f)[k] \in Nat /\ f[k] \in Nat
    BY <2>2, LastTicksIs
  <2>4. LastTicks(f)[m] \in Nat /\ LastTicks(f)[k + 1] \in Nat
    BY LastTicksIs
  <2>5. CASE m = k + 1
    BY <2>4, <2>5
  <2>6. CASE m # k + 1
    <3>1. LastTicks(f)[m] <= LastTicks(f)[k]
      BY <1>3, <2>2, <2>6
    <3>2. QED BY <2>3, <2>4, <3>1
  <2>7. QED BY <2>5, <2>6
<1>4. Nat \subseteq T
  <2> HIDE DEF T
  <2>1. QED BY <1>2, <1>3, AllNumbers
<1>5. QED BY <1>1, <1>4

LEMMA AttemptCounts ==
    ASSUME NEW f \in [Ticks -> Nat]
    PROVE  /\ OneMore(f) \in [Ticks -> Nat]
           /\ \A n \in 1 .. WindowTicks : LastTicks(OneMore(f))[n] = LastTicks(f)[n] + 1
<1>1. WindowTicks \in Nat /\ 0 \in Ticks
  BY LimiterAssumption DEF Ticks
<1>2. OneMore(f) \in [Ticks -> Nat] /\ OneMore(f)[0] = f[0] + 1 /\ \A t \in Ticks : t # 0 => OneMore(f)[t] = f[t]
  BY <1>1 DEF OneMore
<1> DEFINE T == {k \in Nat : k + 1 <= WindowTicks => LastTicks(OneMore(f))[k + 1] = LastTicks(f)[k + 1] + 1}
<1>3. 0 \in T
  <2>1. 0 \in 0 .. WindowTicks - 1
    BY <1>1 DEF Ticks
  <2>2. LastTicks(f)[1] = 0 + f[0] /\ f[0] \in Nat
    BY <1>1, <2>1, LastTicksIs
  <2>3. LastTicks(OneMore(f))[1] = 0 + OneMore(f)[0]
    BY <1>2, <2>1, LastTicksIs
  <2>4. QED BY <1>2, <2>2, <2>3
<1>4. ASSUME NEW k \in Nat, k \in T
      PROVE  k + 1 \in T
  <2> SUFFICES ASSUME (k + 1) + 1 <= WindowTicks
               PROVE  LastTicks(OneMore(f))[(k + 1) + 1] = LastTicks(f)[(k + 1) + 1] + 1
    OBVIOUS
  <2>1. k + 2 <= WindowTicks /\ k + 1 <= WindowTicks /\ (k + 1) + 1 = k + 2
    BY <1>1
  <2>2. k + 1 \in 0 .. WindowTicks - 1 /\ k + 1 \in Ticks /\ k + 1 # 0 /\ (k + 1) + 1 = k + 2
    BY <1>1, <2>1 DEF Ticks
  <2>3. LastTicks(f)[k + 2] = LastTicks(f)[k + 1] + f[k + 1] /\ LastTicks(f)[k + 1] \in Nat /\ f[k + 1] \in Nat
    BY <2>2, LastTicksIs
  <2>4. LastTicks(OneMore(f))[k + 2] = LastTicks(OneMore(f))[k + 1] + OneMore(f)[k + 1]
    BY <1>2, <2>2, LastTicksIs
  <2>5. LastTicks(OneMore(f))[k + 1] = LastTicks(f)[k + 1] + 1
    BY <1>4, <2>1
  <2>6. OneMore(f)[k + 1] = f[k + 1]
    BY <1>2, <2>2
  <2>7. QED BY <2>3, <2>4, <2>5, <2>6
<1>5. Nat \subseteq T
  <2> HIDE DEF T
  <2>1. QED BY <1>3, <1>4, AllNumbers
<1>6. ASSUME NEW n \in 1 .. WindowTicks
      PROVE  LastTicks(OneMore(f))[n] = LastTicks(f)[n] + 1
  <2>1. n - 1 \in Nat /\ n - 1 \in T /\ (n - 1) + 1 = n
    <3>1. n - 1 \in Nat /\ (n - 1) + 1 = n
      BY <1>1
    <3> HIDE DEF T
    <3>2. QED BY <1>5, <3>1
  <2>2. QED BY <1>1, <2>1
<1>7. QED BY <1>2, <1>6

LEMMA TicksShift ==
    ASSUME NEW f \in [Ticks -> Nat]
    PROVE  /\ Shifted(f) \in [Ticks -> Nat]
           /\ \A n \in 0 .. WindowTicks - 1 : LastTicks(Shifted(f))[n + 1] = LastTicks(f)[n]
<1>1. WindowTicks \in Nat /\ 0 \in Ticks
  BY LimiterAssumption DEF Ticks
<1>2. Shifted(f) \in [Ticks -> Nat]
  <2>1. \A t \in Ticks : t # 0 => t - 1 \in Ticks
    BY <1>1 DEF Ticks
  <2>2. \A t \in Ticks : (IF t = 0 THEN 0 ELSE f[t - 1]) \in Nat
    BY <2>1
  <2>3. QED BY <2>2 DEF Shifted
<1>3. Shifted(f)[0] = 0 /\ \A t \in Ticks : t # 0 => Shifted(f)[t] = f[t - 1]
  BY <1>1 DEF Shifted
<1> DEFINE T == {k \in Nat : k + 1 <= WindowTicks => LastTicks(Shifted(f))[k + 1] = LastTicks(f)[k]}
<1>4. 0 \in T
  <2>1. 0 \in 0 .. WindowTicks - 1
    BY <1>1 DEF Ticks
  <2>2. LastTicks(Shifted(f))[1] = 0 + Shifted(f)[0] /\ LastTicks(f)[0] = 0
    BY <1>2, <2>1, LastTicksIs
  <2>3. QED BY <1>3, <2>2
<1>5. ASSUME NEW k \in Nat, k \in T
      PROVE  k + 1 \in T
  <2> SUFFICES ASSUME (k + 1) + 1 <= WindowTicks
               PROVE  LastTicks(Shifted(f))[(k + 1) + 1] = LastTicks(f)[k + 1]
    OBVIOUS
  <2>1. k + 2 <= WindowTicks /\ k + 1 <= WindowTicks /\ (k + 1) + 1 = k + 2
    BY <1>1
  <2>2. k + 1 \in 0 .. WindowTicks - 1 /\ k \in 0 .. WindowTicks - 1 /\ k + 1 \in Ticks /\ k + 1 # 0 /\ (k + 1) + 1 = k + 2 /\ (k + 1) - 1 = k
    BY <1>1, <2>1 DEF Ticks
  <2>3. LastTicks(f)[k + 1] = LastTicks(f)[k] + f[k]
    BY <2>2, LastTicksIs
  <2>4. LastTicks(Shifted(f))[k + 2] = LastTicks(Shifted(f))[k + 1] + Shifted(f)[k + 1]
    BY <1>2, <2>2, LastTicksIs
  <2>5. LastTicks(Shifted(f))[k + 1] = LastTicks(f)[k]
    BY <1>5, <2>1
  <2>6. Shifted(f)[k + 1] = f[k]
    BY <1>3, <2>2
  <2>7. QED BY <2>3, <2>4, <2>5, <2>6
<1>6. Nat \subseteq T
  <2> HIDE DEF T
  <2>1. QED BY <1>4, <1>5, AllNumbers
<1>7. ASSUME NEW n \in 0 .. WindowTicks - 1
      PROVE  LastTicks(Shifted(f))[n + 1] = LastTicks(f)[n]
  <2>1. n \in Nat /\ n + 1 <= WindowTicks
    BY <1>1
  <2>2. n \in T
    <3> HIDE DEF T
    <3>1. QED BY <1>6, <2>1
  <2>3. QED BY <2>1, <2>2
<1>8. QED BY <1>2, <1>7

-----------------------------------------------------------------------------

OnlyFrom(S, R) == \A k \in 1..Len(S) : \E i \in 1..Len(R) : S[k] = R[i]

LEMMA EvictIs ==
    ASSUME NEW S \in Seq(Bucket)
    PROVE  /\ EvictIfNeeded(S) \in Seq(Bucket)
           /\ Len(EvictIfNeeded(S)) <= MaxBuckets
           /\ OnlyFrom(EvictIfNeeded(S), S)
<1>1. MaxBuckets \in Nat \ {0}
  BY LimiterAssumption
<1>2. CASE Len(S) <= MaxBuckets
  <2>1. EvictIfNeeded(S) = S
    BY <1>2 DEF EvictIfNeeded
  <2>2. QED BY <1>2, <2>1 DEF OnlyFrom
<1>3. CASE Len(S) > MaxBuckets
  <2>1. PICK fresh : fresh = Filtered(S, {bucket \in Bucket : ~Expired(bucket)})
    OBVIOUS
  <2>2. fresh \in Seq(Bucket) /\ OnlyFrom(fresh, S)
    <3>1. PICK F : F = {bucket \in Bucket : ~Expired(bucket)}
      OBVIOUS
    <3>2. FilterOf(fresh, Bucket, S, F)
      BY <2>1, <3>1, FilteredIs
    <3>3. QED BY <3>2 DEF FilterOf, OnlyFrom
  <2>3. PICK over : over = Len(fresh) - MaxBuckets
    OBVIOUS
  <2>4. Len(fresh) \in Nat /\ over \in Int /\ Len(S) \in Nat
    BY <1>1, <2>2, <2>3
  <2>5. EvictIfNeeded(S) = IF over > 0 THEN SubSeq(fresh, over + 1, Len(fresh)) ELSE fresh
    <3>1. ~(Len(S) <= MaxBuckets)
      BY <1>1, <1>3, <2>4
    <3>2. QED BY <2>1, <2>3, <3>1 DEF EvictIfNeeded
  <2>6. CASE over > 0
    <3>1. PICK R : R = SubSeq(fresh, over + 1, Len(fresh))
      OBVIOUS
    <3>2. over + 1 \in 1 .. Len(fresh) + 1
      BY <1>1, <2>3, <2>4, <2>6
    <3>3. R \in Seq(Bucket) /\ Len(R) = Len(fresh) - over /\ \A k \in 1..Len(R) : R[k] = fresh[over + k]
      BY <2>2, <2>4, <2>6, <3>1, <3>2
    <3>4. OnlyFrom(R, S)
      <4>1. SUFFICES ASSUME NEW k \in 1..Len(R)
                     PROVE  \E i \in 1..Len(S) : R[k] = S[i]
        BY DEF OnlyFrom
      <4>2. over + k \in 1..Len(fresh)
        BY <2>4, <2>6, <3>3
      <4>3. QED BY <2>2, <3>3, <4>2 DEF OnlyFrom
    <3>5. Len(R) = MaxBuckets
      BY <1>1, <2>3, <2>4, <3>3
    <3>6. EvictIfNeeded(S) = R
      BY <2>5, <2>6, <3>1
    <3>7. QED BY <1>1, <3>3, <3>4, <3>5, <3>6
  <2>7. CASE ~(over > 0)
    <3>1. EvictIfNeeded(S) = fresh
      BY <2>5, <2>7
    <3>2. Len(fresh) <= MaxBuckets
      BY <1>1, <2>3, <2>4, <2>7
    <3>3. QED BY <2>2, <3>1, <3>2
  <2>8. QED BY <2>6, <2>7
<1>4. Len(S) \in Nat
  OBVIOUS
<1>5. QED BY <1>1, <1>2, <1>3, <1>4

LEMMA RemovedIs ==
    ASSUME NEW S \in Seq(Bucket), NEW i \in 1..Len(S)
    PROVE  /\ RemoveAt(S, i) \in Seq(Bucket)
           /\ Len(RemoveAt(S, i)) <= Len(S)
           /\ OnlyFrom(RemoveAt(S, i), S)
<1>1. PICK A, B : A = SubSeq(S, 1, i - 1) /\ B = SubSeq(S, i + 1, Len(S))
  OBVIOUS
<1>2. Len(S) \in Nat /\ i \in Nat /\ i >= 1 /\ i <= Len(S)
  OBVIOUS
<1>3. A \in Seq(Bucket) /\ Len(A) = i - 1 /\ \A k \in 1..Len(A) : A[k] = S[k]
  BY <1>1, <1>2
<1>4. B \in Seq(Bucket) /\ Len(B) = Len(S) - i /\ \A k \in 1..Len(B) : B[k] = S[i + k]
  BY <1>1, <1>2
<1>5. PICK R : R = A \o B
  OBVIOUS
<1>6. /\ R \in Seq(Bucket) /\ Len(R) = Len(S) - 1
      /\ \A k \in 1..Len(R) : R[k] = IF k <= Len(A) THEN A[k] ELSE B[k - Len(A)]
  BY <1>2, <1>3, <1>4, <1>5
<1>7. ASSUME NEW k \in 1..Len(R)
      PROVE  \E j \in 1..Len(S) : R[k] = S[j]
  <2>1. CASE k <= i - 1
    <3>1. R[k] = S[k] /\ k \in 1..Len(S)
      BY <1>2, <1>3, <1>6, <2>1
    <3>2. QED BY <3>1
  <2>2. CASE ~(k <= i - 1)
    <3>1. k - (i - 1) \in 1..Len(B) /\ i + (k - (i - 1)) = k + 1 /\ k + 1 \in 1..Len(S)
      BY <1>2, <1>4, <1>6, <2>2
    <3>2. R[k] = B[k - (i - 1)]
      BY <1>3, <1>6, <2>2
    <3>3. R[k] = S[k + 1]
      BY <1>4, <3>1, <3>2
    <3>4. QED BY <3>1, <3>3
  <2>3. QED BY <2>1, <2>2
<1>8. RemoveAt(S, i) = R
  BY <1>1, <1>5 DEF RemoveAt
<1>9. QED BY <1>2, <1>6, <1>7, <1>8 DEF OnlyFrom

-----------------------------------------------------------------------------
(* The limiter.                                                             *)

\* The attempts that a window has counted are the client's own, of as many
\* ticks as the window is old.
Covered(b, att) == ~Expired(b) /\ b.key \in Clients => b.count <= LastTicks(att[b.key])[b.age + 1]

LimiterInv ==
    /\ LimiterTypeOK
    /\ Len(buckets) <= MaxBuckets
    /\ \A i \in 1..Len(buckets) : Covered(buckets[i], attempts)
    /\ verdict # None /\ ~verdict.allowed =>
          LastTicks(attempts[verdict.client])[WindowTicks] > MaxAttempts

LEMMA OnlyOwnKey ==
    ASSUME NEW c \in Clients, NEW header \in Clients \cup {None}
    PROVE  getRequestClientKey(Nginx, c) = c /\ getRequestClientKey(c, header) = c
BY LimiterAssumption DEF getRequestClientKey, getTrustedHeader, isTrustedProxyAddress, Addresses

LEMMA AttemptsOf ==
    ASSUME LimiterTypeOK, NEW c \in Clients
    PROVE  attempts[c] \in [Ticks -> Nat]
<1>1. attempts[c] \in [0 .. WindowTicks - 1 -> 0 .. MaxCount]
  BY DEF LimiterTypeOK
<1>2. 0 .. MaxCount \subseteq Nat
  OBVIOUS
<1>3. QED BY <1>1, <1>2 DEF Ticks

\* An attempt counts in every window of its client, and in no other's.
LEMMA AttemptCovers ==
    ASSUME LimiterTypeOK, NEW c \in Clients, attempts[c][0] < MaxCount, Attempt(c)
    PROVE  /\ attempts' \in [Clients -> [0 .. WindowTicks - 1 -> 0 .. MaxCount]]
           /\ \A n \in 1 .. WindowTicks : LastTicks(attempts'[c])[n] = LastTicks(attempts[c])[n] + 1
           /\ \A b \in Bucket : Covered(b, attempts) => Covered(b, attempts')
<1>1. WindowTicks \in Nat \ {0} /\ MaxCount \in Nat /\ 0 \in 0 .. WindowTicks - 1
  BY LimiterAssumption
<1>2. attempts \in [Clients -> [0 .. WindowTicks - 1 -> 0 .. MaxCount]]
  BY DEF LimiterTypeOK
<1>3. attempts' = [attempts EXCEPT ![c] = OneMore(attempts[c])]
  BY <1>2 DEF Attempt, OneMore
<1>4. OneMore(attempts[c]) \in [0 .. WindowTicks - 1 -> 0 .. MaxCount]
  <2>1. PICK f \in [0 .. WindowTicks - 1 -> 0 .. MaxCount] : f = attempts[c]
    BY <1>2
  <2>2. f[0] + 1 \in 0 .. MaxCount
    BY <1>1, <2>1
  <2>3. [f EXCEPT ![0] = f[0] + 1] \in [0 .. WindowTicks - 1 -> 0 .. MaxCount]
    BY <2>2
  <2>4. QED BY <2>1, <2>3 DEF OneMore
<1>5. attempts' \in [Clients -> [0 .. WindowTicks - 1 -> 0 .. MaxCount]]
  BY <1>2, <1>3, <1>4
<1>6. attempts'[c] = OneMore(attempts[c]) /\ \A k \in Clients : k # c => attempts'[k] = attempts[k]
  BY <1>2, <1>3
<1>7. \A n \in 1 .. WindowTicks : LastTicks(attempts'[c])[n] = LastTicks(attempts[c])[n] + 1
  BY <1>6, AttemptsOf, AttemptCounts
<1>8. ASSUME NEW b \in Bucket, Covered(b, attempts)
      PROVE  Covered(b, attempts')
  <2>1. SUFFICES ASSUME ~Expired(b), b.key \in Clients
                 PROVE  b.count <= LastTicks(attempts'[b.key])[b.age + 1]
    BY DEF Covered
  <2>2. b.count <= LastTicks(attempts[b.key])[b.age + 1] /\ b.count \in Nat
    BY <1>8, <2>1 DEF Covered, Bucket
  <2>3. b.age + 1 \in 1 .. WindowTicks /\ b.age + 1 \in Nat
    BY <1>1, <2>1 DEF Expired, Bucket, WindowAge
  <2>4. CASE b.key = c
    <3>1. LastTicks(attempts[c])[b.age + 1] \in Nat
      BY <2>3, AttemptsOf, LastTicksIs
    <3>2. LastTicks(attempts'[c])[b.age + 1] = LastTicks(attempts[c])[b.age + 1] + 1
      BY <1>7, <2>3
    <3>3. QED BY <2>2, <2>4, <3>1, <3>2
  <2>5. CASE b.key # c
    BY <1>6, <2>1, <2>2, <2>5
  <2>6. QED BY <2>4, <2>5
<1>9. QED BY <1>5, <1>7, <1>8

LEMMA AskStep ==
    ASSUME LimiterInv, NEW c \in Clients, Ask(c)
    PROVE  LimiterInv'
<1>1. LimiterTypeOK /\ buckets \in Seq(Bucket)
  BY DEF LimiterInv, LimiterTypeOK
<1>2. Consume(c, c) /\ attempts[c][0] < MaxCount /\ Attempt(c)
  BY OnlyOwnKey DEF Ask
<1>3. /\ attempts' \in [Clients -> [0 .. WindowTicks - 1 -> 0 .. MaxCount]]
      /\ \A n \in 1 .. WindowTicks : LastTicks(attempts'[c])[n] = LastTicks(attempts[c])[n] + 1
      /\ \A b \in Bucket : Covered(b, attempts) => Covered(b, attempts')
  BY <1>1, <1>2, AttemptCovers
<1>4. \A i \in 1..Len(buckets) : buckets[i] \in Bucket /\ Covered(buckets[i], attempts')
  BY <1>1, <1>3 DEF LimiterInv
<1>5. attempts[c] \in [Ticks -> Nat] /\ LastTicks(attempts[c]) \in [Nat -> Nat]
  BY <1>1, AttemptsOf, LastTicksIs
<1>6. WindowTicks \in Nat \ {0} /\ MaxAttempts \in Nat \ {0} /\ MaxCount \in Nat /\ c \in Addresses
  BY LimiterAssumption DEF Addresses
<1>7. PICK i : i = IndexOf(buckets, c)
  OBVIOUS
<1>8. i = 0 \/ (i \in 1..Len(buckets) /\ buckets[i].key = c)
  BY <1>1, <1>7, IndexIs
<1>9. CASE i = 0 \/ Expired(buckets[i])
  <2>1. buckets' = StartWindow(c) /\ verdict' = [client |-> c, allowed |-> TRUE]
    BY <1>2, <1>7, <1>9 DEF Consume
  <2>2. PICK new : new = [key |-> c, age |-> 0, count |-> 1]
    OBVIOUS
  <2>3. new \in Bucket
    <3>1. attempts[c][0] \in Nat
      BY <1>5, <1>6 DEF Ticks
    <3>2. 1 \in 1 .. MaxCount
      BY <1>2, <1>6, <3>1
    <3>3. QED BY <1>6, <2>2, <3>2 DEF Bucket, WindowAge
  <2>4. Covered(new, attempts')
    <3>1. LastTicks(attempts'[c])[1] = LastTicks(attempts[c])[1] + 1 /\ LastTicks(attempts[c])[1] \in Nat
      BY <1>3, <1>5, <1>6
    <3>2. QED BY <2>2, <3>1 DEF Covered
  <2>5. PICK S : S = IF i = 0 THEN Append(buckets, new) ELSE [buckets EXCEPT ![i] = new]
    OBVIOUS
  <2>6. buckets' = EvictIfNeeded(S)
    BY <1>7, <2>1, <2>2, <2>5 DEF StartWindow
  <2>7. S \in Seq(Bucket) /\ \A k \in 1..Len(S) : Covered(S[k], attempts')
    <3>1. CASE i = 0
      <4>1. S = Append(buckets, new)
        BY <2>5, <3>1
      <4>2. S \in Seq(Bucket) /\ \A k \in 1..Len(S) : S[k] = new \/ (k \in 1..Len(buckets) /\ S[k] = buckets[k])
        BY <1>1, <2>3, <4>1
      <4>3. QED BY <1>4, <2>4, <4>2
    <3>2. CASE i # 0
      <4>1. S = [buckets EXCEPT ![i] = new] /\ i \in 1..Len(buckets)
        BY <1>8, <2>5, <3>2
      <4>2. S \in Seq(Bucket) /\ \A k \in 1..Len(S) : S[k] = new \/ (k \in 1..Len(buckets) /\ S[k] = buckets[k])
        BY <1>1, <2>3, <4>1
      <4>3. QED BY <1>4, <2>4, <4>2
    <3>3. QED BY <3>1, <3>2
  <2>8. buckets' \in Seq(Bucket) /\ Len(buckets') <= MaxBuckets /\ OnlyFrom(buckets', S)
    BY <2>6, <2>7, EvictIs
  <2>9. \A k \in 1..Len(buckets') : Covered(buckets'[k], attempts')
    BY <2>7, <2>8 DEF OnlyFrom
  <2>10. LimiterTypeOK'
    BY <1>3, <2>1, <2>8 DEF LimiterTypeOK
  <2>11. QED BY <2>1, <2>8, <2>9, <2>10 DEF LimiterInv
<1>10. CASE ~(i = 0 \/ Expired(buckets[i]))
  <2>1. /\ buckets[i].count < MaxCount
        /\ buckets' = [buckets EXCEPT ![i].count = @ + 1]
        /\ verdict' = [client |-> c, allowed |-> buckets[i].count < MaxAttempts]
    BY <1>2, <1>7, <1>10 DEF Consume
  <2>2. PICK b : b = buckets[i]
    OBVIOUS
  <2>3. /\ i \in 1..Len(buckets) /\ b \in Bucket /\ b.key = c /\ ~Expired(b) /\ Covered(b, attempts)
    BY <1>1, <1>8, <1>10, <2>2 DEF LimiterInv
  <2>4. b.count \in Nat /\ b.age + 1 \in 1 .. WindowTicks /\ b.age + 1 \in Nat /\ b.age + 1 \in 0 .. WindowTicks
    BY <1>6, <2>3 DEF Expired, Bucket, WindowAge
  <2>5. b.count <= LastTicks(attempts[c])[b.age + 1]
    BY <2>3 DEF Covered
  <2>6. PICK new : new = [b EXCEPT !.count = b.count + 1]
    OBVIOUS
  <2>7. new \in Bucket /\ new.key = c /\ new.age = b.age /\ new.count = b.count + 1
    <3>1. b.count + 1 \in 1 .. MaxCount
      BY <1>6, <2>1, <2>2, <2>4
    <3>2. QED BY <2>3, <2>6, <3>1 DEF Bucket
  <2>8. LastTicks(attempts'[c])[b.age + 1] = LastTicks(attempts[c])[b.age + 1] + 1 /\ LastTicks(attempts[c])[b.age + 1] \in Nat
    BY <1>3, <1>5, <2>4
  <2>9. Covered(new, attempts')
    BY <2>4, <2>5, <2>7, <2>8 DEF Covered
  <2>10. buckets' = [buckets EXCEPT ![i] = new]
    BY <1>1, <2>1, <2>2, <2>3, <2>6
  <2>11. /\ buckets' \in Seq(Bucket) /\ Len(buckets') = Len(buckets)
         /\ \A k \in 1..Len(buckets') : buckets'[k] = new \/ (k \in 1..Len(buckets) /\ buckets'[k] = buckets[k])
    BY <1>1, <2>3, <2>7, <2>10
  <2>12. \A k \in 1..Len(buckets') : Covered(buckets'[k], attempts')
    BY <1>4, <2>9, <2>11
  <2>13. ASSUME ~(b.count < MaxAttempts)
         PROVE  LastTicks(attempts'[c])[WindowTicks] > MaxAttempts
    <3>1. LastTicks(attempts[c])[b.age + 1] <= LastTicks(attempts[c])[WindowTicks]
      BY <1>5, <2>4, LastTicksGrow
    <3>2. LastTicks(attempts'[c])[WindowTicks] = LastTicks(attempts[c])[WindowTicks] + 1 /\ LastTicks(attempts[c])[WindowTicks] \in Nat
      BY <1>3, <1>5, <1>6
    <3>3. QED BY <1>6, <2>4, <2>5, <2>8, <2>13, <3>1, <3>2
  <2>14. LimiterTypeOK'
    BY <1>3, <2>1, <2>11 DEF LimiterTypeOK
  <2>15. Len(buckets') <= MaxBuckets
    BY <2>11 DEF LimiterInv
  <2>16. verdict'.client = c /\ (~verdict'.allowed => ~(b.count < MaxAttempts))
    BY <2>1, <2>2
  <2>17. QED BY <2>12, <2>13, <2>14, <2>15, <2>16 DEF LimiterInv
<1>11. QED BY <1>9, <1>10

LEMMA ForgetStep ==
    ASSUME LimiterInv, NEW key \in Addresses, Forget(key)
    PROVE  LimiterInv'
<1>1. LimiterTypeOK /\ buckets \in Seq(Bucket)
  BY DEF LimiterInv, LimiterTypeOK
<1>2. PICK i \in 1..Len(buckets) : i = IndexOf(buckets, key)
  BY <1>1, IndexIs DEF Forget
<1>3. buckets' = RemoveAt(buckets, i) /\ attempts' = attempts /\ verdict' = verdict
  BY <1>2 DEF Forget
<1>4. buckets' \in Seq(Bucket) /\ Len(buckets') <= Len(buckets) /\ OnlyFrom(buckets', buckets)
  BY <1>1, <1>3, RemovedIs
<1>5. Len(buckets') <= MaxBuckets
  <2>1. Len(buckets) \in Nat /\ Len(buckets') \in Nat /\ MaxBuckets \in Nat /\ Len(buckets) <= MaxBuckets
    BY <1>1, <1>4, LimiterAssumption DEF LimiterInv
  <2>2. QED BY <1>4, <2>1
<1>6. \A k \in 1..Len(buckets') : Covered(buckets'[k], attempts)
  BY <1>4 DEF LimiterInv, OnlyFrom
<1>7. LimiterTypeOK'
  BY <1>1, <1>3, <1>4 DEF LimiterTypeOK
<1>8. QED BY <1>3, <1>5, <1>6, <1>7 DEF LimiterInv

LEMMA TickStep ==
    ASSUME LimiterInv, LimiterTick
    PROVE  LimiterInv'
<1>1. LimiterTypeOK /\ buckets \in Seq(Bucket) /\ attempts \in [Clients -> [0 .. WindowTicks - 1 -> 0 .. MaxCount]]
  BY DEF LimiterInv, LimiterTypeOK
<1>2. WindowTicks \in Nat \ {0} /\ MaxCount \in Nat
  BY LimiterAssumption
<1>3. ASSUME NEW c \in Clients
      PROVE  attempts'[c] = Shifted(attempts[c])
  BY DEF LimiterTick, Shifted, Ticks
<1>4. attempts' \in [Clients -> [0 .. WindowTicks - 1 -> 0 .. MaxCount]]
  <2>1. ASSUME NEW c \in Clients, NEW t \in 0 .. WindowTicks - 1
        PROVE  (IF t = 0 THEN 0 ELSE attempts[c][t - 1]) \in 0 .. MaxCount
    <3>1. CASE t = 0
      BY <1>2, <3>1
    <3>2. CASE t # 0
      <4>1. t - 1 \in 0 .. WindowTicks - 1
        BY <1>2, <3>2
      <4>2. attempts[c] \in [0 .. WindowTicks - 1 -> 0 .. MaxCount]
        BY <1>1
      <4>3. QED BY <3>2, <4>1, <4>2
    <3>3. QED BY <3>1, <3>2
  <2>2. QED BY <2>1 DEF LimiterTick
<1>5. buckets' = [i \in 1..Len(buckets) |-> [buckets[i] EXCEPT !.age = IF Expired(buckets[i]) THEN @ ELSE @ + 1]]
  <2>1. DOMAIN buckets = 1..Len(buckets)
    BY <1>1
  <2>2. QED BY <2>1 DEF LimiterTick
<1>6. ASSUME NEW i \in 1..Len(buckets)
      PROVE  buckets'[i] \in Bucket /\ Covered(buckets'[i], attempts')
  <2>1. PICK b \in Bucket : b = buckets[i] /\ Covered(b, attempts)
    BY <1>1 DEF LimiterInv
  <2>2. PICK b2 : b2 = buckets'[i]
    OBVIOUS
  <2>3. b2 = [b EXCEPT !.age = IF Expired(b) THEN b.age ELSE b.age + 1]
    BY <1>5, <2>1, <2>2
  <2>4. b.key \in Addresses /\ b.age \in 0 .. WindowTicks /\ b.count \in 1 .. MaxCount
    BY <2>1 DEF Bucket, WindowAge
  <2>5. b2.key = b.key /\ b2.count = b.count /\ b2.age = IF Expired(b) THEN b.age ELSE b.age + 1
    BY <2>1, <2>3 DEF Bucket
  <2>6. b2 \in Bucket
    <3>1. (IF Expired(b) THEN b.age ELSE b.age + 1) \in 0 .. WindowTicks
      BY <1>2, <2>4 DEF Expired
    <3>2. QED BY <2>1, <2>3, <3>1 DEF Bucket, WindowAge
  <2>7. Covered(b2, attempts')
    <3>1. SUFFICES ASSUME ~Expired(b2), b2.key \in Clients
                   PROVE  b2.count <= LastTicks(attempts'[b2.key])[b2.age + 1]
      BY DEF Covered
    <3>2. ~Expired(b) /\ b2.age = b.age + 1
      BY <2>5, <3>1 DEF Expired
    <3>3. b.count <= LastTicks(attempts[b.key])[b.age + 1] /\ b.key \in Clients
      BY <2>1, <2>5, <3>1, <3>2 DEF Covered
    <3>4. b.age + 1 \in 0 .. WindowTicks - 1
      BY <1>2, <2>4, <2>5, <3>1, <3>2 DEF Expired
    <3>5. LastTicks(attempts'[b.key])[(b.age + 1) + 1] = LastTicks(attempts[b.key])[b.age + 1]
      <4>1. attempts[b.key] \in [Ticks -> Nat] /\ attempts'[b.key] = Shifted(attempts[b.key])
        BY <1>1, <1>3, <3>3, AttemptsOf
      <4>2. PICK n \in 0 .. WindowTicks - 1 : n = b.age + 1
        BY <3>4
      <4>3. LastTicks(Shifted(attempts[b.key]))[n + 1] = LastTicks(attempts[b.key])[n]
        BY <4>1, TicksShift
      <4>4. QED BY <4>1, <4>2, <4>3
    <3>6. QED BY <2>5, <3>2, <3>3, <3>5
  <2>8. QED BY <2>2, <2>6, <2>7
<1>7. buckets' \in Seq(Bucket) /\ Len(buckets') = Len(buckets)
  <2>1. Len(buckets) \in Nat
    BY <1>1
  <2>2. \E m \in Nat : DOMAIN buckets' = 1..m /\ buckets' = [i \in 1..m |-> buckets'[i]] /\ m = Len(buckets)
    BY <1>1, <1>5, <2>1 DEF LimiterTick
  <2>3. buckets' \in [1..Len(buckets) -> Bucket]
    BY <1>6, <2>2
  <2>4. QED BY <2>1, <2>3
<1>8. verdict' = None
  BY DEF LimiterTick
<1>9. LimiterTypeOK'
  BY <1>4, <1>7, <1>8 DEF LimiterTypeOK
<1>10. QED BY <1>6, <1>7, <1>8, <1>9 DEF LimiterInv

LEMMA LimiterInvHolds == LimiterSpec => []LimiterInv
<1>1. LimiterInit => LimiterInv
  <2>1. SUFFICES ASSUME LimiterInit
                 PROVE  LimiterInv
    OBVIOUS
  <2>2. attempts \in [Clients -> [0 .. WindowTicks - 1 -> 0 .. MaxCount]]
    BY <2>1, LimiterAssumption DEF LimiterInit
  <2>3. buckets \in Seq(Bucket) /\ Len(buckets) = 0 /\ MaxBuckets \in Nat /\ verdict = None
    BY <2>1, LimiterAssumption DEF LimiterInit
  <2>4. QED BY <2>2, <2>3 DEF LimiterInv, LimiterTypeOK
<1>2. LimiterInv /\ [LimiterNext]_limiterVars => LimiterInv'
  <2>1. SUFFICES ASSUME LimiterInv, [LimiterNext]_limiterVars
                 PROVE  LimiterInv'
    OBVIOUS
  <2>2. CASE UNCHANGED limiterVars
    BY <2>1, <2>2 DEF LimiterInv, LimiterTypeOK, limiterVars
  <2>3. QED BY <2>1, <2>2, AskStep, ForgetStep, TickStep DEF LimiterNext
<1>3. QED BY <1>1, <1>2, PTL DEF LimiterSpec

\* The windows, the attempts and the last answer have their types.
THEOREM LimiterTyped == LimiterSpec => []LimiterTypeOK
<1>1. LimiterInv => LimiterTypeOK
  BY DEF LimiterInv
<1>2. QED BY <1>1, LimiterInvHolds, PTL

\* Who is refused has itself made more attempts in the last window than are
\* allowed, whatever other clients do, through nginx or straight to the port
\* (LoginRouter, RequestRateLimiter).
THEOREM RefusalsCorrect == LimiterSpec => []RefusedHaveUsedTheirWindow
<1>1. LimiterInv => RefusedHaveUsedTheirWindow
  <2>1. SUFFICES ASSUME LimiterInv, verdict # None, ~verdict.allowed
                 PROVE  FoldFunction(+, 0, attempts[verdict.client]) > MaxAttempts
    BY DEF RefusedHaveUsedTheirWindow
  <2>2. LimiterTypeOK /\ verdict.client \in Clients
    BY <2>1 DEF LimiterInv, LimiterTypeOK
  <2>3. FoldFunction(+, 0, attempts[verdict.client]) = LastTicks(attempts[verdict.client])[WindowTicks]
    BY <2>2, AttemptsOf, SumIs
  <2>4. QED BY <2>1, <2>3 DEF LimiterInv
<1>2. QED BY <1>1, LimiterInvHolds, PTL

\* The limiter holds no more windows than it may, however many clients it has
\* (evictIfNeeded).
THEOREM LimiterBounded == LimiterSpec => []BucketsAreBounded
<1>1. LimiterInv => BucketsAreBounded
  BY DEF LimiterInv, BucketsAreBounded
<1>2. QED BY <1>1, LimiterInvHolds, PTL

-----------------------------------------------------------------------------
(* The themes.                                                              *)

AnyName == Names \cup {NoName}
AnyTheme == [name : AnyName, content : 0 .. MaxContents]
SentCall ==
    [op : {"setcurrent", "update", "delete", "load", "current"}, oldName : AnyName, theme : AnyTheme,
     at : {"sent", "serving", "listed", "done", "failed"}, list : Seq(Theme), found : AnyTheme]
ThemeCall == {NoRequest} \cup {r \in SentCall : r.op = "update" => r.theme \in Theme}

ThemesTyped ==
    /\ themes \in Seq(Theme)
    /\ currentTheme \in AnyName
    /\ owed \in {"nothing", "current", "deletion"}
    /\ replaced \subseteq AnyName
    /\ listedThemes \in Seq(Theme)
    /\ selectedTheme \in AnyTheme
    /\ editor \in [oldName : AnyName, theme : AnyTheme, shown : BOOLEAN]
    /\ typedThemes \in 0 .. MaxContents
    /\ request \in [ThemeCalls -> ThemeCall]

HasName(list, name) == \E i \in 1..Len(list) : list[i].name = name

LEMMA NamedIs ==
    ASSUME NEW list \in Seq(Theme), NEW name
    PROVE  /\ Named(list, name) \in 0 .. Len(list)
           /\ Named(list, name) # 0 => list[Named(list, name)].name = name
           /\ HasName(list, name) => Named(list, name) # 0
<1> DEFINE I == {i \in 1..Len(list) : list[i].name = name}
<1>1. Named(list, name) = IF I # {} THEN Min(I) ELSE 0
  BY Zenon DEF Named, SelectInSeq
<1>2. CASE I # {}
  <2>1. I \in SUBSET Nat
    OBVIOUS
  <2>2. Min(I) \in I
    <3> HIDE DEF I
    <3>1. QED BY <1>2, <2>1, LeastOf
  <2>3. QED BY <1>1, <1>2, <2>2
<1>3. CASE I = {}
  <2>1. ~HasName(list, name)
    BY <1>3 DEF HasName
  <2>2. Named(list, name) = 0 /\ Len(list) \in Nat
    BY <1>1, <1>3
  <2>3. QED BY <2>1, <2>2
<1>4. QED BY <1>2, <1>3

LEMMA AllThemesAre ==
    ASSUME themes \in Seq(Theme)
    PROVE  /\ getAllThemes \in Seq(Theme)
           /\ Len(getAllThemes) = Len(themes) + 1
           /\ getAllThemes[1].name = BuiltIn
           /\ \A i \in 1..Len(themes) : getAllThemes[i + 1] = themes[i]
           /\ \A i \in 1..Len(getAllThemes) : i # 1 => i - 1 \in 1..Len(themes) /\ getAllThemes[i] = themes[i - 1]
<1>1. PICK b : b = <<[name |-> BuiltIn, content |-> 0]>>
  OBVIOUS
<1>2. b \in Seq(Theme) /\ Len(b) = 1 /\ b[1].name = BuiltIn
  BY <1>1, ThemesAssumption DEF Theme, Names
<1>3. getAllThemes = b \o themes
  BY <1>1 DEF getAllThemes
<1>4. Len(themes) \in Nat
  OBVIOUS
<1>5. PICK R : R = b \o themes
  OBVIOUS
<1>6. /\ R \in Seq(Theme) /\ Len(R) = Len(themes) + 1
      /\ \A i \in 1..Len(R) : R[i] = IF i <= 1 THEN b[i] ELSE themes[i - 1]
  <2>1. ASSUME NEW E, NEW x \in Seq(E), NEW y \in Seq(E)
        PROVE  /\ x \o y \in Seq(E) /\ Len(x \o y) = Len(x) + Len(y)
               /\ \A i \in 1..Len(x \o y) : (x \o y)[i] = IF i <= Len(x) THEN x[i] ELSE y[i - Len(x)]
    OBVIOUS
  <2>2. PICK t : t = themes
    OBVIOUS
  <2>3. /\ R \in Seq(Theme) /\ Len(R) = Len(b) + Len(t)
        /\ \A i \in 1..Len(R) : R[i] = IF i <= Len(b) THEN b[i] ELSE t[i - Len(b)]
    BY <1>2, <1>5, <2>1, <2>2
  <2>4. QED BY <1>2, <1>4, <2>2, <2>3
<1>7. R[1].name = BuiltIn /\ \A i \in 1..Len(themes) : R[i + 1] = themes[i]
  BY <1>2, <1>4, <1>6
<1>8. \A i \in 1..Len(R) : i # 1 => i - 1 \in 1..Len(themes) /\ R[i] = themes[i - 1]
  BY <1>4, <1>6
<1>9. QED BY <1>3, <1>5, <1>6, <1>7, <1>8

LEMMA FoundIs ==
    ASSUME NEW list \in Seq(Theme), NEW name
    PROVE  Find(list, name) \in AnyTheme
<1>1. NoTheme \in AnyTheme
  BY ThemesAssumption DEF NoTheme, AnyTheme, AnyName
<1>2. CASE Named(list, name) = 0
  BY <1>1, <1>2 DEF Find
<1>3. CASE Named(list, name) # 0
  <2>1. Named(list, name) \in 1..Len(list)
    <3>1. Named(list, name) \in 0..Len(list)
      BY NamedIs
    <3>2. QED BY <1>3, <3>1
  <2>2. Find(list, name) = list[Named(list, name)]
    BY <1>3 DEF Find
  <2>3. Find(list, name) \in Theme
    BY <2>1, <2>2
  <2>4. QED BY <2>3 DEF Theme, AnyTheme, AnyName
<1>4. QED BY <1>2, <1>3

LEMMA StoreExists ==
    ASSUME themes \in Seq(Theme), NEW name
    PROVE  Named(getAllThemes, name) # 0 <=> name = BuiltIn \/ HasName(themes, name)
<1>1. /\ getAllThemes \in Seq(Theme)
      /\ Len(getAllThemes) = Len(themes) + 1 /\ Len(themes) \in Nat
      /\ getAllThemes[1].name = BuiltIn
      /\ \A i \in 1..Len(themes) : getAllThemes[i + 1] = themes[i]
      /\ \A i \in 1..Len(getAllThemes) : i # 1 => i - 1 \in 1..Len(themes) /\ getAllThemes[i] = themes[i - 1]
  BY AllThemesAre
<1>2. PICK k : k = Named(getAllThemes, name)
  OBVIOUS
<1>3. /\ k \in 0 .. Len(getAllThemes)
      /\ k # 0 => getAllThemes[k].name = name
      /\ HasName(getAllThemes, name) => k # 0
  BY <1>1, <1>2, NamedIs
<1>4. ASSUME k # 0
      PROVE  name = BuiltIn \/ HasName(themes, name)
  <2>1. CASE k = 1
    BY <1>1, <1>3, <1>4, <2>1
  <2>2. CASE k # 1
    BY <1>1, <1>3, <1>4, <2>2 DEF HasName
  <2>3. QED BY <2>1, <2>2
<1>5. ASSUME name = BuiltIn
      PROVE  k # 0
  <2>1. 1 \in 1..Len(getAllThemes)
    BY <1>1
  <2>2. QED BY <1>1, <1>3, <1>5, <2>1 DEF HasName
<1>6. ASSUME HasName(themes, name)
      PROVE  k # 0
  <2>1. PICK i \in 1..Len(themes) : themes[i].name = name
    BY <1>6 DEF HasName
  <2>2. i + 1 \in 1..Len(getAllThemes) /\ getAllThemes[i + 1].name = name
    BY <1>1, <2>1
  <2>3. QED BY <1>3, <2>2 DEF HasName
<1>7. QED BY <1>2, <1>4, <1>5, <1>6

\* While a call is between its two writes, what it has written or is going to
\* write fits the other.
\* The current theme exists, or is one that a cut update has replaced.
CurrentStands ==
    currentTheme \in replaced \cup {NoName, BuiltIn} \/ HasName(themes, currentTheme)

\* It is the one that the update being served has replaced.
CurrentIsReplaced ==
    \E c \in ThemeCalls :
        request[c].at = "serving" /\ request[c].op = "update" /\ request[c].oldName = currentTheme

ThemesCore ==
    /\ \A c, d \in ThemeCalls : request[c].at = "serving" /\ request[d].at = "serving" => c = d
    /\ owed = "nothing" => \A c \in ThemeCalls : request[c].at # "serving"
    /\ owed = "current" => \A c \in ThemeCalls : request[c].at = "serving" =>
          request[c].op = "update" /\ HasName(themes, request[c].theme.name)
    /\ owed = "deletion" => \A c \in ThemeCalls : request[c].at = "serving" =>
          request[c].op = "delete" /\ request[c].oldName # currentTheme
    /\ CurrentStands \/ (owed = "current" /\ CurrentIsReplaced)

ThemesInv == ThemesTyped /\ ThemesCore

\* The calls that are served, and no others, go on being served.
OthersStay ==
    \A c \in ThemeCalls :
        \/ request'[c] = request[c]
        \/ request'[c].at # "serving" /\ request[c].at # "serving"

\* A step that writes nothing to the store and serves no call.
LEMMA PageSteps ==
    ASSUME ThemesCore, UNCHANGED themeStoreVars,
           OthersStay
    PROVE  ThemesCore'
BY DEF ThemesCore, CurrentStands, CurrentIsReplaced, OthersStay, themeStoreVars

\* A request that was sent has all its fields.
LEMMA SentIs ==
    ASSUME ThemesTyped, NEW c \in ThemeCalls, request[c].at # "none"
    PROVE  request[c] \in SentCall /\ (request[c].op = "update" => request[c].theme \in Theme)
BY DEF ThemesTyped, ThemeCall, NoRequest

LEMMA AnswerIs ==
    ASSUME ThemesTyped, NEW c \in ThemeCalls, request[c].at # "none",
           NEW outcome \in {"sent", "serving", "listed", "done", "failed"}, AnswerTheme(c, outcome)
    PROVE  /\ request' \in [ThemeCalls -> ThemeCall]
           /\ request'[c].at = outcome /\ request'[c].op = request[c].op
           /\ request'[c].theme = request[c].theme /\ request'[c].oldName = request[c].oldName
           /\ \A d \in ThemeCalls : d # c => request'[d] = request[d]
<1>1. PICK r : r = request[c]
  OBVIOUS
<1>2. r \in SentCall /\ (r.op = "update" => r.theme \in Theme)
  BY <1>1, SentIs
<1>3. PICK r2 : r2 = [r EXCEPT !.at = outcome]
  OBVIOUS
<1>4. r2 \in ThemeCall /\ r2.at = outcome /\ r2.op = r.op /\ r2.theme = r.theme /\ r2.oldName = r.oldName
  BY <1>2, <1>3 DEF ThemeCall, SentCall
<1>5. request \in [ThemeCalls -> ThemeCall]
  BY DEF ThemesTyped
<1>6. request' = [request EXCEPT ![c] = r2]
  BY <1>1, <1>3, <1>5 DEF AnswerTheme
<1>7. QED BY <1>1, <1>4, <1>5, <1>6

LEMMA SentTyped ==
    ASSUME NEW op \in {"setcurrent", "update", "delete", "load", "current"},
           NEW oldName \in AnyName, NEW theme \in AnyTheme, op = "update" => theme \in Theme
    PROVE  ThemeRequest(op, oldName, theme) \in ThemeCall /\ ThemeRequest(op, oldName, theme).at = "sent"
<1>1. NoTheme \in AnyTheme /\ <<>> \in Seq(Theme)
  BY ThemesAssumption DEF NoTheme, AnyTheme, AnyName
<1>2. QED BY <1>1 DEF ThemeRequest, ThemeCall, SentCall

\* Requests that the page sends.
LEMMA Sending ==
    ASSUME ThemesTyped, NEW c \in ThemeCalls, NEW op \in {"setcurrent", "update", "delete", "load", "current"},
           NEW oldName \in AnyName, NEW theme \in AnyTheme, op = "update" => theme \in Theme,
           request[c].at # "serving",
           request' = [request EXCEPT ![c] = ThemeRequest(op, oldName, theme)]
    PROVE  /\ request' \in [ThemeCalls -> ThemeCall]
           /\ OthersStay
<1>1. PICK r : r = ThemeRequest(op, oldName, theme)
  OBVIOUS
<1>2. r \in ThemeCall /\ r.at = "sent"
  BY <1>1, SentTyped
<1>3. request \in [ThemeCalls -> ThemeCall]
  BY DEF ThemesTyped
<1>4. QED BY <1>1, <1>2, <1>3 DEF OthersStay

\* A request that is free is not served.
LEMMA FreeIs ==
    ASSUME NEW c \in ThemeCalls, request[c] = NoRequest
    PROVE  request[c].at # "serving"
BY DEF NoRequest

LEMMA NoThemeTyped == NoTheme \in AnyTheme /\ NoName \in AnyName
BY ThemesAssumption DEF NoTheme, AnyTheme, AnyName

LEMMA OpenStep ==
    ASSUME ThemesInv, NEW c \in ThemeCalls, OpenSettings(c)
    PROVE  ThemesInv'
<1>1. /\ request' \in [ThemeCalls -> ThemeCall]
      /\ OthersStay
  BY FreeIs, Sending, NoThemeTyped DEF ThemesInv, OpenSettings
<1>2. ThemesTyped'
  BY <1>1 DEF ThemesInv, ThemesTyped, OpenSettings, themeStoreVars
<1>3. QED BY <1>1, <1>2, PageSteps DEF ThemesInv, OpenSettings

LEMMA SelectStep ==
    ASSUME ThemesInv, NEW c \in ThemeCalls, selectTheme(c)
    PROVE  ThemesInv'
<1>1. PICK name \in {NoName} \cup {it.name : it \in Range(listedThemes)} :
          SendTheme(c, "setcurrent", NoName, [NoTheme EXCEPT !.name = name])
  BY DEF selectTheme
<1>2. name \in AnyName
  <2>1. \A it \in Range(listedThemes) : it \in Theme
    BY DEF ThemesInv, ThemesTyped, Range
  <2>2. QED BY <2>1 DEF Theme, AnyName
<1>3. [NoTheme EXCEPT !.name = name] \in AnyTheme
  <2>1. [NoTheme EXCEPT !.name = name] = [name |-> name, content |-> 0] /\ 0 \in 0 .. MaxContents
    BY ThemesAssumption DEF NoTheme
  <2>2. QED BY <1>2, <2>1 DEF AnyTheme
<1>4. /\ request' \in [ThemeCalls -> ThemeCall]
      /\ OthersStay
  BY <1>1, <1>3, FreeIs, Sending, NoThemeTyped DEF ThemesInv, SendTheme
<1>5. UNCHANGED themeStoreVars
  BY <1>1 DEF SendTheme
<1>6. ThemesTyped'
  BY <1>4, <1>5 DEF ThemesInv, ThemesTyped, selectTheme, themeStoreVars, settingsVars
<1>7. QED BY <1>4, <1>5, <1>6, PageSteps DEF ThemesInv

LEMMA EditStep ==
    ASSUME ThemesInv, EditTheme \/ NewTheme
    PROVE  ThemesInv'
<1>1. editor' \in [oldName : AnyName, theme : AnyTheme, shown : BOOLEAN]
  <2>1. CASE EditTheme
    <3>1. PICK t \in AnyTheme : t = selectedTheme
      BY DEF ThemesInv, ThemesTyped
    <3>2. t.name \in AnyName
      BY DEF AnyTheme
    <3>3. editor' = [oldName |-> IF t.name = BuiltIn THEN NoName ELSE t.name, theme |-> t, shown |-> TRUE]
      BY <2>1, <3>1 DEF EditTheme
    <3>4. (IF t.name = BuiltIn THEN NoName ELSE t.name) \in AnyName
      BY <3>2, NoThemeTyped
    <3>5. QED BY <3>3, <3>4
  <2>2. CASE NewTheme
    <3>1. editor' = [oldName |-> NoName, theme |-> NoTheme, shown |-> TRUE]
      BY <2>2 DEF NewTheme, Closed
    <3>2. QED BY <3>1, NoThemeTyped
  <2>3. QED BY <2>1, <2>2
<1>2. UNCHANGED <<themes, currentTheme, owed, replaced, listedThemes, selectedTheme, typedThemes, request>>
  BY DEF EditTheme, NewTheme, themeStoreVars
<1>3. ThemesTyped'
  BY <1>1, <1>2 DEF ThemesInv, ThemesTyped
<1>4. QED BY <1>2, <1>3 DEF ThemesInv, ThemesCore, CurrentStands, CurrentIsReplaced

LEMMA SaveStep ==
    ASSUME ThemesInv, NEW c \in ThemeCalls, saveTheme(c)
    PROVE  ThemesInv'
<1>1. PICK name \in Names :
          SendTheme(c, "update", editor.oldName, [name |-> name, content |-> typedThemes + 1])
  BY DEF saveTheme
<1>2. typedThemes + 1 \in 0 .. MaxContents
  BY ThemesAssumption DEF ThemesInv, ThemesTyped, saveTheme
<1>3. /\ [name |-> name, content |-> typedThemes + 1] \in AnyTheme
      /\ [name |-> name, content |-> typedThemes + 1] \in Theme
      /\ editor.oldName \in AnyName
  BY <1>2 DEF ThemesInv, ThemesTyped, AnyTheme, AnyName, Theme
<1>4. /\ request' \in [ThemeCalls -> ThemeCall]
      /\ OthersStay
  BY <1>1, <1>3, FreeIs, Sending DEF ThemesInv, SendTheme
<1>5. UNCHANGED themeStoreVars
  BY <1>1 DEF SendTheme
<1>6. ThemesTyped'
  BY <1>2, <1>4, <1>5 DEF ThemesInv, ThemesTyped, saveTheme, themeStoreVars
<1>7. QED BY <1>4, <1>5, <1>6, PageSteps DEF ThemesInv

LEMMA DeleteSelectedStep ==
    ASSUME ThemesInv, NEW c \in ThemeCalls, deleteSelected(c)
    PROVE  ThemesInv'
<1>1. SendTheme(c, "delete", selectedTheme.name, NoTheme) /\ UNCHANGED settingsVars
  BY DEF deleteSelected
<1>2. selectedTheme.name \in AnyName
  BY DEF ThemesInv, ThemesTyped, AnyTheme
<1>3. /\ request' \in [ThemeCalls -> ThemeCall]
      /\ OthersStay
  BY <1>1, <1>2, FreeIs, Sending, NoThemeTyped DEF ThemesInv, SendTheme
<1>4. UNCHANGED themeStoreVars
  BY <1>1 DEF SendTheme
<1>5. ThemesTyped'
  BY <1>1, <1>3, <1>4 DEF ThemesInv, ThemesTyped, themeStoreVars, settingsVars
<1>6. QED BY <1>3, <1>4, <1>5, PageSteps DEF ThemesInv

LEMMA SetCurrentStep ==
    ASSUME ThemesInv, NEW c \in ThemeCalls, setCurrent(c)
    PROVE  ThemesInv'
<1>1. request[c].at = "sent" /\ owed = "nothing"
  BY DEF setCurrent, Serves
<1>2. PICK r \in SentCall : r = request[c]
  BY <1>1, SentIs DEF ThemesInv
<1>3. /\ request' \in [ThemeCalls -> ThemeCall]
      /\ request'[c].at = "done"
      /\ \A d \in ThemeCalls : d # c => request'[d] = request[d]
  BY <1>1, AnswerIs DEF ThemesInv, setCurrent
<1>4. currentTheme' = r.theme.name /\ replaced' = {} /\ UNCHANGED <<themes, owed, settingsVars>>
  BY <1>2 DEF setCurrent
<1>5. r.theme.name \in AnyName
  BY <1>2 DEF SentCall, AnyTheme
<1>6. r.theme.name \in {NoName, BuiltIn} \/ HasName(themes, r.theme.name)
  BY <1>2, StoreExists DEF ThemesInv, ThemesTyped, setCurrent
<1>7. ThemesTyped'
  BY <1>3, <1>4, <1>5 DEF ThemesInv, ThemesTyped, settingsVars
<1>8. \A d \in ThemeCalls : request'[d].at # "serving"
  BY <1>1, <1>3 DEF ThemesInv, ThemesCore
<1>9. ThemesCore'
  BY <1>1, <1>4, <1>6, <1>8 DEF ThemesCore, CurrentStands
<1>10. QED BY <1>7, <1>9 DEF ThemesInv

LEMMA UpdateStep ==
    ASSUME ThemesInv, NEW c \in ThemeCalls, updateTheme(c)
    PROVE  ThemesInv'
<1>1. request[c].at = "sent" /\ owed = "nothing" /\ request[c].op = "update"
  BY DEF updateTheme, Serves
<1>2. PICK theme \in Theme : theme = request[c].theme
  BY <1>1, SentIs DEF ThemesInv
<1>3. /\ request' \in [ThemeCalls -> ThemeCall]
      /\ request'[c].op = "update" /\ request'[c].theme = theme
      /\ request'[c].at = "serving" /\ request'[c].oldName = request[c].oldName
      /\ \A d \in ThemeCalls : d # c => request'[d] = request[d]
  BY <1>1, <1>2, AnswerIs DEF ThemesInv, updateTheme
<1>4. themes \in Seq(Theme) /\ Len(themes) \in Nat
  BY DEF ThemesInv, ThemesTyped
<1>5. /\ themes' \in Seq(Theme) /\ HasName(themes', theme.name)
      /\ \A name : HasName(themes, name) => HasName(themes', name) \/ name = request[c].oldName
  <2>1. CASE themes' = Append(themes, theme)
    <3>1. /\ themes' \in Seq(Theme) /\ Len(themes) + 1 \in 1..Len(themes') /\ themes'[Len(themes) + 1] = theme
          /\ \A k \in 1..Len(themes) : k \in 1..Len(themes') /\ themes'[k] = themes[k]
      BY <1>4, <2>1
    <3>2. QED BY <3>1 DEF HasName
  <2>2. CASE /\ Named(getAllThemes, request[c].oldName) > 1
             /\ themes' = [themes EXCEPT ![Named(getAllThemes, request[c].oldName) - 1] = theme]
    <3>1. PICK i : i = Named(getAllThemes, request[c].oldName)
      OBVIOUS
    <3>2. i \in 0..Len(getAllThemes) /\ Len(getAllThemes) = Len(themes) + 1
      BY <1>4, <3>1, AllThemesAre, NamedIs
    <3>3. i - 1 \in 1..Len(themes) /\ themes' = [themes EXCEPT ![i - 1] = theme]
      BY <1>4, <2>2, <3>1, <3>2
    <3>4. /\ themes' \in Seq(Theme) /\ Len(themes') = Len(themes) /\ themes'[i - 1] = theme
          /\ \A k \in 1..Len(themes) : k # i - 1 => themes'[k] = themes[k]
      BY <1>4, <3>3
    <3>5. themes[i - 1].name = request[c].oldName
      <4>1. getAllThemes \in Seq(Theme) /\ i # 0 /\ i # 1 /\ i \in 1..Len(getAllThemes)
        BY <1>4, <3>1, <3>2, <3>3, <2>2, AllThemesAre
      <4>2. getAllThemes[i].name = request[c].oldName
        BY <4>1, <3>1, NamedIs
      <4>3. getAllThemes[i] = themes[i - 1]
        BY <1>4, <4>1, AllThemesAre
      <4>4. QED BY <4>2, <4>3
    <3>6. QED BY <3>3, <3>4, <3>5 DEF HasName
  <2>3. QED BY <1>2, <2>1, <2>2 DEF updateTheme
<1>6. owed' = "current" /\ UNCHANGED <<currentTheme, replaced, settingsVars>>
  BY DEF updateTheme
<1>7. ThemesTyped'
  BY <1>3, <1>5, <1>6 DEF ThemesInv, ThemesTyped, settingsVars
<1>8. \A d \in ThemeCalls : request'[d].at = "serving" => d = c
  BY <1>1, <1>3 DEF ThemesInv, ThemesCore
<1>9. CurrentStands' \/ CurrentIsReplaced'
  <2>1. CurrentStands
    BY <1>1 DEF ThemesInv, ThemesCore
  <2>2. CASE HasName(themes, currentTheme)
    BY <1>3, <1>5, <1>6, <2>2 DEF CurrentStands, CurrentIsReplaced
  <2>3. CASE currentTheme \in replaced \cup {NoName, BuiltIn}
    BY <1>6, <2>3 DEF CurrentStands
  <2>4. QED BY <2>1, <2>2, <2>3 DEF CurrentStands
<1>10. ThemesCore'
  BY <1>3, <1>5, <1>6, <1>8, <1>9 DEF ThemesCore
<1>11. QED BY <1>7, <1>10 DEF ThemesInv

LEMMA SetUpdatedStep ==
    ASSUME ThemesInv, NEW c \in ThemeCalls, SetUpdatedTheme(c)
    PROVE  ThemesInv'
<1>1. request[c].at = "serving" /\ request[c].op = "update"
  BY DEF SetUpdatedTheme
<1>2. owed = "current"
  BY <1>1 DEF ThemesInv, ThemesCore, ThemesTyped
<1>3. PICK theme \in Theme : theme = request[c].theme
  BY <1>1, SentIs DEF ThemesInv
<1>4. HasName(themes, theme.name)
  BY <1>1, <1>2, <1>3 DEF ThemesInv, ThemesCore
<1>5. /\ request' \in [ThemeCalls -> ThemeCall]
      /\ request'[c].at = "done"
      /\ \A d \in ThemeCalls : d # c => request'[d] = request[d]
  BY <1>1, AnswerIs DEF ThemesInv, SetUpdatedTheme
<1>6. currentTheme' = theme.name /\ owed' = "nothing" /\ replaced' = {} /\ UNCHANGED <<themes, settingsVars>>
  BY <1>3 DEF SetUpdatedTheme
<1>7. theme.name \in AnyName
  BY DEF Theme, AnyName
<1>8. ThemesTyped'
  BY <1>5, <1>6, <1>7 DEF ThemesInv, ThemesTyped, settingsVars
<1>9. \A d \in ThemeCalls : request'[d].at # "serving"
  BY <1>1, <1>5 DEF ThemesInv, ThemesCore
<1>10. ThemesCore'
  BY <1>4, <1>6, <1>9 DEF ThemesCore, CurrentStands
<1>11. QED BY <1>8, <1>10 DEF ThemesInv

LEMMA DeleteStep ==
    ASSUME ThemesInv, NEW c \in ThemeCalls, deleteTheme(c)
    PROVE  ThemesInv'
<1>1. request[c].at = "sent" /\ owed = "nothing" /\ request[c].op = "delete"
  BY DEF deleteTheme, Serves
<1>2. PICK r \in SentCall : r = request[c]
  BY <1>1, SentIs DEF ThemesInv
<1>3. /\ request' \in [ThemeCalls -> ThemeCall]
      /\ request'[c].op = "delete" /\ request'[c].oldName = r.oldName
      /\ \A d \in ThemeCalls : d # c => request'[d] = request[d]
  BY <1>1, <1>2, AnswerIs DEF ThemesInv, deleteTheme
<1>4. themes \in Seq(Theme)
  BY DEF ThemesInv, ThemesTyped
<1>5. r.oldName # NoName
  <2>1. PICK i : i = Named(themes, r.oldName)
    OBVIOUS
  <2>2. i \in 0..Len(themes) /\ i # 0 /\ themes[i].name = r.oldName
    BY <1>2, <1>4, <2>1, NamedIs DEF deleteTheme
  <2>3. themes[i] \in Theme
    BY <1>4, <2>2
  <2>4. QED BY <2>2, <2>3, ThemesAssumption DEF Theme, Names
<1>6. /\ currentTheme' = IF currentTheme = r.oldName THEN NoName ELSE currentTheme
      /\ owed' = "deletion" /\ UNCHANGED <<themes, replaced, settingsVars>>
  BY <1>2 DEF deleteTheme
<1>7. currentTheme' # r.oldName /\ currentTheme' \in {NoName, currentTheme} /\ currentTheme' \in AnyName
  BY <1>5, <1>6, NoThemeTyped DEF ThemesInv, ThemesTyped
<1>8. ThemesTyped'
  BY <1>3, <1>6, <1>7 DEF ThemesInv, ThemesTyped, settingsVars
<1>9. \A d \in ThemeCalls : request'[d].at = "serving" => d = c
  BY <1>1, <1>3 DEF ThemesInv, ThemesCore
<1>10. ThemesCore'
  <2>1. owed # "current" /\ owed' # "current" /\ owed' # "nothing"
    BY <1>1, <1>6
  <2>2. CurrentStands'
    BY <1>6, <1>7, <2>1 DEF ThemesInv, ThemesCore, CurrentStands
  <2>3. QED BY <1>3, <1>7, <1>9, <2>1, <2>2 DEF ThemesCore
<1>11. QED BY <1>8, <1>10 DEF ThemesInv

LEMMA DeleteStoredStep ==
    ASSUME ThemesInv, NEW c \in ThemeCalls, DeleteStoredTheme(c)
    PROVE  ThemesInv'
<1>1. request[c].at = "serving" /\ request[c].op = "delete"
  BY DEF DeleteStoredTheme
<1>2. owed = "deletion" /\ request[c].oldName # currentTheme
  BY <1>1 DEF ThemesInv, ThemesCore, ThemesTyped
<1>3. PICK name : name = request[c].oldName
  OBVIOUS
<1>4. PICK kept : kept = {it \in Theme : it.name # name}
  OBVIOUS
<1>5. themes \in Seq(Theme) /\ themes' = Filtered(themes, kept)
  BY <1>3, <1>4 DEF ThemesInv, ThemesTyped, DeleteStoredTheme, WithoutTheme
<1>6. /\ themes' \in Seq(Theme)
      /\ \A i \in 1..Len(themes) : themes[i] \in kept => \E k \in 1..Len(themes') : themes'[k] = themes[i]
  <2>1. FilterOf(themes', Theme, themes, kept)
    BY <1>5, FilteredIs
  <2>2. QED BY <2>1 DEF FilterOf
<1>7. /\ request' \in [ThemeCalls -> ThemeCall]
      /\ request'[c].at = "done"
      /\ \A d \in ThemeCalls : d # c => request'[d] = request[d]
  BY <1>1, AnswerIs DEF ThemesInv, DeleteStoredTheme
<1>8. owed' = "nothing" /\ UNCHANGED <<currentTheme, replaced, settingsVars>>
  BY DEF DeleteStoredTheme
<1>9. ThemesTyped'
  BY <1>6, <1>7, <1>8 DEF ThemesInv, ThemesTyped, settingsVars
<1>10. ASSUME HasName(themes, currentTheme)
       PROVE  HasName(themes', currentTheme)
  <2>1. PICK i \in 1..Len(themes) : themes[i].name = currentTheme
    BY <1>10 DEF HasName
  <2>2. themes[i] \in kept
    BY <1>2, <1>3, <1>4, <1>5, <2>1
  <2>3. QED BY <1>6, <2>1, <2>2 DEF HasName
<1>11. \A d \in ThemeCalls : request'[d].at # "serving"
  BY <1>1, <1>7 DEF ThemesInv, ThemesCore
<1>12. ThemesCore'
  <2>1. CurrentStands'
    BY <1>2, <1>8, <1>10 DEF ThemesInv, ThemesCore, CurrentStands
  <2>2. QED BY <1>8, <1>11, <2>1 DEF ThemesCore
<1>13. QED BY <1>9, <1>12 DEF ThemesInv

LEMMA ThemeFailsStep ==
    ASSUME ThemesInv, NEW c \in ThemeCalls, ThemeFails(c)
    PROVE  ThemesInv'
<1>1. /\ request' \in [ThemeCalls -> ThemeCall]
      /\ request'[c].at = "failed"
      /\ \A d \in ThemeCalls : d # c => request'[d] = request[d]
  BY AnswerIs DEF ThemesInv, ThemeFails
<1>2. UNCHANGED <<themeStoreVars, settingsVars>>
  BY DEF ThemeFails
<1>3. ThemesTyped'
  BY <1>1, <1>2 DEF ThemesInv, ThemesTyped, themeStoreVars, settingsVars
<1>4. OthersStay
  BY <1>1 DEF OthersStay, ThemeFails
<1>5. QED BY <1>2, <1>3, <1>4, PageSteps DEF ThemesInv

\* A request that is read by the store, and its answer.
LEMMA Answers ==
    ASSUME ThemesInv, NEW c \in ThemeCalls, NEW r \in SentCall, r.op # "update", r.at # "serving",
           request[c].at # "serving",
           request' = [request EXCEPT ![c] = r], UNCHANGED <<themeStoreVars, settingsVars>>
    PROVE  ThemesInv'
<1>1. request' \in [ThemeCalls -> ThemeCall] /\ OthersStay
  BY DEF ThemesInv, ThemesTyped, ThemeCall, OthersStay
<1>2. ThemesTyped'
  BY <1>1 DEF ThemesInv, ThemesTyped, themeStoreVars, settingsVars
<1>3. QED BY <1>1, <1>2, PageSteps DEF ThemesInv

LEMMA ListStep ==
    ASSUME ThemesInv, NEW c \in ThemeCalls, ListThemes(c)
    PROVE  ThemesInv'
<1>1. request[c].at = "sent" /\ request[c].op = "load"
  BY DEF ListThemes, Serves
<1>2. PICK r \in SentCall : r = request[c]
  BY <1>1, SentIs DEF ThemesInv
<1>3. getAllThemes \in Seq(Theme)
  BY AllThemesAre DEF ThemesInv, ThemesTyped
<1>4. PICK r2 : r2 = [r EXCEPT !.list = getAllThemes, !.at = "listed"]
  OBVIOUS
<1>5. r2 \in SentCall /\ r2.op = r.op /\ r2.at = "listed"
  BY <1>3, <1>4 DEF SentCall
<1>6. request' = [request EXCEPT ![c] = r2]
  BY <1>2, <1>4 DEF ListThemes, ThemesInv, ThemesTyped
<1>7. QED BY <1>1, <1>2, <1>5, <1>6, Answers DEF ListThemes

LEMMA CurrentStep ==
    ASSUME ThemesInv, NEW c \in ThemeCalls, getCurrentTheme(c)
    PROVE  ThemesInv'
<1>1. request[c].at \in {"sent", "listed"} /\ request[c].op # "update"
  BY DEF getCurrentTheme, Serves
<1>2. PICK r \in SentCall : r = request[c]
  BY <1>1, SentIs DEF ThemesInv
<1>3. Find(getAllThemes, currentTheme) \in AnyTheme
  BY AllThemesAre, FoundIs DEF ThemesInv, ThemesTyped
<1>4. PICK r2 : r2 = [r EXCEPT !.found = Find(getAllThemes, currentTheme), !.at = "done"]
  OBVIOUS
<1>5. r2 \in SentCall /\ r2.op = r.op /\ r2.at = "done"
  BY <1>3, <1>4 DEF SentCall
<1>6. request' = [request EXCEPT ![c] = r2]
  BY <1>2, <1>4 DEF getCurrentTheme, ThemesInv, ThemesTyped
<1>7. QED BY <1>1, <1>2, <1>5, <1>6, Answers DEF getCurrentTheme

LEMMA ProcessEndsStep ==
    ASSUME ThemesInv, ProcessEnds
    PROVE  ThemesInv'
<1>1. request \in [ThemeCalls -> ThemeCall]
  BY DEF ThemesInv, ThemesTyped
<1>2. ASSUME NEW c \in ThemeCalls
      PROVE  request'[c] \in ThemeCall /\ request'[c].at # "serving"
  <2>1. request'[c] = IF request[c].at = "serving" THEN [request[c] EXCEPT !.at = "failed"] ELSE request[c]
    BY DEF ProcessEnds
  <2>2. CASE request[c].at = "serving"
    <3>1. PICK r \in SentCall : r = request[c] /\ (r.op = "update" => r.theme \in Theme)
      BY <2>2, SentIs DEF ThemesInv
    <3>2. PICK r2 : r2 = [r EXCEPT !.at = "failed"]
      OBVIOUS
    <3>3. r2 \in SentCall /\ r2.op = r.op /\ r2.theme = r.theme /\ r2.at = "failed"
      BY <3>2 DEF SentCall
    <3>4. QED BY <2>1, <2>2, <3>1, <3>2, <3>3 DEF ThemeCall
  <2>3. QED BY <1>1, <2>1, <2>2
<1>3. request' \in [ThemeCalls -> ThemeCall]
  <2>1. request' = [c \in ThemeCalls |-> request'[c]]
    BY DEF ProcessEnds
  <2>2. QED BY <1>2, <2>1
<1>4. PICK old : old = {request[c].oldName : c \in {d \in ThemeCalls :
                                  request[d].op = "update" /\ request[d].at = "serving"}}
  OBVIOUS
<1>5. owed' = "nothing" /\ replaced' = replaced \cup old /\ UNCHANGED <<themes, currentTheme, settingsVars>>
  BY <1>4 DEF ProcessEnds
<1>6. old \subseteq AnyName
  <2>1. ASSUME NEW c \in ThemeCalls, request[c].at = "serving"
        PROVE  request[c].oldName \in AnyName
    BY <2>1, SentIs DEF ThemesInv, SentCall
  <2>2. QED BY <1>4, <2>1
<1>7. ThemesTyped'
  <2>1. replaced' \subseteq AnyName
    BY <1>5, <1>6 DEF ThemesInv, ThemesTyped
  <2>2. QED BY <1>3, <1>5, <2>1 DEF ThemesInv, ThemesTyped, settingsVars
<1>8. CurrentStands'
  <2>1. CASE CurrentStands
    BY <1>5, <2>1 DEF CurrentStands
  <2>2. CASE CurrentIsReplaced
    <3>1. currentTheme \in old
      BY <1>4, <2>2 DEF CurrentIsReplaced
    <3>2. QED BY <1>5, <3>1 DEF CurrentStands
  <2>3. QED BY <2>1, <2>2 DEF ThemesInv, ThemesCore
<1>9. ThemesCore'
  BY <1>2, <1>5, <1>8 DEF ThemesCore
<1>10. QED BY <1>7, <1>9 DEF ThemesInv

\* The page goes on with what it was answered.
LEMMA AnsweredSteps ==
    ASSUME ThemesInv, NEW c \in ThemeCalls,
           ThemeSelected(c) \/ ThemeSaved(c) \/ ThemeDeleted(c) \/ SettingsLoaded(c)
    PROVE  ThemesInv'
<1>1. request[c].at = "done"
  BY DEF ThemeSelected, ThemeSaved, ThemeDeleted, SettingsLoaded, Got
<1>2. PICK r \in SentCall : r = request[c]
  BY <1>1, SentIs DEF ThemesInv
<1>3. UNCHANGED themeStoreVars
  BY DEF ThemeSelected, ThemeSaved, ThemeDeleted, SettingsLoaded
<1>4. Follow(c, "current") \/ Follow(c, "load")
  BY DEF ThemeSelected, ThemeSaved, ThemeDeleted, SettingsLoaded
<1>5. /\ request' \in [ThemeCalls -> ThemeCall]
      /\ OthersStay
  <2>1. CASE Follow(c, "current")
    BY <1>1, <2>1, Sending, NoThemeTyped DEF ThemesInv, Follow
  <2>2. CASE Follow(c, "load")
    BY <1>1, <2>2, Sending, NoThemeTyped DEF ThemesInv, Follow
  <2>3. QED BY <1>4, <2>1, <2>2
<1>6. listedThemes' \in Seq(Theme)
  BY <1>2 DEF ThemesInv, ThemesTyped, SentCall, ThemeSelected, ThemeSaved, ThemeDeleted, SettingsLoaded, settingsVars
<1>7. selectedTheme' \in AnyTheme
  <2>1. CASE ThemeSelected(c)
    BY <2>1, FoundIs DEF ThemesInv, ThemesTyped, ThemeSelected
  <2>2. CASE SettingsLoaded(c)
    BY <1>2, <2>2 DEF SentCall, SettingsLoaded
  <2>3. CASE ThemeSaved(c) \/ ThemeDeleted(c)
    BY <2>3 DEF ThemesInv, ThemesTyped, ThemeSaved, ThemeDeleted, settingsVars
  <2>4. QED BY <2>1, <2>2, <2>3
<1>8. editor' \in [oldName : AnyName, theme : AnyTheme, shown : BOOLEAN]
  <2>1. Closed \in [oldName : AnyName, theme : AnyTheme, shown : BOOLEAN]
    BY NoThemeTyped DEF Closed
  <2>2. editor' = Closed \/ editor' = editor
    BY DEF ThemeSelected, ThemeSaved, ThemeDeleted, SettingsLoaded, settingsVars
  <2>3. QED BY <2>1, <2>2 DEF ThemesInv, ThemesTyped
<1>9. typedThemes' = typedThemes
  BY DEF ThemeSelected, ThemeSaved, ThemeDeleted, SettingsLoaded, settingsVars
<1>10. ThemesTyped'
  BY <1>3, <1>5, <1>6, <1>7, <1>8, <1>9 DEF ThemesInv, ThemesTyped, themeStoreVars
<1>11. QED BY <1>3, <1>5, <1>10, PageSteps DEF ThemesInv

LEMMA EndSteps ==
    ASSUME ThemesInv, NEW c \in ThemeCalls, applyCapRoverTheme(c) \/ ErrorShown(c)
    PROVE  ThemesInv'
<1>1. request' = [request EXCEPT ![c] = NoRequest] /\ UNCHANGED themeStoreVars
  BY DEF applyCapRoverTheme, ErrorShown
<1>2. request[c].at # "serving"
  BY DEF applyCapRoverTheme, ErrorShown, Got
<1>3. NoRequest \in ThemeCall /\ NoRequest.at # "serving"
  BY DEF ThemeCall, NoRequest
<1>4. /\ request' \in [ThemeCalls -> ThemeCall]
      /\ OthersStay
  BY <1>1, <1>2, <1>3 DEF ThemesInv, ThemesTyped, OthersStay
<1>5. UNCHANGED <<listedThemes, selectedTheme, editor, typedThemes>>
  BY DEF applyCapRoverTheme, ErrorShown, settingsVars
<1>6. ThemesTyped'
  BY <1>1, <1>4, <1>5 DEF ThemesInv, ThemesTyped, themeStoreVars
<1>7. QED BY <1>1, <1>4, <1>6, PageSteps DEF ThemesInv

LEMMA ThemesInvHolds == ThemesSpec => []ThemesInv
<1>1. ThemesInit => ThemesInv
  <2>1. SUFFICES ASSUME ThemesInit
                 PROVE  ThemesInv
    OBVIOUS
  <2>2. request \in [ThemeCalls -> ThemeCall] /\ \A c \in ThemeCalls : request[c].at # "serving"
    BY <2>1 DEF ThemesInit, ThemeCall, NoRequest
  <2>3. editor \in [oldName : AnyName, theme : AnyTheme, shown : BOOLEAN]
    BY <2>1, NoThemeTyped DEF ThemesInit, Closed
  <2>4. ThemesTyped
    <3>1. /\ themes \in Seq(Theme) /\ listedThemes \in Seq(Theme)
          /\ owed \in {"nothing", "current", "deletion"} /\ replaced \subseteq AnyName
          /\ typedThemes \in 0 .. MaxContents
      <4>1. 0 \in 0 .. MaxContents
        BY ThemesAssumption
      <4>2. themes = <<>> /\ listedThemes = <<>> /\ owed = "nothing" /\ replaced = {} /\ typedThemes = 0
        BY <2>1 DEF ThemesInit
      <4>3. <<>> \in Seq(Theme)
        OBVIOUS
      <4>4. themes \in Seq(Theme) /\ listedThemes \in Seq(Theme)
        BY <4>2, <4>3, Zenon
      <4>5. QED BY <4>1, <4>2, <4>4
    <3>2. currentTheme \in AnyName /\ selectedTheme \in AnyTheme
      BY <2>1, NoThemeTyped DEF ThemesInit
    <3>3. QED BY <2>2, <2>3, <3>1, <3>2 DEF ThemesTyped
  <2>5. QED BY <2>1, <2>2, <2>4 DEF ThemesInv, ThemesInit, ThemesCore, CurrentStands
<1>2. ThemesInv /\ [ThemesNext]_themesVars => ThemesInv'
  <2>1. SUFFICES ASSUME ThemesInv, [ThemesNext]_themesVars
                 PROVE  ThemesInv'
    OBVIOUS
  <2>2. CASE UNCHANGED themesVars
    BY <2>1, <2>2 DEF ThemesInv, ThemesTyped, ThemesCore, CurrentStands, CurrentIsReplaced, themesVars, themeStoreVars, settingsVars
  <2>3. CASE ThemesNext
    BY <2>1, <2>3, OpenStep, SelectStep, SaveStep, DeleteSelectedStep, SetCurrentStep, UpdateStep, SetUpdatedStep,
       DeleteStep, DeleteStoredStep, ThemeFailsStep, ListStep, CurrentStep, AnsweredSteps, EndSteps, EditStep,
       ProcessEndsStep DEF ThemesNext
  <2>4. QED BY <2>1, <2>2, <2>3
<1>3. QED BY <1>1, <1>2, PTL DEF ThemesSpec

\* Unless a call is between its two writes, the theme that is current is one that
\* exists, or one that a cut update has replaced since the name was last written,
\* whatever the page sends and in whichever order it arrives (deleteTheme,
\* updateTheme, setCurrent).
THEOREM CurrentThemeCorrect == ThemesSpec => []CurrentThemeExists
<1>1. ThemesInv => CurrentThemeExists
  BY StoreExists DEF ThemesInv, ThemesTyped, ThemesCore, CurrentStands, CurrentThemeExists
<1>2. QED BY <1>1, ThemesInvHolds, PTL

=============================================================================
