----------------------------- MODULE ProFeatures -----------------------------
(***************************************************************************)
(* The connection to the Pro account and what hangs on it: the API key,    *)
(* two-factor login and the alerts' configuration (ProManager,             *)
(* OtpAuthenticator, ProDataStore, ProRouter, the login's use of them).    *)
(*                                                                         *)
(* The account service is external: it knows which API keys are good, the  *)
(* secret of the one-time passwords and the configuration it was sent.     *)
(* Each handler looks at the data store, asks the service over HTTP, and   *)
(* goes on with the answer, or without one.  UserRouter lets one changing  *)
(* request in at a time, until its connection is closed; logins are not    *)
(* under that lock.                                                        *)
(***************************************************************************)
EXTENDS Naturals, FiniteSets, JavaScript

CONSTANTS
    ApiKeys,
    Configs,     \* configurations of the alerts that validateProConfig accepts
    NoAlerts,    \* the configuration when there is none
    ProCalls,    \* requests, being served
    MaxSecrets   \* bound: secrets that the service draws

ASSUME ProAssumption ==
    /\ {NoAlerts, None} \cap Configs = {}
    /\ MaxSecrets \in Nat

Domains == {0, 1}

VARIABLES
    proKey, otp, config,           \* the data store
    goodKeys, secret,              \* the account service
    apiIndex,                      \* activeApiIndex
    lock,                          \* threadLockNamespace
    proCall,
    disturbed,  \* proHistory: changing requests overlapped, or a login's refused key cleared
                \* what an update was changing
    proved,      \* proHistory: the secret that two-factor login was enabled with
    saved        \* proHistory: the configuration that was last answered to be set

proStore == <<proKey, otp, config>>
service == <<goodKeys, secret>>
proHistory == <<disturbed, proved, saved>>
proVars == <<proStore, service, apiIndex, lock, proCall, proHistory>>

Changes == {"apikey", "disconnect", "otp", "configs"}

\* apiKey: the key an apikey request brings; token: the secret that the
\* one-time password was computed with, or none; old: the configuration before;
\* on: proHistory, two-factor login has been on since the call began.
ProCall == [op : Changes \cup {"login"}, at : {"begun", "asking", "asking again", "answered",
                                              "signed", "in"},
            apiKey : ApiKeys \cup {None}, enable : BOOLEAN,
            token : (1 .. MaxSecrets) \cup {None}, new : Configs \cup {None},
            old : Configs \cup {NoAlerts, None},
            on : BOOLEAN, valid : BOOLEAN]

ASSUME ProCallAssumption == None \notin ProCall

ProTypeOK ==
    /\ proKey \in ApiKeys \cup {None}
    /\ otp \in BOOLEAN
    /\ config \in Configs \cup {NoAlerts, None}
    /\ goodKeys \subseteq ApiKeys
    /\ secret \in 0 .. MaxSecrets
    /\ apiIndex \in Domains
    /\ lock \in BOOLEAN
    /\ proCall \in [ProCalls -> ProCall \cup {None}]
    /\ disturbed \in BOOLEAN
    /\ proved \in 0 .. MaxSecrets
    /\ saved \in Configs \cup {NoAlerts}

ProInit ==
    /\ proKey = None
    /\ otp = FALSE
    /\ config = None
    /\ goodKeys = ApiKeys
    /\ secret = 0
    /\ apiIndex \in Domains
    /\ lock = FALSE
    /\ proCall = [c \in ProCalls |-> None]
    /\ disturbed = FALSE
    /\ proved = 0
    /\ saved = NoAlerts

-----------------------------------------------------------------------------
(* The requests                                                            *)

NewCall(op, key, enable, token, new) ==
    [op |-> op, at |-> "begun", apiKey |-> key, enable |-> enable, token |-> token, new |-> new,
     old |-> None, on |-> otp /\ op = "login", valid |-> FALSE]

\* Mutant: changing requests are let in together.
AlwaysOpen == TRUE

LockIsFree == ~lock

Admit(c, call) ==
    /\ proCall[c] = None
    /\ call.op # "login" => LockIsFree
    /\ lock' = (lock \/ call.op # "login")
    /\ proCall' = [proCall EXCEPT ![c] = call]
    /\ UNCHANGED <<proStore, service, apiIndex, proHistory>>

\* A token is what the user's app shows: for the secret of now, or an old one.
Tokens == (1 .. secret) \cup {None}

Arrive(c) ==
    \/ \E key \in ApiKeys : Admit(c, NewCall("apikey", key, FALSE, None, None))
    \/ Admit(c, NewCall("disconnect", None, FALSE, None, None))
    \/ \E enable \in BOOLEAN, token \in Tokens :
          Admit(c, NewCall("otp", None, enable, token, None))
    \/ \E new \in Configs \cup {None} : Admit(c, NewCall("configs", None, FALSE, None, new))
    \/ \E token \in Tokens : Admit(c, NewCall("login", None, FALSE, token, None))

Is(c, op, at) == proCall[c] # None /\ proCall[c].op = op /\ proCall[c].at = at

\* The answer: the lock is left unless the connection was closed before.
Reply(c) ==
    /\ proCall' = [proCall EXCEPT ![c] = None]
    /\ lock' = (lock /\ proCall[c].op = "login")

\* The client is gone; the request is served all the same.
Disconnects(c) ==
    /\ proCall[c] # None
    /\ proCall[c].op # "login"
    /\ lock
    /\ lock' = FALSE
    /\ disturbed' = TRUE
    /\ UNCHANGED <<proStore, service, apiIndex, proCall, proved, saved>>

-----------------------------------------------------------------------------
(* ProManager.callApi                                                      *)


Goes(c, at) ==
    [proCall EXCEPT ![c].at = at]

KeyOf(c) == IF proCall[c].apiKey # None THEN proCall[c].apiKey ELSE proKey

Good(c) == KeyOf(c) \in goodKeys

\* clearAllProConfigs: two-factor login and the alerts go with the key.
ClearAll ==
    /\ proKey' = None
    /\ otp' = FALSE
    /\ config' = None

\* Two-factor login has been turned off: no call has been under it since.
OtpChanges(calls) ==
    proCall' = IF otp' THEN calls
               ELSE [c \in ProCalls |-> IF calls[c] = None THEN None
                                        ELSE [calls[c] EXCEPT !.on = FALSE]]

\* Status 1100.
Invalidated(c) ==
    /\ KeyOf(c) \notin goodKeys
    /\ ClearAll

\* No answer, or one that is not understood: the next call goes to the other domain.
Unknown(c) == apiIndex' = 1 - apiIndex

-----------------------------------------------------------------------------
(* Setting and dropping the API key                                        *)

AskForKey(c) ==
    /\ Is(c, "apikey", "begun")
    /\ proCall' = Goes(c, "asking")
    /\ UNCHANGED <<proStore, service, apiIndex, lock, proHistory>>

SetApiKey(c) ==
    /\ Is(c, "apikey", "asking")
    /\ Good(c)
    /\ proKey' = proCall[c].apiKey
    /\ Reply(c)
    /\ UNCHANGED <<otp, config, service, apiIndex, proHistory>>

Disconnect(c) ==
    /\ Is(c, "disconnect", "begun")
    /\ ClearAll
    /\ saved' = NoAlerts
    /\ OtpChanges([proCall EXCEPT ![c] = None])
    /\ lock' = FALSE
    /\ UNCHANGED <<service, apiIndex, disturbed, proved>>

-----------------------------------------------------------------------------
(* OtpAuthenticator.set2fa                                                 *)

\* Mutant: the state is not looked at before a secret is asked for.
AskAnyway(c) ==
    /\ Is(c, "otp", "begun")
    /\ proCall[c].enable
    /\ proCall' = Goes(c, "asking")
    /\ UNCHANGED <<proStore, service, apiIndex, lock, proHistory>>

AskForOtp(c) ==
    /\ Is(c, "otp", "begun")
    /\ proCall[c].enable
    /\ ~otp
    /\ proCall' = Goes(c, "asking")
    /\ UNCHANGED <<proStore, service, apiIndex, lock, proHistory>>

DisableOtp(c) ==
    /\ Is(c, "otp", "begun")
    /\ ~proCall[c].enable
    /\ otp
    /\ otp' = FALSE
    /\ OtpChanges([proCall EXCEPT ![c] = None])
    /\ lock' = FALSE
    /\ UNCHANGED <<proKey, config, service, apiIndex, proHistory>>

\* regenerateSecret
ShowSecret(c) ==
    /\ Is(c, "otp", "asking")
    /\ proCall[c].token = None
    /\ Good(c)
    /\ secret < MaxSecrets
    /\ secret' = secret + 1
    /\ Reply(c)
    /\ UNCHANGED <<proStore, goodKeys, apiIndex, proHistory>>

VerifyForOtp(c) ==
    /\ Is(c, "otp", "asking")
    /\ Good(c)
    /\ proCall[c].token = secret
    /\ proCall' = Goes(c, "answered")
    /\ UNCHANGED <<proStore, service, apiIndex, lock, proHistory>>

EnableOtp(c) ==
    /\ Is(c, "otp", "answered")
    /\ otp' = TRUE
    /\ proved' = proCall[c].token
    /\ Reply(c)
    /\ UNCHANGED <<proKey, config, service, apiIndex, disturbed, saved>>

-----------------------------------------------------------------------------
(* ProManager.updateConfig                                                 *)

validateProConfig(new) == new \in Configs

\* What is not there, or is not understood, reads as no alerts.
ensureProConfigType(stored) == IF stored \in Configs THEN stored ELSE NoAlerts

WriteConfig(c) ==
    /\ Is(c, "configs", "begun")
    /\ validateProConfig(proCall[c].new)
    /\ config' = proCall[c].new
    /\ proCall' = [Goes(c, "asking") EXCEPT ![c].old = ensureProConfigType(config)]
    /\ UNCHANGED <<proKey, otp, service, apiIndex, lock, proHistory>>

ConfigIsSent(c) ==
    /\ Is(c, "configs", "asking")
    /\ Good(c)
    /\ saved' = proCall[c].new
    /\ Reply(c)
    /\ UNCHANGED <<proStore, service, apiIndex, disturbed, proved>>

\* Mutant: the configuration stays although it was refused.
NothingReverted(c) ==
    /\ Is(c, "configs", "answered")
    /\ Reply(c)
    /\ UNCHANGED <<proStore, service, apiIndex, proHistory>>

RevertConfig(c) ==
    /\ Is(c, "configs", "answered")
    /\ config' = proCall[c].old
    /\ Reply(c)
    /\ UNCHANGED <<proKey, otp, service, apiIndex, proHistory>>

-----------------------------------------------------------------------------
(* The login: with two-factor on, the token is verified for each of the    *)
(* two tokens that it gives out                                            *)

\* POST /login, before the password: without a token there is no need to ask.
LoginBegins(c) ==
    /\ Is(c, "login", "begun")
    /\ otp => proCall[c].token # None
    /\ proCall' = Goes(c, "answered")
    /\ UNCHANGED <<proStore, service, apiIndex, lock, proHistory>>

isOtpTokenValid(c, from, next, done) ==
    /\ Is(c, "login", from)
    /\ proCall' = IF otp THEN Goes(c, next)
                  ELSE [proCall EXCEPT ![c].at = done]
    /\ UNCHANGED <<proStore, service, apiIndex, lock, proHistory>>

\* Mutant: any answer of the service will do.
AnyAnswer(c, at, done) ==
    /\ Is(c, "login", at)
    /\ proCall' = [proCall EXCEPT ![c].at = done, ![c].valid = (proCall[c].token = secret)]
    /\ UNCHANGED <<proStore, service, apiIndex, lock, proHistory>>

VerifyToken(c, at, done) ==
    /\ Is(c, "login", at)
    /\ Good(c)
    /\ proCall[c].token = secret
    /\ proCall' = [Goes(c, done) EXCEPT ![c].valid = TRUE]
    /\ UNCHANGED <<proStore, service, apiIndex, lock, proHistory>>

LoginStep(c) ==
    \/ LoginBegins(c)
    \/ isOtpTokenValid(c, "answered", "asking", "signed")
    \/ VerifyToken(c, "asking", "signed")
    \/ isOtpTokenValid(c, "signed", "asking again", "in")
    \/ VerifyToken(c, "asking again", "in")

-----------------------------------------------------------------------------
(* What goes wrong                                                         *)

IsAsking(c) == proCall[c] # None /\ proCall[c].at \in {"asking", "asking again"}

\* A request that has failed: of the changes, an update of the configuration
\* has something to take back.
Fail(c) ==
    IF proCall[c].op = "configs"
    THEN /\ proCall' = Goes(c, "answered")
         /\ UNCHANGED lock
    ELSE Reply(c)

\* The service refuses: a wrong token, or an error with a description.
Refused(c) ==
    /\ IsAsking(c)
    /\ Fail(c)
    /\ UNCHANGED <<proStore, service, apiIndex, proHistory>>

\* The key that was sent has been invalidated.  An update of the configuration
\* is then answered as if it had been made.
KeyRefused(c) ==
    /\ IsAsking(c)
    /\ Invalidated(c)
    /\ saved' = NoAlerts
    /\ OtpChanges([proCall EXCEPT ![c] = None])
    /\ lock' = (lock /\ proCall[c].op = "login")
    /\ disturbed' = (disturbed \/ \E d \in ProCalls \ {c} :
                                     proCall[d] # None /\ proCall[d].op = "configs")
    /\ UNCHANGED <<service, apiIndex, proved>>

\* No answer within the time limit: what was asked may have been done.
NoAnswer(c) ==
    /\ IsAsking(c)
    /\ Unknown(c)
    /\ Fail(c)
    /\ \/ UNCHANGED secret
       \/ /\ Good(c)
          /\ proCall[c].op = "otp"
          /\ proCall[c].token = None
          /\ secret < MaxSecrets
          /\ secret' = secret + 1
    /\ UNCHANGED <<proStore, goodKeys, proHistory>>

\* A check that needs no call fails, or a login has been answered.
Ends(c) ==
    /\ \/ Is(c, "otp", "begun")
       \/ Is(c, "configs", "begun") /\ ~validateProConfig(proCall[c].new)
       \/ Is(c, "login", "begun") /\ otp /\ proCall[c].token = None
       \/ Is(c, "login", "in")
    /\ Reply(c)
    /\ UNCHANGED <<proStore, service, apiIndex, proHistory>>

InvalidateKey(key) ==
    /\ key \in goodKeys
    /\ goodKeys' = goodKeys \ {key}
    /\ UNCHANGED <<proStore, secret, apiIndex, lock, proCall, proHistory>>

ProNext ==
    \/ \E c \in ProCalls :
          \/ Arrive(c)
          \/ Disconnects(c)
          \/ AskForKey(c)
          \/ SetApiKey(c)
          \/ Disconnect(c)
          \/ AskForOtp(c)
          \/ DisableOtp(c)
          \/ ShowSecret(c)
          \/ VerifyForOtp(c)
          \/ EnableOtp(c)
          \/ WriteConfig(c)
          \/ ConfigIsSent(c)
          \/ RevertConfig(c)
          \/ LoginStep(c)
          \/ Refused(c)
          \/ KeyRefused(c)
          \/ NoAnswer(c)
          \/ Ends(c)
    \/ \E key \in ApiKeys : InvalidateKey(key)

ProSpec == ProInit /\ [][ProNext]_proVars

-----------------------------------------------------------------------------
(* Properties                                                              *)

\* A login under two-factor, on from the beginning of the login to its end,
\* had a token that the service verified; the state is read three times, and
\* may change in between (POST /login, getAuthToken, getAuthTokenForCookies).
LoginsAreVerified ==
    \A c \in ProCalls : Is(c, "login", "in") /\ proCall[c].on => proCall[c].valid

\* Two-factor login is on with the secret that the user's app was seen to have
\* (set2fa): otherwise no login is possible any more.
EnabledSecretIsProved == otp /\ ~disturbed => proved = secret

\* What is in the data store is the last configuration that was answered to be
\* set, once no update is under way (updateConfig takes back what failed).
SavedConfigStays ==
    (\A c \in ProCalls : proCall[c] = None \/ proCall[c].op # "configs") /\ ~disturbed =>
        ensureProConfigType(config) = saved

\* A key that is refused when it is entered leaves the one that was set.
OtherKeyStays ==
    [][proKey # None /\ proKey' = None =>
          proKey \notin goodKeys \/ \E c \in ProCalls : Is(c, "disconnect", "begun")]_proVars

=============================================================================
