----------------------------- MODULE RateLimiter -----------------------------
(***************************************************************************)
(* The limiter of the login and of the agent channel: a fixed window for   *)
(* each client, in a Map that holds a bounded number of them.              *)
(*                                                                         *)
(* Clients come through nginx, which says in X-Real-IP who they are, or    *)
(* straight to the port, where they may say anything.                      *)
(***************************************************************************)
EXTENDS Naturals, JavaScript

CONSTANTS
    Clients,      \* addresses of clients
    Nginx,        \* the address of the proxy, which is trusted
    MaxAttempts,
    WindowTicks,  \* windowMs
    MaxBuckets,
    MaxCount      \* bound: attempts of a client in a window

Addresses == Clients \cup {Nginx}

ASSUME LimiterAssumption ==
    /\ Nginx \notin Clients
    /\ None \notin Addresses
    /\ MaxAttempts \in Nat \ {0}
    /\ WindowTicks \in Nat \ {0}
    /\ MaxBuckets \in Nat \ {0}
    /\ MaxCount \in Nat

VARIABLES
    buckets,   \* the Map, in the order of its keys
    attempts,  \* history: the attempts of each client by their age
    verdict    \* the last answer

limiterVars == <<buckets, attempts, verdict>>

\* The age of a window is now - startedAt, as far as it matters.
WindowAge == 0 .. WindowTicks

Bucket == [key : Addresses, age : WindowAge, count : 1 .. MaxCount]

LimiterTypeOK ==
    /\ buckets \in Seq(Bucket)
    /\ attempts \in [Clients -> [0 .. WindowTicks - 1 -> 0 .. MaxCount]]
    /\ verdict \in [client : Clients, allowed : BOOLEAN] \cup {None}

LimiterInit ==
    /\ buckets = <<>>
    /\ attempts = [c \in Clients |-> [t \in 0 .. WindowTicks - 1 |-> 0]]
    /\ verdict = None

-----------------------------------------------------------------------------

isTrustedProxyAddress(address) == address = Nginx

getTrustedHeader(peer, header) == IF isTrustedProxyAddress(peer) THEN header ELSE None

\* Mutant: the address of the connection, which is nginx's for most clients.
SocketAddress(peer, header) == peer

getRequestClientKey(peer, header) ==
    IF getTrustedHeader(peer, header) \in Addresses
    THEN getTrustedHeader(peer, header)
    ELSE peer

Expired(bucket) == bucket.age = WindowTicks

IndexOf(S, key) == SelectInSeq(S, LAMBDA bucket : bucket.key = key)

\* Expired windows go first, and then the first keys of the Map.
EvictIfNeeded(S) ==
    IF Len(S) <= MaxBuckets THEN S
    ELSE LET fresh == Filtered(S, {bucket \in Bucket : ~Expired(bucket)})
             over == Len(fresh) - MaxBuckets
         IN  IF over > 0 THEN SubSeq(fresh, over + 1, Len(fresh)) ELSE fresh

\* Mutant: expired windows are all that goes.
EvictExpired(S) ==
    IF Len(S) <= MaxBuckets THEN S
    ELSE Filtered(S, {bucket \in Bucket : ~Expired(bucket)})

\* A key that is set again stays where it is.
StartWindow(key) ==
    LET i == IndexOf(buckets, key)
        bucket == [key |-> key, age |-> 0, count |-> 1]
    IN  EvictIfNeeded(IF i = 0 THEN Append(buckets, bucket)
                      ELSE [buckets EXCEPT ![i] = bucket])

Attempt(c) == attempts' = [attempts EXCEPT ![c][0] = @ + 1]

\* Mutant: the count goes on when the window has ended.
ConsumeOn(c, key) ==
    LET i == IndexOf(buckets, key)
    IN  IF i = 0
        THEN /\ buckets' = StartWindow(key)
             /\ verdict' = [client |-> c, allowed |-> TRUE]
        ELSE /\ buckets[i].count < MaxCount
             /\ buckets' = [buckets EXCEPT ![i].count = @ + 1]
             /\ verdict' = [client |-> c, allowed |-> buckets[i].count < MaxAttempts]

Consume(c, key) ==
    LET i == IndexOf(buckets, key)
    IN  IF i = 0 \/ Expired(buckets[i])
        THEN /\ buckets' = StartWindow(key)
             /\ verdict' = [client |-> c, allowed |-> TRUE]
        ELSE /\ buckets[i].count < MaxCount
             /\ buckets' = [buckets EXCEPT ![i].count = @ + 1]
             /\ verdict' = [client |-> c, allowed |-> buckets[i].count < MaxAttempts]

\* A client comes through nginx, or to the port with a header of its own.
Ask(c) ==
    /\ attempts[c][0] < MaxCount
    /\ Attempt(c)
    /\ \/ Consume(c, getRequestClientKey(Nginx, c))
       \/ \E header \in Clients \cup {None} : Consume(c, getRequestClientKey(c, header))

\* A login that succeeds.
Forget(key) ==
    /\ IndexOf(buckets, key) # 0
    /\ buckets' = RemoveAt(buckets, IndexOf(buckets, key))
    /\ UNCHANGED <<attempts, verdict>>

LimiterTick ==
    /\ buckets' = [i \in DOMAIN buckets |->
                      [buckets[i] EXCEPT !.age = IF Expired(buckets[i]) THEN @ ELSE @ + 1]]
    /\ attempts' = [c \in Clients |-> [t \in 0 .. WindowTicks - 1 |->
                      IF t = 0 THEN 0 ELSE attempts[c][t - 1]]]
    /\ verdict' = None

LimiterNext ==
    \/ \E c \in Clients : Ask(c)
    \/ \E key \in Addresses : Forget(key)
    \/ LimiterTick

LimiterSpec == LimiterInit /\ [][LimiterNext]_limiterVars

-----------------------------------------------------------------------------
(* Properties                                                              *)

\* "A failed attempt from one client must not lock every administrator out"
\* (LoginRouter): who is refused has used up a window by itself.
RefusedHaveUsedTheirWindow ==
    verdict # None /\ ~verdict.allowed =>
        FoldFunction(+, 0, attempts[verdict.client]) > MaxAttempts

\* The limiter does not grow with the number of its clients.
BucketsAreBounded == Len(buckets) <= MaxBuckets

\* What makes room for a client is, beside windows that have ended, the window
\* that was started first.
OldestWindowGoes ==
    [][\A i \in DOMAIN buckets :
          ~Expired(buckets[i]) /\ IndexOf(buckets', buckets[i].key) = 0
                               /\ Len(buckets') = Len(buckets)
          => \A j \in DOMAIN buckets : buckets[j].age <= buckets[i].age]_limiterVars

=============================================================================
