-------------------------- MODULE AppConfigProofs --------------------------
(***************************************************************************)
(* Proofs about AppConfig, for any number of apps, changes and events: the *)
(* queue of reloads, then what the files and the answers owe to it; and    *)
(* about AppPage, for any tabs and fields, values and tokens, and          *)
(* OneClickPage, for any repositories, requests and deployments.           *)
(***************************************************************************)
EXTENDS AppConfig, AppPage, OneClickPage, SequenceTheorems, TLAPS

\* The changes a state of the queue still owes an answer.
Asked(q) ==
    {c \in Changes : q.serving = c \/ \E i \in 1..Len(q.waiting) : q.waiting[i] = c}

\* A change waits in one place only.
Once(q) ==
    \A i \in 1..Len(q.waiting) :
        q.waiting[i] \in Changes =>
            /\ q.waiting[i] # q.serving
            /\ \A j \in 1..Len(q.waiting) : q.waiting[j] = q.waiting[i] => j = i

QueueOK(q) == q \in ReloadState /\ WellFormed(q) /\ Once(q)

-----------------------------------------------------------------------------
\* The last element of a sequence, and what is left without it.
LEMMA FrontLast ==
    ASSUME NEW S, NEW s \in Seq(S), s # <<>>
    PROVE  /\ Last(s) = s[Len(s)]
           /\ Last(s) \in S
           /\ Front(s) \in Seq(S)
           /\ Len(Front(s)) = Len(s) - 1
           /\ \A i \in 1..Len(Front(s)) : Front(s)[i] = s[i]
<1> DEFINE k == Len(s) - 1
<1>1. Len(s) \in Nat /\ Len(s) > 0 /\ \A i \in 1..Len(s) : s[i] \in S
  OBVIOUS
<1>a. k \in Nat
  BY <1>1
<1>2. /\ k \in Nat
      /\ k \in Int
      /\ 1 \in Int
      /\ Len(s) \in 1..Len(s)
      /\ 1..k \subseteq 1..Len(s)
      /\ k - 1 + 1 = k
  BY <1>1, <1>a
<1>3. Last(s) = s[Len(s)] /\ Last(s) \in S
  BY <1>1, <1>2 DEF Last
<1>4. Front(s) = SubSeq(s, 1, k)
  BY DEF Front
<1>5. \A i \in 1..k : s[i] \in S
  BY <1>1, <1>2
<1> HIDE DEF k
<1>6. /\ SubSeq(s, 1, k) \in Seq(S)
      /\ Len(SubSeq(s, 1, k)) = IF 1 <= k THEN k - 1 + 1 ELSE 0
      /\ \A i \in 1..(k - 1 + 1) : SubSeq(s, 1, k)[i] = s[1 + i - 1]
  BY <1>2, <1>5, SubSeqProperties
<1>7. Len(SubSeq(s, 1, k)) = k
  <2>1. 1 <= k \/ k = 0
    BY <1>a
  <2> QED
    BY <2>1, <1>2, <1>6
<1>8. \A i \in 1..k : 1 + i - 1 = i
  BY <1>2
<1>9. \A i \in 1..k : SubSeq(s, 1, k)[i] = s[i]
  BY <1>2, <1>6, <1>8, Zenon
<1>10. k = Len(s) - 1
  BY DEF k
<1> QED
  BY <1>3, <1>4, <1>6, <1>7, <1>9, <1>10, Zenon

\* A new request: it waits behind the reload in process, or is served at once.
LEMMA PushRequest ==
    ASSUME NEW q, QueueOK(q), NEW r \in Requests, r \notin Asked(q)
    PROVE  LET n == RePopulateNginxConfigFile(q, r)
           IN  /\ QueueOK(n)
               /\ Asked(n) \subseteq Asked(q) \cup {r}
               /\ q.serving # NoRequest =>
                      /\ n.serving = q.serving
                      /\ n.stage = q.stage
                      /\ n.waiting # <<>>
               /\ q.serving = NoRequest =>
                      n.serving = r /\ n.stage = "apps"
<1> DEFINE w == Append(q.waiting, r)
           n == RePopulateNginxConfigFile(q, r)
<1>1. q \in ReloadState /\ WellFormed(q) /\ Once(q)
  BY DEF QueueOK
<1>2. /\ q.waiting \in Seq(Requests)
      /\ q.serving \in Requests \cup {NoRequest}
      /\ q.stage \in Stages
  BY <1>1 DEF ReloadState
<1>3. /\ w \in Seq(Requests)
      /\ Len(w) = Len(q.waiting) + 1
      /\ w # <<>>
      /\ \A i \in 1..Len(q.waiting) : w[i] = q.waiting[i]
      /\ w[Len(w)] = r
  BY <1>2
<1>4. [q EXCEPT !.waiting = Append(@, r)]
        = [waiting |-> w, serving |-> q.serving, stage |-> q.stage]
  BY <1>1 DEF ReloadState
<1>5. NoRequest \notin Requests
  BY PartsAssumption
<1>6. CASE q.serving # NoRequest
  <2>1. n = [waiting |-> w, serving |-> q.serving, stage |-> q.stage]
    BY <1>4, <1>6 DEF RePopulateNginxConfigFile, ConsumeQueue
  <2>2. n \in ReloadState /\ WellFormed(n)
    BY <2>1, <1>1, <1>2, <1>3, <1>6 DEF ReloadState, WellFormed
  <2>3. r \in Changes => r # q.serving /\ \A i \in 1..Len(q.waiting) : q.waiting[i] # r
    BY DEF Asked
  <2>4. Once(n)
    <3>1. SUFFICES ASSUME NEW i \in 1..Len(w), w[i] \in Changes
                   PROVE  /\ w[i] # q.serving
                          /\ \A j \in 1..Len(w) : w[j] = w[i] => j = i
      BY <2>1 DEF Once
    <3>2. CASE i = Len(w)
      <4>1. w[i] = r /\ r \in Changes
        BY <1>3, <3>1, <3>2
      <4>2. ASSUME NEW j \in 1..Len(w), j # Len(w) PROVE w[j] # r
        <5>1. j \in 1..Len(q.waiting)
          BY <1>2, <1>3, <4>2
        <5> QED
          BY <5>1, <4>1, <2>3, <1>3
      <4> QED
        BY <4>1, <4>2, <2>3, <3>2
    <3>3. CASE i # Len(w)
      <4>1. i \in 1..Len(q.waiting) /\ w[i] = q.waiting[i]
        BY <1>2, <1>3, <3>3
      <4>2. ASSUME NEW j \in 1..Len(w), w[j] = w[i] PROVE j = i
        <5>1. CASE j = Len(w)
          BY <5>1, <4>1, <4>2, <1>3, <2>3, <3>1
        <5>2. CASE j # Len(w)
          <6>1. j \in 1..Len(q.waiting) /\ w[j] = q.waiting[j]
            BY <1>2, <1>3, <5>2
          <6> QED
            BY <6>1, <4>1, <4>2, <3>1, <1>1 DEF Once
        <5> QED
          BY <5>1, <5>2
      <4> QED
        BY <4>1, <4>2, <3>1, <1>1 DEF Once
    <3> QED
      BY <3>2, <3>3
  <2>5. Asked(n) \subseteq Asked(q) \cup {r}
    <3>1. SUFFICES ASSUME NEW c \in Changes, NEW i \in 1..Len(w), w[i] = c, c # r
                   PROVE  \E j \in 1..Len(q.waiting) : q.waiting[j] = c
      BY <2>1 DEF Asked
    <3>2. i \in 1..Len(q.waiting)
      BY <3>1, <1>2, <1>3
    <3> QED
      BY <3>1, <3>2, <1>3
  <2>6. n.serving = q.serving /\ n.stage = q.stage /\ n.waiting # <<>>
    BY <2>1, <1>3
  <2> QED
    BY <2>2, <2>4, <2>5, <2>6, <1>6 DEF QueueOK
<1>7. CASE q.serving = NoRequest
  <2>a. q.waiting = <<>>
    BY <1>1, <1>7 DEF WellFormed
  <2>1. Len(w) = 1
    BY <2>a, <1>3
  <2>2. Front(w) = <<>> /\ Last(w) = r
    <3>1. Last(w) = w[Len(w)] /\ Front(w) \in Seq(Requests) /\ Len(Front(w)) = Len(w) - 1
      BY <1>3, FrontLast, Zenon
    <3>2. Front(w) = <<>>
      BY <3>1, <2>1, EmptySeq
    <3> QED
      BY <3>1, <3>2, <2>1, <1>3
  <2>3. n = [waiting |-> <<>>, serving |-> r, stage |-> "apps"]
    BY <1>3, <1>4, <1>7, <2>2 DEF RePopulateNginxConfigFile, ConsumeQueue
  <2>4. n \in ReloadState /\ WellFormed(n)
    BY <2>3, <1>5 DEF ReloadState, WellFormed, Stages
  <2>5. Once(n) /\ Asked(n) \subseteq Asked(q) \cup {r}
    BY <2>3 DEF Once, Asked
  <2> QED
    BY <2>3, <2>4, <2>5, <1>7 DEF QueueOK
<1> QED
  BY <1>6, <1>7

\* A reload ends: whoever it served is answered, and the next one is taken up.
LEMMA UnlockQueue ==
    ASSUME NEW q, QueueOK(q), q.serving # NoRequest
    PROVE  /\ QueueOK(Unlock(q))
           /\ Asked(Unlock(q)) \subseteq Asked(q) \ {q.serving}
           /\ Unlock(q).stage \in {"idle", "apps"}
           /\ q.waiting # <<>> => Unlock(q).stage = "apps"
<1> DEFINE w == q.waiting
<1>1. q \in ReloadState /\ WellFormed(q) /\ Once(q)
  BY DEF QueueOK
<1>2. w \in Seq(Requests)
  BY <1>1 DEF ReloadState
<1>3. NoRequest \notin Requests
  BY PartsAssumption
<1>4. CASE w = <<>>
  <2>1. Unlock(q) = [waiting |-> <<>>, serving |-> NoRequest, stage |-> "idle"]
    BY <1>4 DEF Unlock, ConsumeQueue
  <2>2. Unlock(q) \in ReloadState /\ WellFormed(Unlock(q)) /\ Once(Unlock(q))
    BY <2>1 DEF ReloadState, WellFormed, Once, Stages
  <2>3. Asked(Unlock(q)) = {}
    BY <2>1, ChangesAssumption, <1>3 DEF Asked
  <2> QED
    BY <2>1, <2>2, <2>3, <1>4 DEF QueueOK
<1>5. CASE w # <<>>
  <2>1. Unlock(q) = [waiting |-> Front(w), serving |-> Last(w), stage |-> "apps"]
    BY <1>5 DEF Unlock, ConsumeQueue
  <2>2. /\ Last(w) = w[Len(w)]
        /\ Last(w) \in Requests
        /\ Front(w) \in Seq(Requests)
        /\ Len(Front(w)) = Len(w) - 1
        /\ \A i \in 1..Len(Front(w)) : Front(w)[i] = w[i]
    BY <1>2, <1>5, FrontLast, Zenon
  <2>3. Len(w) \in Nat /\ Len(w) \in 1..Len(w)
    BY <1>2, <1>5
  <2>4. Unlock(q) \in ReloadState /\ WellFormed(Unlock(q))
    BY <2>1, <2>2, <1>3 DEF ReloadState, WellFormed, Stages
  <2>5. Once(Unlock(q))
    <3>1. SUFFICES ASSUME NEW i \in 1..Len(Front(w)), Front(w)[i] \in Changes
                   PROVE  /\ Front(w)[i] # Last(w)
                          /\ \A j \in 1..Len(Front(w)) :
                                Front(w)[j] = Front(w)[i] => j = i
      BY <2>1 DEF Once
    <3>2. i \in 1..Len(w) /\ i # Len(w) /\ Front(w)[i] = w[i]
      BY <2>2, <2>3, <3>1
    <3>3. \A j \in 1..Len(w) : w[j] = w[i] => j = i
      BY <3>1, <3>2, <1>1 DEF Once
    <3> QED
      BY <3>2, <3>3, <2>2, <2>3
  <2>6. Asked(Unlock(q)) \subseteq Asked(q) \ {q.serving}
    <3>1. SUFFICES ASSUME NEW c \in Changes,
                          Last(w) = c \/ \E i \in 1..Len(Front(w)) : Front(w)[i] = c
                   PROVE  c \in Asked(q) /\ c # q.serving
      BY <2>1 DEF Asked
    <3>2. PICK i \in 1..Len(w) : w[i] = c
      BY <3>1, <2>2, <2>3
    <3> QED
      BY <3>2, <1>1 DEF Once, Asked
  <2> QED
    BY <2>1, <2>4, <2>5, <2>6 DEF QueueOK
<1> QED
  BY <1>4, <1>5

-----------------------------------------------------------------------------
(* Types, and who waits for what                                           *)

\* A change is asked for only while it waits for its reload.
AskedAreReloading == \A c \in Asked(reload) : status[c] = "reloading"

FutureUnused == \A c \in Changes : c > changes => status[c] = "unused"

\* Only apps have a service to update before the reload.
OnlyAppsUpdate ==
    \A c \in Changes : status[c] \in {"checking", "updating"} => part[c] \in Apps

DownIsIdle ==
    process = "down" => reload = Idle /\ \A c \in Changes : status[c] \notin Open

QueueInv ==
    /\ TypeOK
    /\ Once(reload)
    /\ AskedAreReloading
    /\ FutureUnused
    /\ OnlyAppsUpdate
    /\ DownIsIdle

LEMMA RewrittenIsContent ==
    ASSUME TypeOK, NEW p \in Parts, NEW t \in Content
    PROVE  Rewritten(p, t) \in Content /\ Rewritten(p, t).rev = definitions[p].rev + 1
BY DEF TypeOK, ReloadTypeOK, Rewritten, Content

LEMMA WriteKeepsTypes ==
    ASSUME TypeOK, NEW p \in Parts, NEW t \in Content, Write(p, t)
    PROVE  definitions' \in [Parts -> Content]
<1>1. definitions \in [Parts -> Content]
  BY DEF TypeOK, ReloadTypeOK
<1> QED
  BY <1>1, RewrittenIsContent DEF Write

LEMMA QueueIsOK ==
    ASSUME QueueInv
    PROVE  QueueOK(reload)
BY DEF QueueInv, QueueOK, TypeOK, ReloadTypeOK

LEMMA ChangesAreRequests ==
    /\ Changes \subseteq Requests
    /\ Startup \in Requests /\ Startup \notin Changes
    /\ Nobody \in Requests /\ Nobody \notin Changes
    /\ NoRequest \notin Requests
    /\ NoRequest \notin Changes
    /\ Startup # Nobody
    /\ MaxChanges \in Nat /\ MaxEvents \in Nat
BY ChangesAssumption, PartsAssumption

\* What arrives is well typed, and was unused.
LEMMA ArrivalTypes ==
    ASSUME QueueInv, NEW k \in Kinds, NEW p \in Parts, NEW t \in Content,
           NEW s \in Statuses, NEW rev \in Nat, Arrives(k, p, t, s, rev)
    PROVE  /\ process = "up"
           /\ changes + 1 \in Changes
           /\ changes' = changes + 1
           /\ changes' \in 0..MaxChanges
           /\ kind' \in [Changes -> Kinds]
           /\ part' \in [Changes -> Parts]
           /\ status' \in [Changes -> Statuses]
           /\ copy' \in [Changes -> Content]
           /\ wrote' \in [Changes -> Nat]
           /\ saved' = saved
           /\ status[changes + 1] = "unused"
           /\ status'[changes + 1] = s
           /\ part'[changes + 1] = p
           /\ wrote'[changes + 1] = rev
           /\ changes + 1 \notin Asked(reload)
           /\ \A c \in Changes : c # changes + 1 =>
                  /\ status'[c] = status[c]
                  /\ part'[c] = part[c]
                  /\ wrote'[c] = wrote[c]
<1>1. TypeOK /\ AskedAreReloading /\ FutureUnused
  BY DEF QueueInv
<1>2. /\ process = "up"
      /\ changes + 1 \in Changes
      /\ changes' = changes + 1
      /\ kind' = [kind EXCEPT ![changes + 1] = k]
      /\ part' = [part EXCEPT ![changes + 1] = p]
      /\ copy' = [copy EXCEPT ![changes + 1] = t]
      /\ status' = [status EXCEPT ![changes + 1] = s]
      /\ wrote' = [wrote EXCEPT ![changes + 1] = rev]
      /\ saved' = saved
  BY DEF Arrives
<1>3. /\ changes \in 0..MaxChanges
      /\ kind \in [Changes -> Kinds]
      /\ part \in [Changes -> Parts]
      /\ status \in [Changes -> Statuses]
      /\ copy \in [Changes -> Content]
      /\ wrote \in [Changes -> Nat]
  BY <1>1 DEF TypeOK
<1>4. changes' \in 0..MaxChanges /\ changes + 1 > changes
  BY <1>2, <1>3, ChangesAreRequests DEF Changes
<1>5. status[changes + 1] = "unused"
  BY <1>1, <1>2, <1>4 DEF FutureUnused
<1>6. changes + 1 \notin Asked(reload)
  BY <1>1, <1>5 DEF AskedAreReloading
<1>7. /\ kind' \in [Changes -> Kinds]
      /\ part' \in [Changes -> Parts]
      /\ copy' \in [Changes -> Content]
  BY <1>2, <1>3
<1>8. /\ status' \in [Changes -> Statuses]
      /\ wrote' \in [Changes -> Nat]
      /\ status'[changes + 1] = s
      /\ part'[changes + 1] = p
      /\ wrote'[changes + 1] = rev
  BY <1>2, <1>3
<1>9. \A c \in Changes : c # changes + 1 =>
          /\ status'[c] = status[c]
          /\ part'[c] = part[c]
          /\ wrote'[c] = wrote[c]
  BY <1>2, <1>3
<1> QED
  BY <1>2, <1>4, <1>5, <1>6, <1>7, <1>8, <1>9, Zenon

\* What is answered is well typed.
LEMMA EndTypes ==
    ASSUME QueueInv, NEW c \in Changes, NEW s \in Statuses, Ended(c, s)
    PROVE  /\ kind' \in [Changes -> Kinds]
           /\ part' \in [Changes -> Parts]
           /\ status' \in [Changes -> Statuses]
           /\ copy' \in [Changes -> Content]
           /\ wrote' \in [Changes -> Nat]
           /\ status'[c] = s
           /\ \A d \in Changes : d # c =>
                  /\ status'[d] = status[d]
                  /\ part'[d] = part[d]
                  /\ wrote'[d] = wrote[d]
<1>1. /\ kind \in [Changes -> Kinds]
      /\ part \in [Changes -> Parts]
      /\ status \in [Changes -> Statuses]
      /\ copy \in [Changes -> Content]
      /\ wrote \in [Changes -> Nat]
  BY DEF QueueInv, TypeOK
<1>2. System \in Parts /\ Blank \in Content /\ "none" \in Kinds
  BY DEF Parts, Blank, Content, Kinds
<1> QED
  BY <1>1, <1>2 DEF Ended

\* What is to be shown of the queue after a step that leaves it as q.
LEMMA NextQueue ==
    ASSUME NEW q, QueueOK(q), reload' = q,
           \A c \in Asked(q) : status'[c] = "reloading"
    PROVE  /\ reload' \in ReloadState
           /\ WellFormed(reload)'
           /\ Once(reload)'
           /\ AskedAreReloading'
BY DEF QueueOK, Once, WellFormed, AskedAreReloading, Asked

\* The process dies in good order.
LEMMA DeathKeepsQueueInv ==
    ASSUME QueueInv, Dies,
           definitions' = definitions,
           files' \in [Files -> Content],
           loaded' \in [Files -> Content],
           events' \in 0..MaxEvents,
           UNCHANGED <<changes, saved>>
    PROVE  QueueInv'
<1>1. TypeOK /\ FutureUnused
  BY DEF QueueInv
<1>2. /\ status \in [Changes -> Statuses]
      /\ definitions \in [Parts -> Content]
  BY <1>1 DEF TypeOK, ReloadTypeOK
<1>3. System \in Parts /\ Blank \in Content /\ "none" \in Kinds
  BY DEF Parts, Blank, Content, Kinds
<1>4. /\ kind' \in [Changes -> Kinds]
      /\ part' \in [Changes -> Parts]
      /\ copy' \in [Changes -> Content]
      /\ wrote' \in [Changes -> Nat]
  BY <1>3 DEF Dies
<1>5. status' = [c \in Changes |-> IF status[c] \in Open THEN "failed" ELSE status[c]]
  BY DEF Dies
<1>6. status' \in [Changes -> Statuses]
  BY <1>2, <1>5 DEF Statuses
<1>7. \A c \in Changes : status'[c] \notin Open
  BY <1>5 DEF Open
<1>8. reload' = Idle
  BY DEF Dies
<1>9. QueueOK(Idle) /\ Asked(Idle) = {}
  <2>1. NoRequest \notin Changes
    BY ChangesAreRequests
  <2> QED
    BY <2>1 DEF QueueOK, Idle, ReloadState, Stages, WellFormed, Once, Asked
<1>10. /\ reload' \in ReloadState
       /\ WellFormed(reload)'
       /\ Once(reload)'
       /\ AskedAreReloading'
  BY <1>8, <1>9, NextQueue
<1>11. TypeOK'
  <2>1. missed' \subseteq Parts /\ process' = "down"
    BY DEF Dies
  <2>2. ReloadTypeOK'
    BY <1>2, <1>10 DEF ReloadTypeOK
  <2>3. changes' \in 0..MaxChanges /\ saved' \in [Parts -> 0..MaxChanges]
    BY <1>1 DEF TypeOK
  <2> QED
    BY <1>4, <1>6, <2>1, <2>2, <2>3 DEF TypeOK
<1>12. FutureUnused'
  <2>1. SUFFICES ASSUME NEW c \in Changes, c > changes PROVE status'[c] = "unused"
    BY DEF FutureUnused
  <2>2. status[c] = "unused"
    BY <1>1, <2>1 DEF FutureUnused
  <2> QED
    BY <1>5, <2>2 DEF Open
<1>13. OnlyAppsUpdate'
  BY <1>7 DEF OnlyAppsUpdate, Open
<1>14. DownIsIdle'
  BY <1>7, <1>8 DEF DownIsIdle
<1> QED
  BY <1>10, <1>11, <1>12, <1>13, <1>14 DEF QueueInv

LEMMA InitQueueInv == Init => QueueInv
<1>1. SUFFICES ASSUME Init PROVE QueueInv
  OBVIOUS
<1>2. reload = Idle /\ QueueOK(Idle) /\ Asked(Idle) = {}
  <2>1. NoRequest \notin Changes
    BY ChangesAreRequests
  <2> QED
    BY <1>1, <2>1
    DEF Init, ReloadInit, QueueOK, Idle, ReloadState, Stages, WellFormed, Once, Asked
<1>3. ReloadTypeOK
  BY <1>1, <1>2 DEF Init, ReloadInit, ReloadTypeOK, QueueOK, Blank, Content
<1>4. TypeOK
  <2>1. 0 \in 0..MaxChanges /\ 0 \in 0..MaxEvents
    BY ChangesAreRequests
  <2>2. System \in Parts /\ Blank \in Content
    BY DEF Parts, Blank, Content
  <2> QED
    BY <1>1, <1>3, <2>1, <2>2 DEF Init, TypeOK, Kinds, Statuses
<1>5. Once(reload) /\ AskedAreReloading
  BY <1>2 DEF QueueOK, AskedAreReloading
<1>6. FutureUnused /\ OnlyAppsUpdate /\ DownIsIdle
  BY <1>1 DEF Init, FutureUnused, OnlyAppsUpdate, DownIsIdle
<1> QED
  BY <1>4, <1>5, <1>6 DEF QueueInv

\* An operation that has something to ask before it writes.
LEMMA StartKeepsQueueInv ==
    ASSUME QueueInv, NEW a \in Apps, NEW k \in Kinds, NEW t \in Content,
           Arrives(k, a, t, "checking", 0),
           UNCHANGED <<definitions, files, loaded, reload, process, missed, events>>
    PROVE  QueueInv'
<1>1. a \in Parts /\ "checking" \in Statuses /\ 0 \in Nat
  BY DEF Parts, Statuses
<1>2. /\ process = "up"
      /\ changes + 1 \in Changes
      /\ changes' = changes + 1
      /\ changes' \in 0..MaxChanges
      /\ kind' \in [Changes -> Kinds]
      /\ part' \in [Changes -> Parts]
      /\ status' \in [Changes -> Statuses]
      /\ copy' \in [Changes -> Content]
      /\ wrote' \in [Changes -> Nat]
      /\ saved' = saved
      /\ part'[changes + 1] = a
      /\ changes + 1 \notin Asked(reload)
      /\ \A c \in Changes : c # changes + 1 =>
             status'[c] = status[c] /\ part'[c] = part[c]
  BY <1>1, ArrivalTypes, Zenon
<1>3. TypeOK /\ AskedAreReloading /\ FutureUnused /\ OnlyAppsUpdate
  BY DEF QueueInv
<1>4. TypeOK'
  BY <1>2, <1>3 DEF TypeOK, ReloadTypeOK, WellFormed
<1>5. Once(reload)' /\ AskedAreReloading'
  <2>1. \A c \in Asked(reload) : status'[c] = "reloading"
    BY <1>2, <1>3 DEF AskedAreReloading, Asked
  <2> QED
    BY <2>1, QueueIsOK, NextQueue
<1>6. FutureUnused'
  BY <1>2, <1>3 DEF FutureUnused, TypeOK, Changes
<1>7. OnlyAppsUpdate'
  BY <1>2, <1>3 DEF OnlyAppsUpdate
<1>8. DownIsIdle'
  BY <1>2 DEF DownIsIdle
<1> QED
  BY <1>4, <1>5, <1>6, <1>7, <1>8 DEF QueueInv

\* An operation that writes at once and asks for its reload.
LEMMA WriteKeepsQueueInv ==
    ASSUME QueueInv, NEW k \in Kinds, NEW p \in Parts, NEW t \in Content,
           NEW u \in Content, NEW rev \in Nat,
           Arrives(k, p, t, "reloading", rev),
           Write(p, u),
           reload' = RePopulateNginxConfigFile(reload, changes + 1),
           UNCHANGED <<files, loaded, process, missed, events>>
    PROVE  QueueInv'
<1> DEFINE r == changes + 1
<1>3. TypeOK /\ AskedAreReloading /\ FutureUnused /\ OnlyAppsUpdate
  BY DEF QueueInv
<1>1. "reloading" \in Statuses
  BY DEF Statuses
<1>2. /\ process = "up"
      /\ r \in Changes
      /\ changes' = r
      /\ changes' \in 0..MaxChanges
      /\ kind' \in [Changes -> Kinds]
      /\ part' \in [Changes -> Parts]
      /\ status' \in [Changes -> Statuses]
      /\ copy' \in [Changes -> Content]
      /\ wrote' \in [Changes -> Nat]
      /\ saved' = saved
      /\ status'[r] = "reloading"
      /\ r \notin Asked(reload)
      /\ \A c \in Changes : c # r =>
             status'[c] = status[c] /\ part'[c] = part[c]
  BY <1>1, ArrivalTypes, Zenon
<1> DEFINE n == RePopulateNginxConfigFile(reload, r)
<1>4. QueueOK(n) /\ Asked(n) \subseteq Asked(reload) \cup {r}
  BY <1>2, QueueIsOK, PushRequest, ChangesAreRequests
<1>5. \A c \in Asked(n) : status'[c] = "reloading"
  <2>1. \A c \in Asked(reload) : c \in Changes /\ status[c] = "reloading"
    BY <1>3 DEF AskedAreReloading, Asked
  <2> HIDE DEF n, r
  <2> QED
    BY <1>2, <1>4, <2>1
<1>6. /\ reload' \in ReloadState
      /\ WellFormed(reload)'
      /\ Once(reload)'
      /\ AskedAreReloading'
  <2>1. reload' = n
    OBVIOUS
  <2> HIDE DEF n
  <2> QED
    BY <1>4, <1>5, <2>1, NextQueue
<1>7. TypeOK'
  <2>1. definitions' \in [Parts -> Content]
    BY <1>3, WriteKeepsTypes
  <2> QED
    BY <1>2, <1>3, <1>6, <2>1 DEF TypeOK, ReloadTypeOK
<1>8. FutureUnused'
  <2>1. SUFFICES ASSUME NEW c \in Changes, c > changes' PROVE status'[c] = "unused"
    BY DEF FutureUnused
  <2>2. changes \in Nat /\ c \in Nat /\ changes' = changes + 1
    BY <1>2, <1>3, ChangesAreRequests DEF TypeOK, Changes
  <2>3. c > changes /\ c # r
    BY <2>1, <2>2
  <2> QED
    BY <1>2, <1>3, <2>3 DEF FutureUnused
<1>9. OnlyAppsUpdate'
  BY <1>2, <1>3 DEF OnlyAppsUpdate
<1>10. DownIsIdle'
  BY <1>2 DEF DownIsIdle
<1> QED
  BY <1>6, <1>7, <1>8, <1>9, <1>10 DEF QueueInv

\* A change is answered, and the queue owes it nothing more.
LEMMA EndKeepsQueueInv ==
    ASSUME QueueInv, NEW c \in Changes, NEW s \in {"ok", "failed"},
           Ended(c, s), status[c] \in Open,
           NEW q, QueueOK(q), Asked(q) \subseteq Asked(reload) \ {c}, reload' = q,
           definitions' \in [Parts -> Content],
           files' \in [Files -> Content],
           loaded' \in [Files -> Content],
           missed' \subseteq Parts,
           UNCHANGED <<changes, saved, process, events>>
    PROVE  QueueInv'
<1>1. /\ TypeOK /\ AskedAreReloading /\ FutureUnused /\ OnlyAppsUpdate
      /\ DownIsIdle
  BY DEF QueueInv
<1>2. s \in Statuses
  BY DEF Statuses
<1>3. /\ kind' \in [Changes -> Kinds]
      /\ part' \in [Changes -> Parts]
      /\ status' \in [Changes -> Statuses]
      /\ copy' \in [Changes -> Content]
      /\ wrote' \in [Changes -> Nat]
      /\ status'[c] = s
      /\ \A d \in Changes : d # c => status'[d] = status[d] /\ part'[d] = part[d]
  BY <1>2, EndTypes
<1>4. /\ reload' \in ReloadState
      /\ WellFormed(reload)'
      /\ Once(reload)'
      /\ AskedAreReloading'
  <2>1. \A d \in Asked(q) : status'[d] = "reloading"
    BY <1>1, <1>3 DEF AskedAreReloading, Asked
  <2> QED
    BY <2>1, NextQueue
<1>5. TypeOK'
  BY <1>1, <1>3, <1>4 DEF TypeOK, ReloadTypeOK
<1>6. FutureUnused'
  BY <1>1, <1>3 DEF FutureUnused, Open
<1>7. OnlyAppsUpdate'
  BY <1>1, <1>3 DEF OnlyAppsUpdate
<1>8. process # "down"
  BY <1>1 DEF DownIsIdle
<1>9. DownIsIdle'
  BY <1>8 DEF DownIsIdle
<1> QED
  BY <1>4, <1>5, <1>6, <1>7, <1>9 DEF QueueInv

\* The queue moves on and no change does.
LEMMA MoveKeepsQueueInv ==
    ASSUME QueueInv,
           NEW q, QueueOK(q), Asked(q) \subseteq Asked(reload), reload' = q,
           files' \in [Files -> Content],
           loaded' \in [Files -> Content],
           missed' \subseteq Parts,
           process' \in {"up", "starting"},
           events' \in 0..MaxEvents,
           UNCHANGED <<definitions, changeVars>>
    PROVE  QueueInv'
<1>1. TypeOK /\ AskedAreReloading /\ FutureUnused /\ OnlyAppsUpdate
  BY DEF QueueInv
<1>2. /\ reload' \in ReloadState
      /\ WellFormed(reload)'
      /\ Once(reload)'
      /\ AskedAreReloading'
  <2>1. \A d \in Asked(q) : status'[d] = "reloading"
    BY <1>1 DEF AskedAreReloading, Asked, changeVars
  <2> QED
    BY <2>1, NextQueue
<1>3. TypeOK'
  BY <1>1, <1>2 DEF TypeOK, ReloadTypeOK, changeVars
<1>4. FutureUnused' /\ OnlyAppsUpdate'
  BY <1>1 DEF FutureUnused, OnlyAppsUpdate, changeVars
<1>5. DownIsIdle'
  BY DEF DownIsIdle
<1> QED
  BY <1>2, <1>3, <1>4, <1>5 DEF QueueInv

\* Not even an idle queue is asked by somebody who has not written.
LEMMA OthersMayAsk ==
    ASSUME NEW q, QueueOK(q), NEW r \in {Startup, Nobody}
    PROVE  /\ QueueOK(RePopulateNginxConfigFile(q, r))
           /\ Asked(RePopulateNginxConfigFile(q, r)) \subseteq Asked(q)
<1>1. r \in Requests /\ r \notin Changes /\ r \notin Asked(q)
  BY ChangesAreRequests DEF Asked
<1> DEFINE n == RePopulateNginxConfigFile(q, r)
<1>2. QueueOK(n) /\ Asked(n) \subseteq Asked(q) \cup {r}
  BY <1>1, PushRequest
<1>3. Asked(n) \subseteq Changes
  BY DEF Asked
<1> HIDE DEF n
<1>4. QueueOK(n) /\ Asked(n) \subseteq Asked(q)
  BY <1>1, <1>2, <1>3
<1> QED
  BY <1>4 DEF n

\* The files stay well typed whatever is rendered.
LEMMA RenderKeepsTypes ==
    ASSUME TypeOK, NEW fs, Render(fs)
    PROVE  files' \in [Files -> Content]
<1>1. \A f \in Files : Source(f) \in Parts
  BY DEF Files, Source, Parts
<1>2. definitions \in [Parts -> Content] /\ files \in [Files -> Content]
  BY DEF TypeOK, ReloadTypeOK
<1> QED
  BY <1>1, <1>2 DEF Render

LEMMA SaveKeepsQueueInv ==
    ASSUME QueueInv, NEW c \in Changes, SaveDefinition(c)
    PROVE  QueueInv'
<1>1. /\ TypeOK /\ AskedAreReloading /\ FutureUnused /\ OnlyAppsUpdate
      /\ DownIsIdle
  BY DEF QueueInv
<1>2. /\ definitions \in [Parts -> Content]
      /\ part \in [Changes -> Parts]
      /\ status \in [Changes -> Statuses]
      /\ copy \in [Changes -> Content]
      /\ wrote \in [Changes -> Nat]
      /\ saved \in [Parts -> 0..MaxChanges]
  BY <1>1 DEF TypeOK, ReloadTypeOK
<1>3. /\ status[c] = "checking"
      /\ Write(part[c], copy[c])
      /\ copy' = [copy EXCEPT ![c] = definitions[part[c]]]
      /\ wrote' = [wrote EXCEPT ![c] = definitions[part[c]].rev + 1]
      /\ status' = [status EXCEPT ![c] = "updating"]
      /\ saved' = IF kind[c] = "update" THEN [saved EXCEPT ![part[c]] = c] ELSE saved
      /\ UNCHANGED <<files, loaded, reload, changes, kind, part, process, missed,
                     events>>
  BY DEF SaveDefinition
<1>4. part[c] \in Parts /\ copy[c] \in Content /\ definitions[part[c]] \in Content
  BY <1>2
<1>5. definitions[part[c]].rev + 1 \in Nat
  BY <1>4 DEF Content
<1>6. definitions' \in [Parts -> Content]
  BY <1>1, <1>3, <1>4, WriteKeepsTypes
<1>7. /\ copy' \in [Changes -> Content]
      /\ wrote' \in [Changes -> Nat]
  BY <1>2, <1>3, <1>4, <1>5
<1>8. /\ status' \in [Changes -> Statuses]
      /\ status'[c] = "updating"
      /\ \A d \in Changes : d # c => status'[d] = status[d]
  BY <1>2, <1>3 DEF Statuses
<1>9. saved' \in [Parts -> 0..MaxChanges]
  <2>1. c \in 0..MaxChanges
    BY ChangesAreRequests DEF Changes
  <2> QED
    BY <2>1, <1>2, <1>3
<1>10. TypeOK'
  BY <1>1, <1>3, <1>6, <1>7, <1>8, <1>9 DEF TypeOK, ReloadTypeOK, WellFormed
<1>11. Once(reload)' /\ AskedAreReloading'
  <2>1. \A d \in Asked(reload) : status'[d] = "reloading"
    BY <1>1, <1>3, <1>8 DEF AskedAreReloading, Asked
  <2> QED
    BY <2>1, <1>3, QueueIsOK, NextQueue
<1>12. FutureUnused'
  BY <1>1, <1>3, <1>8 DEF FutureUnused
<1>13. OnlyAppsUpdate'
  BY <1>1, <1>3, <1>8 DEF OnlyAppsUpdate
<1>14. DownIsIdle'
  BY <1>1, <1>3 DEF DownIsIdle, Open
<1> QED
  BY <1>10, <1>11, <1>12, <1>13, <1>14 DEF QueueInv

LEMMA UpdatedKeepsQueueInv ==
    ASSUME QueueInv, NEW c \in Changes, ServiceUpdated(c)
    PROVE  QueueInv'
<1> DEFINE n == RePopulateNginxConfigFile(reload, c)
<1>1. /\ TypeOK /\ AskedAreReloading /\ FutureUnused /\ OnlyAppsUpdate
      /\ DownIsIdle
  BY DEF QueueInv
<1>2. /\ status[c] = "updating"
      /\ status' = [status EXCEPT ![c] = "reloading"]
      /\ reload' = n
      /\ UNCHANGED <<definitions, files, loaded, changes, kind, part, copy,
                     wrote, saved, process, missed, events>>
  BY DEF ServiceUpdated
<1>3. status \in [Changes -> Statuses]
  BY <1>1 DEF TypeOK
<1>4. /\ status' \in [Changes -> Statuses]
      /\ status'[c] = "reloading"
      /\ \A d \in Changes : d # c => status'[d] = status[d]
  BY <1>2, <1>3 DEF Statuses
<1>5. c \notin Asked(reload)
  BY <1>1, <1>2 DEF AskedAreReloading
<1>6. QueueOK(n) /\ Asked(n) \subseteq Asked(reload) \cup {c}
  BY <1>5, QueueIsOK, PushRequest, ChangesAreRequests
<1>7. \A d \in Asked(n) : status'[d] = "reloading"
  <2>1. \A d \in Asked(reload) : d \in Changes /\ status[d] = "reloading"
    BY <1>1 DEF AskedAreReloading, Asked
  <2> HIDE DEF n
  <2> QED
    BY <1>4, <1>6, <2>1
<1>8. /\ reload' \in ReloadState
      /\ WellFormed(reload)'
      /\ Once(reload)'
      /\ AskedAreReloading'
  <2> HIDE DEF n
  <2> QED
    BY <1>2, <1>6, <1>7, NextQueue
<1>9. TypeOK'
  BY <1>1, <1>2, <1>4, <1>8 DEF TypeOK, ReloadTypeOK
<1>10. FutureUnused'
  BY <1>1, <1>2, <1>4 DEF FutureUnused
<1>11. OnlyAppsUpdate'
  BY <1>1, <1>2, <1>4 DEF OnlyAppsUpdate
<1>12. DownIsIdle'
  BY <1>1, <1>2 DEF DownIsIdle, Open
<1> QED
  BY <1>8, <1>9, <1>10, <1>11, <1>12 DEF QueueInv

\* A reload in process serves somebody, and the process is there.
LEMMA BusyReload ==
    ASSUME QueueInv, reload.stage # "idle"
    PROVE  reload.serving # NoRequest /\ process # "down"
BY DEF QueueInv, TypeOK, ReloadTypeOK, WellFormed, DownIsIdle, Idle

\* Whom a reload serves waits for it.
LEMMA ServedIsOpen ==
    ASSUME QueueInv, NEW c \in Changes, reload.serving = c
    PROVE  status[c] = "reloading" /\ status[c] \in Open
BY DEF QueueInv, AskedAreReloading, Asked, Open

\* A step of rendering keeps the queue, but for the stage.
LEMMA RenderKeepsQueueInv ==
    ASSUME QueueInv, RenderStep
    PROVE  QueueInv'
<1>1. TypeOK /\ Once(reload)
  BY DEF QueueInv
<1>2. ASSUME NEW s \in Stages \ {"idle"}, NEW fs,
             reload.stage # "idle",
             Render(fs),
             reload' = [reload EXCEPT !.stage = s],
             missed' \subseteq missed,
             UNCHANGED <<loaded, definitions, changeVars, process, events>>
      PROVE  QueueInv'
  <2>1. reload.serving # NoRequest /\ process # "down"
    BY <1>2, BusyReload
  <2>2. reload \in ReloadState
    BY <1>1 DEF TypeOK, ReloadTypeOK
  <2> DEFINE q == [waiting |-> reload.waiting, serving |-> reload.serving, stage |-> s]
  <2>3. reload' = q
    BY <1>2, <2>2 DEF ReloadState
  <2>4. QueueOK(q) /\ Asked(q) = Asked(reload)
    BY <1>1, <1>2, <2>1, <2>2 DEF QueueOK, ReloadState, WellFormed, Once, Asked
  <2>5. files' \in [Files -> Content]
    BY <1>1, <1>2, RenderKeepsTypes
  <2>6. /\ loaded' \in [Files -> Content]
        /\ missed' \subseteq Parts
        /\ process' \in {"up", "starting"}
        /\ events' \in 0..MaxEvents
    BY <1>1, <1>2, <2>1 DEF TypeOK, ReloadTypeOK
  <2> HIDE DEF q
  <2> QED
    BY <1>2, <2>3, <2>4, <2>5, <2>6, MoveKeepsQueueInv
<1>3. {"base", "captain", "test"} \subseteq Stages \ {"idle"}
  BY DEF Stages
<1>4. UNCHANGED <<definitions, changeVars, process, events>>
  BY DEF RenderStep
<1>5. CASE RenderApps /\ missed' = missed \ Apps
  BY <1>2, <1>3, <1>4, <1>5 DEF RenderApps, GoTo
<1>6. CASE EnsureBaseNginxConf /\ missed' = missed
  BY <1>2, <1>3, <1>4, <1>6 DEF EnsureBaseNginxConf, GoTo
<1>7. CASE CreateRootConfFile /\ missed' = missed \ {System}
  BY <1>2, <1>3, <1>4, <1>7 DEF CreateRootConfFile, GoTo
<1> QED
  BY <1>5, <1>6, <1>7 DEF RenderStep

LEMMA SucceedsKeepsQueueInv ==
    ASSUME QueueInv, Succeeds
    PROVE  QueueInv'
<1> DEFINE q == Unlock(reload)
<1>1. TypeOK
  BY DEF QueueInv
<1>2. /\ reload.stage = "test"
      /\ loaded' = files
      /\ files' = files
      /\ reload' = q
      /\ UNCHANGED <<definitions, changes, saved, missed, events>>
  BY DEF Succeeds, ValidateNginxConfigAndReload
<1>3. reload.serving # NoRequest /\ process # "down"
  BY <1>2, BusyReload
<1>4. QueueOK(q) /\ Asked(q) \subseteq Asked(reload) \ {reload.serving}
  BY <1>3, QueueIsOK, UnlockQueue
<1>5. /\ files' \in [Files -> Content]
      /\ loaded' \in [Files -> Content]
      /\ definitions' \in [Parts -> Content]
      /\ missed' \subseteq Parts
      /\ events' \in 0..MaxEvents
      /\ process \in {"up", "starting"}
  BY <1>1, <1>2, <1>3 DEF TypeOK, ReloadTypeOK
<1> HIDE DEF q
<1>6. ASSUME NEW c \in Changes, reload.serving = c, Ended(c, "ok"), process' = process
      PROVE  QueueInv'
  <2>1. status[c] \in Open
    BY <1>6, ServedIsOpen
  <2> QED
    BY <2>1, <1>2, <1>4, <1>5, <1>6, EndKeepsQueueInv
<1>7. ASSUME process' \in {"up", process}, UNCHANGED chainVars
      PROVE  QueueInv'
  <2>1. UNCHANGED changeVars /\ process' \in {"up", "starting"}
    BY <1>2, <1>5, <1>7 DEF changeVars, chainVars
  <2> QED
    BY <2>1, <1>2, <1>4, <1>5, MoveKeepsQueueInv
<1> QED
  BY <1>6, <1>7 DEF Succeeds

LEMMA RefusesKeepsQueueInv ==
    ASSUME QueueInv, Refuses
    PROVE  QueueInv'
<1> DEFINE q == Unlock(reload)
<1>1. TypeOK
  BY DEF QueueInv
<1>2. /\ reload.stage = "test"
      /\ UNCHANGED <<files, loaded, changes, saved, events>>
  BY DEF Refuses, ValidationFails
<1>3. reload.serving # NoRequest /\ process # "down"
  BY <1>2, BusyReload
<1>4. QueueOK(q) /\ Asked(q) \subseteq Asked(reload) \ {reload.serving}
  BY <1>3, QueueIsOK, UnlockQueue
<1>5. /\ files' \in [Files -> Content]
      /\ loaded' \in [Files -> Content]
      /\ definitions \in [Parts -> Content]
      /\ missed \subseteq Parts
      /\ events' \in 0..MaxEvents
      /\ process \in {"up", "starting"}
  BY <1>1, <1>2, <1>3 DEF TypeOK, ReloadTypeOK
<1>6. ASSUME NEW c \in Changes, reload.serving = c, Ended(c, "failed"), Revert(c),
             UNCHANGED <<process, missed>>
      PROVE  QueueInv'
  <2>1. status[c] \in Open
    BY <1>6, ServedIsOpen
  <2>2. part[c] \in Parts /\ copy[c] \in Content
    BY <1>1 DEF TypeOK
  <2>3. definitions' \in [Parts -> Content]
    BY <1>1, <1>6, <2>2, WriteKeepsTypes DEF Revert
  <2> DEFINE n == RePopulateNginxConfigFile(q, Nobody)
  <2>4. reload' = n
    BY <1>6 DEF Revert
  <2>5. QueueOK(n) /\ Asked(n) \subseteq Asked(q)
    <3> HIDE DEF q
    <3> QED
      BY <1>4, OthersMayAsk
  <2> HIDE DEF n, q
  <2>6. Asked(n) \subseteq Asked(reload) \ {c}
    BY <1>4, <1>6, <2>5
  <2> QED
    BY <2>1, <2>3, <2>4, <2>5, <2>6, <1>2, <1>5, <1>6, EndKeepsQueueInv
<1>7. ASSUME NEW c \in Changes, reload.serving = c, Ended(c, "failed"), reload' = q,
             UNCHANGED <<definitions, process, missed>>
      PROVE  QueueInv'
  <2>1. status[c] \in Open
    BY <1>7, ServedIsOpen
  <2> HIDE DEF q
  <2> QED
    BY <2>1, <1>2, <1>4, <1>5, <1>7, EndKeepsQueueInv
<1>8. ASSUME Dies, UNCHANGED definitions
      PROVE  QueueInv'
  BY <1>2, <1>5, <1>8, DeathKeepsQueueInv
<1>9. ASSUME reload' = q, UNCHANGED <<definitions, process, chainVars, missed>>
      PROVE  QueueInv'
  <2>1. UNCHANGED changeVars
    BY <1>2, <1>9 DEF changeVars, chainVars
  <2> HIDE DEF q
  <2> QED
    BY <2>1, <1>2, <1>4, <1>5, <1>9, MoveKeepsQueueInv
<1> QED
  BY <1>6, <1>7, <1>8, <1>9 DEF Refuses

LEMMA BreaksKeepsQueueInv ==
    ASSUME QueueInv, ReloadBreaks
    PROVE  QueueInv'
<1> DEFINE q == Unlock(reload)
<1>1. TypeOK
  BY DEF QueueInv
<1>2. /\ reload.stage # "idle"
      /\ files' = files
      /\ loaded' \in {loaded, files}
      /\ UNCHANGED <<definitions, changes, saved, events>>
  BY DEF ReloadBreaks, Breaks
<1>3. reload.serving # NoRequest /\ process # "down"
  BY <1>2, BusyReload
<1>4. QueueOK(q) /\ Asked(q) \subseteq Asked(reload) \ {reload.serving}
  BY <1>3, QueueIsOK, UnlockQueue
<1>5. /\ files' \in [Files -> Content]
      /\ loaded' \in [Files -> Content]
      /\ definitions' \in [Parts -> Content]
      /\ events' \in 0..MaxEvents
      /\ process \in {"up", "starting"}
  BY <1>1, <1>2, <1>3 DEF TypeOK, ReloadTypeOK
<1> HIDE DEF q
<1>6. ASSUME NEW c \in Changes, reload.serving = c, Ended(c, "failed"), reload' = q,
             missed' = Parts, UNCHANGED process
      PROVE  QueueInv'
  <2>1. status[c] \in Open
    BY <1>6, ServedIsOpen
  <2> QED
    BY <2>1, <1>2, <1>4, <1>5, <1>6, EndKeepsQueueInv
<1>7. ASSUME Dies
      PROVE  QueueInv'
  BY <1>2, <1>5, <1>7, DeathKeepsQueueInv
<1>8. ASSUME reload' = q, missed' = Parts, UNCHANGED <<process, chainVars>>
      PROVE  QueueInv'
  <2>1. UNCHANGED changeVars
    BY <1>2, <1>8 DEF changeVars, chainVars
  <2> QED
    BY <2>1, <1>2, <1>4, <1>5, <1>8, MoveKeepsQueueInv
<1> QED
  BY <1>6, <1>7, <1>8 DEF ReloadBreaks, q

LEMMA NextQueueInv == QueueInv /\ [Next]_vars => QueueInv'
<1> SUFFICES ASSUME QueueInv, [Next]_vars PROVE QueueInv'
  OBVIOUS
<1>1. TypeOK
  BY DEF QueueInv
<1>2. /\ Kinds = {"none", "update", "patch", "system", "domain"}
      /\ Blank \in Content
      /\ Apps \subseteq Parts
      /\ System \in Parts
  BY DEF Kinds, Blank, Content, Parts
<1>3. \A sound \in BOOLEAN : [by |-> changes + 1, sound |-> sound, rev |-> 0] \in Content
  BY <1>1, ChangesAreRequests DEF TypeOK, Content
<1>4. \A p \in Parts : definitions[p] \in Content /\ definitions[p].rev + 1 \in Nat
  BY <1>1 DEF TypeOK, ReloadTypeOK, Content
<1>5. ASSUME NEW a \in Apps, NEW sound \in BOOLEAN, StartUpdate(a, sound)
      PROVE  QueueInv'
  BY <1>2, <1>3, <1>5, StartKeepsQueueInv DEF StartUpdate
<1>6. ASSUME NEW a \in Apps, StartPatch(a)
      PROVE  QueueInv'
  BY <1>2, <1>4, <1>6, StartKeepsQueueInv DEF StartPatch
<1>7. ASSUME NEW a \in Apps, ChangeDomain(a)
      PROVE  QueueInv'
  BY <1>2, <1>4, <1>7, WriteKeepsQueueInv DEF ChangeDomain
<1>8. ASSUME NEW sound \in BOOLEAN, SetNginxConfig(sound)
      PROVE  QueueInv'
  BY <1>2, <1>3, <1>4, <1>8, WriteKeepsQueueInv DEF SetNginxConfig
<1>9. ASSUME NEW c \in Changes, CheckFails(c)
      PROVE  QueueInv'
  <2>1. status[c] \in Open /\ c \notin Asked(reload)
    BY <1>9 DEF CheckFails, Open, QueueInv, AskedAreReloading
  <2> DEFINE q == reload
  <2>2. QueueOK(q) /\ Asked(q) \subseteq Asked(reload) \ {c} /\ reload' = q
    BY <1>9, <2>1, QueueIsOK DEF CheckFails
  <2>3. /\ definitions' \in [Parts -> Content]
        /\ files' \in [Files -> Content]
        /\ loaded' \in [Files -> Content]
        /\ missed' \subseteq Parts
    BY <1>1, <1>9 DEF CheckFails, TypeOK, ReloadTypeOK
  <2> QED
    BY <1>9, <2>1, <2>2, <2>3, EndKeepsQueueInv DEF CheckFails
<1>10. ASSUME NEW c \in Changes, SaveDefinition(c)
       PROVE  QueueInv'
  BY <1>10, SaveKeepsQueueInv
<1>11. ASSUME NEW c \in Changes, ServiceUpdated(c)
       PROVE  QueueInv'
  BY <1>11, UpdatedKeepsQueueInv
<1>12. ASSUME NEW c \in Changes, ServiceUpdateFails(c)
       PROVE  QueueInv'
  <2>1. status[c] \in Open /\ c \notin Asked(reload)
    BY <1>12 DEF ServiceUpdateFails, Open, QueueInv, AskedAreReloading
  <2> DEFINE q == reload
  <2>2. QueueOK(q) /\ Asked(q) \subseteq Asked(reload) \ {c} /\ reload' = q
    BY <1>12, <2>1, QueueIsOK DEF ServiceUpdateFails
  <2>3. /\ definitions' \in [Parts -> Content]
        /\ files' \in [Files -> Content]
        /\ loaded' \in [Files -> Content]
        /\ missed' \subseteq Parts
    BY <1>1, <1>12 DEF ServiceUpdateFails, TypeOK, ReloadTypeOK
  <2> QED
    BY <1>12, <2>1, <2>2, <2>3, EndKeepsQueueInv DEF ServiceUpdateFails
<1>13. ASSUME Restart PROVE QueueInv'
  <2>1. /\ Dies
        /\ events < MaxEvents
        /\ events' = events + 1
        /\ UNCHANGED <<definitions, files, loaded, changes, saved>>
    BY <1>13 DEF Restart
  <2>2. /\ files' \in [Files -> Content]
        /\ loaded' \in [Files -> Content]
        /\ events' \in 0..MaxEvents
    BY <1>1, <2>1, ChangesAreRequests DEF TypeOK, ReloadTypeOK
  <2> QED
    BY <2>1, <2>2, DeathKeepsQueueInv
<1>14. ASSUME RenewAllCertsAndReload PROVE QueueInv'
  <2> DEFINE q == RePopulateNginxConfigFile(reload, Nobody)
  <2>1. /\ process = "up"
        /\ events < MaxEvents
        /\ events' = events + 1
        /\ reload' = q
        /\ UNCHANGED <<definitions, files, loaded, changeVars, process, missed>>
    BY <1>14 DEF RenewAllCertsAndReload
  <2>2. QueueOK(q) /\ Asked(q) \subseteq Asked(reload)
    BY QueueIsOK, OthersMayAsk
  <2>3. /\ files' \in [Files -> Content]
        /\ loaded' \in [Files -> Content]
        /\ missed' \subseteq Parts
        /\ events' \in 0..MaxEvents
    BY <1>1, <2>1, ChangesAreRequests DEF TypeOK, ReloadTypeOK
  <2> HIDE DEF q
  <2> QED
    BY <2>1, <2>2, <2>3, MoveKeepsQueueInv
<1>15. ASSUME Initialize PROVE QueueInv'
  <2> DEFINE q == RePopulateNginxConfigFile(reload, Startup)
  <2>1. /\ process' = "starting"
        /\ files' = [f \in Files |-> Blank]
        /\ reload' = q
        /\ UNCHANGED <<definitions, loaded, changeVars, missed, events>>
    BY <1>15 DEF Initialize
  <2>2. QueueOK(q) /\ Asked(q) \subseteq Asked(reload)
    BY QueueIsOK, OthersMayAsk
  <2>3. /\ files' \in [Files -> Content]
        /\ loaded' \in [Files -> Content]
        /\ missed' \subseteq Parts
        /\ events' \in 0..MaxEvents
    BY <1>1, <1>2, <2>1 DEF TypeOK, ReloadTypeOK
  <2> HIDE DEF q
  <2> QED
    BY <2>1, <2>2, <2>3, MoveKeepsQueueInv
<1>16. ASSUME UNCHANGED vars PROVE QueueInv'
  <2>1. /\ UNCHANGED <<definitions, files, loaded, reload, process, missed, events>>
        /\ UNCHANGED <<changes, kind, part, status, copy, wrote, saved>>
    BY <1>16 DEF vars, changeVars
  <2>2. TypeOK'
    BY <1>1, <2>1 DEF TypeOK, ReloadTypeOK, WellFormed
  <2>3. Once(reload)' /\ AskedAreReloading'
    BY <2>1 DEF QueueInv, Once, AskedAreReloading, Asked
  <2>4. FutureUnused' /\ OnlyAppsUpdate' /\ DownIsIdle'
    BY <2>1 DEF QueueInv, FutureUnused, OnlyAppsUpdate, DownIsIdle
  <2> QED
    BY <2>2, <2>3, <2>4 DEF QueueInv
<1> QED
  BY <1>5, <1>6, <1>7, <1>8, <1>9, <1>10, <1>11, <1>12, <1>13, <1>14, <1>15, <1>16,
     RenderKeepsQueueInv, SucceedsKeepsQueueInv, RefusesKeepsQueueInv,
     BreaksKeepsQueueInv
  DEF Next

LEMMA QueueInvHolds == Spec => []QueueInv
BY InitQueueInv, NextQueueInv, PTL DEF Spec

\* The state of the reloads and of the changes is always of its type: in
\* particular a reload is in process while any request waits, so no promise
\* of rePopulateNginxConfigFile is left behind.
THEOREM ConfigTypeCorrect == Spec => []TypeOK
<1>1. QueueInv => TypeOK
  BY DEF QueueInv
<1> QED
  BY <1>1, QueueInvHolds, PTL

-----------------------------------------------------------------------------
(* Freshness: a file that is behind its definition is about to be          *)
(* rewritten, and a change that is answered is in what nginx runs.         *)


\* nginx.conf is rendered before captain-root.conf, and the writes in between
\* ask for another reload.
BaseIsDue ==
    reload.stage = "captain" =>
        files[Base].rev = definitions[System].rev \/ reload.waiting # <<>>

\* What a change wrote is in the definitions, in this revision or a later one,
\* and in the files its reload has rendered.
WrittenIsThere ==
    \A c \in Changes : status[c] \in {"updating", "reloading"} =>
        /\ definitions[part[c]].rev >= wrote[c]
        /\ reload.serving = c =>
               \A f \in Rendered : Source(f) = part[c] => files[f].rev >= wrote[c]

FreshInv == QueueInv /\ StaleFilesAreDue /\ BaseIsDue /\ WrittenIsThere

LEMMA InitFreshInv == Init => FreshInv
<1> SUFFICES ASSUME Init PROVE FreshInv
  OBVIOUS
<1>1. \A f \in Files : Source(f) \in Parts
  BY DEF Files, Source, Parts
<1>2. StaleFilesAreDue
  BY <1>1 DEF Init, ReloadInit, StaleFilesAreDue
<1>3. BaseIsDue /\ WrittenIsThere
  BY DEF Init, ReloadInit, Idle, BaseIsDue, WrittenIsThere
<1> QED
  BY <1>2, <1>3, InitQueueInv DEF FreshInv

LEMMA SourceIsPart == \A f \in Files : Source(f) \in Parts
BY DEF Files, Source, Parts

\* Revisions only grow.
LEMMA WriteRevs ==
    ASSUME TypeOK, NEW p \in Parts, NEW t \in Content, Write(p, t)
    PROVE  /\ definitions'[p].rev = definitions[p].rev + 1
           /\ \A o \in Parts : /\ o # p => definitions'[o] = definitions[o]
                               /\ definitions[o].rev \in Nat
                               /\ definitions'[o].rev \in Nat
                               /\ definitions'[o].rev >= definitions[o].rev
<1>1. definitions \in [Parts -> Content]
  BY DEF TypeOK, ReloadTypeOK
<1>2. definitions' = [definitions EXCEPT ![p] = Rewritten(p, t)]
  BY DEF Write
<1>3. Rewritten(p, t).rev = definitions[p].rev + 1
  BY RewrittenIsContent
<1>4. \A o \in Parts : definitions[o].rev \in Nat
  BY <1>1 DEF Content
<1>5. definitions'[p].rev = definitions[p].rev + 1
  BY <1>1, <1>2, <1>3
<1>6. \A o \in Parts : o # p => definitions'[o] = definitions[o]
  BY <1>1, <1>2
<1>7. ASSUME NEW o \in Parts
      PROVE  definitions'[o].rev \in Nat /\ definitions'[o].rev >= definitions[o].rev
  BY <1>4, <1>5, <1>6
<1> QED
  BY <1>4, <1>5, <1>6, <1>7

\* After a request nothing can be overlooked.
LEMMA RequestIsDue ==
    ASSUME NEW q, QueueOK(q), NEW r \in Requests, r \notin Asked(q),
           reload' = RePopulateNginxConfigFile(q, r)
    PROVE  StaleFilesAreDue' /\ BaseIsDue'
<1> DEFINE n == RePopulateNginxConfigFile(q, r)
<1>1. /\ q.serving # NoRequest => n.waiting # <<>>
      /\ q.serving = NoRequest => n.serving = r /\ n.stage = "apps"
  BY PushRequest
<1>2. r # NoRequest
  BY ChangesAreRequests
<1>3. reload' = n
  OBVIOUS
<1> HIDE DEF n
<1>4. CASE q.serving # NoRequest
  BY <1>1, <1>3, <1>4 DEF StaleFilesAreDue, BaseIsDue
<1>5. CASE q.serving = NoRequest
  BY <1>1, <1>2, <1>3, <1>5 DEF StaleFilesAreDue, BaseIsDue, Rendered
<1> QED
  BY <1>4, <1>5

\* A request leaves what the reload in process has rendered.
LEMMA RequestKeepsWritten ==
    ASSUME QueueInv, WrittenIsThere, NEW r \in Requests, r \notin Asked(reload),
           reload' = RePopulateNginxConfigFile(reload, r), files' = files,
           NEW c \in Changes, c # r, status[c] \in {"updating", "reloading"},
           part'[c] = part[c], wrote'[c] = wrote[c], reload'.serving = c
    PROVE  \A f \in Rendered' : Source(f) = part'[c] => files'[f].rev >= wrote'[c]
<1> DEFINE n == RePopulateNginxConfigFile(reload, r)
<1>1. /\ reload.serving # NoRequest =>
             n.serving = reload.serving /\ n.stage = reload.stage
      /\ reload.serving = NoRequest => n.serving = r
  BY QueueIsOK, PushRequest
<1>2. reload' = n
  OBVIOUS
<1> HIDE DEF n
<1>3. reload'.serving = reload.serving /\ reload'.stage = reload.stage
  BY <1>1, <1>2
<1>4. Rendered' = Rendered
  BY <1>3 DEF Rendered
<1> QED
  BY <1>3, <1>4 DEF WrittenIsThere

\* A reload that ends leaves nothing half rendered ...
LEMMA UnlockedIsUnrendered ==
    ASSUME QueueInv, reload.serving # NoRequest, reload' = Unlock(reload)
    PROVE  /\ Rendered' = {}
           /\ BaseIsDue'
           /\ reload.waiting # <<>> => reload'.serving # NoRequest
<1> DEFINE q == Unlock(reload)
<1>1. /\ QueueOK(q)
      /\ q.stage \in {"idle", "apps"}
      /\ reload.waiting # <<>> => q.stage = "apps"
  BY QueueIsOK, UnlockQueue
<1>2. reload' = q
  OBVIOUS
<1> HIDE DEF q
<1> QED
  BY <1>1, <1>2 DEF Rendered, BaseIsDue, QueueOK, WellFormed

\* ... and one that got through to the test leaves nothing overlooked.
LEMMA UnlockIsDue ==
    ASSUME QueueInv, StaleFilesAreDue, reload.stage = "test",
           reload' = Unlock(reload),
           UNCHANGED <<definitions, files, missed>>,
           \A c \in Changes : status[c] = "updating" =>
               status'[c] = "updating" /\ part'[c] = part[c]
    PROVE  StaleFilesAreDue'
<1>1. reload.serving # NoRequest
  BY BusyReload
<1>2. Rendered' = {} /\ (reload.waiting # <<>> => reload'.serving # NoRequest)
  BY <1>1, UnlockedIsUnrendered
<1>3. Rendered = Files
  BY DEF Rendered
<1>4. CASE reload.waiting # <<>>
  BY <1>2, <1>4 DEF StaleFilesAreDue
<1>5. CASE reload.waiting = <<>>
  <2>1. SUFFICES ASSUME NEW f \in Files
                 PROVE  \/ files'[f].rev = definitions'[Source(f)].rev
                        \/ Source(f) \in missed'
                        \/ \E c \in Changes : status'[c] = "updating" /\ part'[c] = Source(f)
    BY DEF StaleFilesAreDue
  <2>2. \/ files[f].rev = definitions[Source(f)].rev
        \/ Source(f) \in missed
        \/ \E c \in Changes : status[c] = "updating" /\ part[c] = Source(f)
    BY <1>3, <1>5 DEF StaleFilesAreDue
  <2> QED
    BY <2>2
<1> QED
  BY <1>4, <1>5

\* When everything has been missed, nothing has been overlooked.
LEMMA AllMissedIsDue ==
    ASSUME missed' = Parts
    PROVE  StaleFilesAreDue'
BY SourceIsPart DEF StaleFilesAreDue

\* A change that was not there before, or is there no more, is nobody's loss.
LEMMA StartIsFresh ==
    ASSUME FreshInv, NEW a \in Apps, NEW k \in Kinds, NEW t \in Content,
           Arrives(k, a, t, "checking", 0),
           UNCHANGED <<definitions, files, loaded, reload, process, missed, events>>
    PROVE  StaleFilesAreDue' /\ BaseIsDue' /\ WrittenIsThere'
<1>1. QueueInv /\ StaleFilesAreDue /\ BaseIsDue /\ WrittenIsThere
  BY DEF FreshInv
<1>2. a \in Parts /\ "checking" \in Statuses /\ 0 \in Nat
  BY DEF Parts, Statuses
<1>3. /\ changes + 1 \in Changes
      /\ status[changes + 1] = "unused"
      /\ status'[changes + 1] = "checking"
      /\ \A c \in Changes : c # changes + 1 =>
             /\ status'[c] = status[c]
             /\ part'[c] = part[c]
             /\ wrote'[c] = wrote[c]
  BY <1>1, <1>2, ArrivalTypes, Zenon
<1>4. Rendered' = Rendered
  BY DEF Rendered
<1>5. StaleFilesAreDue'
  <2>1. \A c \in Changes : status[c] = "updating" =>
            status'[c] = "updating" /\ part'[c] = part[c]
    BY <1>3
  <2> QED
    BY <1>1, <1>4, <2>1 DEF StaleFilesAreDue
<1>6. BaseIsDue'
  BY <1>1 DEF BaseIsDue
<1>7. WrittenIsThere'
  BY <1>1, <1>3, <1>4 DEF WrittenIsThere
<1> QED
  BY <1>5, <1>6, <1>7

LEMMA WriteIsFresh ==
    ASSUME FreshInv, NEW k \in Kinds, NEW p \in Parts, NEW t \in Content,
           NEW u \in Content, NEW rev \in Nat,
           Arrives(k, p, t, "reloading", rev),
           Write(p, u),
           definitions'[p].rev = rev,
           reload' = RePopulateNginxConfigFile(reload, changes + 1),
           UNCHANGED <<files, loaded, process, missed, events>>
    PROVE  StaleFilesAreDue' /\ BaseIsDue' /\ WrittenIsThere'
<1> DEFINE r == changes + 1
<1>1. QueueInv /\ WrittenIsThere /\ TypeOK
  BY DEF FreshInv, QueueInv
<1>2. "reloading" \in Statuses
  BY DEF Statuses
<1>3. /\ r \in Changes
      /\ r \notin Asked(reload)
      /\ status'[r] = "reloading"
      /\ part'[r] = p
      /\ wrote'[r] = rev
      /\ \A c \in Changes : c # r =>
             /\ status'[c] = status[c]
             /\ part'[c] = part[c]
             /\ wrote'[c] = wrote[c]
  <2>1. QueueInv /\ Arrives(k, p, t, "reloading", rev)
    BY <1>1
  <2> QED
    BY <2>1, <1>2, ArrivalTypes
<1>4. r \in Requests
  BY <1>3, ChangesAreRequests
<1>5. StaleFilesAreDue' /\ BaseIsDue'
  BY <1>1, <1>3, <1>4, QueueIsOK, RequestIsDue
<1>6. /\ definitions'[p].rev = rev
      /\ \A o \in Parts : /\ definitions[o].rev \in Nat
                          /\ definitions'[o].rev \in Nat
                          /\ definitions'[o].rev >= definitions[o].rev
  BY <1>1, WriteRevs
<1>7. WrittenIsThere'
  <2>1. SUFFICES ASSUME NEW c \in Changes, status'[c] \in {"updating", "reloading"}
                 PROVE  /\ definitions'[part'[c]].rev >= wrote'[c]
                        /\ reload'.serving = c =>
                              \A f \in Rendered' :
                                 Source(f) = part'[c] => files'[f].rev >= wrote'[c]
    BY DEF WrittenIsThere
  <2>2. CASE c = r
    <3>1. definitions'[part'[c]].rev >= wrote'[c]
      BY <1>3, <1>6, <2>2
    <3>2. ASSUME reload'.serving = c PROVE Rendered' = {}
      <4> DEFINE n == RePopulateNginxConfigFile(reload, r)
      <4>1. /\ reload.serving # NoRequest => n.serving = reload.serving
            /\ reload.serving = NoRequest => n.stage = "apps"
        BY <1>1, <1>3, <1>4, QueueIsOK, PushRequest
      <4>2. reload' = n
        OBVIOUS
      <4> HIDE DEF n
      <4>3. reload.serving # r
        BY <1>3 DEF Asked
      <4>4. reload'.stage = "apps"
        BY <4>1, <4>2, <4>3, <3>2, <2>2, <1>3, ChangesAreRequests
      <4> QED
        BY <4>4 DEF Rendered
    <3> QED
      BY <3>1, <3>2
  <2>3. CASE c # r
    <3>1. /\ status[c] \in {"updating", "reloading"}
          /\ part'[c] = part[c]
          /\ wrote'[c] = wrote[c]
      BY <1>3, <2>1, <2>3
    <3>2. part[c] \in Parts /\ wrote[c] \in Nat
      BY <1>1 DEF TypeOK
    <3>3. definitions'[part'[c]].rev >= wrote'[c]
      BY <1>1, <1>6, <3>1, <3>2 DEF WrittenIsThere
    <3> QED
      BY <1>1, <1>3, <1>4, <2>3, <3>1, <3>3, RequestKeepsWritten
  <2> QED
    BY <2>2, <2>3
<1> QED
  BY <1>5, <1>7

\* After a reload has ended, only the definitions matter to who waits.
LEMMA UnlockedIsWritten ==
    ASSUME QueueInv, WrittenIsThere, Rendered' = {},
           \A o \in Parts : /\ definitions[o].rev \in Nat
                            /\ definitions'[o].rev \in Nat
                            /\ definitions'[o].rev >= definitions[o].rev,
           \A c \in Changes : status'[c] \in {"updating", "reloading"} =>
               /\ status[c] \in {"updating", "reloading"}
               /\ part'[c] = part[c]
               /\ wrote'[c] = wrote[c]
    PROVE  WrittenIsThere'
<1>1. SUFFICES ASSUME NEW c \in Changes, status'[c] \in {"updating", "reloading"}
               PROVE  definitions'[part'[c]].rev >= wrote'[c]
  BY DEF WrittenIsThere
<1>2. /\ status[c] \in {"updating", "reloading"}
      /\ part'[c] = part[c]
      /\ wrote'[c] = wrote[c]
  BY <1>1
<1>3. part[c] \in Parts /\ wrote[c] \in Nat
  BY DEF QueueInv, TypeOK
<1>4. definitions[part[c]].rev >= wrote[c]
  BY <1>2 DEF WrittenIsThere
<1> QED
  BY <1>2, <1>3, <1>4

\* Revisions are numbers, and stay when nothing is written.
LEMMA SameRevs ==
    ASSUME TypeOK, UNCHANGED definitions
    PROVE  \A o \in Parts : /\ definitions[o].rev \in Nat
                            /\ definitions'[o].rev \in Nat
                            /\ definitions'[o].rev >= definitions[o].rev
<1>1. \A o \in Parts : definitions[o].rev \in Nat
  BY DEF TypeOK, ReloadTypeOK, Content
<1>2. \A o \in Parts : definitions'[o].rev = definitions[o].rev
  OBVIOUS
<1>3. \A n \in Nat : n >= n
  OBVIOUS
<1> QED
  BY <1>1, <1>2, <1>3

LEMMA CheckFailsIsFresh ==
    ASSUME FreshInv, NEW c \in Changes, CheckFails(c)
    PROVE  StaleFilesAreDue' /\ BaseIsDue' /\ WrittenIsThere'
<1>1. QueueInv /\ StaleFilesAreDue /\ BaseIsDue /\ WrittenIsThere
  BY DEF FreshInv
<1>2. /\ status[c] = "checking"
      /\ Ended(c, "failed")
      /\ UNCHANGED <<definitions, files, loaded, reload, missed>>
  BY DEF CheckFails
<1>3. "failed" \in Statuses
  BY DEF Statuses
<1>4. /\ status'[c] = "failed"
      /\ \A d \in Changes : d # c =>
             status'[d] = status[d] /\ part'[d] = part[d] /\ wrote'[d] = wrote[d]
  BY <1>1, <1>2, <1>3, EndTypes
<1>5. Rendered' = Rendered
  BY <1>2 DEF Rendered
<1>6. \A d \in Changes : status[d] = "updating" =>
          status'[d] = "updating" /\ part'[d] = part[d]
  BY <1>2, <1>4
<1>7. StaleFilesAreDue'
  BY <1>1, <1>2, <1>5, <1>6 DEF StaleFilesAreDue
<1>8. BaseIsDue'
  BY <1>1, <1>2 DEF BaseIsDue
<1>9. WrittenIsThere'
  BY <1>1, <1>2, <1>4, <1>5 DEF WrittenIsThere
<1> QED
  BY <1>7, <1>8, <1>9

LEMMA UpdateFailsIsFresh ==
    ASSUME FreshInv, NEW c \in Changes, ServiceUpdateFails(c)
    PROVE  StaleFilesAreDue' /\ BaseIsDue' /\ WrittenIsThere'
<1>1. QueueInv /\ StaleFilesAreDue /\ BaseIsDue /\ WrittenIsThere
  BY DEF FreshInv
<1>2. /\ status[c] = "updating"
      /\ Ended(c, "failed")
      /\ missed' = missed \cup {part[c]}
      /\ UNCHANGED <<definitions, files, loaded, reload>>
  BY DEF ServiceUpdateFails
<1>3. "failed" \in Statuses
  BY DEF Statuses
<1>4. /\ status'[c] = "failed"
      /\ \A d \in Changes : d # c =>
             status'[d] = status[d] /\ part'[d] = part[d] /\ wrote'[d] = wrote[d]
  BY <1>1, <1>2, <1>3, EndTypes
<1>5. Rendered' = Rendered
  BY <1>2 DEF Rendered
<1>6. \A d \in Changes : status[d] = "updating" =>
          \/ status'[d] = "updating" /\ part'[d] = part[d]
          \/ part[d] \in missed'
  BY <1>2, <1>4
<1>7. StaleFilesAreDue'
  BY <1>1, <1>2, <1>5, <1>6 DEF StaleFilesAreDue
<1>8. BaseIsDue'
  BY <1>1, <1>2 DEF BaseIsDue
<1>9. WrittenIsThere'
  BY <1>1, <1>2, <1>4, <1>5 DEF WrittenIsThere
<1> QED
  BY <1>7, <1>8, <1>9

LEMMA SaveIsFresh ==
    ASSUME FreshInv, NEW c \in Changes, SaveDefinition(c)
    PROVE  StaleFilesAreDue' /\ BaseIsDue' /\ WrittenIsThere'
<1>1. /\ QueueInv /\ StaleFilesAreDue /\ BaseIsDue /\ WrittenIsThere
      /\ TypeOK /\ OnlyAppsUpdate /\ AskedAreReloading
  BY DEF FreshInv, QueueInv
<1>2. /\ part \in [Changes -> Parts]
      /\ status \in [Changes -> Statuses]
      /\ copy \in [Changes -> Content]
      /\ wrote \in [Changes -> Nat]
  BY <1>1 DEF TypeOK
<1>3. /\ status[c] = "checking"
      /\ Write(part[c], copy[c])
      /\ wrote' = [wrote EXCEPT ![c] = definitions[part[c]].rev + 1]
      /\ status' = [status EXCEPT ![c] = "updating"]
      /\ UNCHANGED <<files, loaded, reload, part, missed>>
  BY DEF SaveDefinition
<1>4. /\ status'[c] = "updating"
      /\ wrote'[c] = definitions[part[c]].rev + 1
      /\ \A d \in Changes : d # c => status'[d] = status[d] /\ wrote'[d] = wrote[d]
  BY <1>2, <1>3
<1>5. part[c] \in Apps /\ part[c] # System
  BY <1>1, <1>3, PartsAssumption DEF OnlyAppsUpdate
<1>6. /\ definitions'[part[c]].rev = definitions[part[c]].rev + 1
      /\ \A o \in Parts : /\ o # part[c] => definitions'[o] = definitions[o]
                          /\ definitions[o].rev \in Nat
                          /\ definitions'[o].rev \in Nat
                          /\ definitions'[o].rev >= definitions[o].rev
  BY <1>1, <1>2, <1>3, WriteRevs
<1>7. Rendered' = Rendered
  BY <1>3 DEF Rendered
<1>8. StaleFilesAreDue'
  <2>1. SUFFICES ASSUME NEW f \in Files, Source(f) # part[c]
                 PROVE  \/ files[f].rev = definitions'[Source(f)].rev
                        \/ Source(f) \in missed
                        \/ reload.waiting # <<>>
                        \/ reload.serving # NoRequest /\ f \notin Rendered
                        \/ \E d \in Changes : status'[d] = "updating" /\ part[d] = Source(f)
    BY <1>3, <1>4, <1>7 DEF StaleFilesAreDue
  <2>2. definitions'[Source(f)] = definitions[Source(f)]
    BY <1>6, <2>1, SourceIsPart
  <2>3. \A d \in Changes : status[d] = "updating" => status'[d] = "updating"
    BY <1>3, <1>4
  <2> QED
    BY <1>1, <2>2, <2>3 DEF StaleFilesAreDue
<1>9. BaseIsDue'
  <2>1. definitions'[System] = definitions[System]
    BY <1>5, <1>6 DEF Parts
  <2> QED
    BY <1>1, <1>3, <2>1 DEF BaseIsDue
<1>10. WrittenIsThere'
  <2>1. SUFFICES ASSUME NEW d \in Changes, status'[d] \in {"updating", "reloading"}
                 PROVE  /\ definitions'[part[d]].rev >= wrote'[d]
                        /\ reload.serving = d =>
                              \A f \in Rendered :
                                 Source(f) = part[d] => files[f].rev >= wrote'[d]
    BY <1>3, <1>7 DEF WrittenIsThere
  <2>2. CASE d = c
    <3>1. reload.serving # c
      BY <1>1, <1>3 DEF AskedAreReloading, Asked
    <3>2. definitions'[part[c]].rev >= wrote'[c]
      BY <1>2, <1>4, <1>6
    <3> QED
      BY <2>2, <3>1, <3>2
  <2>3. CASE d # c
    <3>1. status[d] \in {"updating", "reloading"} /\ wrote'[d] = wrote[d]
      BY <1>4, <2>1, <2>3
    <3>2. part[d] \in Parts /\ wrote[d] \in Nat
      BY <1>2
    <3>3. definitions[part[d]].rev >= wrote[d]
      BY <1>1, <3>1 DEF WrittenIsThere
    <3>4. definitions'[part[d]].rev >= wrote'[d]
      BY <1>6, <3>1, <3>2, <3>3
    <3> QED
      BY <1>1, <3>1, <3>4 DEF WrittenIsThere
  <2> QED
    BY <2>2, <2>3
<1> QED
  BY <1>8, <1>9, <1>10

LEMMA UpdatedIsFresh ==
    ASSUME FreshInv, NEW c \in Changes, ServiceUpdated(c)
    PROVE  StaleFilesAreDue' /\ BaseIsDue' /\ WrittenIsThere'
<1> DEFINE n == RePopulateNginxConfigFile(reload, c)
<1>1. QueueInv /\ WrittenIsThere /\ AskedAreReloading /\ TypeOK
  BY DEF FreshInv, QueueInv
<1>2. /\ status[c] = "updating"
      /\ status' = [status EXCEPT ![c] = "reloading"]
      /\ reload' = n
      /\ UNCHANGED <<definitions, files, part, wrote, missed>>
  BY DEF ServiceUpdated
<1>3. c \in Requests /\ c \notin Asked(reload)
  BY <1>1, <1>2, ChangesAreRequests DEF AskedAreReloading
<1>4. StaleFilesAreDue' /\ BaseIsDue'
  BY <1>1, <1>2, <1>3, QueueIsOK, RequestIsDue
<1>5. /\ status'[c] = "reloading"
      /\ \A d \in Changes : d # c => status'[d] = status[d]
  BY <1>1, <1>2 DEF TypeOK
<1>6. WrittenIsThere'
  <2>1. SUFFICES ASSUME NEW d \in Changes, status'[d] \in {"updating", "reloading"}
                 PROVE  /\ definitions[part[d]].rev >= wrote[d]
                        /\ reload'.serving = d =>
                              \A f \in Rendered' :
                                 Source(f) = part[d] => files[f].rev >= wrote[d]
    BY <1>2 DEF WrittenIsThere
  <2>2. status[d] \in {"updating", "reloading"}
    BY <1>2, <1>5, <2>1
  <2>3. definitions[part[d]].rev >= wrote[d]
    BY <1>1, <2>2 DEF WrittenIsThere
  <2>4. CASE d = c
    <3>1. ASSUME reload'.serving = c PROVE Rendered' = {}
      <4>1. /\ reload.serving # NoRequest => n.serving = reload.serving
            /\ reload.serving = NoRequest => n.stage = "apps"
        BY <1>1, <1>3, QueueIsOK, PushRequest
      <4>2. reload.serving # c
        BY <1>3 DEF Asked
      <4> HIDE DEF n
      <4>3. reload'.stage = "apps"
        BY <1>2, <3>1, <4>1, <4>2, ChangesAreRequests
      <4> QED
        BY <4>3 DEF Rendered
    <3> QED
      BY <2>3, <2>4, <3>1
  <2>5. CASE d # c
    BY <1>1, <1>2, <1>3, <2>2, <2>3, <2>5, RequestKeepsWritten
  <2> QED
    BY <2>4, <2>5
<1> QED
  BY <1>4, <1>6

\* What a render step leaves in the files.
LEMMA RenderRevs ==
    ASSUME NEW fs, Render(fs)
    PROVE  \A f \in Files : /\ f \in fs => files'[f] = definitions[Source(f)]
                            /\ f \notin fs => files'[f] = files[f]
BY DEF Render

\* A step that renders the files fs, and goes on to the stage s.
LEMMA RenderSomeIsFresh ==
    ASSUME FreshInv, NEW fs, Render(fs), fs \subseteq Files,
           NEW s \in Stages, reload' = [reload EXCEPT !.stage = s],
           reload.stage # "idle",
           Rendered' = Rendered \cup fs,
           s = "captain" => Base \in fs,
           \A f \in Files \ fs : Source(f) \in missed =>
               \/ Source(f) \in missed'
               \/ files[f].rev = definitions[Source(f)].rev
               \/ reload.waiting # <<>>,
           UNCHANGED <<definitions, part, status, wrote>>
    PROVE  StaleFilesAreDue' /\ BaseIsDue' /\ WrittenIsThere'
<1>1. /\ QueueInv /\ StaleFilesAreDue /\ WrittenIsThere
      /\ TypeOK
  BY DEF FreshInv, QueueInv
<1>2. /\ reload'.waiting = reload.waiting
      /\ reload'.serving = reload.serving
      /\ reload'.stage = s
  BY <1>1 DEF TypeOK, ReloadTypeOK, ReloadState
<1>3. reload.serving # NoRequest
  BY <1>1, BusyReload
<1>4. \A f \in Files : /\ f \in fs => files'[f] = definitions[Source(f)]
                       /\ f \notin fs => files'[f] = files[f]
  BY RenderRevs
<1>5. StaleFilesAreDue'
  <2>1. SUFFICES ASSUME NEW f \in Files, f \notin fs
                 PROVE  \/ files[f].rev = definitions[Source(f)].rev
                        \/ Source(f) \in missed'
                        \/ reload.waiting # <<>>
                        \/ f \notin Rendered'
                        \/ \E c \in Changes : status[c] = "updating" /\ part[c] = Source(f)
    BY <1>2, <1>3, <1>4 DEF StaleFilesAreDue
  <2>2. f \in Rendered' => f \in Rendered
    BY <2>1
  <2>3. \/ files[f].rev = definitions[Source(f)].rev
        \/ Source(f) \in missed
        \/ reload.waiting # <<>>
        \/ f \notin Rendered
        \/ \E c \in Changes : status[c] = "updating" /\ part[c] = Source(f)
    BY <1>1 DEF StaleFilesAreDue
  <2> QED
    BY <2>1, <2>2, <2>3
<1>6. BaseIsDue'
  <2>1. Base \in Files /\ Source(Base) = System
    BY PartsAssumption DEF Files, Source
  <2> QED
    BY <1>2, <1>4, <2>1 DEF BaseIsDue
<1>7. WrittenIsThere'
  <2>1. SUFFICES ASSUME NEW c \in Changes, status[c] \in {"updating", "reloading"}
                 PROVE  /\ definitions[part[c]].rev >= wrote[c]
                        /\ reload.serving = c =>
                              \A f \in Rendered' :
                                 Source(f) = part[c] => files'[f].rev >= wrote[c]
    BY <1>2 DEF WrittenIsThere
  <2>2. /\ definitions[part[c]].rev >= wrote[c]
        /\ reload.serving = c =>
              \A f \in Rendered : Source(f) = part[c] => files[f].rev >= wrote[c]
    BY <1>1, <2>1 DEF WrittenIsThere
  <2>3. Rendered \subseteq Files
    BY DEF Rendered
  <2> QED
    BY <1>4, <2>2, <2>3
<1> QED
  BY <1>5, <1>6, <1>7

LEMMA RenderIsFresh ==
    ASSUME FreshInv, RenderStep
    PROVE  StaleFilesAreDue' /\ BaseIsDue' /\ WrittenIsThere'
<1>1. BaseIsDue /\ reload \in ReloadState
  BY DEF FreshInv, QueueInv, TypeOK, ReloadTypeOK
<1>2. UNCHANGED <<definitions, part, status, wrote>>
  BY DEF RenderStep, changeVars
<1>3. System \notin Apps /\ Base \notin Apps /\ Captain \notin Apps /\ Base # Captain
  BY PartsAssumption
<1>4. /\ Apps \subseteq Files /\ {Base} \subseteq Files /\ {Captain} \subseteq Files
      /\ Files = Apps \cup {Base, Captain}
      /\ \A f \in Apps : Source(f) = f
      /\ Source(Base) = System /\ Source(Captain) = System
  BY <1>3 DEF Files, Source
<1>5. {"base", "captain", "test"} \subseteq Stages
  BY DEF Stages
<1>6. CASE RenderApps /\ missed' = missed \ Apps
  <2>1. /\ reload.stage = "apps"
        /\ Render(Apps)
        /\ reload' = [reload EXCEPT !.stage = "base"]
    BY <1>6 DEF RenderApps, GoTo
  <2>2. reload'.stage = "base"
    BY <1>1, <2>1 DEF ReloadState
  <2>3. Rendered' = Rendered \cup Apps
    BY <1>4, <2>1, <2>2 DEF Rendered
  <2>4. \A f \in Files \ Apps : Source(f) \in missed => Source(f) \in missed'
    BY <1>3, <1>4, <1>6
  <2> QED
    BY <1>2, <1>4, <1>5, <2>1, <2>3, <2>4, RenderSomeIsFresh
<1>7. CASE EnsureBaseNginxConf /\ missed' = missed
  <2>1. /\ reload.stage = "base"
        /\ Render({Base})
        /\ reload' = [reload EXCEPT !.stage = "captain"]
    BY <1>7 DEF EnsureBaseNginxConf, GoTo
  <2>2. reload'.stage = "captain"
    BY <1>1, <2>1 DEF ReloadState
  <2>3. Rendered' = Rendered \cup {Base}
    BY <1>3, <1>4, <2>1, <2>2 DEF Rendered
  <2> QED
    BY <1>2, <1>4, <1>5, <1>7, <2>1, <2>3, RenderSomeIsFresh
<1>8. CASE CreateRootConfFile /\ missed' = missed \ {System}
  <2>1. /\ reload.stage = "captain"
        /\ Render({Captain})
        /\ reload' = [reload EXCEPT !.stage = "test"]
    BY <1>8 DEF CreateRootConfFile, GoTo
  <2>2. reload'.stage = "test"
    BY <1>1, <2>1 DEF ReloadState
  <2>3. Rendered' = Rendered \cup {Captain}
    BY <1>3, <1>4, <2>1, <2>2 DEF Rendered
  <2>4. files[Base].rev = definitions[System].rev \/ reload.waiting # <<>>
    BY <1>1, <2>1 DEF BaseIsDue
  <2>5. \A f \in Files \ {Captain} : Source(f) \in missed =>
            \/ Source(f) \in missed'
            \/ files[f].rev = definitions[Source(f)].rev
            \/ reload.waiting # <<>>
    BY <1>3, <1>4, <1>8, <2>4
  <2> QED
    BY <1>2, <1>4, <1>5, <2>1, <2>3, <2>5, RenderSomeIsFresh
<1> QED
  BY <1>6, <1>7, <1>8 DEF RenderStep

LEMMA SucceedsIsFresh ==
    ASSUME FreshInv, Succeeds
    PROVE  StaleFilesAreDue' /\ BaseIsDue' /\ WrittenIsThere'
<1>1. QueueInv /\ StaleFilesAreDue /\ WrittenIsThere /\ TypeOK
  BY DEF FreshInv, QueueInv
<1>2. /\ reload.stage = "test"
      /\ reload' = Unlock(reload)
      /\ UNCHANGED <<definitions, files, missed>>
  BY DEF Succeeds, ValidateNginxConfigAndReload
<1>3. reload.serving # NoRequest
  BY <1>1, <1>2, BusyReload
<1>4. Rendered' = {} /\ BaseIsDue'
  BY <1>1, <1>2, <1>3, UnlockedIsUnrendered
<1>5. \A d \in Changes : status[d] \in {"updating", "reloading"} /\ d # reload.serving =>
          status'[d] = status[d] /\ part'[d] = part[d] /\ wrote'[d] = wrote[d]
  <2>1. ASSUME NEW c \in Changes, reload.serving = c, Ended(c, "ok"),
               NEW d \in Changes, d # c
        PROVE  status'[d] = status[d] /\ part'[d] = part[d] /\ wrote'[d] = wrote[d]
    BY <1>1, <2>1, EndTypes DEF Statuses
  <2> QED
    BY <2>1 DEF Succeeds, chainVars
<1>6. \A d \in Changes : status'[d] \in {"updating", "reloading"} =>
          /\ status[d] \in {"updating", "reloading"}
          /\ part'[d] = part[d]
          /\ wrote'[d] = wrote[d]
  <2>1. ASSUME NEW c \in Changes, reload.serving = c, Ended(c, "ok"),
               NEW d \in Changes, status'[d] \in {"updating", "reloading"}
        PROVE  /\ status'[d] = status[d]
               /\ part'[d] = part[d]
               /\ wrote'[d] = wrote[d]
    BY <1>1, <2>1, EndTypes DEF Statuses
  <2> QED
    BY <2>1 DEF Succeeds, chainVars
<1>7. \A d \in Changes : status[d] = "updating" => d # reload.serving
  BY <1>1, ServedIsOpen
<1>8. StaleFilesAreDue'
  BY <1>1, <1>2, <1>5, <1>7, UnlockIsDue
<1>9. WrittenIsThere'
  BY <1>1, <1>2, <1>4, <1>6, SameRevs, UnlockedIsWritten
<1> QED
  BY <1>4, <1>8, <1>9

\* When a change is answered the others go on.
LEMMA EndedLeavesOthers ==
    ASSUME QueueInv, NEW c \in Changes, NEW s \in {"ok", "failed"}, Ended(c, s)
    PROVE  /\ \A d \in Changes : d # c =>
                  status'[d] = status[d] /\ part'[d] = part[d] /\ wrote'[d] = wrote[d]
           /\ \A d \in Changes : status'[d] \in {"updating", "reloading"} =>
                  /\ status[d] \in {"updating", "reloading"}
                  /\ part'[d] = part[d]
                  /\ wrote'[d] = wrote[d]
<1>1. s \in Statuses /\ s \notin {"updating", "reloading"}
  BY DEF Statuses
<1> QED
  BY <1>1, EndTypes

LEMMA DeathIsFresh ==
    ASSUME Dies
    PROVE  StaleFilesAreDue' /\ BaseIsDue' /\ WrittenIsThere'
<1>1. StaleFilesAreDue'
  BY AllMissedIsDue DEF Dies
<1>2. BaseIsDue'
  BY DEF Dies, Idle, BaseIsDue
<1>3. \A c \in Changes : status'[c] \notin {"updating", "reloading"}
  BY DEF Dies, Open
<1>4. WrittenIsThere'
  BY <1>3 DEF WrittenIsThere
<1> QED
  BY <1>1, <1>2, <1>4

LEMMA RefusesIsFresh ==
    ASSUME FreshInv, Refuses
    PROVE  StaleFilesAreDue' /\ BaseIsDue' /\ WrittenIsThere'
<1>1. QueueInv /\ StaleFilesAreDue /\ WrittenIsThere /\ TypeOK
  BY DEF FreshInv, QueueInv
<1>2. /\ reload.stage = "test"
      /\ UNCHANGED <<files, changes, saved>>
  BY DEF Refuses, ValidationFails
<1>3. reload.serving # NoRequest
  BY <1>1, <1>2, BusyReload
<1>4. ASSUME NEW c \in Changes, reload.serving = c, Ended(c, "failed"), Revert(c)
      PROVE  StaleFilesAreDue' /\ BaseIsDue' /\ WrittenIsThere'
  <2> DEFINE q == Unlock(reload)
  <2>1. QueueOK(q) /\ q.stage \in {"idle", "apps"}
    BY <1>1, <1>3, QueueIsOK, UnlockQueue
  <2>2. Nobody \in Requests /\ Nobody \notin Asked(q)
    BY ChangesAreRequests DEF Asked
  <2>3. reload' = RePopulateNginxConfigFile(q, Nobody)
    BY <1>4 DEF Revert
  <2>4. StaleFilesAreDue' /\ BaseIsDue'
    <3> HIDE DEF q
    <3> QED
      BY <2>1, <2>2, <2>3, RequestIsDue
  <2>5. Rendered' = {}
    <3> DEFINE n == RePopulateNginxConfigFile(q, Nobody)
    <3> HIDE DEF q
    <3>1. /\ q.serving # NoRequest => n.stage = q.stage
          /\ q.serving = NoRequest => n.stage = "apps"
      BY <2>1, <2>2, PushRequest
    <3> HIDE DEF n
    <3>2. reload' = n
      BY <2>3 DEF n
    <3>3. reload'.stage \in {"idle", "apps"}
      BY <2>1, <3>1, <3>2
    <3> QED
      BY <3>3 DEF Rendered
  <2>6. part[c] \in Parts /\ copy[c] \in Content /\ Write(part[c], copy[c])
    BY <1>1, <1>4 DEF TypeOK, Revert
  <2>7. \A o \in Parts : /\ definitions[o].rev \in Nat
                         /\ definitions'[o].rev \in Nat
                         /\ definitions'[o].rev >= definitions[o].rev
    BY <1>1, <2>6, WriteRevs
  <2>8. \A d \in Changes : status'[d] \in {"updating", "reloading"} =>
            /\ status[d] \in {"updating", "reloading"}
            /\ part'[d] = part[d]
            /\ wrote'[d] = wrote[d]
    BY <1>1, <1>4, EndedLeavesOthers
  <2>9. WrittenIsThere'
    BY <1>1, <2>5, <2>7, <2>8, UnlockedIsWritten
  <2> QED
    BY <2>4, <2>9
<1>5. ASSUME reload' = Unlock(reload), UNCHANGED <<definitions, missed>>,
             \/ \E c \in Changes : reload.serving = c /\ Ended(c, "failed")
             \/ UNCHANGED chainVars
      PROVE  StaleFilesAreDue' /\ BaseIsDue' /\ WrittenIsThere'
  <2>1. Rendered' = {} /\ BaseIsDue'
    BY <1>1, <1>3, <1>5, UnlockedIsUnrendered
  <2>2. /\ \A d \in Changes : d # reload.serving =>
               status'[d] = status[d] /\ part'[d] = part[d] /\ wrote'[d] = wrote[d]
        /\ \A d \in Changes : status'[d] \in {"updating", "reloading"} =>
               /\ status[d] \in {"updating", "reloading"}
               /\ part'[d] = part[d]
               /\ wrote'[d] = wrote[d]
    BY <1>1, <1>5, EndedLeavesOthers DEF chainVars
  <2>3. \A d \in Changes : status[d] = "updating" => d # reload.serving
    BY <1>1, ServedIsOpen
  <2>4. StaleFilesAreDue'
    BY <1>1, <1>2, <1>5, <2>2, <2>3, UnlockIsDue
  <2>5. WrittenIsThere'
    BY <1>1, <1>5, <2>1, <2>2, SameRevs, UnlockedIsWritten
  <2> QED
    BY <2>1, <2>4, <2>5
<1> QED
  BY <1>4, <1>5, DeathIsFresh DEF Refuses

LEMMA BreaksIsFresh ==
    ASSUME FreshInv, ReloadBreaks
    PROVE  StaleFilesAreDue' /\ BaseIsDue' /\ WrittenIsThere'
<1>1. QueueInv /\ WrittenIsThere /\ TypeOK
  BY DEF FreshInv, QueueInv
<1>2. reload.stage # "idle" /\ UNCHANGED definitions
  BY DEF ReloadBreaks, Breaks
<1>3. reload.serving # NoRequest
  BY <1>1, <1>2, BusyReload
<1>4. ASSUME reload' = Unlock(reload), missed' = Parts,
             \/ \E c \in Changes : Ended(c, "failed")
             \/ UNCHANGED chainVars
      PROVE  StaleFilesAreDue' /\ BaseIsDue' /\ WrittenIsThere'
  <2>1. Rendered' = {} /\ BaseIsDue'
    BY <1>1, <1>3, <1>4, UnlockedIsUnrendered
  <2>2. \A d \in Changes : status'[d] \in {"updating", "reloading"} =>
            /\ status[d] \in {"updating", "reloading"}
            /\ part'[d] = part[d]
            /\ wrote'[d] = wrote[d]
    BY <1>1, <1>4, EndedLeavesOthers DEF chainVars
  <2>3. StaleFilesAreDue'
    BY <1>4, AllMissedIsDue
  <2>4. WrittenIsThere'
    BY <1>1, <1>2, <2>1, <2>2, SameRevs, UnlockedIsWritten
  <2> QED
    BY <2>1, <2>3, <2>4
<1> QED
  BY <1>4, DeathIsFresh DEF ReloadBreaks

LEMMA NextFreshInv == FreshInv /\ [Next]_vars => FreshInv'
<1> SUFFICES ASSUME FreshInv, [Next]_vars
             PROVE  StaleFilesAreDue' /\ BaseIsDue' /\ WrittenIsThere'
  BY NextQueueInv DEF FreshInv
<1>1. /\ QueueInv /\ StaleFilesAreDue /\ BaseIsDue /\ WrittenIsThere
      /\ TypeOK
  BY DEF FreshInv, QueueInv
<1>2. /\ Kinds = {"none", "update", "patch", "system", "domain"}
      /\ Blank \in Content
      /\ Apps \subseteq Parts
      /\ System \in Parts
  BY DEF Kinds, Blank, Content, Parts
<1>3. \A sound \in BOOLEAN : [by |-> changes + 1, sound |-> sound, rev |-> 0] \in Content
  BY <1>1, ChangesAreRequests DEF TypeOK, Content
<1>4. \A p \in Parts : definitions[p] \in Content /\ definitions[p].rev + 1 \in Nat
  BY <1>1 DEF TypeOK, ReloadTypeOK, Content
<1>5. ASSUME NEW a \in Apps, NEW sound \in BOOLEAN, StartUpdate(a, sound)
      PROVE  StaleFilesAreDue' /\ BaseIsDue' /\ WrittenIsThere'
  BY <1>2, <1>3, <1>5, StartIsFresh DEF StartUpdate
<1>6. ASSUME NEW a \in Apps, StartPatch(a)
      PROVE  StaleFilesAreDue' /\ BaseIsDue' /\ WrittenIsThere'
  BY <1>2, <1>4, <1>6, StartIsFresh DEF StartPatch
<1>7. ASSUME NEW a \in Apps, ChangeDomain(a)
      PROVE  StaleFilesAreDue' /\ BaseIsDue' /\ WrittenIsThere'
  <2>1. Write(a, definitions[a]) /\ definitions'[a].rev = definitions[a].rev + 1
    BY <1>1, <1>2, <1>4, <1>7, WriteRevs DEF ChangeDomain
  <2> QED
    BY <1>2, <1>4, <1>7, <2>1, WriteIsFresh DEF ChangeDomain
<1>8. ASSUME NEW sound \in BOOLEAN, SetNginxConfig(sound)
      PROVE  StaleFilesAreDue' /\ BaseIsDue' /\ WrittenIsThere'
  <2> DEFINE t == [by |-> changes + 1, sound |-> sound, rev |-> 0]
  <2>1. /\ Write(System, t)
        /\ Arrives("system", System, definitions[System], "reloading",
                   definitions[System].rev + 1)
        /\ reload' = RePopulateNginxConfigFile(reload, changes + 1)
        /\ UNCHANGED <<files, loaded, process, missed, events>>
    BY <1>8 DEF SetNginxConfig
  <2>2. t \in Content
    BY <1>3
  <2> HIDE DEF t
  <2>3. definitions'[System].rev = definitions[System].rev + 1
    BY <1>1, <1>2, <2>1, <2>2, WriteRevs
  <2> QED
    BY <1>2, <1>4, <2>1, <2>2, <2>3, WriteIsFresh
<1>9. ASSUME Restart PROVE StaleFilesAreDue' /\ BaseIsDue' /\ WrittenIsThere'
  BY <1>9, DeathIsFresh DEF Restart
<1>10. ASSUME RenewAllCertsAndReload
       PROVE  StaleFilesAreDue' /\ BaseIsDue' /\ WrittenIsThere'
  <2>1. /\ reload' = RePopulateNginxConfigFile(reload, Nobody)
        /\ UNCHANGED <<definitions, files, changes, kind, part, status, copy, wrote, saved>>
    BY <1>10 DEF RenewAllCertsAndReload, changeVars
  <2>2. Nobody \in Requests /\ Nobody \notin Asked(reload) /\ Nobody \notin Changes
    BY ChangesAreRequests DEF Asked
  <2>3. StaleFilesAreDue' /\ BaseIsDue'
    BY <1>1, <2>1, <2>2, QueueIsOK, RequestIsDue
  <2>4. \A c \in Changes : status[c] \in {"updating", "reloading"} /\ reload'.serving = c =>
            \A f \in Rendered' : Source(f) = part'[c] => files'[f].rev >= wrote'[c]
    BY <1>1, <2>1, <2>2, RequestKeepsWritten
  <2>5. WrittenIsThere'
    BY <1>1, <2>1, <2>4 DEF WrittenIsThere
  <2> QED
    BY <2>3, <2>5
<1>11. ASSUME Initialize PROVE StaleFilesAreDue' /\ BaseIsDue' /\ WrittenIsThere'
  <2>1. /\ reload' = RePopulateNginxConfigFile(reload, Startup)
        /\ process = "down"
        /\ UNCHANGED <<definitions, changes, kind, part, status, copy, wrote, saved>>
    BY <1>11 DEF Initialize, changeVars
  <2>2. Startup \in Requests /\ Startup \notin Asked(reload)
    BY ChangesAreRequests DEF Asked
  <2>3. StaleFilesAreDue' /\ BaseIsDue'
    BY <1>1, <2>1, <2>2, QueueIsOK, RequestIsDue
  <2>4. \A c \in Changes : status'[c] \notin {"updating", "reloading"}
    BY <1>1, <2>1 DEF QueueInv, DownIsIdle, Open
  <2>5. WrittenIsThere'
    BY <2>4 DEF WrittenIsThere
  <2> QED
    BY <2>3, <2>5
<1>12. ASSUME UNCHANGED vars PROVE StaleFilesAreDue' /\ BaseIsDue' /\ WrittenIsThere'
  <2>1. UNCHANGED <<definitions, files, reload, missed, part, status, wrote>>
    BY <1>12 DEF vars, changeVars
  <2>2. Rendered' = Rendered
    BY <2>1 DEF Rendered
  <2>3. StaleFilesAreDue'
    BY <1>1, <2>1, <2>2 DEF StaleFilesAreDue
  <2>4. BaseIsDue'
    BY <1>1, <2>1 DEF BaseIsDue
  <2>5. WrittenIsThere'
    BY <1>1, <2>1, <2>2 DEF WrittenIsThere
  <2> QED
    BY <2>3, <2>4, <2>5
<1> QED
  BY <1>5, <1>6, <1>7, <1>8, <1>9, <1>10, <1>11, <1>12, CheckFailsIsFresh,
     UpdateFailsIsFresh, SaveIsFresh, UpdatedIsFresh, RenderIsFresh, SucceedsIsFresh,
     RefusesIsFresh, BreaksIsFresh
  DEF Next

LEMMA FreshInvHolds == Spec => []FreshInv
BY InitFreshInv, NextFreshInv, PTL DEF Spec

\* A file that is behind its definition is always about to be rewritten, unless
\* something broke, for any number of apps, of changes at the same time, and of
\* restarts and renewals: also the files of a change that nginx refused, which
\* the reload that nobody waits for puts right.
THEOREM StaleFilesWillBeRewritten == Spec => []StaleFilesAreDue
<1>1. FreshInv => StaleFilesAreDue
  BY DEF FreshInv
<1> QED
  BY <1>1, FreshInvHolds, PTL

\* Only the end of a reload that nginx accepted makes an answer a good one.
LEMMA OnlySuccessAnswers ==
    ASSUME QueueInv, [Next]_vars, NEW c \in Changes,
           status'[c] = "ok", status[c] # "ok"
    PROVE  Succeeds
<1>1. status \in [Changes -> Statuses] /\ changes \in Nat
  BY ChangesAreRequests DEF QueueInv, TypeOK
<1>2. ASSUME NEW d \in Changes, NEW s, s # "ok", status' = [status EXCEPT ![d] = s]
      PROVE  FALSE
  BY <1>1, <1>2
<1>3. ASSUME Dies PROVE FALSE
  BY <1>3 DEF Dies, Open
<1>4. CASE UNCHANGED status
  BY <1>4
<1>5. ASSUME NEW k, NEW p, NEW t, NEW s, NEW rev, s # "ok", Arrives(k, p, t, s, rev)
      PROVE  FALSE
  BY <1>2, <1>5 DEF Arrives
<1>6. ASSUME NEW d \in Changes, Ended(d, "failed")
      PROVE  FALSE
  BY <1>2, <1>6 DEF Ended
<1>7. CASE \E a \in Apps : \/ \E sound \in BOOLEAN : StartUpdate(a, sound)
                           \/ StartPatch(a)
                           \/ ChangeDomain(a)
  BY <1>5, <1>7 DEF StartUpdate, StartPatch, ChangeDomain
<1>8. CASE \E sound \in BOOLEAN : SetNginxConfig(sound)
  BY <1>5, <1>8 DEF SetNginxConfig
<1>9. CASE \E d \in Changes : CheckFails(d) \/ ServiceUpdateFails(d)
  BY <1>6, <1>9 DEF CheckFails, ServiceUpdateFails
<1>10. CASE \E d \in Changes : SaveDefinition(d) \/ ServiceUpdated(d)
  BY <1>2, <1>10 DEF SaveDefinition, ServiceUpdated
<1>11. CASE RenderStep \/ RenewAllCertsAndReload \/ Initialize
  BY <1>4, <1>11 DEF RenderStep, RenewAllCertsAndReload, Initialize, changeVars
<1>12. CASE Refuses
  BY <1>3, <1>4, <1>6, <1>12 DEF Refuses, chainVars
<1>13. CASE ReloadBreaks
  BY <1>3, <1>4, <1>6, <1>13 DEF ReloadBreaks, chainVars
<1>14. CASE Restart
  BY <1>3, <1>14 DEF Restart
<1>15. CASE UNCHANGED vars
  BY <1>4, <1>15 DEF vars, changeVars
<1> QED
  BY <1>7, <1>8, <1>9, <1>10, <1>11, <1>12, <1>13, <1>14, <1>15 DEF Next

\* What a change wrote is what nginx runs when the change is answered, however
\* many requests came in between and in whatever order the stack served them:
\* the reload that answers a change rendered every file after the change wrote.
THEOREM ConfigAnswersAreFresh == Spec => AnswersAreFresh
<1>1. FreshInv /\ [Next]_vars =>
          [\A c \in Changes :
              status'[c] = "ok" /\ status[c] # "ok" =>
                  \A f \in Files :
                      Source(f) = part[c] => loaded'[f].rev >= wrote[c]]_vars
  <2>1. SUFFICES ASSUME FreshInv, [Next]_vars, NEW c \in Changes,
                        status'[c] = "ok", status[c] # "ok",
                        NEW f \in Files, Source(f) = part[c]
                 PROVE  loaded'[f].rev >= wrote[c]
    OBVIOUS
  <2>2. QueueInv /\ WrittenIsThere
    BY <2>1 DEF FreshInv
  <2>3. Succeeds
    BY <2>1, <2>2, OnlySuccessAnswers
  <2>4. reload.stage = "test" /\ loaded' = files
    BY <2>3 DEF Succeeds, ValidateNginxConfigAndReload
  <2>5. Rendered = Files
    BY <2>4 DEF Rendered
  <2>6. reload.serving = c
    <3>1. ASSUME NEW d \in Changes, Ended(d, "ok"), d # c PROVE FALSE
      BY <2>1, <2>2, <3>1, EndedLeavesOthers
    <3>2. ~ UNCHANGED status
      BY <2>1
    <3> QED
      BY <2>3, <3>1, <3>2 DEF Succeeds, chainVars
  <2>7. status[c] = "reloading"
    BY <2>2, <2>6, ServedIsOpen
  <2> QED
    BY <2>1, <2>2, <2>4, <2>5, <2>6, <2>7 DEF WrittenIsThere
<1> QED
  BY <1>1, FreshInvHolds, PTL DEF Spec, AnswersAreFresh

-----------------------------------------------------------------------------
(***************************************************************************)
(* The page of an app, for any tabs and fields and any number of values    *)
(* and tokens.  The lock of UserRouter is held from the admission of a      *)
(* request to its answer, as long as its tab is there; the request of a tab *)
(* that was left is served beside others.  What such requests change is     *)
(* raced; of all else, what a request has read is what was saved last.      *)
(***************************************************************************)

\* A request, whatever the values it carries.
PageCall(c) ==
    /\ DOMAIN c = {"op", "at", "fields", "enable", "with", "base", "under"}
    /\ c.op \in Operations
    /\ c.at \in {"sent", "admitted", "read", "written"}
    /\ c.at \in {"read", "written"} => c.op \in Saves
    /\ c.base = [f \in Fields |-> c.base[f]]
    /\ c.with \in Nat

PageTypes ==
    /\ app = [f \in Fields |-> app[f]]
    /\ kept = [f \in Fields |-> kept[f]]
    /\ given \in Nat
    /\ token \in 0..given
    /\ revoked \subseteq 1..given
    /\ page \in [Tabs -> {"closed", "ready", "working", "reloading"}]
    /\ tokenOn \in [Tabs -> BOOLEAN]
    /\ revealed \in [Tabs -> Nat]
    /\ call = [t \in Tabs |-> call[t]]
    /\ \A t \in Tabs : call[t] = NoCall \/ PageCall(call[t])
    /\ \A t \in Tabs : call[t].at \in {"read", "written"} => call[t].under \in 0..given
    /\ open \in BOOLEAN

\* One request of a tab that is there is served at a time.
LockHeld ==
    \A t \in Tabs :
        /\ Served(t) => call[t].op # "reveal"
        /\ Served(t) /\ page[t] = "working" =>
              ~open /\ \A u \in Tabs : Served(u) /\ page[u] = "working" => u = t

\* A page that does not know of a token has none to send.
TokensShown ==
    \A t \in Tabs :
        /\ revealed[t] # 0 => tokenOn[t]
        /\ call[t].at # "none" /\ call[t].op = "reveal" /\ page[t] = "working" => tokenOn[t]
        /\ call[t].at # "none" /\ call[t].op = "toggle" /\ call[t].enable => call[t].with = 0

\* Requests that are served beside each other are known, with what they change.
BesideTold ==
    \A t \in Tabs :
        /\ Served(t) => \A u \in Tabs : Served(u) /\ u # t => t \in beside
        /\ t \in beside =>
              Served(t) /\ (Fields \cup {"token"}) \cap Alters(call[t].op) \subseteq raced

\* What a request that is served alone has written is there.
WrittenAlone ==
    \A t \in Tabs \ beside : call[t].at = "written" =>
        \A f \in Set(call[t]) : app[f] = call[t].fields[f]

\* A field was read, or replaced, as it was last saved; and it is still so, but
\* for the request that has written it.
FieldKept(f) ==
    /\ \A t \in Tabs : call[t].at \in {"read", "written"} => call[t].base[f] = kept[f]
    /\ \/ app[f] = kept[f]
       \/ \E t \in Tabs : call[t].at = "written" /\ f \in Set(call[t])

FieldsKept == \A f \in Fields \ raced : FieldKept(f)

\* The token that a request has read, or replaced, was not revoked; it is still
\* the token, but for the request that toggles it.
TokenRead(t) ==
    call[t].at \in {"read", "written"} =>
        /\ call[t].under \notin revoked
        /\ call[t].at = "read" \/ call[t].op # "toggle" => call[t].under = token

TokenKept == "token" \notin raced => token \notin revoked /\ \A t \in Tabs : TokenRead(t)

PageInv == PageTypes /\ LockHeld /\ TokensShown /\ BesideTold /\ WrittenAlone /\ FieldsKept /\ TokenKept

\* One request goes on, or ends.
LEMMA CallMoves ==
    ASSUME PageTypes, NEW t \in Tabs, NEW c, c = NoCall \/ PageCall(c),
           call' = [call EXCEPT ![t] = c]
    PROVE  /\ call' = [u \in Tabs |-> call'[u]]
           /\ call'[t] = c
           /\ \A u \in Tabs : u # t => call'[u] = call[u]
           /\ \A u \in Tabs : call'[u] = NoCall \/ PageCall(call'[u])
BY DEF PageTypes

\* A request that is not beside another is served alone.
LEMMA AloneIs ==
    ASSUME BesideTold, NEW t \in Tabs, Served(t), t \notin beside
    PROVE  \A u \in Tabs : u # t => ~Served(u)
BY DEF BesideTold

\* What a request changes beside another is raced.
LEMMA BesideIs ==
    ASSUME BesideTold, NEW t \in Tabs, Served(t), t \in beside
    PROVE  /\ \A f \in Fields : f \in Group(call[t].op) => f \in raced
           /\ call[t].op \in {"toggle", "rotate"} => "token" \in raced
BY DEF BesideTold, Alters

\* What a request that has not written finds is what was kept.
LEMMA FoundIsKept ==
    ASSUME BesideTold, FieldsKept, NEW t \in Tabs, Served(t), call[t].at # "written",
           NEW f \in Fields, f \notin raced
    PROVE  app[f] = kept[f]
<1>1. ASSUME NEW u \in Tabs, call[u].at = "written", f \in Set(call[u])
      PROVE  FALSE
  <2>1. Served(u) /\ u # t
    BY <1>1 DEF Served
  <2>2. u \in beside
    BY <2>1 DEF BesideTold
  <2>3. f \in Group(call[u].op)
    BY <1>1 DEF Set
  <2>4. QED BY <2>1, <2>2, <2>3, BesideIs
<1>2. QED BY <1>1 DEF FieldsKept, FieldKept

\* Nothing of the app, the token or what is told of them has changed, and a
\* request that reads or has written goes on as it was, or not at all.
LEMMA StoreStays ==
    ASSUME PageInv, NEW t \in Tabs, UNCHANGED <<app, token, given, kept, revoked>>,
           raced \subseteq raced', beside \ {t} \subseteq beside',
           \A u \in Tabs : u # t => call'[u] = call[u],
           \/ call'[t] = call[t] /\ beside \subseteq beside'
           \/ call[t].at # "written" /\ call'[t].at \notin {"read", "written"}
    PROVE  /\ WrittenAlone' /\ FieldsKept' /\ TokenKept'
           /\ \A u \in Tabs : call'[u].at \in {"read", "written"} => call'[u].under \in 0..given'
<1>1. PageTypes /\ WrittenAlone /\ FieldsKept /\ TokenKept
  BY DEF PageInv
<1>2. ASSUME NEW u \in Tabs, call'[u].at \in {"read", "written"}
      PROVE  call'[u] = call[u]
  BY <1>2
<1>3. ASSUME NEW u \in Tabs, call[u].at = "written"
      PROVE  call'[u] = call[u]
  BY <1>3
<1>4. WrittenAlone'
  <2>1. SUFFICES ASSUME NEW u \in Tabs, u \notin beside', call'[u].at = "written",
                        NEW f \in Set(call'[u])
                 PROVE  app'[f] = call'[u].fields[f]
    BY DEF WrittenAlone, Set
  <2>2. call'[u] = call[u]
    BY <1>2, <2>1
  <2>3. CASE u # t
    BY <1>1, <2>1, <2>2, <2>3 DEF WrittenAlone
  <2>4. CASE u = t /\ u \notin beside
    BY <1>1, <2>1, <2>2, <2>4 DEF WrittenAlone
  <2>5. CASE u = t /\ u \in beside
    <3>1. call[t].at = "written"
      BY <2>1, <2>2, <2>5
    <3>2. QED BY <2>1, <2>5, <3>1
  <2>6. QED BY <2>3, <2>4, <2>5
<1>5. ASSUME NEW f \in Fields, f \notin raced'
      PROVE  FieldKept(f)'
  <2>1. FieldKept(f)
    BY <1>1, <1>5 DEF FieldsKept
  <2>2. QED BY <1>2, <1>3, <2>1 DEF FieldKept, Set
<1>6. TokenKept'
  BY <1>1, <1>2 DEF TokenKept, TokenRead
<1>7. QED BY <1>1, <1>2, <1>4, <1>5, <1>6 DEF FieldsKept, PageTypes

\* A request is answered or refused.  The lock is let go, if it was held by it.
LEMMA EndedIs ==
    ASSUME PageInv, NEW t \in Tabs,
           call' = [call EXCEPT ![t] = NoCall],
           \A u \in Tabs : u # t => page'[u] = page[u],
           open' = (open \/ (page[t] = "working" /\ Served(t))),
           beside' = beside \ {t},
           raced' = raced \/ (Served(t) /\ t \notin beside)
    PROVE  /\ call' = [u \in Tabs |-> call'[u]]
           /\ \A u \in Tabs : call'[u] = IF u = t THEN NoCall ELSE call[u]
           /\ \A u \in Tabs : call'[u] = NoCall \/ PageCall(call'[u])
           /\ open' \in BOOLEAN
           /\ LockHeld' /\ BesideTold'
<1>1. PageTypes /\ LockHeld /\ BesideTold
  BY DEF PageInv
<1>2. /\ call' = [u \in Tabs |-> call'[u]]
      /\ call'[t] = NoCall
      /\ \A u \in Tabs : u # t => call'[u] = call[u]
      /\ \A u \in Tabs : call'[u] = NoCall \/ PageCall(call'[u])
  BY <1>1, CallMoves
<1>3. open' \in BOOLEAN
  BY <1>1 DEF PageTypes
<1>4. ASSUME NEW u \in Tabs, Served(u)'
      PROVE  u # t /\ call'[u] = call[u] /\ Served(u) /\ page'[u] = page[u]
  BY <1>2, <1>4 DEF NoCall, Served
<1>5. LockHeld'
  <2>1. SUFFICES ASSUME NEW u \in Tabs, Served(u)'
                 PROVE  /\ call'[u].op # "reveal"
                        /\ page'[u] = "working" =>
                              ~open' /\ \A v \in Tabs : Served(v)' /\ page'[v] = "working" => v = u
    BY DEF LockHeld
  <2>2. u # t /\ call'[u] = call[u] /\ Served(u) /\ page'[u] = page[u]
    BY <1>4, <2>1
  <2>3. ASSUME page[u] = "working"
        PROVE  ~open /\ ~(page[t] = "working" /\ Served(t))
    BY <1>1, <2>2, <2>3 DEF LockHeld
  <2>4. ASSUME page'[u] = "working", NEW v \in Tabs, Served(v)', page'[v] = "working"
        PROVE  v = u
    BY <1>1, <1>4, <2>2, <2>4 DEF LockHeld
  <2>5. call[u].op # "reveal"
    BY <1>1, <2>2 DEF LockHeld
  <2>6. QED BY <2>2, <2>3, <2>4, <2>5
<1>6. BesideTold'
  <2>1. ASSUME NEW u \in Tabs, Served(u)', NEW v \in Tabs, Served(v)', v # u
        PROVE  u \in beside'
    BY <1>1, <1>4, <2>1 DEF BesideTold
  <2>2. ASSUME NEW u \in Tabs, u \in beside'
        PROVE  Served(u)' /\ (Fields \cup {"token"}) \cap Alters(call'[u].op) \subseteq raced'
    <3>1. u # t /\ u \in beside /\ call'[u] = call[u] /\ Served(u)
      BY <1>1, <1>2, <2>2 DEF BesideTold
    <3>2. raced' = raced
      BY <1>1, <3>1 DEF BesideTold
    <3>3. QED BY <1>1, <3>1, <3>2 DEF BesideTold, Served
  <2>3. QED BY <2>1, <2>2 DEF BesideTold, Alters, Group
<1>7. QED BY <1>2, <1>3, <1>5, <1>6

\* A page that is loaded, left, or typed into.
LEMMA PageOnlyOK ==
    ASSUME PageInv, NEW t \in Tabs,
           \/ LoadPage(t)
           \/ LeavePage(t)
           \/ \E f \in Fields : TypeInto(t, f)
    PROVE  PageInv'
<1>1. PageTypes /\ LockHeld /\ TokensShown /\ BesideTold
  BY DEF PageInv
<1>2. UNCHANGED <<serverVars, call, pageHistory>>
  BY DEF LoadPage, LeavePage, TypeInto
<1>3. UNCHANGED <<app, token, given, call, kept, revoked, beside, raced>>
  BY <1>2 DEF serverVars, pageHistory
<1>4. BesideTold'
  BY <1>1, <1>3 DEF BesideTold, Served, Alters, Group
<1>5. WrittenAlone' /\ FieldsKept' /\ TokenKept'
  BY <1>3, StoreStays
<1>6. CASE \E f \in Fields : TypeInto(t, f)
  <2>1. UNCHANGED <<page, tokenOn, revealed, open>>
    BY <1>6 DEF TypeInto
  <2>2. PageTypes'
    BY <1>1, <1>3, <2>1 DEF PageTypes
  <2>3. LockHeld' /\ TokensShown'
    BY <1>1, <1>3, <2>1 DEF LockHeld, TokensShown, Served
  <2>4. QED BY <1>4, <1>5, <2>2, <2>3 DEF PageInv
<1>7. CASE LoadPage(t) \/ LeavePage(t)
  <2>1. open' = (open \/ (page[t] = "working" /\ Served(t)))
    BY <1>1, <1>7 DEF LoadPage, LeavePage, PageTypes
  <2>2. PICK p, on : /\ p \in {"ready", "closed"} /\ on \in BOOLEAN
                     /\ page' = [page EXCEPT ![t] = p]
                     /\ tokenOn' = [tokenOn EXCEPT ![t] = on]
                     /\ revealed' = [revealed EXCEPT ![t] = 0]
    <3>1. PICK on : on = (token # 0)
      OBVIOUS
    <3>2. on \in BOOLEAN
      BY <3>1
    <3>3. CASE LoadPage(t)
      BY <3>1, <3>2, <3>3 DEF LoadPage
    <3>4. CASE LeavePage(t)
      BY <3>4 DEF LeavePage
    <3>5. QED BY <1>7, <3>3, <3>4
  <2>3. PageTypes'
    BY <1>1, <1>3, <2>1, <2>2 DEF PageTypes
  <2>4. page'[t] # "working" /\ \A u \in Tabs : u # t => page'[u] = page[u]
    BY <1>1, <2>2 DEF PageTypes
  <2>5. LockHeld'
    BY <1>1, <1>3, <2>1, <2>4 DEF LockHeld, Served
  <2>6. TokensShown'
    BY <1>1, <1>3, <2>2, <2>4 DEF TokensShown, PageTypes
  <2>7. QED BY <1>4, <1>5, <2>3, <2>5, <2>6 DEF PageInv
<1>8. QED BY <1>6, <1>7

LEMMA SendOK ==
    ASSUME PageInv, NEW t \in Tabs, NEW o \in Operations, NEW enable, NEW with \in Nat,
           Send(t, o, enable, with),
           o = "reveal" => tokenOn[t],
           o = "toggle" /\ enable => with = 0
    PROVE  PageInv'
<1>1. PageTypes /\ LockHeld /\ TokensShown /\ BesideTold
  BY DEF PageInv
<1>2. PICK fields, base : fields = Sent(t, Patch(o)) /\ base = Nothing
  OBVIOUS
<1>3. PICK c : c = [op |-> o, at |-> "sent", fields |-> fields, enable |-> enable, with |-> with,
                    base |-> base, under |-> 0]
  OBVIOUS
<1>4. PageCall(c) /\ c.op = o /\ c.at = "sent" /\ c.enable = enable /\ c.with = with
  <2>1. base = [f \in Fields |-> base[f]]
    BY <1>2 DEF Nothing
  <2>2. QED BY <1>3, <2>1 DEF PageCall
<1>5. /\ page[t] = "ready" /\ call[t] = NoCall
      /\ page' = [page EXCEPT ![t] = "working"]
      /\ call' = [call EXCEPT ![t] = c]
      /\ UNCHANGED <<app, token, given, kept, revoked, beside, raced, tokenOn, revealed, open>>
  BY <1>2, <1>3 DEF Send, serverVars, pageHistory
<1>6. /\ call' = [u \in Tabs |-> call'[u]]
      /\ call'[t] = c
      /\ \A u \in Tabs : u # t => call'[u] = call[u]
      /\ \A u \in Tabs : call'[u] = NoCall \/ PageCall(call'[u])
  BY <1>1, <1>4, <1>5, CallMoves
<1>7. ~Served(t) /\ ~Served(t)' /\ call[t].at = "none"
  BY <1>4, <1>5, <1>6 DEF Served, NoCall
<1>8. \A u \in Tabs : Served(u)' => u # t /\ call'[u] = call[u] /\ Served(u)
  BY <1>6, <1>7 DEF Served
<1>9. WrittenAlone' /\ FieldsKept' /\ TokenKept'
      /\ \A u \in Tabs : call'[u].at \in {"read", "written"} => call'[u].under \in 0..given'
  BY <1>4, <1>5, <1>6, <1>7, StoreStays
<1>10. PageTypes'
  BY <1>1, <1>5, <1>6, <1>9 DEF PageTypes
<1>11. LockHeld'
  <2>1. \A u \in Tabs : u # t => page'[u] = page[u]
    BY <1>1, <1>5 DEF PageTypes
  <2>2. QED BY <1>1, <1>5, <1>8, <2>1 DEF LockHeld
<1>12. TokensShown'
  <2>1. \A u \in Tabs : u # t => page'[u] = page[u]
    BY <1>1, <1>5 DEF PageTypes
  <2>2. QED BY <1>1, <1>4, <1>5, <1>6, <2>1 DEF TokensShown
<1>13. BesideTold'
  <2>1. t \notin beside
    BY <1>1, <1>7 DEF BesideTold
  <2>2. \A u \in Tabs : u # t => (Served(u)' <=> Served(u))
    BY <1>6 DEF Served
  <2>3. QED BY <1>1, <1>5, <1>6, <1>7, <2>1, <2>2 DEF BesideTold, Alters, Group
<1>14. QED BY <1>9, <1>10, <1>11, <1>12, <1>13 DEF PageInv

LEMMA SendsOK ==
    ASSUME PageInv, NEW t \in Tabs,
           \/ SaveConfiguration(t)
           \/ SaveHttpSettings(t)
           \/ saveRepo(t)
           \/ toggleAppToken(t)
           \/ rotateToken(t)
           \/ revealToken(t)
           \/ runOperation(t)
    PROVE  PageInv'
<1>1. PageTypes /\ TokensShown
  BY DEF PageInv
<1>2. {"configuration", "http", "repository", "toggle", "rotate", "reveal", "domains"} \subseteq Operations
  BY DEF Operations, Saves
<1>3. CASE SaveConfiguration(t)
  BY <1>2, <1>3, SendOK DEF SaveConfiguration
<1>4. CASE SaveHttpSettings(t)
  BY <1>2, <1>4, SendOK DEF SaveHttpSettings
<1>5. CASE saveRepo(t)
  BY <1>2, <1>5, SendOK DEF saveRepo
<1>6. CASE toggleAppToken(t)
  <2>1. PICK enable, with : enable = ~tokenOn[t] /\ with = revealed[t]
    OBVIOUS
  <2>2. with \in Nat /\ (enable => with = 0)
    BY <1>1, <2>1 DEF PageTypes, TokensShown
  <2>3. Send(t, "toggle", enable, with)
    BY <1>6, <2>1 DEF toggleAppToken
  <2>4. QED BY <1>2, <2>2, <2>3, SendOK
<1>7. CASE rotateToken(t)
  BY <1>2, <1>7, SendOK DEF rotateToken
<1>8. CASE revealToken(t)
  <2>1. Send(t, "reveal", FALSE, 0) /\ tokenOn[t] /\ "reveal" \in Operations
    BY <1>2, <1>8 DEF revealToken
  <2>2. QED BY <2>1, SendOK
<1>9. CASE runOperation(t)
  BY <1>2, <1>9, SendOK DEF runOperation
<1>10. QED BY <1>3, <1>4, <1>5, <1>6, <1>7, <1>8, <1>9

\* A request is let in: all that are served by then were left.
LEMMA AdmitOK ==
    ASSUME PageInv, NEW t \in Tabs, call[t].op # "reveal", AdmitCall(t)
    PROVE  PageInv'
<1>1. PageTypes /\ LockHeld /\ TokensShown /\ BesideTold
  BY DEF PageInv
<1>2. call[t].at = "sent" /\ open /\ PageCall(call[t]) /\ ~Served(t)
  BY <1>1 DEF AdmitCall, LockIsOpen, PageTypes, NoCall, Served
<1>3. PICK c : c = [call[t] EXCEPT !.at = "admitted"]
  OBVIOUS
<1>4. PageCall(c) /\ c.at = "admitted" /\ c.op = call[t].op /\ c.enable = call[t].enable /\ c.with = call[t].with
  BY <1>2, <1>3 DEF PageCall
<1>5. call' = [call EXCEPT ![t] = c]
  BY <1>3 DEF AdmitCall, CallGoes
<1>6. open' = (page[t] # "working")
  BY DEF AdmitCall
<1>7. UNCHANGED <<app, token, given, kept, revoked, page, tokenOn, revealed>>
  BY DEF AdmitCall, serverVars, pageVars
<1>8. /\ call' = [u \in Tabs |-> call'[u]]
      /\ call'[t] = c
      /\ \A u \in Tabs : u # t => call'[u] = call[u]
      /\ \A u \in Tabs : call'[u] = NoCall \/ PageCall(call'[u])
  BY <1>1, <1>4, <1>5, CallMoves
<1>9. PICK now : /\ now = IF Left = {} THEN {} ELSE Left \cup {t}
                 /\ beside' = beside \cup now
                 /\ raced' = raced \cup ((Fields \cup {"token"}) \cap UNION {Alters(call[u].op) : u \in now})
  BY DEF AdmitCall
<1>10. \A u \in Tabs : Served(u) => page[u] # "working" /\ u # t /\ u \in Left
  BY <1>1, <1>2 DEF LockHeld, Left
<1>11. \A u \in Tabs : Served(u)' <=> (u = t \/ Served(u))
  BY <1>4, <1>8 DEF Served
<1>12. WrittenAlone' /\ FieldsKept' /\ TokenKept'
       /\ \A u \in Tabs : call'[u].at \in {"read", "written"} => call'[u].under \in 0..given'
  BY <1>2, <1>4, <1>7, <1>8, <1>9, StoreStays
<1>13. PageTypes'
  BY <1>1, <1>6, <1>7, <1>8, <1>12 DEF PageTypes
<1>14. LockHeld'
  BY <1>1, <1>4, <1>6, <1>7, <1>8, <1>10, <1>11 DEF LockHeld
<1>15. TokensShown'
  BY <1>1, <1>2, <1>4, <1>7, <1>8 DEF TokensShown
<1>16. BesideTold'
  <2>1. ASSUME NEW u \in Tabs, Served(u)', NEW v \in Tabs, Served(v)', v # u
        PROVE  u \in beside'
    <3>1. u \in Left \/ v \in Left
      BY <1>10, <1>11, <2>1
    <3>2. u \in now
      BY <1>9, <1>10, <1>11, <2>1, <3>1
    <3>3. QED BY <1>9, <3>2
  <2>2. ASSUME NEW u \in Tabs, u \in beside'
        PROVE  Served(u)' /\ (Fields \cup {"token"}) \cap Alters(call'[u].op) \subseteq raced'
    <3>1. call'[u].op = call[u].op
      BY <1>4, <1>8
    <3>2. CASE u \in now
      <4>1. Served(u)'
        BY <1>9, <1>11, <3>2 DEF Left
      <4>2. PICK a : a = Alters(call[u].op)
        OBVIOUS
      <4>3. a \in {Alters(call[v].op) : v \in now}
        BY <3>2, <4>2
      <4>4. QED BY <1>9, <3>1, <4>1, <4>2, <4>3
    <3>3. CASE u \in beside
      BY <1>1, <1>9, <1>11, <3>1, <3>3 DEF BesideTold
    <3>4. QED BY <1>9, <2>2, <3>2, <3>3
  <2>3. QED BY <2>1, <2>2 DEF BesideTold, Alters, Group
<1>17. QED BY <1>12, <1>13, <1>14, <1>15, <1>16 DEF PageInv

\* A request that is served goes on to its next stage, of the same operation.
LEMMA StagesIs ==
    ASSUME PageInv, NEW t \in Tabs, Served(t), NEW c, PageCall(c),
           c.at \in {"admitted", "read", "written"}, c.op = call[t].op,
           c.enable = call[t].enable, c.with = call[t].with,
           call' = [call EXCEPT ![t] = c],
           UNCHANGED <<page, tokenOn, revealed, open, beside, raced>>
    PROVE  /\ call' = [u \in Tabs |-> call'[u]]
           /\ call'[t] = c
           /\ \A u \in Tabs : u # t => call'[u] = call[u]
           /\ \A u \in Tabs : call'[u] = NoCall \/ PageCall(call'[u])
           /\ LockHeld' /\ TokensShown' /\ BesideTold'
<1>1. PageTypes /\ LockHeld /\ TokensShown /\ BesideTold
  BY DEF PageInv
<1>2. /\ call' = [u \in Tabs |-> call'[u]]
      /\ call'[t] = c
      /\ \A u \in Tabs : u # t => call'[u] = call[u]
      /\ \A u \in Tabs : call'[u] = NoCall \/ PageCall(call'[u])
  BY <1>1, CallMoves
<1>3. \A u \in Tabs : (Served(u)' <=> Served(u)) /\ call'[u].op = call[u].op
  BY <1>2 DEF Served
<1>4. LockHeld'
  BY <1>1, <1>3 DEF LockHeld
<1>5. TokensShown'
  <2>1. call[t].at # "none"
    BY DEF Served
  <2>2. QED BY <1>1, <1>2, <2>1 DEF TokensShown
<1>6. BesideTold'
  BY <1>1, <1>3 DEF BesideTold, Alters, Group
<1>7. QED BY <1>2, <1>4, <1>5, <1>6

LEMMA ReadAppOK ==
    ASSUME PageInv, NEW t \in Tabs, ReadApp(t)
    PROVE  PageInv'
<1>1. PageTypes /\ BesideTold /\ WrittenAlone /\ FieldsKept /\ TokenKept
  BY DEF PageInv
<1>2. call[t].at = "admitted" /\ call[t].op \in Saves /\ PageCall(call[t]) /\ Served(t)
  <2>1. call[t].at = "admitted" /\ call[t].op \in Saves
    BY DEF ReadApp
  <2>2. PageCall(call[t])
    BY <1>1, <2>1 DEF PageTypes, NoCall
  <2>3. QED BY <2>1, <2>2 DEF Served
<1>3. PICK c : c = [call[t] EXCEPT !.at = "read", !.base = app, !.under = token]
  OBVIOUS
<1>4. /\ PageCall(c) /\ c.at = "read" /\ c.op = call[t].op /\ c.enable = call[t].enable
      /\ c.with = call[t].with /\ c.base = app /\ c.under = token
  <2>1. app = [f \in Fields |-> app[f]]
    BY <1>1 DEF PageTypes
  <2>2. QED BY <1>2, <1>3, <2>1 DEF PageCall
<1>5. call' = [call EXCEPT ![t] = c]
  BY <1>3 DEF ReadApp
<1>6. UNCHANGED <<app, token, given, kept, revoked, beside, raced, page, tokenOn, revealed, open>>
  BY DEF ReadApp, serverVars, pageVars, pageHistory
<1>7. /\ call' = [u \in Tabs |-> call'[u]]
      /\ call'[t] = c
      /\ \A u \in Tabs : u # t => call'[u] = call[u]
      /\ \A u \in Tabs : call'[u] = NoCall \/ PageCall(call'[u])
      /\ LockHeld' /\ TokensShown' /\ BesideTold'
  BY <1>2, <1>4, <1>5, <1>6, StagesIs
<1>8. PageTypes'
  BY <1>1, <1>4, <1>6, <1>7 DEF PageTypes
<1>9. WrittenAlone'
  BY <1>1, <1>4, <1>6, <1>7 DEF WrittenAlone, Set
<1>10. ASSUME NEW f \in Fields, f \notin raced'
       PROVE  FieldKept(f)'
  <2>1. FieldKept(f) /\ app[f] = kept[f]
    BY <1>1, <1>2, <1>6, <1>10, FoundIsKept DEF FieldsKept
  <2>2. QED BY <1>4, <1>6, <1>7, <2>1 DEF FieldKept, Set
<1>11. TokenKept'
  BY <1>1, <1>4, <1>6, <1>7 DEF TokenKept, TokenRead
<1>12. QED BY <1>7, <1>8, <1>9, <1>10, <1>11 DEF PageInv, FieldsKept

\* Nothing but the request has changed.
LEMMA RefusedOK ==
    ASSUME PageInv, NEW t \in Tabs, RefuseCall(t) \/ CallFails(t)
    PROVE  PageInv'
<1>1. PageTypes /\ LockHeld /\ TokensShown /\ BesideTold
  BY DEF PageInv
<1>2. call[t].at \in {"sent", "admitted", "read"}
  BY DEF RefuseCall, CallFails
<1>3. UNCHANGED <<app, token, given, kept, revoked, raced, tokenOn, revealed>>
  BY DEF RefuseCall, CallFails, serverVars, pageHistory
<1>4. PICK p : /\ p \in {"closed", "ready", "working", "reloading"} /\ p # "working"
               /\ page' = [page EXCEPT ![t] = p]
  <2>1. PICK q : q = IF page[t] = "working" THEN "ready" ELSE page[t]
    OBVIOUS
  <2>2. page[t] \in {"closed", "ready", "working", "reloading"}
    BY <1>1 DEF PageTypes
  <2>3. page' = [page EXCEPT ![t] = q]
    BY <2>1 DEF RefuseCall, CallFails, AnswerCall
  <2>4. QED BY <2>1, <2>2, <2>3
<1>5. \A u \in Tabs : u # t => page'[u] = page[u]
  BY <1>1, <1>4 DEF PageTypes
<1>6. /\ call' = [call EXCEPT ![t] = NoCall]
      /\ open' = (open \/ (page[t] = "working" /\ Served(t)))
      /\ beside' = beside \ {t}
  <2>1. CASE RefuseCall(t)
    <3>1. ~Served(t) /\ t \notin beside
      BY <1>1, <2>1 DEF RefuseCall, Served, BesideTold
    <3>2. QED BY <1>1, <2>1, <3>1 DEF RefuseCall, PageTypes, pageHistory
  <2>2. CASE CallFails(t)
    BY <1>2, <2>2 DEF CallFails, AnswerCall, Served
  <2>3. QED BY <2>1, <2>2
<1>7. /\ call' = [u \in Tabs |-> call'[u]]
      /\ \A u \in Tabs : call'[u] = IF u = t THEN NoCall ELSE call[u]
      /\ \A u \in Tabs : call'[u] = NoCall \/ PageCall(call'[u])
      /\ open' \in BOOLEAN
      /\ LockHeld' /\ BesideTold'
  BY <1>3, <1>5, <1>6, EndedIs
<1>8. call'[t].at = "none"
  BY <1>7 DEF NoCall
<1>9. WrittenAlone' /\ FieldsKept' /\ TokenKept'
      /\ \A u \in Tabs : call'[u].at \in {"read", "written"} => call'[u].under \in 0..given'
  <2>1. \A u \in Tabs : u # t => call'[u] = call[u]
    BY <1>7
  <2>2. beside \ {t} \subseteq beside' /\ raced \subseteq raced'
    BY <1>3, <1>6
  <2>3. QED BY <1>2, <1>3, <1>8, <2>1, <2>2, StoreStays
<1>10. PageTypes'
  BY <1>1, <1>3, <1>4, <1>7, <1>9 DEF PageTypes
<1>11. TokensShown'
  BY <1>1, <1>3, <1>5, <1>7, <1>8 DEF TokensShown
<1>12. QED BY <1>7, <1>9, <1>10, <1>11 DEF PageInv

-----------------------------------------------------------------------------
(* The writes.                                                             *)

\* What is written: what is set, and of all else what was read.
LEMMA MergedIs ==
    ASSUME NEW c, c.op \in Saves, NEW f \in Fields
    PROVE  /\ f = "domains" => Merged(c)[f] = app[f] /\ f \notin Set(c)
           /\ f # "domains" => Merged(c)[f] = IF f \in Set(c) THEN c.fields[f] ELSE c.base[f]
<1>1. "domains" \notin Group(c.op)
  BY DEF Group, Saves
<1>2. QED BY <1>1 DEF Merged, Set, Patch, RestoreKept

\* The token that is written is one that the request has found, or a new one.
LEMMA TokenIs ==
    ASSUME PageInv, NEW t \in Tabs, call[t].at = "read", call[t].op \in Saves
    PROVE  /\ TokenAfter(call[t]) \in {call[t].under, 0, given + 1, call[t].with}
           /\ call[t].op # "toggle" => TokenAfter(call[t]) = call[t].under
           /\ call[t].op = "toggle" => TokenAfter(call[t]) \in {call[t].under, 0, given + 1}
BY DEF PageInv, TokensShown, TokenAfter

LEMMA UpdateOK ==
    ASSUME PageInv, NEW t \in Tabs, UpdateAppDefinition(t)
    PROVE  PageInv'
<1>1. PageTypes /\ BesideTold /\ WrittenAlone /\ FieldsKept /\ TokenKept
  BY DEF PageInv
<1>2. call[t].at = "read" /\ call[t].op \in Saves /\ PageCall(call[t]) /\ Served(t)
  <2>1. call[t].at = "read" /\ call[t].op \in Saves
    BY DEF UpdateAppDefinition
  <2>2. PageCall(call[t])
    BY <1>1, <2>1 DEF PageTypes, NoCall
  <2>3. QED BY <2>1, <2>2 DEF Served
<1>3. PICK d : d = call[t]
  OBVIOUS
<1>4. PICK c : c = [call[t] EXCEPT !.at = "written", !.base = app, !.under = token]
  OBVIOUS
<1>5. /\ PageCall(c) /\ c.at = "written" /\ c.op = d.op /\ c.fields = d.fields
      /\ c.enable = call[t].enable /\ c.with = call[t].with /\ c.base = app /\ c.under = token
  <2>1. app = [f \in Fields |-> app[f]]
    BY <1>1 DEF PageTypes
  <2>2. QED BY <1>2, <1>3, <1>4, <2>1 DEF PageCall
<1>6. Set(c) = Set(d)
  BY <1>5 DEF Set
<1>7. /\ call' = [call EXCEPT ![t] = c]
      /\ UNCHANGED <<kept, revoked, beside, raced, page, tokenOn, revealed, open>>
  BY <1>4 DEF UpdateAppDefinition, pageVars, pageHistory
<1>8. /\ call' = [u \in Tabs |-> call'[u]]
      /\ call'[t] = c
      /\ \A u \in Tabs : u # t => call'[u] = call[u]
      /\ \A u \in Tabs : call'[u] = NoCall \/ PageCall(call'[u])
      /\ LockHeld' /\ TokensShown' /\ BesideTold'
  BY <1>2, <1>3, <1>5, <1>7, StagesIs
<1>9. ASSUME NEW f \in Fields
      PROVE  app'[f] = IF f = "domains" THEN app[f] ELSE IF f \in Set(c) THEN c.fields[f] ELSE d.base[f]
  <2>1. app' = Merged(d)
    BY <1>3 DEF UpdateAppDefinition
  <2>2. QED BY <1>2, <1>3, <1>5, <1>6, <2>1, MergedIs
<1>10. "domains" \notin Set(c)
  BY <1>2, <1>3, <1>5 DEF Set, Group, Saves
<1>11. PICK v : v = TokenAfter(call[t])
  OBVIOUS
<1>12. /\ v \in {d.under, 0, given + 1}
       /\ d.op # "toggle" => v = d.under
  BY <1>2, <1>3, <1>11, TokenIs
<1>13. token' = v /\ given' = IF v > given THEN given + 1 ELSE given
  BY <1>11 DEF UpdateAppDefinition
<1>14. given \in Nat /\ token \in 0..given /\ d.under \in 0..given /\ revoked \subseteq 1..given
  BY <1>1, <1>2, <1>3 DEF PageTypes
<1>15. given' \in Nat /\ given <= given' /\ token' \in 0..given' /\ revoked' \subseteq 1..given'
  BY <1>7, <1>12, <1>13, <1>14
<1>16. PageTypes'
  <2>1. app' = [f \in Fields |-> app'[f]]
    BY DEF UpdateAppDefinition, Merged
  <2>2. ASSUME NEW u \in Tabs, call'[u].at \in {"read", "written"}
        PROVE  call'[u].under \in 0..given'
    <3>1. call'[u].under \in 0..given
      BY <1>1, <1>5, <1>8, <1>14, <2>2 DEF PageTypes
    <3>2. QED BY <1>14, <1>15, <3>1
  <2>3. QED BY <1>1, <1>7, <1>8, <1>15, <2>1, <2>2 DEF PageTypes
<1>17. \A u \in Tabs : u # t /\ Served(u) => u \in beside /\ t \in beside
  BY <1>1, <1>2 DEF BesideTold
<1>18. WrittenAlone'
  <2>1. SUFFICES ASSUME NEW u \in Tabs, u \notin beside, call'[u].at = "written",
                        NEW f \in Set(call'[u])
                 PROVE  app'[f] = call'[u].fields[f]
    BY <1>7 DEF WrittenAlone, Set
  <2>2. u = t
    BY <1>8, <1>17, <2>1 DEF Served
  <2>3. f \in Fields /\ f \in Set(c)
    BY <1>8, <2>1, <2>2 DEF Set
  <2>4. QED BY <1>8, <1>9, <1>10, <2>2, <2>3
<1>19. ASSUME NEW f \in Fields, f \notin raced
       PROVE  FieldKept(f)'
  <2>1. app[f] = kept[f] /\ d.base[f] = kept[f]
    BY <1>1, <1>2, <1>3, <1>19, FoundIsKept DEF FieldsKept, FieldKept
  <2>2. ASSUME NEW u \in Tabs, call'[u].at \in {"read", "written"}
        PROVE  call'[u].base[f] = kept[f]
    BY <1>1, <1>5, <1>8, <1>19, <2>1, <2>2 DEF FieldsKept, FieldKept
  <2>3. f \in Set(c) \/ app'[f] = kept[f]
    BY <1>9, <1>10, <2>1
  <2>4. f \in Set(call'[t]) \/ app'[f] = kept'[f]
    BY <1>7, <1>8, <2>3
  <2>5. call'[t].at = "written"
    BY <1>5, <1>8
  <2>6. QED BY <1>7, <2>2, <2>4, <2>5 DEF FieldKept, Set
<1>20. ASSUME "token" \notin raced
       PROVE  token' \notin revoked /\ \A u \in Tabs : TokenRead(u)'
  <2>1. /\ token \notin revoked /\ d.under \notin revoked /\ d.under = token
        /\ \A u \in Tabs : TokenRead(u)
    BY <1>1, <1>2, <1>3, <1>20 DEF TokenKept, TokenRead
  <2>2. token' \in {token, 0, given + 1}
    BY <1>12, <1>13, <2>1
  <2>3. token' \notin revoked
    BY <1>14, <2>1, <2>2
  <2>4. ASSUME NEW u \in Tabs, u # t, call'[u].at \in {"read", "written"}
        PROVE  TokenRead(u)'
    <3>1. Served(u) /\ call'[u] = call[u]
      BY <1>8, <2>4 DEF Served
    <3>2. t \in beside
      BY <1>17, <2>4, <3>1
    <3>3. d.op # "toggle"
      BY <1>1, <1>2, <1>3, <1>20, <3>2, BesideIs
    <3>4. token' = token
      BY <1>12, <1>13, <2>1, <3>3
    <3>5. QED BY <1>7, <2>1, <3>1, <3>4 DEF TokenRead
  <2>5. TokenRead(t)'
    <3>1. d.op # "toggle" => token' = token
      BY <1>12, <1>13, <2>1
    <3>2. QED BY <1>5, <1>7, <1>8, <2>1, <3>1 DEF TokenRead
  <2>6. QED BY <2>3, <2>4, <2>5 DEF TokenRead
<1>21. FieldsKept' /\ TokenKept'
  BY <1>7, <1>19, <1>20 DEF FieldsKept, TokenKept
<1>22. QED BY <1>8, <1>16, <1>18, <1>21 DEF PageInv

\* What is the same of all the requests that end with a change of the app, the
\* token, or what is kept.
LEMMA EndsIs ==
    ASSUME PageInv, NEW t \in Tabs, Served(t), NEW good \in BOOLEAN, AnswerCall(t, good),
           raced' = raced \/ t \notin beside,
           UNCHANGED <<given, tokenOn, revealed>>,
           app' = [f \in Fields |-> app'[f]], kept' = [f \in Fields |-> kept'[f]],
           token' \in 0..given, revoked' \subseteq 1..given
    PROVE  /\ call' = [u \in Tabs |-> call'[u]]
           /\ \A u \in Tabs : call'[u] = IF u = t THEN NoCall ELSE call[u]
           /\ PageTypes' /\ LockHeld' /\ TokensShown' /\ BesideTold' /\ WrittenAlone'
           /\ t \notin beside => \A u \in Tabs : call'[u].at \notin {"read", "written"}
<1>1. PageTypes /\ LockHeld /\ TokensShown /\ BesideTold
  BY DEF PageInv
<1>2. PICK p : /\ p \in {"closed", "ready", "working", "reloading"} /\ p # "working"
               /\ page' = [page EXCEPT ![t] = p]
  <2>1. PICK q : q = IF page[t] # "working" THEN page[t] ELSE IF good THEN "reloading" ELSE "ready"
    OBVIOUS
  <2>2. page[t] \in {"closed", "ready", "working", "reloading"}
    BY <1>1 DEF PageTypes
  <2>3. page' = [page EXCEPT ![t] = q]
    BY <2>1 DEF AnswerCall
  <2>4. QED BY <2>1, <2>2, <2>3
<1>3. \A u \in Tabs : u # t => page'[u] = page[u]
  BY <1>1, <1>2 DEF PageTypes
<1>4. /\ call' = [call EXCEPT ![t] = NoCall]
      /\ open' = (open \/ (page[t] = "working" /\ Served(t)))
      /\ beside' = beside \ {t}
      /\ raced' = raced \/ (Served(t) /\ t \notin beside)
  BY DEF AnswerCall
<1>5. /\ call' = [u \in Tabs |-> call'[u]]
      /\ \A u \in Tabs : call'[u] = IF u = t THEN NoCall ELSE call[u]
      /\ \A u \in Tabs : call'[u] = NoCall \/ PageCall(call'[u])
      /\ open' \in BOOLEAN
      /\ LockHeld' /\ BesideTold'
  BY <1>3, <1>4, EndedIs
<1>6. call'[t].at = "none"
  BY <1>5 DEF NoCall
<1>7. \A u \in Tabs : call'[u].at \in {"read", "written"} => u # t /\ call'[u] = call[u] /\ Served(u)
  BY <1>5, <1>6 DEF Served
<1>8. PageTypes'
  <2>1. \A u \in Tabs : call'[u].at \in {"read", "written"} => call'[u].under \in 0..given'
    BY <1>1, <1>7 DEF PageTypes
  <2>2. QED BY <1>1, <1>2, <1>5, <2>1 DEF PageTypes
<1>9. TokensShown'
  BY <1>1, <1>3, <1>5, <1>6 DEF TokensShown
<1>10. WrittenAlone'
  <2>1. \A u \in Tabs : call'[u].at = "written" => u \in beside'
    BY <1>1, <1>4, <1>7 DEF BesideTold
  <2>2. QED BY <2>1 DEF WrittenAlone, Set
<1>11. t \notin beside => \A u \in Tabs : call'[u].at \notin {"read", "written"}
  BY <1>1, <1>7, AloneIs
<1>12. QED BY <1>5, <1>8, <1>9, <1>10, <1>11

LEMMA SavedOK ==
    ASSUME PageInv, NEW t \in Tabs, Saved(t) \/ SavedOnly(t)
    PROVE  PageInv'
<1>1. PageTypes /\ BesideTold /\ WrittenAlone /\ FieldsKept /\ TokenKept
  BY DEF PageInv
<1>2. call[t].at = "written" /\ Served(t) /\ UNCHANGED <<app, token, given, tokenOn, revealed>>
  BY DEF Saved, SavedOnly, Served, serverVars
<1>3. PICK good \in BOOLEAN : AnswerCall(t, good)
  BY DEF Saved, SavedOnly
<1>4. PICK c : c = call[t]
  OBVIOUS
<1>5. /\ kept' = [f \in Fields |-> IF f \in Set(c) THEN c.fields[f] ELSE kept[f]]
      /\ raced' = IF t \in beside THEN raced ELSE raced \ Set(c)
  BY <1>4 DEF Saved, SavedOnly, Keep
<1>6. revoked' = revoked \/ revoked' = revoked \cup ({c.under} \ {token, 0})
  BY <1>4 DEF Saved, SavedOnly
<1>7. /\ given \in Nat /\ token \in 0..given /\ c.under \in 0..given /\ revoked \subseteq 1..given
      /\ app = [f \in Fields |-> app[f]]
  BY <1>1, <1>2, <1>4 DEF PageTypes
<1>8. /\ kept' = [f \in Fields |-> kept'[f]] /\ app' = [f \in Fields |-> app'[f]]
      /\ token' \in 0..given /\ revoked' \subseteq 1..given
      /\ raced' = raced \/ t \notin beside
  <2>1. kept' = [f \in Fields |-> kept'[f]]
    BY <1>5
  <2>2. token' \in 0..given /\ revoked' \subseteq 1..given
    BY <1>2, <1>6, <1>7
  <2>3. QED BY <1>2, <1>5, <1>7, <2>1, <2>2
<1>9. /\ call' = [u \in Tabs |-> call'[u]]
      /\ \A u \in Tabs : call'[u] = IF u = t THEN NoCall ELSE call[u]
      /\ PageTypes' /\ LockHeld' /\ TokensShown' /\ BesideTold' /\ WrittenAlone'
      /\ t \notin beside => \A u \in Tabs : call'[u].at \notin {"read", "written"}
  BY <1>2, <1>3, <1>8, EndsIs
<1>10. "token" \notin Set(c)
  BY AppPageAssumption DEF Set, AllFields
<1>11. CASE t \notin beside
  <2>1. \A u \in Tabs : call'[u].at \notin {"read", "written"}
    BY <1>9, <1>11
  <2>2. ASSUME NEW f \in Fields, f \notin raced'
        PROVE  app'[f] = kept'[f]
    <3>1. CASE f \in Set(c)
      <4>1. app[f] = c.fields[f]
        BY <1>1, <1>2, <1>4, <1>11, <3>1 DEF WrittenAlone
      <4>2. QED BY <1>2, <1>5, <3>1, <4>1
    <3>2. CASE f \notin Set(c)
      <4>1. f \notin raced
        BY <1>5, <1>11, <2>2, <3>2
      <4>2. \A u \in Tabs : call[u].at = "written" => u = t
        BY <1>1, <1>2, <1>11, AloneIs DEF Served
      <4>3. app[f] = kept[f]
        BY <1>1, <1>4, <3>2, <4>1, <4>2 DEF FieldsKept, FieldKept
      <4>4. QED BY <1>2, <1>5, <3>2, <4>3
    <3>3. QED BY <3>1, <3>2
  <2>3. FieldsKept'
    BY <2>1, <2>2 DEF FieldsKept, FieldKept, Set
  <2>4. TokenKept'
    <3>1. SUFFICES ASSUME "token" \notin raced'
                   PROVE  token' \notin revoked'
      BY <2>1 DEF TokenKept, TokenRead
    <3>2. token \notin revoked
      BY <1>1, <1>5, <1>10, <3>1 DEF TokenKept
    <3>3. QED BY <1>2, <1>6, <3>2
  <2>5. QED BY <1>9, <2>3, <2>4 DEF PageInv
<1>12. CASE t \in beside
  <2>1. raced' = raced
    BY <1>5, <1>12
  <2>2. ASSUME NEW f \in Fields, f \notin raced
        PROVE  FieldKept(f)'
    <3>1. f \notin Set(c)
      BY <1>1, <1>2, <1>4, <1>12, <2>2, BesideIs DEF Set
    <3>2. kept'[f] = kept[f] /\ app'[f] = app[f]
      BY <1>2, <1>5, <3>1
    <3>3. \A u \in Tabs : call'[u].at \in {"read", "written"} => call'[u] = call[u]
      BY <1>9 DEF NoCall
    <3>4. FieldKept(f)
      BY <1>1, <2>2 DEF FieldsKept
    <3>5. ASSUME NEW u \in Tabs, call[u].at = "written", f \in Set(call[u])
          PROVE  u # t /\ call'[u] = call[u]
      BY <1>4, <1>9, <3>1, <3>5
    <3>6. QED BY <3>2, <3>3, <3>4, <3>5 DEF FieldKept, Set
  <2>3. TokenKept'
    <3>1. SUFFICES ASSUME "token" \notin raced
                   PROVE  token' \notin revoked' /\ \A u \in Tabs : TokenRead(u)'
      BY <2>1 DEF TokenKept
    <3>2. c.op # "toggle"
      BY <1>1, <1>2, <1>4, <1>12, <3>1, BesideIs
    <3>3. /\ token \notin revoked /\ c.under = token
          /\ \A u \in Tabs : TokenRead(u)
      BY <1>1, <1>2, <1>4, <3>1, <3>2 DEF TokenKept, TokenRead
    <3>4. revoked' = revoked
      BY <1>6, <3>3
    <3>5. \A u \in Tabs : call'[u].at \in {"read", "written"} => call'[u] = call[u]
      BY <1>9 DEF NoCall
    <3>6. QED BY <1>2, <3>3, <3>4, <3>5 DEF TokenRead
  <2>4. QED BY <1>9, <2>1, <2>2, <2>3 DEF PageInv, FieldsKept
<1>13. QED BY <1>11, <1>12

LEMMA RevertOK ==
    ASSUME PageInv, NEW t \in Tabs, RevertUpdate(t)
    PROVE  PageInv'
<1>1. PageTypes /\ BesideTold /\ FieldsKept /\ TokenKept
  BY DEF PageInv
<1>2. /\ call[t].at = "written" /\ Served(t)
      /\ UNCHANGED <<given, tokenOn, revealed, kept, revoked, raced>>
      /\ AnswerCall(t, FALSE)
  BY DEF RevertUpdate, Served
<1>3. PICK c : c = call[t]
  OBVIOUS
<1>4. PageCall(c)
  BY <1>1, <1>2, <1>3 DEF PageTypes, NoCall
<1>5. /\ c.base = [f \in Fields |-> c.base[f]] /\ c.op \in Saves
      /\ c.under \in 0..given /\ "domains" \in Fields
  BY <1>1, <1>2, <1>3, <1>4, AppPageAssumption DEF PageCall, PageTypes
<1>6. app' = [c.base EXCEPT !["domains"] = app["domains"]] /\ token' = c.under
  BY <1>3 DEF RevertUpdate
<1>7. /\ app' = [f \in Fields |-> app'[f]]
      /\ \A f \in Fields : app'[f] = IF f = "domains" THEN app[f] ELSE c.base[f]
  BY <1>5, <1>6
<1>8. kept = [f \in Fields |-> kept[f]] /\ given \in Nat /\ revoked \subseteq 1..given
  BY <1>1 DEF PageTypes
<1>9. kept' = [f \in Fields |-> kept'[f]] /\ token' \in 0..given /\ revoked' \subseteq 1..given
  BY <1>2, <1>5, <1>6, <1>8
<1>10. /\ call' = [u \in Tabs |-> call'[u]]
       /\ \A u \in Tabs : call'[u] = IF u = t THEN NoCall ELSE call[u]
       /\ PageTypes' /\ LockHeld' /\ TokensShown' /\ BesideTold' /\ WrittenAlone'
       /\ t \notin beside => \A u \in Tabs : call'[u].at \notin {"read", "written"}
  BY <1>2, <1>7, <1>9, EndsIs
<1>11. \A u \in Tabs : call'[u].at \in {"read", "written"} => call'[u] = call[u] /\ u # t
  BY <1>10 DEF NoCall
<1>12. ASSUME NEW f \in Fields, f \notin raced
       PROVE  FieldKept(f)'
  <2>1. FieldKept(f)
    BY <1>1, <1>12 DEF FieldsKept
  <2>2. app'[f] = kept[f]
    <3>1. CASE f = "domains"
      <4>1. ASSUME NEW u \in Tabs, call[u].at = "written"
            PROVE  f \notin Set(call[u])
        <5>1. PageCall(call[u])
          BY <1>1, <4>1 DEF PageTypes, NoCall
        <5>2. QED BY <3>1, <4>1, <5>1 DEF PageCall, Set, Group, Saves
      <4>2. QED BY <1>7, <2>1, <3>1, <4>1 DEF FieldKept
    <3>2. CASE f # "domains"
      BY <1>2, <1>3, <1>7, <2>1, <3>2 DEF FieldKept
    <3>3. QED BY <3>1, <3>2
  <2>3. QED BY <1>2, <1>11, <2>1, <2>2 DEF FieldKept
<1>13. ASSUME "token" \notin raced
       PROVE  token' \notin revoked /\ \A u \in Tabs : TokenRead(u)'
  <2>1. c.under \notin revoked /\ \A u \in Tabs : TokenRead(u)
    BY <1>1, <1>2, <1>3, <1>13 DEF TokenKept, TokenRead
  <2>2. CASE t \notin beside
    <3>1. \A u \in Tabs : TokenRead(u)'
      BY <1>10, <2>2 DEF TokenRead
    <3>2. QED BY <1>6, <2>1, <3>1
  <2>3. CASE t \in beside
    <3>1. c.op # "toggle"
      BY <1>1, <1>2, <1>3, <1>13, <2>3, BesideIs
    <3>2. token' = token
      BY <1>2, <1>3, <1>6, <2>1, <3>1 DEF TokenRead
    <3>3. QED BY <1>2, <1>6, <1>11, <2>1, <3>2 DEF TokenRead
  <2>4. QED BY <2>2, <2>3
<1>14. FieldsKept' /\ TokenKept'
  BY <1>2, <1>12, <1>13 DEF FieldsKept, TokenKept
<1>15. QED BY <1>10, <1>14 DEF PageInv

LEMMA ChangeDomainsOK ==
    ASSUME PageInv, NEW t \in Tabs, ChangeDomains(t)
    PROVE  PageInv'
<1>1. PageTypes /\ BesideTold /\ FieldsKept /\ TokenKept
  BY DEF PageInv
<1>2. /\ call[t].at = "admitted" /\ call[t].op = "domains" /\ Served(t)
      /\ UNCHANGED <<token, given, tokenOn, revealed, revoked>>
      /\ AnswerCall(t, TRUE)
  BY DEF ChangeDomains, At, Served
<1>3. /\ app = [f \in Fields |-> app[f]] /\ kept = [f \in Fields |-> kept[f]]
      /\ given \in Nat /\ token \in 0..given /\ revoked \subseteq 1..given
      /\ "domains" \in Fields
  BY <1>1, AppPageAssumption DEF PageTypes
<1>4. PICK n : n = typed + 1
  OBVIOUS
<1>5. app' = [app EXCEPT !["domains"] = n] /\ kept' = [kept EXCEPT !["domains"] = n]
  BY <1>4 DEF ChangeDomains
<1>6. /\ app' = [f \in Fields |-> app'[f]] /\ kept' = [f \in Fields |-> kept'[f]]
      /\ \A f \in Fields : app'[f] = IF f = "domains" THEN n ELSE app[f]
      /\ \A f \in Fields : kept'[f] = IF f = "domains" THEN n ELSE kept[f]
  BY <1>3, <1>5
<1>7. raced' = IF t \in beside THEN raced ELSE raced \ {"domains"}
  BY DEF ChangeDomains
<1>8. token' \in 0..given /\ revoked' \subseteq 1..given /\ (raced' = raced \/ t \notin beside)
  BY <1>2, <1>3, <1>7
<1>9. /\ call' = [u \in Tabs |-> call'[u]]
      /\ \A u \in Tabs : call'[u] = IF u = t THEN NoCall ELSE call[u]
      /\ PageTypes' /\ LockHeld' /\ TokensShown' /\ BesideTold' /\ WrittenAlone'
      /\ t \notin beside => \A u \in Tabs : call'[u].at \notin {"read", "written"}
  BY <1>2, <1>6, <1>8, EndsIs
<1>10. \A u \in Tabs : call'[u].at \in {"read", "written"} => call'[u] = call[u] /\ u # t
  BY <1>9 DEF NoCall
<1>11. ASSUME NEW f \in Fields, f \notin raced'
       PROVE  FieldKept(f)'
  <2>1. CASE f = "domains"
    <3>1. t \notin beside
      <4>1. "domains" \in Group(call[t].op)
        BY <1>2 DEF Group
      <4>2. QED BY <1>1, <1>2, <1>7, <1>11, <2>1, <4>1, BesideIs
    <3>2. QED BY <1>6, <1>9, <2>1, <3>1 DEF FieldKept
  <2>2. CASE f # "domains"
    <3>1. f \notin raced
      BY <1>7, <1>11, <2>2
    <3>2. FieldKept(f) /\ app[f] = kept[f]
      BY <1>1, <1>2, <3>1, FoundIsKept DEF FieldsKept
    <3>3. app'[f] = kept'[f] /\ kept'[f] = kept[f]
      BY <1>6, <2>2, <3>2
    <3>4. QED BY <1>10, <3>2, <3>3 DEF FieldKept
  <2>3. QED BY <2>1, <2>2
<1>12. TokenKept'
  <2>1. "token" \notin raced' => "token" \notin raced
    BY <1>7
  <2>2. QED BY <1>1, <1>2, <1>10, <2>1 DEF TokenKept, TokenRead
<1>13. QED BY <1>9, <1>11, <1>12 DEF PageInv, FieldsKept

LEMMA RotateOK ==
    ASSUME PageInv, NEW t \in Tabs, RotateDeployToken(t)
    PROVE  PageInv'
<1>1. PageTypes /\ LockHeld /\ TokensShown /\ BesideTold /\ WrittenAlone /\ FieldsKept /\ TokenKept
  BY DEF PageInv
<1>2. /\ call[t].at = "admitted" /\ call[t].op = "rotate" /\ Served(t)
      /\ UNCHANGED <<app, kept>>
  BY DEF RotateDeployToken, At, Served
<1>3. PICK here, tell : /\ here = (page[t] = "working")
                        /\ tell = IF page[t] = "working" THEN given + 1 ELSE revealed[t]
  OBVIOUS
<1>4. /\ call' = [call EXCEPT ![t] = NoCall]
      /\ page' = [page EXCEPT ![t] = IF page[t] = "working" THEN "ready" ELSE page[t]]
      /\ revealed' = [revealed EXCEPT ![t] = tell]
      /\ tokenOn' = [tokenOn EXCEPT ![t] = here \/ tokenOn[t]]
      /\ open' = (open \/ (page[t] = "working" /\ Served(t)))
      /\ beside' = beside \ {t}
      /\ raced' = IF t \in beside THEN raced ELSE raced \ {"token"}
      /\ given' = given + 1 /\ token' = given + 1
      /\ revoked' = revoked \cup ({token} \ {0})
  BY <1>2, <1>3 DEF RotateDeployToken
<1>5. page[t] \in {"closed", "ready", "working", "reloading"} /\ revealed[t] \in Nat /\ tokenOn[t] \in BOOLEAN
  BY <1>1 DEF PageTypes
<1>6. \A u \in Tabs : u # t => page'[u] = page[u] /\ tokenOn'[u] = tokenOn[u] /\ revealed'[u] = revealed[u]
  BY <1>1, <1>4 DEF PageTypes
<1>7. /\ call' = [u \in Tabs |-> call'[u]]
      /\ \A u \in Tabs : call'[u] = IF u = t THEN NoCall ELSE call[u]
      /\ \A u \in Tabs : call'[u] = NoCall \/ PageCall(call'[u])
      /\ open' \in BOOLEAN
      /\ LockHeld' /\ BesideTold'
  <2>1. \A u \in Tabs : u # t => page'[u] = page[u]
    BY <1>6
  <2>2. raced' = raced \/ (Served(t) /\ t \notin beside)
    BY <1>2, <1>4
  <2>3. QED BY <1>4, <2>1, <2>2, EndedIs
<1>8. given \in Nat /\ token \in 0..given /\ revoked \subseteq 1..given
  BY <1>1 DEF PageTypes
<1>9. given' \in Nat /\ token' \in 0..given' /\ token' \notin revoked' /\ revoked' \subseteq 1..given'
  BY <1>4, <1>8
<1>10. call'[t].at = "none"
  BY <1>7 DEF NoCall
<1>11. \A u \in Tabs : call'[u].at \in {"read", "written"} => u # t /\ call'[u] = call[u] /\ Served(u)
  BY <1>7, <1>10 DEF Served
<1>12. PageTypes'
  <2>1. ASSUME NEW u \in Tabs, call'[u].at \in {"read", "written"}
        PROVE  call'[u].under \in 0..given'
    <3>1. call'[u].under \in 0..given
      BY <1>1, <1>11, <2>1 DEF PageTypes
    <3>2. QED BY <1>4, <1>8, <3>1
  <2>2. revealed' \in [Tabs -> Nat]
    <3>1. tell \in Nat
      BY <1>3, <1>5, <1>8
    <3>2. QED BY <1>1, <1>4, <3>1 DEF PageTypes
  <2>3. tokenOn' \in [Tabs -> BOOLEAN]
    BY <1>1, <1>3, <1>4, <1>5 DEF PageTypes
  <2>4. page' \in [Tabs -> {"closed", "ready", "working", "reloading"}]
    BY <1>1, <1>4, <1>5 DEF PageTypes
  <2>5. app' = [f \in Fields |-> app'[f]] /\ kept' = [f \in Fields |-> kept'[f]]
    BY <1>1, <1>2 DEF PageTypes
  <2>6. QED BY <1>7, <1>9, <2>1, <2>2, <2>3, <2>4, <2>5 DEF PageTypes
<1>13. TokensShown'
  <2>1. revealed'[t] # 0 => tokenOn'[t]
    <3>1. tokenOn'[t] = (here \/ tokenOn[t]) /\ revealed'[t] = tell
      BY <1>1, <1>4 DEF PageTypes
    <3>2. QED BY <1>1, <1>3, <3>1 DEF TokensShown
  <2>2. QED BY <1>1, <1>6, <1>7, <1>10, <2>1 DEF TokensShown
<1>14. WrittenAlone'
  <2>1. \A u \in Tabs : call'[u].at = "written" => u \in beside'
    BY <1>1, <1>2, <1>4, <1>11 DEF BesideTold
  <2>2. QED BY <2>1 DEF WrittenAlone, Set
<1>15. ASSUME NEW f \in Fields, f \notin raced'
       PROVE  FieldKept(f)'
  <2>1. f # "token"
    BY AppPageAssumption DEF AllFields
  <2>2. FieldKept(f)
    BY <1>1, <1>4, <1>15, <2>1 DEF FieldsKept
  <2>3. \A u \in Tabs : call[u].at = "written" => call'[u] = call[u]
    BY <1>2, <1>7
  <2>4. QED BY <1>2, <1>11, <2>2, <2>3 DEF FieldKept, Set
<1>16. TokenKept'
  <2>1. SUFFICES ASSUME "token" \notin raced'
                 PROVE  \A u \in Tabs : TokenRead(u)'
    BY <1>9 DEF TokenKept
  <2>2. t \notin beside
    BY <1>1, <1>2, <1>4, <2>1, BesideIs
  <2>3. \A u \in Tabs : call'[u].at \notin {"read", "written"}
    BY <1>1, <1>2, <1>11, <2>2, AloneIs
  <2>4. QED BY <2>3 DEF TokenRead
<1>17. QED BY <1>7, <1>12, <1>13, <1>14, <1>15, <1>16 DEF PageInv, FieldsKept

LEMMA AnswerSecretsOK ==
    ASSUME PageInv, NEW t \in Tabs, AnswerSecrets(t)
    PROVE  PageInv'
<1>1. PageTypes /\ LockHeld /\ TokensShown /\ BesideTold
  BY DEF PageInv
<1>2. call[t].at = "sent" /\ call[t].op = "reveal" /\ ~Served(t) /\ t \notin beside
  BY <1>1 DEF AnswerSecrets, At, Served, BesideTold
<1>3. PICK tell : tell = IF page[t] = "working" /\ token # 0 THEN token ELSE revealed[t]
  OBVIOUS
<1>4. /\ call' = [call EXCEPT ![t] = NoCall]
      /\ page' = [page EXCEPT ![t] = IF page[t] = "working" THEN "ready" ELSE page[t]]
      /\ revealed' = [revealed EXCEPT ![t] = tell]
      /\ UNCHANGED <<app, token, given, kept, revoked, beside, raced, tokenOn, open>>
  BY <1>3 DEF AnswerSecrets, serverVars, pageHistory
<1>5. page[t] \in {"closed", "ready", "working", "reloading"} /\ revealed[t] \in Nat /\ token \in Nat
  BY <1>1 DEF PageTypes
<1>6. \A u \in Tabs : u # t => page'[u] = page[u] /\ revealed'[u] = revealed[u]
  BY <1>1, <1>4 DEF PageTypes
<1>7. /\ call' = [u \in Tabs |-> call'[u]]
      /\ \A u \in Tabs : call'[u] = IF u = t THEN NoCall ELSE call[u]
      /\ \A u \in Tabs : call'[u] = NoCall \/ PageCall(call'[u])
      /\ open' \in BOOLEAN
      /\ LockHeld' /\ BesideTold'
  <2>1. \A u \in Tabs : u # t => page'[u] = page[u]
    BY <1>6
  <2>2. open' = (open \/ (page[t] = "working" /\ Served(t))) /\ beside' = beside \ {t}
    BY <1>1, <1>2, <1>4 DEF PageTypes
  <2>3. QED BY <1>4, <2>1, <2>2, EndedIs
<1>8. call'[t].at = "none"
  BY <1>7 DEF NoCall
<1>9. WrittenAlone' /\ FieldsKept' /\ TokenKept'
      /\ \A u \in Tabs : call'[u].at \in {"read", "written"} => call'[u].under \in 0..given'
  <2>1. \A u \in Tabs : u # t => call'[u] = call[u]
    BY <1>7
  <2>2. QED BY <1>2, <1>4, <1>8, <2>1, StoreStays
<1>10. PageTypes'
  <2>1. revealed' \in [Tabs -> Nat]
    <3>1. tell \in Nat
      BY <1>3, <1>5
    <3>2. QED BY <1>1, <1>4, <3>1 DEF PageTypes
  <2>2. page' \in [Tabs -> {"closed", "ready", "working", "reloading"}]
    BY <1>1, <1>4, <1>5 DEF PageTypes
  <2>3. QED BY <1>1, <1>4, <1>7, <1>9, <2>1, <2>2 DEF PageTypes
<1>11. TokensShown'
  <2>1. revealed'[t] # 0 => tokenOn'[t]
    <3>1. revealed'[t] = tell
      BY <1>1, <1>4 DEF PageTypes
    <3>2. QED BY <1>1, <1>2, <1>3, <1>4, <3>1 DEF TokensShown
  <2>2. QED BY <1>1, <1>4, <1>6, <1>7, <1>8, <2>1 DEF TokensShown
<1>12. QED BY <1>7, <1>9, <1>10, <1>11 DEF PageInv

-----------------------------------------------------------------------------
(* The theorems.                                                           *)

LEMMA PageInit == AppPageInit => PageInv
<1> SUFFICES ASSUME AppPageInit
             PROVE  PageInv
  OBVIOUS
<1>1. /\ app = Nothing /\ kept = Nothing /\ given = 0 /\ token = 0 /\ revoked = {} /\ open = TRUE
      /\ beside = {} /\ raced = {}
      /\ page = [t \in Tabs |-> "closed"]
      /\ tokenOn = [t \in Tabs |-> FALSE]
      /\ revealed = [t \in Tabs |-> 0]
      /\ call = [t \in Tabs |-> NoCall]
  BY DEF AppPageInit
<1>2. \A t \in Tabs : ~Served(t) /\ call[t].at = "none"
  BY <1>1 DEF Served, NoCall
<1>3. PageTypes
  BY <1>1, <1>2 DEF PageTypes, Nothing
<1>4. LockHeld
  BY <1>2 DEF LockHeld
<1>5. TokensShown
  BY <1>1, <1>2 DEF TokensShown
<1>6. BesideTold /\ WrittenAlone
  BY <1>1, <1>2 DEF BesideTold, WrittenAlone
<1>7. FieldsKept /\ TokenKept
  BY <1>1, <1>2 DEF FieldsKept, FieldKept, TokenKept, TokenRead
<1>8. QED BY <1>3, <1>4, <1>5, <1>6, <1>7 DEF PageInv

LEMMA PageStep ==
    ASSUME PageInv, [AppPageNext]_appPageVars
    PROVE  PageInv'
<1>1. CASE UNCHANGED appPageVars
  <2>1. UNCHANGED <<app, token, given, page, tokenOn, revealed, call, open, kept, revoked, beside, raced>>
    BY <1>1 DEF appPageVars, serverVars, pageVars, pageHistory
  <2>2. PageTypes' /\ LockHeld' /\ TokensShown'
    BY <2>1 DEF PageInv, PageTypes, LockHeld, TokensShown, Served
  <2>3. BesideTold' /\ WrittenAlone'
    BY <2>1 DEF PageInv, BesideTold, WrittenAlone, Served, Alters, Group, Set
  <2>4. FieldsKept' /\ TokenKept'
    BY <2>1 DEF PageInv, FieldsKept, FieldKept, TokenKept, TokenRead, Set
  <2>5. QED BY <2>2, <2>3, <2>4 DEF PageInv
<1>2. CASE AppPageNext
  BY <1>2, PageOnlyOK, SendsOK, AdmitOK, ReadAppOK, RefusedOK, UpdateOK, SavedOK, RevertOK,
     ChangeDomainsOK, RotateOK, AnswerSecretsOK
     DEF AppPageNext
<1>3. QED BY <1>1, <1>2

LEMMA PageInvAlways == AppPageSpec => []PageInv
<1>1. PageInv /\ [AppPageNext]_appPageVars => PageInv'
  BY PageStep
<1>2. QED BY <1>1, PageInit, PTL DEF AppPageSpec

\* Each field has the value that was last saved of it, from whichever tab, and no
\* secret is lost or replaced by the marker (savePatch, patchAppDefinition, the
\* lock of UserRouter); only what was changed beside the request of a tab that
\* had been left may differ, until it is saved alone.
THEOREM SavedCorrect == AppPageSpec => []SavedValuesStay
<1>1. PageInv => SavedValuesStay
  <2>1. SUFFICES ASSUME PageInv, Settled, NEW f \in Fields, f \notin raced
                 PROVE  app[f] = kept[f]
    BY DEF SavedValuesStay
  <2>2. \A t \in Tabs : call[t].at # "written"
    BY <2>1 DEF Settled, Served
  <2>3. QED BY <2>1, <2>2 DEF PageInv, FieldsKept, FieldKept
<1>2. QED BY <1>1, PageInvAlways, PTL

\* A deploy token that was rotated or disabled does not come back, but for the
\* same requests.
THEOREM RevokedCorrect == AppPageSpec => []RevokedTokensStayRevoked
<1>1. PageInv => RevokedTokensStayRevoked
  BY DEF PageInv, TokenKept, RevokedTokensStayRevoked
<1>2. QED BY <1>1, PageInvAlways, PTL

-----------------------------------------------------------------------------
(***************************************************************************)
(* The page of the one-click catalog, for any repositories, requests and   *)
(* deployments, whether or not the page is left with requests under way.   *)
(***************************************************************************)

CatalogTypes ==
    /\ jobs = [j \in 1..MaxJobs |-> jobs[j]]
    /\ \A j \in 1..MaxJobs : jobs[j] \in Job
    /\ started \in 0..MaxJobs
    /\ jobId \in 0..started
    /\ progress \in 0..MaxSteps
    /\ template \in CatalogApps \cup {None}
    /\ ask \in [Asks -> Ask1 \cup {NoAsk}]

Question(c) == c.op = "progress"

\* A deployment was started, and the page has not been told of it.
Launch(c) == c.op = "deploy" /\ c.at = "done" /\ c.good

\* What a question carries is between what is shown and how far its deployment
\* is; one question at a time is about the deployment that is shown.
OneQuestion ==
    /\ jobId # 0 => progress <= jobs[jobId].step
    /\ \A a \in Asks : Question(ask[a]) =>
          /\ ask[a].job \in 1..started
          /\ ask[a].at \in {"sent", "done"}
          /\ ask[a].at = "sent" => ask[a].saw = 0
          /\ ask[a].at = "done" => ask[a].saw <= jobs[ask[a].job].step
          /\ ask[a].job = jobId =>
                /\ polling = "asked"
                /\ ask[a].at = "done" /\ ask[a].good => progress <= ask[a].saw
                /\ \A b \in Asks : Question(ask[b]) /\ ask[b].job = jobId => b = a

\* A deployment the page was not told of has not been asked about.
LaunchesAreNew ==
    \A a \in Asks : Launch(ask[a]) =>
        /\ ask[a].job \in 1..started
        /\ ask[a].job # jobId
        /\ \A b \in Asks :
              /\ Question(ask[b]) => ask[b].job # ask[a].job
              /\ Launch(ask[b]) /\ ask[b].job = ask[a].job => b = a

CatalogInv == CatalogTypes /\ OneQuestion /\ LaunchesAreNew /\ SelectedIsDeployed

\* A request comes, goes on or ends, and nothing is learned of a deployment.
Harmless(old, c) ==
    \/ ~Question(c) /\ ~Launch(c)
    \/ Question(c) /\ Question(old) /\ c.job = old.job /\ c.at = "done" /\ ~c.good
          /\ c.saw = 0

LEMMA AsksChange ==
    ASSUME CatalogTypes, NEW a \in Asks, NEW c \in Ask1 \cup {NoAsk},
           ask' = [ask EXCEPT ![a] = c]
    PROVE  /\ ask' \in [Asks -> Ask1 \cup {NoAsk}]
           /\ ask'[a] = c
           /\ \A b \in Asks : b # a => ask'[b] = ask[b]
BY DEF CatalogTypes

LEMMA HarmlessOK ==
    ASSUME CatalogInv, NEW a \in Asks, NEW c \in Ask1 \cup {NoAsk}, Harmless(ask[a], c),
           ask' = [ask EXCEPT ![a] = c],
           UNCHANGED <<jobs, started, jobId, progress, polling, selected, template, values>>
    PROVE  CatalogInv'
<1>1. CatalogTypes /\ OneQuestion /\ LaunchesAreNew /\ SelectedIsDeployed
  BY DEF CatalogInv
<1>2. /\ ask' \in [Asks -> Ask1 \cup {NoAsk}]
      /\ ask'[a] = c
      /\ \A b \in Asks : b # a => ask'[b] = ask[b]
  BY <1>1, AsksChange
<1>3. CatalogTypes'
  BY <1>1, <1>2 DEF CatalogTypes
<1>4. \A b \in Asks : Question(ask'[b]) =>
          /\ Question(ask[b]) /\ ask'[b].job = ask[b].job
          /\ ask'[b] # ask[b] => ask'[b].at = "done" /\ ~ask'[b].good /\ ask'[b].saw = 0
  BY <1>2 DEF Harmless
<1>5. \A b \in Asks : Launch(ask'[b]) => ask'[b] = ask[b]
  BY <1>2 DEF Harmless, Launch, Question
<1>6. OneQuestion'
  <2>1. \A j \in 1..started : jobs[j].step \in Nat
    BY <1>1, OneClickPageAssumption DEF CatalogTypes, Job
  <2>2. ASSUME NEW b \in Asks, Question(ask'[b])
        PROVE  /\ ask'[b].job \in 1..started
               /\ ask'[b].at \in {"sent", "done"}
               /\ ask'[b].at = "sent" => ask'[b].saw = 0
               /\ ask'[b].at = "done" => ask'[b].saw <= jobs[ask'[b].job].step
               /\ ask'[b].job = jobId =>
                     /\ polling = "asked"
                     /\ ask'[b].at = "done" /\ ask'[b].good => progress <= ask'[b].saw
                     /\ \A d \in Asks : Question(ask'[d]) /\ ask'[d].job = jobId => d = b
    <3>1. Question(ask[b]) /\ ask'[b].job = ask[b].job
      BY <1>4, <2>2
    <3>2. ask[b].job \in 1..started /\ jobs[ask[b].job].step \in Nat
      BY <1>1, <2>1, <3>1 DEF OneQuestion
    <3>3. CASE ask'[b] = ask[b]
      BY <1>1, <1>4, <3>1, <3>3 DEF OneQuestion
    <3>4. CASE ask'[b] # ask[b]
      BY <1>1, <1>4, <2>2, <3>1, <3>2, <3>4 DEF OneQuestion
    <3>5. QED BY <3>3, <3>4
  <2>3. QED BY <1>1, <2>2 DEF OneQuestion
<1>7. LaunchesAreNew'
  BY <1>1, <1>4, <1>5 DEF LaunchesAreNew
<1>8. SelectedIsDeployed'
  BY <1>1 DEF SelectedIsDeployed
<1>9. QED BY <1>3, <1>6, <1>7, <1>8 DEF CatalogInv

\* A request of any kind but a question is sent.
LEMMA RequestOK ==
    ASSUME CatalogInv, NEW a \in Asks,
           NEW op \in {"list", "select", "insert", "delete", "deploy"},
           NEW of \in CatalogApps \cup {None},
           Request(a, op, of, 0),
           UNCHANGED <<storeVars, shownVars, polling>>
    PROVE  CatalogInv'
<1>1. PICK c : c = [op |-> op, of |-> of, job |-> 0, here |-> TRUE, good |-> TRUE,
                    at |-> "sent", apps |-> {}, urls |-> {}, saw |-> 0]
  OBVIOUS
<1>2. c \in Ask1 /\ Harmless(ask[a], c)
  BY <1>1, OneClickPageAssumption DEF Ask1, Harmless, Question, Launch
<1>3. ask' = [ask EXCEPT ![a] = c]
  BY <1>1 DEF Request
<1>4. QED BY <1>2, <1>3, HarmlessOK DEF storeVars, shownVars

LEMMA PageActsOK ==
    ASSUME CatalogInv, NEW a \in Asks,
           \/ OpenCatalog(a)
           \/ OpenDeployment(a)
           \/ \E r \in CatalogApps : loadAppTemplate(a, r)
           \/ loadCatalog(a)
           \/ \E r \in CatalogApps : selectApp(a, r)
           \/ \E r \in Repos, op \in {"insert", "delete"} : changeRepository(a, op, r)
           \/ startDeployment(a)
    PROVE  CatalogInv'
<1>1. template \in CatalogApps \cup {None}
  BY DEF CatalogInv, CatalogTypes
<1>2. CASE OpenCatalog(a) \/ OpenDeployment(a) \/ loadCatalog(a)
  BY <1>2, RequestOK DEF OpenCatalog, OpenDeployment, loadCatalog
<1>3. CASE \E r \in CatalogApps : loadAppTemplate(a, r) \/ selectApp(a, r)
  BY <1>3, RequestOK DEF loadAppTemplate, selectApp
<1>4. CASE \E r \in Repos, op \in {"insert", "delete"} : changeRepository(a, op, r)
  BY <1>4, RequestOK DEF changeRepository, CatalogApps
<1>5. CASE startDeployment(a)
  BY <1>1, <1>5, RequestOK DEF startDeployment
<1>6. QED BY <1>2, <1>3, <1>4, <1>5
\* A request that is there goes on, or is answered.
LEMMA GoesOnOK ==
    ASSUME CatalogInv, NEW a \in Asks, ask[a] # NoAsk,
           NEW at \in {"sent", "admitted", "checked", "half", "done"},
           NEW good \in BOOLEAN,
           NEW listedApps \in SUBSET CatalogApps, NEW urls \in SUBSET Repos,
           \/ ~Question(ask[a]) /\ ~(ask[a].op = "deploy" /\ at = "done" /\ good)
           \/ Question(ask[a]) /\ ask[a].at = "sent" /\ at = "done" /\ ~good,
           ask' = [ask EXCEPT ![a] = [ask[a] EXCEPT !.at = at, !.good = good,
                                                    !.apps = listedApps, !.urls = urls]],
           UNCHANGED <<jobs, started, shownVars, polling>>
    PROVE  CatalogInv'
<1>1. PICK c : c = [ask[a] EXCEPT !.at = at, !.good = good, !.apps = listedApps, !.urls = urls]
  OBVIOUS
<1>2. ask[a] \in Ask1
  BY DEF CatalogInv, CatalogTypes
<1>3. /\ c \in Ask1
      /\ c.op = ask[a].op /\ c.job = ask[a].job /\ c.saw = ask[a].saw
      /\ c.at = at /\ c.good = good
  BY <1>1, <1>2 DEF Ask1
<1>4. Question(ask[a]) /\ ask[a].at = "sent" => ask[a].saw = 0
  BY DEF CatalogInv, OneQuestion
<1>5. Harmless(ask[a], c)
  BY <1>3, <1>4 DEF Harmless, Question, Launch
<1>6. QED BY <1>1, <1>3, <1>5, HarmlessOK DEF shownVars

LEMMA ServerOK ==
    ASSUME CatalogInv, NEW a \in Asks,
           \/ AdmitAsk(a)
           \/ Turned(a)
           \/ CheckRepository(a)
           \/ insertOneClickBaseUrl(a)
           \/ CheckPresence(a)
           \/ deleteOneClickBaseUrl(a)
           \/ ChangeFails(a)
           \/ ListTemplates(a)
           \/ ListRepositories(a)
           \/ GetTemplate(a)
           \/ ReadFails(a)
    PROVE  CatalogInv'
<1>1. ask \in [Asks -> Ask1 \cup {NoAsk}]
  BY DEF CatalogInv, CatalogTypes
<1>2. ask[a] # NoAsk /\ ask[a] \in Ask1
  <2>1. ask[a] # NoAsk
    BY DEF AdmitAsk, Turned, CheckRepository, insertOneClickBaseUrl, CheckPresence,
           deleteOneClickBaseUrl, ChangeFails, ListTemplates, ListRepositories, GetTemplate,
           ReadFails, IsAsk
  <2>2. QED BY <1>1, <2>1
<1>3. /\ ask[a].at \in {"sent", "admitted", "checked", "half", "done"}
      /\ ask[a].good \in BOOLEAN
      /\ ask[a].apps \in SUBSET CatalogApps
      /\ ask[a].urls \in SUBSET Repos
  BY <1>2 DEF Ask1
<1>4. ask[a] = [ask[a] EXCEPT !.good = ask[a].good, !.apps = ask[a].apps, !.urls = ask[a].urls]
  BY <1>2 DEF Ask1
<1>5. UNCHANGED <<jobs, started, shownVars, polling>>
  BY DEF AdmitAsk, Turned, CheckRepository, insertOneClickBaseUrl, CheckPresence,
         deleteOneClickBaseUrl, ChangeFails, ListTemplates, ListRepositories, GetTemplate,
         ReadFails, storeVars, workVars
<1>6. CASE AdmitAsk(a) \/ CheckRepository(a) \/ CheckPresence(a)
  <2>1. PICK at \in {"admitted", "checked"} : ask' = [ask EXCEPT ![a].at = at]
    BY <1>6 DEF AdmitAsk, CheckRepository, CheckPresence
  <2>2. ~Question(ask[a])
    BY <1>6 DEF AdmitAsk, CheckRepository, CheckPresence, IsAsk, Locked, Question
  <2>3. ask' = [ask EXCEPT ![a] = [ask[a] EXCEPT !.at = at, !.good = ask[a].good,
                                       !.apps = ask[a].apps, !.urls = ask[a].urls]]
    BY <1>1, <1>2, <2>1 DEF Ask1
  <2>4. PICK c : c = [ask[a] EXCEPT !.at = at, !.good = ask[a].good,
                                    !.apps = ask[a].apps, !.urls = ask[a].urls]
    OBVIOUS
  <2>5. c \in Ask1 /\ ~Question(c) /\ ~Launch(c)
    BY <1>2, <2>2, <2>4 DEF Ask1, Question, Launch
  <2>6. QED BY <1>5, <2>3, <2>4, <2>5, HarmlessOK DEF Harmless, shownVars
<1>7. CASE \/ Turned(a) \/ insertOneClickBaseUrl(a) \/ deleteOneClickBaseUrl(a) \/ ChangeFails(a)
           \/ GetTemplate(a) \/ ReadFails(a)
  <2>1. PICK good \in BOOLEAN :
          /\ TakeAnswer(a, good)
          /\ \/ ~Question(ask[a]) /\ ~(ask[a].op = "deploy" /\ good)
             \/ Question(ask[a]) /\ ask[a].at = "sent" /\ ~good
    <3>1. CASE GetTemplate(a)
      BY <3>1 DEF GetTemplate, IsAsk, Question
    <3>2. CASE \/ Turned(a) \/ insertOneClickBaseUrl(a) \/ deleteOneClickBaseUrl(a)
               \/ ChangeFails(a) \/ ReadFails(a)
      BY <3>2 DEF Turned, insertOneClickBaseUrl, deleteOneClickBaseUrl, ChangeFails, ReadFails,
                  IsAsk, Question, Finish, Locked
    <3>3. QED BY <1>7, <3>1, <3>2
  <2>2. ask' = [ask EXCEPT ![a] = [ask[a] EXCEPT !.at = "done", !.good = good,
                                       !.apps = ask[a].apps, !.urls = ask[a].urls]]
    BY <1>1, <1>2, <2>1 DEF Ask1, TakeAnswer
  <2>3. QED BY <1>2, <1>3, <1>5, <2>1, <2>2, GoesOnOK
<1>8. CASE ListTemplates(a)
  <2>1. PICK up \in SUBSET CatalogApps : ask' = [ask EXCEPT ![a].at = "half", ![a].apps = up]
    BY <1>8 DEF ListTemplates, Registered, CatalogApps
  <2>2. ask' = [ask EXCEPT ![a] = [ask[a] EXCEPT !.at = "half", !.good = ask[a].good,
                                       !.apps = up, !.urls = ask[a].urls]]
    BY <1>1, <1>2, <2>1 DEF Ask1
  <2>3. ~Question(ask[a])
    BY <1>8 DEF ListTemplates, IsAsk, Question
  <2>4. QED BY <1>2, <1>3, <1>5, <2>2, <2>3, GoesOnOK
<1>9. CASE ListRepositories(a)
  <2>1. Registered \in SUBSET Repos
    BY DEF Registered
  <2>2. ask' = [ask EXCEPT ![a] = [ask[a] EXCEPT !.at = "done", !.good = ask[a].good,
                                       !.apps = ask[a].apps, !.urls = Registered]]
    BY <1>1, <1>2, <1>9 DEF ListRepositories, Ask1
  <2>3. ask[a].op = "list"
    BY <1>9 DEF ListRepositories, IsAsk
  <2>4. QED BY <1>2, <1>3, <1>5, <2>1, <2>2, <2>3, GoesOnOK DEF Question
<1>10. QED BY <1>6, <1>7, <1>8, <1>9
\* An answer that tells nothing of a deployment.
LEMMA AnswersOK ==
    ASSUME CatalogInv, NEW a \in Asks,
           CatalogLoaded(a) \/ AppSelected(a) \/ RepositoryChanged(a) \/ AnswerIsLost(a)
    PROVE  CatalogInv'
<1>1. CatalogTypes /\ OneQuestion /\ LaunchesAreNew /\ SelectedIsDeployed
  BY DEF CatalogInv
<1>2. ask[a] # NoAsk /\ ask[a] \in Ask1
  <2>1. ask[a] # NoAsk
    BY DEF CatalogLoaded, AppSelected, RepositoryChanged, AnswerIsLost, Comes, IsAsk
  <2>2. QED BY <1>1, <2>1 DEF CatalogTypes
<1>3. Harmless(ask[a], NoAsk)
  BY DEF Harmless, NoAsk, Question, Launch
<1>4. CASE CatalogLoaded(a) \/ AnswerIsLost(a)
  <2>1. PICK c : c = NoAsk
    OBVIOUS
  <2>2. ask' = [ask EXCEPT ![a] = c]
        /\ UNCHANGED <<jobs, started, jobId, progress, polling, selected, template, values>>
    BY <1>4, <2>1 DEF CatalogLoaded, AnswerIsLost, Drop, storeVars, shownVars, workVars
  <2>3. QED BY <1>3, <2>1, <2>2, HarmlessOK
<1>5. CASE AppSelected(a)
  <2>1. ask' = [ask EXCEPT ![a] = NoAsk] /\ UNCHANGED <<jobs, started, jobId, progress, polling>>
    BY <1>5 DEF AppSelected, Drop, storeVars
  <2>2. \/ UNCHANGED <<selected, template, values>>
        \/ ask[a].of \in CatalogApps \cup {None}
             /\ selected' = ask[a].of /\ template' = ask[a].of /\ values' = ask[a].of
    BY <1>2, <1>5 DEF AppSelected, Ask1
  <2>3. CatalogTypes'
    BY <1>1, <2>1, <2>2, AsksChange DEF CatalogTypes
  <2>4. \A b \in Asks : ask'[b] = ask[b] \/ ask'[b] = NoAsk
    BY <1>1, <2>1 DEF CatalogTypes
  <2>5. \A b \in Asks : /\ Question(ask'[b]) => ask'[b] = ask[b]
                        /\ Launch(ask'[b]) => ask'[b] = ask[b]
    BY <2>4 DEF Question, Launch, NoAsk
  <2>6. OneQuestion'
    BY <1>1, <2>1, <2>5 DEF OneQuestion
  <2>7. LaunchesAreNew'
    BY <1>1, <2>1, <2>5 DEF LaunchesAreNew
  <2>8. SelectedIsDeployed'
    BY <1>1, <2>2 DEF SelectedIsDeployed
  <2>9. QED BY <2>3, <2>6, <2>7, <2>8 DEF CatalogInv
<1>6. CASE RepositoryChanged(a)
  <2>1. UNCHANGED <<jobs, started, jobId, progress, polling, selected, template, values>>
    BY <1>6 DEF RepositoryChanged, storeVars, shownVars
  <2>2. CASE ask[a].good
    <3>1. PICK c : c = [ask[a] EXCEPT !.op = "list", !.at = "sent"]
      OBVIOUS
    <3>2. c \in Ask1 /\ Harmless(ask[a], c)
      BY <1>2, <3>1 DEF Ask1, Harmless, Question, Launch
    <3>3. ask' = [ask EXCEPT ![a] = c]
      BY <1>1, <1>2, <1>6, <2>2, <3>1 DEF RepositoryChanged, CatalogTypes, Ask1
    <3>4. QED BY <2>1, <3>2, <3>3, HarmlessOK
  <2>3. CASE ~ask[a].good
    <3>1. PICK c : c = NoAsk
      OBVIOUS
    <3>2. ask' = [ask EXCEPT ![a] = c]
      BY <1>6, <2>3, <3>1 DEF RepositoryChanged, Drop
    <3>3. QED BY <1>3, <2>1, <3>1, <3>2, HarmlessOK
  <2>4. QED BY <2>2, <2>3
<1>7. QED BY <1>4, <1>5, <1>6

\* The page is left, or goes back to the catalog, or shows a form.
LEMMA LeavesOK ==
    ASSUME CatalogInv, LeaveCatalog \/ BackToCatalog \/ OpenCustom
    PROVE  CatalogInv'
<1>1. CatalogTypes /\ OneQuestion /\ LaunchesAreNew /\ SelectedIsDeployed
  BY DEF CatalogInv
<1>2. CASE BackToCatalog \/ OpenCustom
  <2>1. UNCHANGED <<jobs, started, jobId, progress, polling, template, values, ask>>
        /\ (selected' = selected \/ selected' = None)
    BY <1>2 DEF BackToCatalog, OpenCustom, storeVars, shownVars, workVars
  <2>2. QED BY <1>1, <2>1 DEF CatalogInv, CatalogTypes, OneQuestion, LaunchesAreNew, SelectedIsDeployed
<1>3. CASE LeaveCatalog
  <2>1. /\ UNCHANGED <<jobs, started>>
        /\ jobId' = 0 /\ progress' = 0 /\ selected' = None /\ template' = None
        /\ ask' = [b \in Asks |-> IF ask[b].op \in Locked THEN [ask[b] EXCEPT !.here = FALSE]
                                                          ELSE NoAsk]
    BY <1>3 DEF LeaveCatalog
  <2>2. \A b \in Asks : \/ ask'[b] = NoAsk
                        \/ /\ ask[b] \in Ask1
                           /\ ask'[b] = [ask[b] EXCEPT !.here = FALSE]
                           /\ ask[b].op \in Locked
    BY <1>1, <2>1 DEF CatalogTypes, Locked, NoAsk
  <2>3. \A b \in Asks : /\ ask'[b] \in Ask1 \cup {NoAsk}
                        /\ ~Question(ask'[b])
                        /\ Launch(ask'[b]) => Launch(ask[b]) /\ ask'[b].job = ask[b].job
    <3>1. ASSUME NEW b \in Asks, ask[b] \in Ask1, ask'[b] = [ask[b] EXCEPT !.here = FALSE],
                 ask[b].op \in Locked
          PROVE  /\ ask'[b] \in Ask1
                 /\ ~Question(ask'[b])
                 /\ Launch(ask'[b]) => Launch(ask[b]) /\ ask'[b].job = ask[b].job
      <4>1. PICK c, d : c = ask[b] /\ d = [c EXCEPT !.here = FALSE]
        OBVIOUS
      <4>2. /\ d \in Ask1
            /\ d.op = c.op /\ d.at = c.at /\ d.good = c.good /\ d.job = c.job
        BY <3>1, <4>1 DEF Ask1
      <4>3. QED BY <3>1, <4>1, <4>2 DEF Locked, Question, Launch
    <3>2. ASSUME NEW b \in Asks, ask'[b] = NoAsk
          PROVE  ask'[b] \in Ask1 \cup {NoAsk} /\ ~Question(ask'[b]) /\ ~Launch(ask'[b])
      BY <3>2 DEF NoAsk, Question, Launch
    <3>3. QED BY <2>2, <3>1, <3>2
  <2>4. CatalogTypes'
    BY <1>1, <2>1, <2>3, OneClickPageAssumption DEF CatalogTypes
  <2>5. OneQuestion'
    BY <2>1, <2>3 DEF OneQuestion
  <2>6. LaunchesAreNew'
    <3>1. 0 \notin 1..started
      BY <1>1 DEF CatalogTypes
    <3>2. QED BY <1>1, <2>1, <2>3, <3>1 DEF LaunchesAreNew
  <2>7. SelectedIsDeployed'
    BY <2>1 DEF SelectedIsDeployed
  <2>8. QED BY <2>4, <2>5, <2>6, <2>7 DEF CatalogInv
<1>4. QED BY <1>2, <1>3

\* The deployments go on, one after the other, and are forgotten.
LEMMA JobsOK ==
    ASSUME CatalogInv, NEW j \in 1..MaxJobs, updateJobProgress(j) \/ JobIsForgotten(j)
    PROVE  CatalogInv'
<1>1. CatalogTypes /\ OneQuestion /\ LaunchesAreNew /\ SelectedIsDeployed
  BY DEF CatalogInv
<1>2. UNCHANGED <<started, jobId, progress, polling, selected, template, values, ask>>
  BY DEF updateJobProgress, JobIsForgotten, shownVars, workVars
<1>3. jobs[j] \in Job
  BY <1>1 DEF CatalogTypes
<1>4. PICK r \in Job : jobs' = [jobs EXCEPT ![j] = r] /\ jobs[j].step <= r.step
  <2>1. CASE updateJobProgress(j)
    <3>1. PICK r : r = [jobs[j] EXCEPT !.step = @ + 1]
      OBVIOUS
    <3>a. /\ jobs[j].step \in 0..MaxSteps /\ jobs[j].known \in BOOLEAN
          /\ r = [step |-> jobs[j].step + 1, known |-> jobs[j].known]
      BY <1>3, <3>1 DEF Job
    <3>b. jobs[j].step < MaxSteps
      BY <2>1 DEF updateJobProgress
    <3>c. jobs[j].step + 1 \in 0..MaxSteps /\ jobs[j].step <= jobs[j].step + 1
      BY <3>a, <3>b, OneClickPageAssumption
    <3>2. r \in Job /\ jobs[j].step <= r.step
      <4>1. PICK n \in 0..MaxSteps, k \in BOOLEAN : n = jobs[j].step + 1 /\ k = jobs[j].known
        BY <3>a, <3>c
      <4>2. r = [step |-> n, known |-> k]
        BY <3>a, <4>1
      <4>3. QED BY <3>c, <4>1, <4>2 DEF Job
    <3>3. QED BY <1>1, <2>1, <3>1, <3>2 DEF updateJobProgress, CatalogTypes
  <2>2. CASE JobIsForgotten(j)
    <3>1. PICK r : r = [jobs[j] EXCEPT !.known = FALSE]
      OBVIOUS
    <3>2. r \in Job /\ jobs[j].step <= r.step
      <4>1. r \in Job /\ r.step = jobs[j].step /\ jobs[j].step \in 0..MaxSteps
        BY <1>3, <3>1 DEF Job
      <4>2. QED BY <4>1, OneClickPageAssumption
    <3>3. QED BY <1>1, <2>2, <3>1, <3>2 DEF JobIsForgotten, CatalogTypes
  <2>3. QED BY <2>1, <2>2
<1>5. /\ jobs' = [i \in 1..MaxJobs |-> jobs'[i]]
      /\ jobs'[j] = r
      /\ \A i \in 1..MaxJobs : i # j => jobs'[i] = jobs[i]
  BY <1>1, <1>4 DEF CatalogTypes
<1>6. CatalogTypes'
  BY <1>1, <1>2, <1>4, <1>5 DEF CatalogTypes
<1>7. 1..started \subseteq 1..MaxJobs
  BY <1>1, OneClickPageAssumption DEF CatalogTypes
<1>8. \A i \in 1..started : /\ jobs[i].step \in Nat /\ jobs'[i].step \in Nat
                            /\ jobs[i].step <= jobs'[i].step
  BY <1>1, <1>4, <1>5, <1>7, OneClickPageAssumption DEF CatalogTypes, Job
<1>9. OneQuestion'
  <2>1. jobId # 0 => progress <= jobs'[jobId].step
    <3>1. jobId \in 0..started /\ started \in Nat /\ progress \in Nat
      BY <1>1, OneClickPageAssumption DEF CatalogTypes
    <3>2. jobId # 0 => jobId \in 1..started
      BY <3>1
    <3>3. QED BY <1>1, <1>8, <3>1, <3>2 DEF OneQuestion
  <2>2. \A a \in Asks : Question(ask[a]) => ask[a].saw \in Nat
    BY <1>1, OneClickPageAssumption DEF CatalogTypes, Ask1, Question, NoAsk
  <2>3. \A a \in Asks : Question(ask[a]) /\ ask[a].at = "done" => ask[a].saw <= jobs'[ask[a].job].step
    BY <1>1, <1>8, <2>2 DEF OneQuestion
  <2>4. QED BY <1>1, <1>2, <2>1, <2>3 DEF OneQuestion
<1>10. LaunchesAreNew' /\ SelectedIsDeployed'
  BY <1>1, <1>2 DEF LaunchesAreNew, SelectedIsDeployed
<1>11. QED BY <1>6, <1>9, <1>10 DEF CatalogInv
\* The next question: the last one about this deployment has been answered.
LEMMA PollOK ==
    ASSUME CatalogInv, NEW a \in Asks, poll(a)
    PROVE  CatalogInv'
<1>1. CatalogTypes /\ OneQuestion /\ LaunchesAreNew /\ SelectedIsDeployed
  BY DEF CatalogInv
<1>2. /\ jobId # 0 /\ polling = "due" /\ polling' = "asked"
      /\ UNCHANGED <<jobs, started, jobId, progress, selected, template, values>>
  BY DEF poll, TimeToPoll, storeVars, shownVars
<1>3. PICK c : c = [op |-> "progress", of |-> None, job |-> jobId, here |-> TRUE, good |-> TRUE,
                    at |-> "sent", apps |-> {}, urls |-> {}, saw |-> 0]
  OBVIOUS
<1>4. ask' = [ask EXCEPT ![a] = c]
  BY <1>3 DEF poll, Request
<1>5. jobId \in 1..started /\ jobId \in 0..MaxJobs
  BY <1>1, <1>2, OneClickPageAssumption DEF CatalogTypes
<1>6. c \in Ask1 /\ Question(c) /\ c.job = jobId /\ c.at = "sent" /\ c.saw = 0
  BY <1>3, <1>5, OneClickPageAssumption DEF Ask1, Question
<1>7. /\ ask' \in [Asks -> Ask1 \cup {NoAsk}]
      /\ ask'[a] = c
      /\ \A b \in Asks : b # a => ask'[b] = ask[b]
  BY <1>1, <1>4, <1>6, AsksChange
<1>8. \A b \in Asks : Question(ask[b]) => ask[b].job # jobId
  BY <1>1, <1>2 DEF OneQuestion
<1>9. CatalogTypes'
  BY <1>1, <1>2, <1>7 DEF CatalogTypes
<1>10. OneQuestion'
  BY <1>1, <1>2, <1>5, <1>6, <1>7, <1>8 DEF OneQuestion
<1>11. LaunchesAreNew'
  <2>1. \A b \in Asks : Launch(ask'[b]) => b # a
    BY <1>6, <1>7 DEF Launch, Question
  <2>2. QED BY <1>1, <1>2, <1>6, <1>7, <2>1 DEF LaunchesAreNew
<1>12. SelectedIsDeployed'
  BY <1>1, <1>2 DEF SelectedIsDeployed
<1>13. QED BY <1>9, <1>10, <1>11, <1>12 DEF CatalogInv

\* The answer to a question is how far the deployment is at that moment.
LEMMA GetProgressOK ==
    ASSUME CatalogInv, NEW a \in Asks, GetProgress(a)
    PROVE  CatalogInv'
<1>1. CatalogTypes /\ OneQuestion /\ LaunchesAreNew /\ SelectedIsDeployed
  BY DEF CatalogInv
<1>2. /\ ask[a] \in Ask1 /\ Question(ask[a]) /\ ask[a].at = "sent"
      /\ UNCHANGED <<jobs, started, jobId, progress, polling, selected, template, values>>
  BY <1>1 DEF GetProgress, IsAsk, Question, CatalogTypes, storeVars, shownVars, workVars
<1>3. PICK n : n = ask[a].job
  OBVIOUS
<1>4. n \in 1..started /\ n \in 1..MaxJobs
  BY <1>1, <1>2, <1>3, OneClickPageAssumption DEF OneQuestion, CatalogTypes
<1>5. jobs[n].known \in BOOLEAN /\ jobs[n].step \in 0..MaxSteps
  BY <1>1, <1>4 DEF CatalogTypes, Job
<1>6. PICK g, w : g = jobs[n].known /\ w = jobs[n].step
  OBVIOUS
<1>7. PICK c : c = [ask[a] EXCEPT !.at = "done", !.good = g, !.saw = w]
  OBVIOUS
<1>8. c \in Ask1 /\ Question(c) /\ c.job = n /\ c.at = "done" /\ c.good = g /\ c.saw = w
  BY <1>2, <1>3, <1>5, <1>6, <1>7 DEF Ask1, Question
<1>9. ask' = [ask EXCEPT ![a] = c]
  BY <1>1, <1>2, <1>3, <1>6, <1>7 DEF GetProgress, CatalogTypes, Ask1
<1>10. /\ ask' \in [Asks -> Ask1 \cup {NoAsk}]
       /\ ask'[a] = c
       /\ \A b \in Asks : b # a => ask'[b] = ask[b]
  BY <1>1, <1>8, <1>9, AsksChange
<1>11. \A b \in Asks : Question(ask'[b]) => Question(ask[b]) /\ ask'[b].job = ask[b].job
  BY <1>2, <1>3, <1>8, <1>10
<1>12. \A b \in Asks : Launch(ask'[b]) => ask'[b] = ask[b]
  BY <1>8, <1>10 DEF Launch, Question
<1>13. CatalogTypes'
  BY <1>1, <1>2, <1>10 DEF CatalogTypes
<1>14. OneQuestion'
  <2>1. ASSUME NEW b \in Asks, Question(ask'[b])
        PROVE  /\ ask'[b].job \in 1..started
               /\ ask'[b].at \in {"sent", "done"}
               /\ ask'[b].at = "sent" => ask'[b].saw = 0
               /\ ask'[b].at = "done" => ask'[b].saw <= jobs[ask'[b].job].step
               /\ ask'[b].job = jobId =>
                     /\ polling = "asked"
                     /\ ask'[b].at = "done" /\ ask'[b].good => progress <= ask'[b].saw
                     /\ \A d \in Asks : Question(ask'[d]) /\ ask'[d].job = jobId => d = b
    <3>1. CASE b # a
      BY <1>1, <1>10, <1>11, <2>1, <3>1 DEF OneQuestion
    <3>2. CASE b = a
      <4>1. jobId = n => progress <= w
        BY <1>1, <1>4, <1>6 DEF OneQuestion
      <4>2. w <= w
        BY <1>5, <1>6, OneClickPageAssumption
      <4>3. QED BY <1>1, <1>2, <1>3, <1>4, <1>6, <1>8, <1>10, <1>11, <3>2, <4>1, <4>2 DEF OneQuestion
    <3>3. QED BY <3>1, <3>2
  <2>2. QED BY <1>1, <1>2, <2>1 DEF OneQuestion
<1>15. LaunchesAreNew'
  BY <1>1, <1>2, <1>11, <1>12 DEF LaunchesAreNew
<1>16. SelectedIsDeployed'
  BY <1>1, <1>2 DEF SelectedIsDeployed
<1>17. QED BY <1>13, <1>14, <1>15, <1>16 DEF CatalogInv
\* A deployment starts: nobody can have asked about it.
LEMMA DeployTemplateOK ==
    ASSUME CatalogInv, NEW a \in Asks, DeployTemplate(a)
    PROVE  CatalogInv'
<1>1. CatalogTypes /\ OneQuestion /\ LaunchesAreNew /\ SelectedIsDeployed
  BY DEF CatalogInv
<1>2. /\ ask[a] \in Ask1 /\ ask[a].op = "deploy" /\ started < MaxJobs /\ started' = started + 1
      /\ UNCHANGED <<jobId, progress, polling, selected, template, values>>
  BY <1>1 DEF DeployTemplate, IsAsk, CatalogTypes, shownVars, workVars
<1>3. PICK n : n = started + 1
  OBVIOUS
<1>4. /\ n \in 1..MaxJobs /\ n \in 0..MaxJobs /\ n \in 1..n /\ started' = n /\ n \notin 1..started
      /\ 0..started \subseteq 0..n /\ 1..started \subseteq 1..n /\ n \notin 0..started
      /\ 1..started \subseteq 1..MaxJobs
  BY <1>1, <1>2, <1>3, OneClickPageAssumption DEF CatalogTypes
<1>5. PICK r : r = [step |-> 0, known |-> TRUE]
  OBVIOUS
<1>6. r \in Job
  BY <1>5, OneClickPageAssumption DEF Job
<1>7. /\ jobs' = [i \in 1..MaxJobs |-> jobs'[i]]
      /\ \A i \in 1..MaxJobs : jobs'[i] \in Job
      /\ \A i \in 1..started : jobs'[i] = jobs[i]
  BY <1>1, <1>3, <1>4, <1>5, <1>6 DEF DeployTemplate, CatalogTypes
<1>8. PICK c : c = [ask[a] EXCEPT !.at = "done", !.job = n]
  OBVIOUS
<1>9. c \in Ask1 /\ ~Question(c) /\ c.job = n
  BY <1>2, <1>4, <1>8 DEF Ask1, Question
<1>10. ask' = [ask EXCEPT ![a] = c]
  BY <1>1, <1>2, <1>3, <1>8 DEF DeployTemplate, CatalogTypes, Ask1
<1>11. /\ ask' \in [Asks -> Ask1 \cup {NoAsk}]
       /\ ask'[a] = c
       /\ \A b \in Asks : b # a => ask'[b] = ask[b]
  BY <1>1, <1>9, <1>10, AsksChange
<1>12. CatalogTypes'
  BY <1>1, <1>2, <1>4, <1>7, <1>11 DEF CatalogTypes
<1>13. \A b \in Asks : Question(ask'[b]) => ask'[b] = ask[b] /\ b # a
  BY <1>9, <1>11
<1>14. OneQuestion'
  <2>1. jobId # 0 => jobId \in 1..started
    BY <1>1, OneClickPageAssumption DEF CatalogTypes
  <2>2. QED BY <1>1, <1>2, <1>4, <1>7, <1>13, <2>1 DEF OneQuestion
<1>15. LaunchesAreNew'
  <2>1. \A b \in Asks : Question(ask[b]) => ask[b].job # n
    BY <1>1, <1>4 DEF OneQuestion
  <2>2. \A b \in Asks : Launch(ask[b]) => ask[b].job # n /\ ask[b].job \in 1..n
    BY <1>1, <1>4 DEF LaunchesAreNew
  <2>3. jobId # n
    BY <1>1, <1>4 DEF CatalogTypes
  <2>4. QED BY <1>1, <1>2, <1>4, <1>9, <1>11, <1>13, <2>1, <2>2, <2>3 DEF LaunchesAreNew
<1>16. SelectedIsDeployed'
  BY <1>1, <1>2 DEF SelectedIsDeployed
<1>17. QED BY <1>12, <1>14, <1>15, <1>16 DEF CatalogInv

\* The page is told of its deployment, of which nothing is known yet.
LEMMA DeploymentStartedOK ==
    ASSUME CatalogInv, NEW a \in Asks, DeploymentStarted(a)
    PROVE  CatalogInv' /\ (jobId' # jobId \/ progress' = progress)
<1>1. CatalogTypes /\ OneQuestion /\ LaunchesAreNew /\ SelectedIsDeployed
  BY DEF CatalogInv
<1>2. /\ ask[a].op = "deploy" /\ ask[a].at = "done"
      /\ UNCHANGED <<jobs, started, selected, template, values>>
  BY DEF DeploymentStarted, Comes, IsAsk, storeVars
<1>3. PICK c : c = NoAsk
  OBVIOUS
<1>4. ask' = [ask EXCEPT ![a] = c]
  BY <1>3 DEF DeploymentStarted, Drop
<1>5. CASE ~ask[a].good
  <2>1. UNCHANGED <<jobId, progress, polling>>
    BY <1>5 DEF DeploymentStarted
  <2>2. Harmless(ask[a], c)
    BY <1>3 DEF Harmless, NoAsk, Question, Launch
  <2>3. QED BY <1>2, <1>3, <1>4, <2>1, <2>2, HarmlessOK
<1>6. CASE ask[a].good
  <2>1. PICK n : n = ask[a].job
    OBVIOUS
  <2>2. jobId' = n /\ progress' = 0 /\ polling' = "due"
    BY <1>6, <2>1 DEF DeploymentStarted
  <2>3. Launch(ask[a])
    BY <1>2, <1>6 DEF Launch
  <2>4. n \in 1..started /\ n # jobId /\ n \in 0..started
    BY <1>1, <2>1, <2>3 DEF LaunchesAreNew
  <2>5. \A b \in Asks : /\ Question(ask[b]) => ask[b].job # n
                        /\ Launch(ask[b]) /\ ask[b].job = n => b = a
    BY <1>1, <2>1, <2>3 DEF LaunchesAreNew
  <2>6. /\ ask' \in [Asks -> Ask1 \cup {NoAsk}]
        /\ ask'[a] = c
        /\ \A b \in Asks : b # a => ask'[b] = ask[b]
    BY <1>1, <1>3, <1>4, AsksChange
  <2>7. ~Question(c) /\ ~Launch(c)
    BY <1>3 DEF NoAsk, Question, Launch
  <2>8. CatalogTypes'
    BY <1>1, <1>2, <2>2, <2>4, <2>6, OneClickPageAssumption DEF CatalogTypes
  <2>9. OneQuestion'
    <3>1. jobs[n].step \in Nat
      BY <1>1, <2>4, OneClickPageAssumption DEF CatalogTypes, Job
    <3>2. progress' <= jobs'[jobId'].step
      BY <1>2, <2>2, <3>1
    <3>3. QED BY <1>1, <1>2, <2>2, <2>5, <2>6, <2>7, <3>2 DEF OneQuestion
  <2>10. LaunchesAreNew'
    BY <1>1, <1>2, <2>2, <2>5, <2>6, <2>7 DEF LaunchesAreNew
  <2>11. SelectedIsDeployed'
    BY <1>1, <1>2 DEF SelectedIsDeployed
  <2>12. QED BY <2>2, <2>4, <2>8, <2>9, <2>10, <2>11 DEF CatalogInv
<1>7. QED BY <1>5, <1>6

\* What an answer shows is not less than what is shown.
LEMMA ProgressShownOK ==
    ASSUME CatalogInv, NEW a \in Asks, ProgressShown(a)
    PROVE  CatalogInv' /\ progress' >= progress
<1>1. CatalogTypes /\ OneQuestion /\ LaunchesAreNew /\ SelectedIsDeployed
  BY DEF CatalogInv
<1>2. /\ ask[a] # NoAsk /\ Question(ask[a]) /\ ask[a].at = "done"
      /\ UNCHANGED <<jobs, started, jobId, selected, template, values>>
  BY DEF ProgressShown, Comes, IsAsk, Question, storeVars
<1>3. PICK c, mine, n : c = NoAsk /\ mine = (ask[a].job = jobId) /\ n = ask[a].saw
  OBVIOUS
<1>4. /\ ask' = [ask EXCEPT ![a] = c]
      /\ progress' = IF mine /\ ask[a].good THEN n ELSE progress
      /\ ~mine => polling' = polling
  BY <1>3 DEF ProgressShown, Drop
<1>5. /\ ask' \in [Asks -> Ask1 \cup {NoAsk}]
      /\ ask'[a] = c
      /\ \A b \in Asks : b # a => ask'[b] = ask[b]
  BY <1>1, <1>3, <1>4, AsksChange
<1>6. ~Question(c) /\ ~Launch(c)
  BY <1>3 DEF NoAsk, Question, Launch
<1>7. n \in 0..MaxSteps /\ progress \in Nat
  BY <1>1, <1>2, <1>3, OneClickPageAssumption DEF CatalogTypes, Ask1
<1>8. mine => n <= jobs[jobId].step
  BY <1>1, <1>2, <1>3 DEF OneQuestion
<1>9. progress' >= progress
  <2>1. mine /\ ask[a].good => progress <= n
    BY <1>1, <1>2, <1>3 DEF OneQuestion
  <2>2. QED BY <1>4, <1>7, <2>1, OneClickPageAssumption
<1>10. CatalogTypes'
  BY <1>1, <1>2, <1>4, <1>5, <1>7 DEF CatalogTypes
<1>11. \A b \in Asks : Question(ask'[b]) => b # a /\ ask'[b] = ask[b] /\ (mine => ask[b].job # jobId)
  BY <1>1, <1>2, <1>3, <1>5, <1>6 DEF OneQuestion
<1>12. OneQuestion'
  <2>1. jobId # 0 => progress' <= jobs[jobId].step
    BY <1>1, <1>4, <1>8 DEF OneQuestion
  <2>2. CASE mine
    BY <1>1, <1>2, <1>11, <2>1, <2>2 DEF OneQuestion
  <2>3. CASE ~mine
    BY <1>1, <1>2, <1>4, <1>11, <2>1, <2>3 DEF OneQuestion
  <2>4. QED BY <1>3, <2>2, <2>3
<1>13. LaunchesAreNew'
  BY <1>1, <1>2, <1>5, <1>6, <1>11 DEF LaunchesAreNew
<1>14. SelectedIsDeployed'
  BY <1>1, <1>2 DEF SelectedIsDeployed
<1>15. QED BY <1>9, <1>10, <1>12, <1>13, <1>14 DEF CatalogInv

LEMMA CatalogInitOK == OneClickPageInit => CatalogInv
<1> SUFFICES ASSUME OneClickPageInit
             PROVE  CatalogInv
  OBVIOUS
<1>1. /\ jobs = [j \in 1..MaxJobs |-> [step |-> 0, known |-> FALSE]]
      /\ started = 0 /\ selected = None /\ template = None /\ jobId = 0 /\ progress = 0
      /\ ask = [a \in Asks |-> NoAsk]
  BY DEF OneClickPageInit
<1>2. [step |-> 0, known |-> FALSE] \in Job
  BY OneClickPageAssumption DEF Job
<1>3. CatalogTypes
  BY <1>1, <1>2, OneClickPageAssumption DEF CatalogTypes
<1>4. \A a \in Asks : ~Question(ask[a]) /\ ~Launch(ask[a])
  BY <1>1 DEF NoAsk, Question, Launch
<1>5. OneQuestion /\ LaunchesAreNew /\ SelectedIsDeployed
  BY <1>1, <1>4 DEF OneQuestion, LaunchesAreNew, SelectedIsDeployed
<1>6. QED BY <1>3, <1>5 DEF CatalogInv

LEMMA CatalogStep == CatalogInv /\ [OneClickPageNext]_oneClickPageVars => CatalogInv'
<1> SUFFICES ASSUME CatalogInv, [OneClickPageNext]_oneClickPageVars
             PROVE  CatalogInv'
  OBVIOUS
<1>1. CASE UNCHANGED oneClickPageVars
  BY <1>1 DEF oneClickPageVars, storeVars, shownVars, workVars, CatalogInv, CatalogTypes, OneQuestion,
              LaunchesAreNew, SelectedIsDeployed
<1>2. CASE LeaveCatalog \/ BackToCatalog \/ OpenCustom
  BY <1>2, LeavesOK
<1>3. CASE \E j \in 1..MaxJobs : updateJobProgress(j) \/ JobIsForgotten(j)
  BY <1>3, JobsOK
<1>4. ASSUME NEW a \in Asks,
             \/ OpenCatalog(a)
             \/ OpenDeployment(a)
             \/ \E r \in CatalogApps : loadAppTemplate(a, r)
             \/ loadCatalog(a)
             \/ \E r \in CatalogApps : selectApp(a, r)
             \/ \E r \in Repos, op \in {"insert", "delete"} : changeRepository(a, op, r)
             \/ startDeployment(a)
      PROVE  CatalogInv'
  BY <1>4, PageActsOK
<1>5. ASSUME NEW a \in Asks,
             \/ poll(a)
             \/ DeployTemplate(a)
             \/ GetProgress(a)
             \/ DeploymentStarted(a)
             \/ ProgressShown(a)
      PROVE  CatalogInv'
  BY <1>5, PollOK, DeployTemplateOK, GetProgressOK, DeploymentStartedOK, ProgressShownOK
<1>6. QED BY <1>1, <1>2, <1>3, <1>4, <1>5, ServerOK, AnswersOK DEF OneClickPageNext

LEMMA CatalogInvAlways == OneClickPageSpec => []CatalogInv
BY CatalogInitOK, CatalogStep, PTL DEF OneClickPageSpec

\* The texts that a click on the button deploys are those of the app that the
\* page names, in whatever order the templates come (selectApp).
THEOREM CatalogCorrect == OneClickPageSpec => []SelectedIsDeployed
<1>1. CatalogInv => SelectedIsDeployed
  BY DEF CatalogInv
<1>2. QED BY <1>1, CatalogInvAlways, PTL

\* What the page shows of a deployment does not go back, although questions of
\* earlier deployments may still be under way: an answer is awaited before the
\* next question is asked (the polling effect).
THEOREM ProgressCorrect == OneClickPageSpec => ProgressNeverGoesBack
<1>1. ASSUME CatalogInv, [OneClickPageNext]_oneClickPageVars, jobId # 0, jobId' = jobId
      PROVE  progress' >= progress
  <2>1. progress \in Nat
    BY <1>1, OneClickPageAssumption DEF CatalogInv, CatalogTypes
  <2>2. \/ progress' = progress
        \/ LeaveCatalog
        \/ \E a \in Asks : DeploymentStarted(a) \/ ProgressShown(a)
    <3>1. CASE UNCHANGED oneClickPageVars \/ BackToCatalog \/ OpenCustom
      BY <3>1 DEF oneClickPageVars, shownVars, BackToCatalog, OpenCustom
    <3>2. ASSUME NEW a \in Asks,
                 \/ OpenCatalog(a)
                 \/ OpenDeployment(a)
                 \/ \E r \in CatalogApps : loadAppTemplate(a, r)
                 \/ loadCatalog(a)
                 \/ \E r \in CatalogApps : selectApp(a, r)
                 \/ \E r \in Repos, op \in {"insert", "delete"} : changeRepository(a, op, r)
                 \/ startDeployment(a)
                 \/ poll(a)
          PROVE  progress' = progress
      BY <3>2 DEF OpenCatalog, OpenDeployment, loadAppTemplate, loadCatalog, selectApp,
                  changeRepository, startDeployment, poll, shownVars
    <3>3. ASSUME NEW a \in Asks,
                 \/ AdmitAsk(a)
                 \/ Turned(a)
                 \/ CheckRepository(a)
                 \/ insertOneClickBaseUrl(a)
                 \/ CheckPresence(a)
                 \/ deleteOneClickBaseUrl(a)
                 \/ ChangeFails(a)
                 \/ DeployTemplate(a)
                 \/ ListTemplates(a)
                 \/ ListRepositories(a)
                 \/ GetTemplate(a)
                 \/ GetProgress(a)
                 \/ ReadFails(a)
          PROVE  progress' = progress
      BY <3>3 DEF AdmitAsk, Turned, CheckRepository, insertOneClickBaseUrl, CheckPresence,
                  deleteOneClickBaseUrl, ChangeFails, DeployTemplate, ListTemplates,
                  ListRepositories, GetTemplate, GetProgress, ReadFails, shownVars
    <3>4. ASSUME NEW a \in Asks,
                 \/ CatalogLoaded(a)
                 \/ AppSelected(a)
                 \/ RepositoryChanged(a)
                 \/ AnswerIsLost(a)
          PROVE  progress' = progress
      BY <3>4 DEF CatalogLoaded, AppSelected, RepositoryChanged, AnswerIsLost, shownVars
    <3>5. CASE \E j \in 1..MaxJobs : updateJobProgress(j) \/ JobIsForgotten(j)
      BY <3>5 DEF updateJobProgress, JobIsForgotten, shownVars
    <3>6. QED BY <1>1, <3>1, <3>2, <3>3, <3>4, <3>5 DEF OneClickPageNext
  <2>3. LeaveCatalog => jobId' = 0
    BY DEF LeaveCatalog
  <2>4. QED BY <1>1, <2>1, <2>2, <2>3, DeploymentStartedOK, ProgressShownOK
<1>2. CatalogInv /\ [OneClickPageNext]_oneClickPageVars
        => [jobId # 0 /\ jobId' = jobId => progress' >= progress]_oneClickPageVars
  BY <1>1
<1>3. QED BY <1>2, CatalogInvAlways, PTL DEF OneClickPageSpec, ProgressNeverGoesBack
=============================================================================
