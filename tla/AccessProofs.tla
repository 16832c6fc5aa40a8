---------------------------- MODULE AccessProofs ----------------------------
(***************************************************************************)
(* Proofs about Jwks, OAuth2 and Identity, for any keys, users, people and *)
(* accounts, any interval between refreshes, any length of time and any    *)
(* number of concurrent requests.                                          *)
(***************************************************************************)
EXTENDS Jwks, OAuth2, Identity, SequenceTheorems, FiniteSetTheorems, TLAPS

-----------------------------------------------------------------------------
(* Jwks: the invariant.                                                    *)

Refreshing(t) == auth[t].pc \in {"send", "receive"}

\* The refresh mutex excludes: only its holder is in a refresh.
RefresherHoldsMutex == \A t \in Tasks : Refreshing(t) => mutex = t

\* Whoever is in a refresh found the cache old enough, and it still is.
RefreshIsDue ==
  \A t \in Tasks : Refreshing(t) => clock - cache.last_fetch >= Interval

\* last_fetch is the time of the latest refresh, and not in the future.
LastFetchIsLatest ==
  /\ cache.last_fetch <= clock
  /\ \A i \in DOMAIN fetches : fetches[i] <= cache.last_fetch

EverPublished == published \cup withdrawn

\* The server knows of no key but from the provider.
KeysComeFromProvider ==
  /\ seen \subseteq EverPublished
  /\ cache.keys \subseteq EverPublished
  /\ \A t \in Tasks : auth[t].pc = "receive" => auth[t].answer \subseteq EverPublished

\* The answer that is on its way has every key fetched before that the provider
\* has not withdrawn since.
AnswerIsFresh ==
  \A t \in Tasks : auth[t].pc = "receive" => seen \ withdrawn \subseteq auth[t].answer

JwksInv ==
  /\ JwksSafety
  /\ RefresherHoldsMutex
  /\ RefreshIsDue
  /\ LastFetchIsLatest
  /\ KeysComeFromProvider
  /\ AnswerIsFresh

-----------------------------------------------------------------------------
(* Lemmas.                                                                 *)

\* What requests in progress look like.
Waiting == [pc : {"lock", "send", "receive"}, token : [kid : Kids, valid : BOOLEAN],
            answer : SUBSET Kids]

\* The idle request is at none of the steps of a refresh.
LEMMA IdleRequest ==
  /\ NoRequest.pc = "idle"
  /\ NoRequest \notin Waiting
BY DEF NoRequest, Auth, Waiting

Caches == [keys : SUBSET Kids, jwks_uri : BOOLEAN, last_fetch : Int]

\* What a refresh leaves is a cache.
LEMMA RefreshedIsCache ==
  ASSUME NEW c \in Caches, NEW ok \in BOOLEAN, NEW k \in SUBSET Kids, NEW time \in Int
  PROVE  [fetch_jwks_inner(c, ok, k, time) EXCEPT !.jwks_uri = TRUE] \in Caches
BY DEF fetch_jwks_inner, Caches

\* A request at a step of its own is one that waits.
LEMMA BusyRequest ==
  ASSUME JwksTypeOK, NEW t \in Tasks, auth[t].pc # "idle"
  PROVE  auth[t] \in Waiting
BY IdleRequest DEF JwksTypeOK, Waiting

\* A token that is accepted now is accepted under a key of the provider.
LEMMA AnswerSound ==
  ASSUME JwksInv, NEW token \in Tokens,
         \/ accepted' = accepted
         \/ /\ accepted' = accepted \cup {token}
            /\ token.valid /\ token.kid \in EverPublished \ ForeignKids,
         published' \cup withdrawn' = EverPublished
  PROVE  AcceptedUnderPublishedKey' /\ accepted' \subseteq Tokens
<1>1. \A k \in accepted' : k \in Tokens /\ k.valid /\ k.kid \in EverPublished \ ForeignKids
  BY DEF JwksInv, JwksSafety, AcceptedUnderPublishedKey, JwksTypeOK, EverPublished
<1> QED
  BY <1>1 DEF AcceptedUnderPublishedKey, EverPublished

-----------------------------------------------------------------------------
(* The invariant.                                                          *)

\* It holds when main() starts to serve.
LEMMA JwksInvInit == JwksInit => JwksInv
<1> SUFFICES ASSUME JwksInit PROVE JwksInv
  OBVIOUS
<1>1. PICK discovered, ok \in BOOLEAN :
        /\ cache = try_init(NewCache, discovered, ok, published, 0)
        /\ fetches = IF discovered THEN <<0>> ELSE << >>
        /\ seen = IF discovered /\ ok THEN published ELSE {}
  BY DEF JwksInit
<1>2. /\ published \in SUBSET Kids /\ withdrawn = {} /\ clock = 0 /\ mutex = NoTask
      /\ auth = [t \in Tasks |-> NoRequest] /\ accepted = {}
  BY DEF JwksInit
<1>3. cache \in Caches /\ cache.keys = seen
      /\ cache.last_fetch = IF discovered THEN 0 ELSE -(Interval + 1)
  <2>1. NewCache \in Caches /\ NewCache.keys = {} /\ NewCache.last_fetch = -(Interval + 1)
    BY JwksAssumption DEF NewCache, Caches
  <2>2. CASE discovered
    <3>1. cache = [fetch_jwks_inner(NewCache, ok, published, 0) EXCEPT !.jwks_uri = TRUE]
      <4>1. cache = try_init(NewCache, TRUE, ok, published, 0)
        BY <1>1, <2>2
      <4> QED
        BY <4>1 DEF try_init
    <3>2. cache \in Caches
      <4>1. published \in SUBSET Kids /\ NewCache \in Caches
        BY <1>2, <2>1
      <4> QED
        BY <3>1, <4>1, RefreshedIsCache
    <3>3. cache.keys = IF ok THEN published ELSE {}
      BY <1>2, <2>1, <3>1 DEF fetch_jwks_inner, Caches
    <3>4. cache.last_fetch = 0
      BY <1>2, <2>1, <3>1 DEF fetch_jwks_inner, Caches
    <3> QED
      BY <1>1, <2>2, <3>2, <3>3, <3>4
  <2>3. CASE ~discovered
    BY <1>1, <2>1, <2>3 DEF try_init
  <2> QED
    BY <2>2, <2>3
<1>4. /\ fetches \in Seq(0..MaxNow)
      /\ \A i \in DOMAIN fetches : fetches[i] = 0 /\ i = 1 /\ discovered
  <2>1. CASE discovered
    <3>1. fetches = <<0>>
      BY <1>1, <2>1
    <3> QED
      BY <2>1, <3>1, JwksAssumption
  <2>2. CASE ~discovered
    <3>1. fetches = << >>
      BY <1>1, <2>2
    <3> QED
      BY <3>1
  <2> QED
    BY <2>1, <2>2
<1>5. JwksTypeOK
  BY <1>1, <1>2, <1>3, <1>4, JwksAssumption DEF JwksTypeOK, Caches
<1>6. RefetchesApart /\ FetchedKeysStay /\ AcceptedUnderPublishedKey
  BY <1>2, <1>3, <1>4 DEF RefetchesApart, FetchedKeysStay, AcceptedUnderPublishedKey
<1>7. RefresherHoldsMutex /\ RefreshIsDue /\ AnswerIsFresh
  BY <1>2, IdleRequest DEF RefresherHoldsMutex, RefreshIsDue, AnswerIsFresh, Refreshing
<1>8. LastFetchIsLatest
  BY <1>2, <1>3, <1>4, JwksAssumption DEF LastFetchIsLatest
<1>9. KeysComeFromProvider
  BY <1>1, <1>2, <1>3, IdleRequest DEF KeysComeFromProvider, EverPublished
<1> QED
  BY <1>5, <1>6, <1>7, <1>8, <1>9 DEF JwksInv, JwksSafety

\* A step that only lets one request end or wait for the lock.
LEMMA RequestLeaves ==
  ASSUME JwksInv, NEW t \in Tasks,
         auth' \in [Tasks -> {NoRequest} \cup Waiting],
         \A u \in Tasks \ {t} : auth'[u] = auth[u],
         ~Refreshing(t)',
         UNCHANGED <<published, withdrawn, cache, clock, fetches, seen>>,
         mutex' \in Tasks \cup {NoTask},
         \A u \in Tasks \ {t} : Refreshing(u) => mutex' = mutex,
         accepted' \subseteq Tokens,
         AcceptedUnderPublishedKey'
  PROVE  JwksInv'
<1> USE DEF JwksInv, JwksSafety
<1>1. \A u \in Tasks : \/ ~Refreshing(u)'
                       \/ auth'[u] = auth[u] /\ u # t
  OBVIOUS
<1>2. JwksTypeOK'
  BY DEF JwksTypeOK, Waiting
<1>3. RefetchesApart' /\ FetchedKeysStay'
  BY DEF RefetchesApart, FetchedKeysStay
<1>4. RefresherHoldsMutex' /\ RefreshIsDue' /\ AnswerIsFresh'
  BY <1>1 DEF RefresherHoldsMutex, RefreshIsDue, AnswerIsFresh, Refreshing
<1>5. LastFetchIsLatest'
  BY DEF LastFetchIsLatest
<1>6. KeysComeFromProvider'
  BY <1>1 DEF KeysComeFromProvider, EverPublished, Refreshing
<1> QED
  BY <1>2, <1>3, <1>4, <1>5, <1>6

\* A known key, or none, answers at once; another one makes the request wait.
LEMMA MiddlewareStep ==
  ASSUME JwksInv, NEW t \in Tasks, NEW token \in Tokens, auth_middleware(t, token)
  PROVE  JwksInv'
<1> USE DEF auth_middleware
<1>1. CASE KidMissing(token) \/ key_from_cache(cache, token.kid)
  <2>0. auth' = [auth EXCEPT ![t] = NoRequest]
    BY <1>1 DEF Answer
  <2>1. accepted' = IF ~KidMissing(token) /\ token.valid THEN accepted \cup {token} ELSE accepted
    BY <1>1 DEF Answer
  <2>2. ~KidMissing(token) => token.kid \in EverPublished \ ForeignKids
    BY <1>1 DEF key_from_cache, JwksInv, KeysComeFromProvider
  <2>3. published' \cup withdrawn' = EverPublished
    BY DEF EverPublished
  <2>4. AcceptedUnderPublishedKey' /\ accepted' \subseteq Tokens
    BY <2>1, <2>2, <2>3, AnswerSound
  <2> QED
    <3>1. /\ UNCHANGED <<published, withdrawn, cache, clock, fetches, seen>>
          /\ mutex' = mutex /\ mutex \in Tasks \cup {NoTask}
      BY DEF JwksInv, JwksSafety, JwksTypeOK
    <3> QED
      <4>1. /\ auth' \in [Tasks -> {NoRequest} \cup Waiting]
            /\ \A u \in Tasks \ {t} : auth'[u] = auth[u]
            /\ ~Refreshing(t)'
        BY <2>0, IdleRequest DEF JwksInv, JwksSafety, JwksTypeOK, Waiting, Refreshing
      <4> QED
        BY <2>4, <3>1, <4>1, RequestLeaves
<1>2. CASE ~(KidMissing(token) \/ key_from_cache(cache, token.kid))
  <2>1. Auth("lock", token) \in Waiting /\ Auth("lock", token).pc = "lock"
    BY <1>2 DEF Auth, Waiting, Tokens, KidMissing
  <2>2. AcceptedUnderPublishedKey' /\ accepted' \subseteq Tokens
    BY <1>2 DEF JwksInv, JwksSafety, AcceptedUnderPublishedKey, JwksTypeOK
  <2> QED
    <3>1. /\ UNCHANGED <<published, withdrawn, cache, clock, fetches, seen>>
          /\ mutex' = mutex /\ mutex \in Tasks \cup {NoTask}
      BY DEF JwksInv, JwksSafety, JwksTypeOK
    <3>2. /\ auth' \in [Tasks -> {NoRequest} \cup Waiting]
          /\ \A u \in Tasks \ {t} : auth'[u] = auth[u]
          /\ ~Refreshing(t)'
      BY <1>2, <2>1 DEF JwksInv, JwksSafety, JwksTypeOK, Waiting, Refreshing
    <3> QED
      BY <2>1, <2>2, <3>1, <3>2, RequestLeaves
<1> QED
  BY <1>1, <1>2

\* The lock is free, so that nobody is in a refresh; the cache is looked up again.
LEMMA LockStep ==
  ASSUME JwksInv, NEW t \in Tasks, LockAndRecheck(t)
  PROVE  JwksInv'
<1> DEFINE found == key_from_cache(cache, auth[t].token.kid)
           mayFetch == clock - cache.last_fetch >= Interval
<1>1. auth[t] \in Waiting /\ auth[t].token \in Tokens
  BY BusyRequest DEF LockAndRecheck, JwksInv, JwksSafety, Waiting, Tokens
<1>2. \A u \in Tasks : ~Refreshing(u)
  BY JwksAssumption DEF LockAndRecheck, MutexFree, JwksInv, RefresherHoldsMutex
<1>3. CASE ~found /\ mayFetch
  <2>1. /\ auth' = [auth EXCEPT ![t].pc = "send"]
        /\ mutex' = t
        /\ UNCHANGED <<published, withdrawn, cache, clock, accepted, fetches, seen>>
    BY <1>3 DEF LockAndRecheck
  <2>2. [auth[t] EXCEPT !.pc = "send"] \in Waiting
    BY <1>1 DEF Waiting
  <2>3. \A u \in Tasks : IF u = t THEN auth'[u].pc = "send" ELSE auth'[u] = auth[u]
    BY <1>1, <2>1 DEF JwksInv, JwksSafety, JwksTypeOK, Waiting
  <2>4. JwksTypeOK'
    BY <2>1, <2>2 DEF JwksTypeOK, JwksInv, JwksSafety, Waiting
  <2>5. RefresherHoldsMutex' /\ RefreshIsDue' /\ AnswerIsFresh'
    BY <1>2, <1>3, <2>1, <2>3 DEF RefresherHoldsMutex, RefreshIsDue, AnswerIsFresh, Refreshing
  <2>6. KeysComeFromProvider'
    BY <1>2, <2>1, <2>3 DEF KeysComeFromProvider, EverPublished, Refreshing, JwksInv
  <2> QED
    BY <2>1, <2>4, <2>5, <2>6
       DEF JwksInv, JwksSafety, RefetchesApart, FetchedKeysStay, AcceptedUnderPublishedKey,
           LastFetchIsLatest
<1>4. CASE ~(~found /\ mayFetch)
  <2>0. auth' = [auth EXCEPT ![t] = NoRequest]
    BY <1>4 DEF LockAndRecheck, Answer
  <2>1. accepted' = IF found /\ auth[t].token.valid THEN accepted \cup {auth[t].token}
                       ELSE accepted
    BY <1>4 DEF LockAndRecheck, Answer
  <2>2. found => auth[t].token.kid \in EverPublished \ ForeignKids
    BY DEF key_from_cache, JwksInv, KeysComeFromProvider
  <2>3. /\ published' \cup withdrawn' = EverPublished
        /\ UNCHANGED <<published, withdrawn, cache, mutex, clock, fetches, seen>>
    BY <1>4 DEF LockAndRecheck, EverPublished
  <2> HIDE DEF found
  <2>4. AcceptedUnderPublishedKey' /\ accepted' \subseteq Tokens
    BY <1>1, <2>1, <2>2, <2>3, AnswerSound
  <2> QED
    <3>1. mutex \in Tasks \cup {NoTask}
      BY DEF JwksInv, JwksSafety, JwksTypeOK
    <3> QED
      <4>1. /\ auth' \in [Tasks -> {NoRequest} \cup Waiting]
            /\ \A u \in Tasks \ {t} : auth'[u] = auth[u]
            /\ ~Refreshing(t)'
        BY <2>0, IdleRequest DEF JwksInv, JwksSafety, JwksTypeOK, Waiting, Refreshing
      <4> QED
        BY <2>3, <2>4, <3>1, <4>1, RequestLeaves
<1> QED
  BY <1>3, <1>4
\* The provider is asked: what it serves now has every key that was fetched
\* before and not withdrawn.
LEMMA SendStep ==
  ASSUME JwksInv, NEW t \in Tasks, SendFetch(t)
  PROVE  JwksInv'
<1>1. auth[t] \in Waiting
  BY BusyRequest DEF SendFetch, JwksInv, JwksSafety
<1>2. /\ auth' = [auth EXCEPT ![t].pc = "receive", ![t].answer = published]
      /\ UNCHANGED <<published, withdrawn, cache, mutex, clock, accepted, fetches, seen>>
  BY DEF SendFetch
<1>3. [auth[t] EXCEPT !.pc = "receive", !.answer = published] \in Waiting
  BY <1>1 DEF Waiting, JwksInv, JwksSafety, JwksTypeOK
<1>4. \A u \in Tasks : IF u = t THEN auth'[u].pc = "receive" /\ auth'[u].answer = published
                       ELSE auth'[u] = auth[u]
  BY <1>1, <1>2 DEF JwksInv, JwksSafety, JwksTypeOK, Waiting
<1>5. JwksTypeOK'
  BY <1>2, <1>3 DEF JwksTypeOK, JwksInv, JwksSafety, Waiting
<1>6. RefresherHoldsMutex' /\ RefreshIsDue'
  BY <1>2, <1>4 DEF JwksInv, RefresherHoldsMutex, RefreshIsDue, Refreshing, SendFetch
<1>7. AnswerIsFresh' /\ KeysComeFromProvider'
  BY <1>2, <1>4 DEF JwksInv, AnswerIsFresh, KeysComeFromProvider, EverPublished
<1> QED
  BY <1>2, <1>5, <1>6, <1>7
     DEF JwksInv, JwksSafety, RefetchesApart, FetchedKeysStay, AcceptedUnderPublishedKey,
         LastFetchIsLatest

\* Without a jwks_uri nothing can be fetched; the lock is given back.
LEMMA DiscoveryStep ==
  ASSUME JwksInv, NEW t \in Tasks, DiscoveryFails(t)
  PROVE  JwksInv'
<1>1. auth[t].token \in Tokens
  BY BusyRequest DEF DiscoveryFails, JwksInv, JwksSafety, Waiting, Tokens
<1>2. \A u \in Tasks \ {t} : ~Refreshing(u)
  BY DEF DiscoveryFails, JwksInv, RefresherHoldsMutex, Refreshing
<1>3. auth' = [auth EXCEPT ![t] = NoRequest]
  BY DEF DiscoveryFails, Answer
<1>4. /\ auth' \in [Tasks -> {NoRequest} \cup Waiting]
      /\ \A u \in Tasks \ {t} : auth'[u] = auth[u]
      /\ ~Refreshing(t)'
  BY <1>3, IdleRequest DEF JwksInv, JwksSafety, JwksTypeOK, Waiting, Refreshing
<1>5. /\ published' \cup withdrawn' = EverPublished
      /\ UNCHANGED <<published, withdrawn, cache, clock, fetches, seen>>
      /\ mutex' = NoTask
  BY DEF DiscoveryFails, EverPublished, AfterGuard
<1>6. \/ accepted' = accepted
      \/ /\ accepted' = accepted \cup {auth[t].token} /\ auth[t].token.valid
         /\ auth[t].token.kid \in cache.keys \ ForeignKids
  BY DEF DiscoveryFails, Answer, key_from_cache
<1>7. AcceptedUnderPublishedKey' /\ accepted' \subseteq Tokens
  BY <1>1, <1>5, <1>6, AnswerSound DEF JwksInv, KeysComeFromProvider
<1> QED
  BY <1>2, <1>4, <1>5, <1>7, RequestLeaves

\* The answer, good or bad, is applied by the holder of the lock.
LEMMA ReceiveStep ==
  ASSUME JwksInv, NEW t \in Tasks, NEW ok \in BOOLEAN, ReceiveFetch(t, ok)
  PROVE  JwksInv'
<1> DEFINE answer == auth[t].answer
<1>1. auth[t] \in Waiting /\ auth[t].token \in Tokens /\ answer \in SUBSET Kids
  BY BusyRequest DEF ReceiveFetch, JwksInv, JwksSafety, Waiting, Tokens
<1>2. \A u \in Tasks \ {t} : ~Refreshing(u)
  BY DEF ReceiveFetch, JwksInv, RefresherHoldsMutex, Refreshing
<1>3. /\ UNCHANGED <<published, withdrawn, clock>>
      /\ fetches' = Append(fetches, clock)
      /\ seen' = IF ok THEN seen \cup answer ELSE seen
      /\ mutex' = NoTask
      /\ auth' = [auth EXCEPT ![t] = NoRequest]
  BY DEF ReceiveFetch, Answer, AfterGuard
<1>4. /\ cache' \in Caches
      /\ cache'.keys = IF ok THEN answer ELSE cache.keys
      /\ cache'.last_fetch = clock
  <2>1. cache \in Caches /\ clock \in Int
    BY DEF JwksInv, JwksSafety, JwksTypeOK, Caches
  <2>2. cache' = [fetch_jwks_inner(cache, ok, answer, clock) EXCEPT !.jwks_uri = TRUE]
    BY DEF ReceiveFetch, try_init
  <2>3. cache' \in Caches
    BY <1>1, <2>1, <2>2 DEF fetch_jwks_inner, Caches
  <2>4. cache'.keys = IF ok THEN answer ELSE cache.keys
    BY <1>1, <2>1, <2>2 DEF fetch_jwks_inner, Caches
  <2>5. cache'.last_fetch = clock
    BY <1>1, <2>1, <2>2 DEF fetch_jwks_inner, Caches
  <2> QED
    BY <2>3, <2>4, <2>5
<1>5. /\ answer \subseteq EverPublished
      /\ seen \ withdrawn \subseteq answer
      /\ clock - cache.last_fetch >= Interval
  BY DEF ReceiveFetch, JwksInv, KeysComeFromProvider, AnswerIsFresh, RefreshIsDue, Refreshing
<1>6. cache'.keys \subseteq EverPublished
  BY <1>4, <1>5 DEF JwksInv, KeysComeFromProvider
<1>7. published' \cup withdrawn' = EverPublished
  BY <1>3 DEF EverPublished
<1>8. AcceptedUnderPublishedKey' /\ accepted' \subseteq Tokens
  <2>1. \/ accepted' = accepted
        \/ /\ accepted' = accepted \cup {auth[t].token} /\ auth[t].token.valid
           /\ auth[t].token.kid \in cache'.keys \ ForeignKids
    BY DEF ReceiveFetch, Answer, key_from_cache
  <2> QED
    BY <1>1, <1>6, <1>7, <2>1, AnswerSound
<1>9. \A u \in Tasks : ~Refreshing(u)'
  BY <1>2, <1>3, IdleRequest DEF Refreshing, JwksInv, JwksSafety, JwksTypeOK
<1>10. /\ fetches' \in Seq(0..MaxNow)
       /\ \A i \in DOMAIN fetches' :
            \/ i \in DOMAIN fetches /\ fetches'[i] = fetches[i]
            \/ i = Len(fetches) + 1 /\ fetches'[i] = clock
  BY <1>3 DEF JwksInv, JwksSafety, JwksTypeOK
<1>11. JwksTypeOK'
  BY <1>3, <1>4, <1>8, <1>10 DEF JwksTypeOK, JwksInv, JwksSafety, Caches
<1>12. LastFetchIsLatest'
  <2>1. /\ clock \in Int /\ cache.last_fetch \in Int
        /\ \A i \in DOMAIN fetches : fetches[i] \in Int
    <3>1. clock \in Int
      BY DEF JwksInv, JwksSafety, JwksTypeOK
    <3>2. cache.last_fetch \in Int
      BY DEF JwksInv, JwksSafety, JwksTypeOK
    <3>3. fetches \in Seq(0..MaxNow)
      BY DEF JwksInv, JwksSafety, JwksTypeOK
    <3>4. \A i \in DOMAIN fetches : fetches[i] \in 0..MaxNow
      BY <3>3, ElementOfSeq, LenProperties
    <3> QED
      BY <3>1, <3>2, <3>4
  <2>2. \A i \in DOMAIN fetches : fetches[i] <= clock
    BY <2>1 DEF LastFetchIsLatest, JwksInv
  <2> QED
    BY <1>3, <1>4, <1>10, <2>1, <2>2 DEF LastFetchIsLatest
<1>13. RefetchesApart'
  <2>1. \A i \in DOMAIN fetches : clock - fetches[i] >= Interval /\ i \in 1..Len(fetches)
    BY <1>5, JwksAssumption DEF JwksInv, LastFetchIsLatest, JwksSafety, JwksTypeOK
  <2> QED
    BY <1>10, <2>1 DEF RefetchesApart, JwksInv, JwksSafety
<1>14. FetchedKeysStay'
  BY <1>3, <1>4, <1>5 DEF FetchedKeysStay, JwksInv, JwksSafety
<1>15. KeysComeFromProvider'
  BY <1>3, <1>5, <1>6, <1>7, <1>9 DEF KeysComeFromProvider, EverPublished, Refreshing, JwksInv
<1> QED
  BY <1>8, <1>9, <1>11, <1>12, <1>13, <1>14, <1>15
     DEF JwksInv, JwksSafety, RefresherHoldsMutex, RefreshIsDue, AnswerIsFresh, Refreshing

\* A task that is dropped gives back the lock if it had it.
LEMMA DisconnectStep ==
  ASSUME JwksInv, NEW t \in Tasks, Disconnect(t)
  PROVE  JwksInv'
<1>1. auth' = [auth EXCEPT ![t] = NoRequest]
  BY DEF Disconnect
<1>2. /\ auth' \in [Tasks -> {NoRequest} \cup Waiting]
      /\ \A u \in Tasks \ {t} : auth'[u] = auth[u]
      /\ ~Refreshing(t)'
  BY <1>1, IdleRequest DEF JwksInv, JwksSafety, JwksTypeOK, Waiting, Refreshing
<1>3. /\ UNCHANGED <<published, withdrawn, cache, clock, fetches, seen>>
      /\ mutex' \in Tasks \cup {NoTask}
      /\ AcceptedUnderPublishedKey' /\ accepted' \subseteq Tokens
  BY DEF Disconnect, AfterGuard, JwksInv, JwksSafety, JwksTypeOK, AcceptedUnderPublishedKey
<1>4. \A u \in Tasks \ {t} : Refreshing(u) => mutex' = mutex
  BY DEF Disconnect, JwksInv, RefresherHoldsMutex
<1> QED
  BY <1>2, <1>3, <1>4, RequestLeaves

\* Keys come and go, and a key that went is not counted on any more.
LEMMA ProviderStep ==
  ASSUME JwksInv, NEW kid \in Kids, Publish(kid) \/ Withdraw(kid)
  PROVE  JwksInv'
<1>1. /\ UNCHANGED <<cache, mutex, auth, clock, accepted, fetches, seen>>
      /\ EverPublished \subseteq published' \cup withdrawn'
      /\ withdrawn \subseteq withdrawn'
      /\ published' \subseteq Kids /\ withdrawn' \subseteq Kids
  BY DEF Publish, Withdraw, EverPublished, JwksInv, JwksSafety, JwksTypeOK
<1>2. JwksTypeOK' /\ RefetchesApart'
  BY <1>1 DEF JwksTypeOK, RefetchesApart, JwksInv, JwksSafety
<1>3. FetchedKeysStay' /\ AcceptedUnderPublishedKey'
  BY <1>1 DEF FetchedKeysStay, AcceptedUnderPublishedKey, EverPublished, JwksInv, JwksSafety
<1>4. KeysComeFromProvider' /\ AnswerIsFresh'
  BY <1>1 DEF KeysComeFromProvider, AnswerIsFresh, EverPublished, JwksInv
<1> QED
  BY <1>1, <1>2, <1>3, <1>4
     DEF JwksInv, JwksSafety, RefresherHoldsMutex, RefreshIsDue, LastFetchIsLatest, Refreshing

\* Time makes a refresh more overdue.
LEMMA TickStep ==
  ASSUME JwksInv, JwksTick
  PROVE  JwksInv'
<1>1. /\ UNCHANGED <<published, withdrawn, cache, mutex, auth, accepted, fetches, seen>>
      /\ clock' = clock + 1 /\ clock' \in 0..MaxNow
  BY JwksAssumption DEF JwksTick, JwksInv, JwksSafety, JwksTypeOK
<1>2. JwksTypeOK'
  BY <1>1 DEF JwksTypeOK, JwksInv, JwksSafety
<1>3. RefreshIsDue' /\ LastFetchIsLatest'
  BY <1>1, JwksAssumption
     DEF RefreshIsDue, LastFetchIsLatest, Refreshing, JwksInv, JwksSafety, JwksTypeOK
<1> QED
  BY <1>1, <1>2, <1>3
     DEF JwksInv, JwksSafety, RefetchesApart, FetchedKeysStay, AcceptedUnderPublishedKey,
         RefresherHoldsMutex, KeysComeFromProvider, AnswerIsFresh, EverPublished, Refreshing

\* Every step keeps the invariant.
LEMMA JwksInvStep == JwksInv /\ [JwksNext]_jwksVars => JwksInv'
<1> SUFFICES ASSUME JwksInv, [JwksNext]_jwksVars PROVE JwksInv'
  OBVIOUS
<1>1. CASE \E t \in Tasks, token \in Tokens : auth_middleware(t, token)
  BY <1>1, MiddlewareStep
<1>2. CASE \E t \in Tasks : TaskStep(t)
  BY <1>2, LockStep, SendStep, DiscoveryStep, ReceiveStep DEF TaskStep
<1>3. CASE \E t \in Tasks : Disconnect(t)
  BY <1>3, DisconnectStep
<1>4. CASE \E kid \in Kids : Publish(kid) \/ Withdraw(kid)
  BY <1>4, ProviderStep
<1>5. CASE JwksTick
  BY <1>5, TickStep
<1>6. CASE UNCHANGED jwksVars
  BY <1>6 DEF jwksVars, JwksInv, JwksSafety, JwksTypeOK, RefetchesApart, FetchedKeysStay,
              AcceptedUnderPublishedKey, RefresherHoldsMutex, RefreshIsDue, LastFetchIsLatest,
              KeysComeFromProvider, AnswerIsFresh, EverPublished, Refreshing
<1> QED
  BY <1>1, <1>2, <1>3, <1>4, <1>5, <1>6 DEF JwksNext

\* JwksCache and auth_middleware, for any number of concurrent requests:
\* refreshes keep min_refetch_interval, a fetched key stays usable until the
\* provider withdraws it, and tokens are accepted under published RS256 keys only.
THEOREM JwksCorrect == JwksSpec => []JwksSafety
<1>1. JwksInit => JwksInv
  BY JwksInvInit
<1>2. JwksInv /\ [JwksNext]_jwksVars => JwksInv'
  BY JwksInvStep
<1>3. JwksInv => JwksSafety
  BY DEF JwksInv
<1> QED
  BY <1>1, <1>2, <1>3, PTL DEF JwksSpec

\* At most one task is in a refresh at any time: refresh_mutex.
THEOREM RefreshesAreExclusive ==
  JwksSpec => [](\A t, u \in Tasks : Refreshing(t) /\ Refreshing(u) => t = u)
<1>1. JwksInit => JwksInv
  BY JwksInvInit
<1>2. JwksInv /\ [JwksNext]_jwksVars => JwksInv'
  BY JwksInvStep
<1>3. JwksInv => \A t, u \in Tasks : Refreshing(t) /\ Refreshing(u) => t = u
  BY DEF JwksInv, RefresherHoldsMutex
<1> QED
  BY <1>1, <1>2, <1>3, PTL DEF JwksSpec

-----------------------------------------------------------------------------
(* OAuth2: the invariant.                                                  *)

FlowRecords ==
  [stage : {"none", "login", "consent", "done"}, skip : BOOLEAN,
   subject : Users \cup {NoUser}, context : Users \cup {NoEmail},
   requested : SUBSET Scopes, skip_consent : BOOLEAN,
   granted : SUBSET Scopes, id_token : Users \cup {NoEmail}]

PageRecords ==
  [pc : {"skip", "accept"}, user : Users, scope : {{}}]
  \cup [pc : {"idle", "whoami", "reject", "grant"}, user : {NoUser}, scope : SUBSET Scopes]

\* What makes the flow one of a user that Kratos confirmed, at every stage: a
\* flow that may be skipped names one already, and the context of a login is
\* the user's email or, after a skip, nothing.
FlowOK(f, confirmed) ==
  /\ f \in FlowRecords
  /\ f.stage = "login" /\ f.skip => f.subject \in confirmed
  /\ f.stage \in {"consent", "done"} => f.subject \in confirmed
  /\ f.stage = "consent" =>
       /\ f.context \in {NoEmail, f.subject}
       /\ f.subject \in WithEmail /\ f.context = NoEmail => f.skip
  /\ f.stage = "done" =>
       /\ f.granted \subseteq f.requested
       /\ f.id_token # NoEmail => "email" \in f.granted /\ f.id_token = f.subject
       /\ "email" \in f.granted /\ f.subject \in WithEmail /\ f.id_token = NoEmail => f.skip

\* What a page found out before its call of Hydra still holds when Hydra takes
\* the decision, as far as the flow is still the one it was read from.
PageOK(q, f, confirmed) ==
  /\ q \in PageRecords
  /\ q.pc \in {"skip", "accept"} => q.user \in confirmed
  /\ q.pc = "skip" /\ f.stage = "login" => f.skip
  /\ q.pc = "grant" /\ f.stage \in {"login", "consent"} => q.scope \subseteq f.requested

OAuthInv ==
  /\ session \in [user : Users \cup {NoUser}, active : BOOLEAN]
  /\ session.active => session.user \in Users
  /\ remembered # NoUser => remembered \in proved
  /\ consented \in [Users -> SUBSET Scopes]
  /\ proved \subseteq Users
  /\ FlowOK(flow, proved)
  /\ page \in [Pages -> PageRecords]
  /\ \A p \in Pages : PageOK(page[p], flow, proved)

\* The invariant contains what is promised of a flow.
LEMMA OAuthInvSuffices == OAuthInv => OAuthSafety
<1> SUFFICES ASSUME OAuthInv PROVE OAuthSafety
  OBVIOUS
<1>1. remembered \in Users \cup {NoUser}
  BY DEF OAuthInv
<1>2. flow \in FlowRecords /\ (flow.stage \in {"consent", "done"} => flow.subject \in Users)
  BY DEF OAuthInv, FlowOK
<1>3. OAuthTypeOK
  BY <1>1, <1>2 DEF OAuthInv, OAuthTypeOK, FlowRecords, PageRecords
<1>4. LoginWasProved /\ GrantWithinRequest /\ EmailMissingOnlyAfterSkip
  BY DEF OAuthInv, FlowOK, LoginWasProved, GrantWithinRequest, EmailMissingOnlyAfterSkip
<1> QED
  BY <1>3, <1>4 DEF OAuthSafety

\* No flow and an idle page satisfy what is asked of them.
LEMMA NothingIsOK ==
  ASSUME NEW f, NEW confirmed
  PROVE  FlowOK(NoFlow, confirmed) /\ PageOK(NoPage, f, confirmed)
<1>1. NoFlow \in FlowRecords /\ NoFlow.stage = "none"
  BY DEF NoFlow, FlowRecords
<1>2. NoPage \in PageRecords /\ NoPage.pc = "idle"
  BY DEF NoPage, Page, PageRecords
<1> QED
  BY <1>1, <1>2 DEF FlowOK, PageOK

\* Nobody is logged in and no flow is open.
LEMMA OAuthInvInit == OAuthInit => OAuthInv
<1> SUFFICES ASSUME OAuthInit PROVE OAuthInv
  OBVIOUS
<1>1. FlowOK(flow, proved)
  BY NothingIsOK DEF OAuthInit
<1>2. page \in [Pages -> PageRecords] /\ \A p \in Pages : PageOK(page[p], flow, proved)
  BY NothingIsOK DEF OAuthInit, PageOK
<1>3. session \in [user : Users \cup {NoUser}, active : BOOLEAN] /\ ~session.active
  BY DEF OAuthInit
<1>4. consented \in [Users -> SUBSET Scopes] /\ remembered = NoUser /\ proved = {}
  BY DEF OAuthInit
<1> QED
  BY <1>1, <1>2, <1>3, <1>4 DEF OAuthInv

\* A page goes on while the flow keeps what the other pages rely on.
LEMMA PagesOK ==
  ASSUME OAuthInv, NEW p \in Pages, NEW next, page' = [page EXCEPT ![p] = next],
         PageOK(next, flow', proved'), proved \subseteq proved',
         flow'.stage = "login" => flow.stage = "login" /\ flow'.skip = flow.skip,
         flow'.stage \in {"login", "consent"} =>
           flow.stage \in {"login", "consent"} /\ flow'.requested = flow.requested
  PROVE  page' \in [Pages -> PageRecords] /\ \A q \in Pages : PageOK(page'[q], flow', proved')
<1>1. next \in PageRecords
  BY DEF PageOK
<1>2. page' \in [Pages -> PageRecords] /\ page'[p] = next
  BY <1>1 DEF OAuthInv
<1>3. ASSUME NEW q \in Pages, q # p PROVE PageOK(page'[q], flow', proved')
  <2>1. page'[q] = page[q] /\ PageOK(page[q], flow, proved)
    BY <1>3 DEF OAuthInv
  <2> QED
    BY <2>1 DEF PageOK
<1> QED
  BY <1>2, <1>3

\* A step of one page that leaves everything else alone.
LEMMA PageGoesOn ==
  ASSUME OAuthInv, NEW p \in Pages, NEW next, page' = [page EXCEPT ![p] = next],
         PageOK(next, flow, proved),
         UNCHANGED <<session, remembered, consented, flow, proved>>
  PROVE  OAuthInv'
<1>1. PageOK(next, flow', proved')
  OBVIOUS
<1>2. page' \in [Pages -> PageRecords] /\ \A q \in Pages : PageOK(page'[q], flow', proved')
  BY <1>1, PagesOK
<1> QED
  BY <1>2 DEF OAuthInv

\* A page's kind of record.
LEMMA PageRecordOK ==
  /\ \A user \in Users : Page("skip", user, {}) \in PageRecords
  /\ \A user \in Users : Page("accept", user, {}) \in PageRecords
  /\ Page("whoami", NoUser, {}) \in PageRecords /\ Page("reject", NoUser, {}) \in PageRecords
  /\ \A scope \in SUBSET Scopes : Page("grant", NoUser, scope) \in PageRecords
BY DEF Page, PageRecords

\* The browser's user comes and goes, and Hydra forgets.
LEMMA BrowserStep ==
  ASSUME OAuthInv, (\E u \in Users : KratosLogin(u)) \/ KratosLogout \/ Forget
  PROVE  OAuthInv'
<1>1. UNCHANGED <<consented, flow, page, proved>>
  BY DEF KratosLogin, KratosLogout, Forget
<1>2. /\ session' \in [user : Users \cup {NoUser}, active : BOOLEAN]
      /\ session'.active => session'.user \in Users
      /\ remembered' # NoUser => remembered' \in proved'
  <2>1. CASE \E u \in Users : KratosLogin(u)
    BY <2>1 DEF OAuthInv, KratosLogin
  <2>2. CASE KratosLogout
    <3>1. session' = [session EXCEPT !.active = FALSE] /\ UNCHANGED <<remembered, proved>>
      BY <2>2 DEF KratosLogout
    <3>2. /\ session' \in [user : Users \cup {NoUser}, active : BOOLEAN]
          /\ session'.active = FALSE
      BY <3>1 DEF OAuthInv
    <3> QED
      BY <3>1, <3>2 DEF OAuthInv
  <2>3. CASE Forget
    BY <2>3 DEF OAuthInv, Forget
  <2> QED
    BY <2>1, <2>2, <2>3
<1> QED
  BY <1>1, <1>2 DEF OAuthInv

\* A flow is skipped for the user Hydra remembers, whom Kratos confirmed.
LEMMA StartStep ==
  ASSUME OAuthInv, NEW requested \in SUBSET Scopes, NEW trusted \in BOOLEAN,
         StartFlow(requested, trusted)
  PROVE  OAuthInv'
<1>1. UNCHANGED <<session, remembered, consented, page, proved>> /\ \A p \in Pages : page[p] = NoPage
  BY DEF StartFlow
<1>2. \A p \in Pages : PageOK(page'[p], flow', proved')
  BY <1>1, NothingIsOK
<1>3. remembered \in Users \cup {NoUser} /\ (remembered # NoUser => remembered \in proved)
  BY DEF OAuthInv
<1>4. NoFlow \in FlowRecords
  BY NothingIsOK DEF FlowOK
<1>5. /\ flow'.stage = "login" /\ flow'.skip = (remembered # NoUser)
      /\ flow'.subject = remembered
  BY DEF StartFlow, NoFlow
<1>6. flow' \in FlowRecords
  BY <1>3, <1>4 DEF StartFlow, FlowRecords
<1>7. FlowOK(flow', proved')
  BY <1>1, <1>3, <1>5, <1>6 DEF FlowOK
<1> QED
  BY <1>1, <1>2, <1>7 DEF OAuthInv

\* The handler reads the login request and learns whether to ask Kratos.
LEMMA LoginRequestStep ==
  ASSUME OAuthInv, NEW p \in Pages, get_login_request(p)
  PROVE  OAuthInv'
<1> DEFINE next == IF flow.skip THEN Page("skip", flow.subject, {}) ELSE Page("whoami", NoUser, {})
<1>1. page' = [page EXCEPT ![p] = next] /\ UNCHANGED <<session, remembered, consented, flow, proved>>
  BY DEF get_login_request
<1>2. CASE flow.skip
  <2>1. flow.subject \in proved /\ flow.subject \in Users
    BY <1>2 DEF OAuthInv, FlowOK, get_login_request
  <2>2. next \in PageRecords /\ next.pc = "skip" /\ next.user = flow.subject
    BY <1>2, <2>1, PageRecordOK DEF Page
  <2>3. PageOK(next, flow, proved)
    BY <1>2, <2>1, <2>2 DEF PageOK
  <2> HIDE DEF next
  <2> QED
    BY <1>1, <2>3, PageGoesOn
<1>3. CASE ~flow.skip
  <2>1. next \in PageRecords /\ next.pc = "whoami"
    BY <1>3, PageRecordOK DEF Page
  <2>2. PageOK(next, flow, proved)
    BY <2>1 DEF PageOK
  <2> HIDE DEF next
  <2> QED
    BY <1>1, <2>2, PageGoesOn
<1> QED
  BY <1>2, <1>3

\* Kratos confirms the user of an active session, or the login will be rejected.
LEMMA WhoamiStep ==
  ASSUME OAuthInv, NEW p \in Pages, verify_kratos_session(p)
  PROVE  OAuthInv'
<1>1. UNCHANGED <<session, remembered, consented, flow>>
  BY DEF verify_kratos_session
<1>2. CASE page' = [page EXCEPT ![p] = Page("reject", NoUser, {})] /\ UNCHANGED proved
  <2>1. PageOK(Page("reject", NoUser, {}), flow, proved)
    BY PageRecordOK DEF PageOK, Page
  <2> QED
    BY <1>1, <1>2, <2>1, PageGoesOn
<1>3. CASE /\ session.active
           /\ page' = [page EXCEPT ![p] = Page("accept", session.user, {})]
           /\ proved' = proved \cup {session.user}
  <2>1. session.user \in Users /\ proved' \subseteq Users /\ proved \subseteq proved'
    BY <1>3 DEF OAuthInv
  <2>2. /\ Page("accept", session.user, {}) \in PageRecords
        /\ Page("accept", session.user, {}).pc = "accept"
        /\ Page("accept", session.user, {}).user = session.user
    BY <2>1, PageRecordOK DEF Page
  <2>3. PageOK(Page("accept", session.user, {}), flow', proved')
    BY <1>3, <2>2 DEF PageOK
  <2>4. page' \in [Pages -> PageRecords] /\ \A q \in Pages : PageOK(page'[q], flow', proved')
    BY <1>1, <1>3, <2>1, <2>3, PagesOK
  <2>5. FlowOK(flow', proved')
    BY <1>1, <2>1 DEF OAuthInv, FlowOK
  <2>6. remembered' # NoUser => remembered' \in proved'
    BY <1>1, <2>1 DEF OAuthInv
  <2> QED
    BY <1>1, <2>1, <2>4, <2>5, <2>6 DEF OAuthInv
<1> QED
  BY <1>2, <1>3 DEF verify_kratos_session, whoami

\* Hydra takes the login of a confirmed user, with the email unless it was skipped.
LEMMA AcceptLoginStep ==
  ASSUME OAuthInv, NEW p \in Pages, accept_login(p)
  PROVE  OAuthInv'
<1>1. /\ page' = [page EXCEPT ![p] = NoPage] /\ UNCHANGED <<session, consented, proved>>
      /\ remembered' = page[p].user /\ page[p].pc \in {"skip", "accept"} /\ flow.stage = "login"
  BY DEF accept_login
<1>2. flow \in FlowRecords /\ PageOK(page[p], flow, proved) /\ proved \subseteq Users
  BY DEF OAuthInv, FlowOK
<1>3. page[p].user \in proved /\ page[p].user \in Users /\ (page[p].pc = "skip" => flow.skip)
  BY <1>1, <1>2 DEF PageOK
<1> DEFINE context == LoginContext(page[p].user, page[p].pc = "skip")
<1>4. /\ context \in {NoEmail, page[p].user}
      /\ page[p].user \in WithEmail /\ context = NoEmail => flow.skip
  BY <1>1, <1>3, OAuth2Assumption DEF LoginContext, Email
<1>5. flow' = [flow EXCEPT !.stage = "consent", !.subject = page[p].user, !.context = context]
  BY DEF accept_login
<1> HIDE DEF context
<1>6. /\ flow' \in FlowRecords /\ flow'.stage = "consent" /\ flow'.subject = page[p].user
      /\ flow'.context = context /\ flow'.skip = flow.skip /\ flow'.requested = flow.requested
  BY <1>2, <1>3, <1>4, <1>5 DEF FlowRecords
<1>7. FlowOK(flow', proved')
  BY <1>1, <1>3, <1>4, <1>6 DEF FlowOK
<1>8. page' \in [Pages -> PageRecords] /\ \A q \in Pages : PageOK(page'[q], flow', proved')
  BY <1>1, <1>6, PagesOK, NothingIsOK
<1> QED
  BY <1>1, <1>3, <1>7, <1>8 DEF OAuthInv

\* Hydra takes the consent: what was posted is within what was requested.
LEMMA AcceptConsentStep ==
  ASSUME OAuthInv, NEW p \in Pages, accept_consent(p)
  PROVE  OAuthInv'
<1>1. /\ page' = [page EXCEPT ![p] = NoPage] /\ UNCHANGED <<session, remembered, proved>>
      /\ page[p].pc = "grant" /\ flow.stage = "consent"
      /\ consented' = [consented EXCEPT ![flow.subject] = page[p].scope]
  BY DEF accept_consent
<1>2. /\ flow \in FlowRecords /\ flow.subject \in proved /\ flow.context \in {NoEmail, flow.subject}
      /\ flow.subject \in WithEmail /\ flow.context = NoEmail => flow.skip
  BY <1>1 DEF OAuthInv, FlowOK
<1>3. page[p].scope \subseteq flow.requested /\ page[p].scope \in SUBSET Scopes
  <2>1. PageOK(page[p], flow, proved)
    BY DEF OAuthInv
  <2>2. page[p].scope \subseteq flow.requested
    BY <1>1, <2>1 DEF PageOK
  <2> QED
    BY <1>2, <2>2 DEF FlowRecords
<1> DEFINE token == build_consent_session(flow.context, page[p].scope)
<1>4. /\ token \in {NoEmail, flow.subject}
      /\ token # NoEmail => "email" \in page[p].scope
      /\ "email" \in page[p].scope => token = flow.context
  BY <1>2 DEF build_consent_session
<1>5. flow' = [flow EXCEPT !.stage = "done", !.granted = page[p].scope, !.id_token = token]
  BY DEF accept_consent
<1> HIDE DEF token
<1>6. token \in Users \cup {NoEmail}
  BY <1>2, <1>4 DEF OAuthInv
<1>7. /\ flow' \in FlowRecords /\ flow'.stage = "done" /\ flow'.granted = page[p].scope
      /\ flow'.id_token = token /\ flow'.skip = flow.skip /\ flow'.requested = flow.requested
      /\ flow'.subject = flow.subject
  BY <1>2, <1>3, <1>5, <1>6 DEF FlowRecords
<1>8. FlowOK(flow', proved')
  BY <1>1, <1>2, <1>3, <1>4, <1>7 DEF FlowOK
<1>9. page' \in [Pages -> PageRecords] /\ \A q \in Pages : PageOK(page'[q], flow', proved')
  BY <1>1, <1>7, PagesOK, NothingIsOK
<1>10. consented' \in [Users -> SUBSET Scopes]
  BY <1>1, <1>3 DEF OAuthInv
<1> QED
  BY <1>1, <1>8, <1>9, <1>10 DEF OAuthInv

\* A flow that is given up holds nothing.
LEMMA RejectStep ==
  ASSUME OAuthInv, NEW p \in Pages, reject_login(p) \/ reject_consent(p)
  PROVE  OAuthInv'
<1>1. flow' = NoFlow /\ UNCHANGED <<session, remembered, consented, proved>>
  BY DEF reject_login, reject_consent
<1>2. flow'.stage = "none" /\ FlowOK(flow', proved')
  BY <1>1, NothingIsOK DEF NoFlow
<1>3. page' = [page EXCEPT ![p] = NoPage]
  BY DEF reject_login, reject_consent, OAuthInv
<1>4. page' \in [Pages -> PageRecords] /\ \A q \in Pages : PageOK(page'[q], flow', proved')
  BY <1>1, <1>2, <1>3, PagesOK, NothingIsOK
<1> QED
  BY <1>1, <1>2, <1>4 DEF OAuthInv

\* What a consent page will grant lies within the request.
LEMMA ConsentStep ==
  ASSUME OAuthInv, NEW p \in Pages,
         get_consent(p) \/ \E scope \in SUBSET Scopes : post_consent(p, scope)
  PROVE  OAuthInv'
<1>1. PICK scope \in SUBSET Scopes :
        /\ scope \subseteq flow.requested
        /\ page' = [page EXCEPT ![p] = Page("grant", NoUser, scope)]
        /\ UNCHANGED <<session, remembered, consented, flow, proved>>
  BY DEF get_consent, post_consent, GrantAllowed, OAuthInv, FlowOK, FlowRecords
<1>2. /\ Page("grant", NoUser, scope) \in PageRecords
      /\ Page("grant", NoUser, scope).pc = "grant"
      /\ Page("grant", NoUser, scope).scope = scope
  BY PageRecordOK DEF Page
<1>3. PageOK(Page("grant", NoUser, scope), flow, proved)
  BY <1>1, <1>2 DEF PageOK
<1> QED
  BY <1>1, <1>3, PageGoesOn

\* Every step keeps the invariant.
LEMMA OAuthInvStep == OAuthInv /\ [OAuthNext]_oauthVars => OAuthInv'
<1> SUFFICES ASSUME OAuthInv, [OAuthNext]_oauthVars PROVE OAuthInv'
  OBVIOUS
<1>1. CASE UNCHANGED oauthVars
  BY <1>1 DEF oauthVars, OAuthInv
<1>2. ASSUME NEW p \in Pages, BadGateway(p) PROVE OAuthInv'
  BY <1>2, NothingIsOK, PageGoesOn DEF BadGateway
<1> QED
  BY <1>1, <1>2, BrowserStep, StartStep, LoginRequestStep, WhoamiStep, AcceptLoginStep,
     AcceptConsentStep, RejectStep, ConsentStep DEF OAuthNext

\* The login and consent provider, whatever pages are loaded twice, sessions end
\* and calls of Hydra fail in between: a flow speaks for a user Kratos confirmed,
\* grants no more than was requested, and carries the right email.
THEOREM OAuthCorrect == OAuthSpec => []OAuthSafety
BY OAuthInvInit, OAuthInvStep, OAuthInvSuffices, PTL DEF OAuthSpec

-----------------------------------------------------------------------------
(* Identity: the invariant.                                                *)

PersonIds == {p.id : p \in people}

CallRecords ==
  [pc : {"idle", "host", "create_host", "person", "me", "listed", "assign", "revoke", "write"},
   op : {"none", "me", "assign", "revoke"}, subject : Subjects \cup {NoSubject},
   target : Nat, role : InstanceRoles, host : Nat, id : Nat,
   page : 0..2, listed : SUBSET InstanceRoles, always : SUBSET InstanceRoles,
   ever : SUBSET InstanceRoles]

\* The one issuer has one host, and a person of it one row, numbered as inserted.
PeopleOK(rows) ==
  /\ rows \subseteq [id : Nat, host : {1}, client_id : Subjects]
  /\ IsFiniteSet(rows)
  /\ \A p \in rows : p.id \in 1 .. Cardinality(rows)
  /\ \A p, q \in rows : p.client_id = q.client_id => p = q

\* What a listing has read: every role that was held all the while and comes
\* no later than the last page is listed.
ListingOK(c, ts) ==
  /\ c.always \subseteq RolesOf(c.id, ts) /\ RolesOf(c.id, ts) \subseteq c.ever
  /\ c.listed \subseteq c.ever
  /\ \A role \in c.always : Position(role) <= c.page => role \in c.listed

\* What a request carries from one call of the database or of Keto to the next.
CallOK(c, ids, ts) ==
  /\ c.pc \in {"host", "create_host", "person"} =>
       c.op # "none" /\ c.subject \in Subjects /\ c.page = 0 /\ c.listed = {}
  /\ c.pc = "person" => c.host = 1
  /\ c.pc = "write" => c.target \in ids
  /\ c.pc = "me" => ListingOK(c, ts)
  /\ c.pc = "listed" => c.always \subseteq c.listed /\ c.listed \subseteq c.ever

IdentityInv ==
  /\ hosts \in {{}, {1}}
  /\ PeopleOK(people)
  /\ owner \in [Accounts -> {NoAuth} \cup PersonIds]
  /\ tuples \subseteq InstanceRoles \X PersonIds
  /\ call \in [Requests -> CallRecords]
  /\ \A r \in Requests : CallOK(call[r], PersonIds, tuples)
  /\ seeded \in BOOLEAN /\ staleWrite \in BOOLEAN
  /\ LastAdminLostOnlyToStaleCheck

\* The invariant contains what is promised of people and roles.
LEMMA IdentityInvSuffices == IdentityInv => IdentitySafety
<1> SUFFICES ASSUME IdentityInv PROVE IdentitySafety
  OBVIOUS
<1>1. hosts \subseteq Nat
  BY DEF IdentityInv
<1>2. people \subseteq [id : Nat, host : Nat, client_id : Subjects]
  BY DEF IdentityInv, PeopleOK
<1>3. IdentityTypeOK
  BY <1>1, <1>2 DEF IdentityInv, IdentityTypeOK, PersonIds, CallRecords
<1>4. OneAuthAccountPerSubject /\ ListedRolesWereHeld
  BY DEF IdentityInv, PeopleOK, OneAuthAccountPerSubject, CallOK, ListedRolesWereHeld
<1> QED
  BY <1>3, <1>4 DEF IdentityInv, IdentitySafety

\* A request begins with nothing, and when it is over it holds nothing.
LEMMA CallBegins ==
  /\ NoCall \in CallRecords /\ NoCall.pc = "idle"
  /\ \A ids, ts : CallOK(NoCall, ids, ts)
  /\ \A op \in {"me", "assign", "revoke"}, subject \in Subjects :
       /\ Call("host", op, subject) \in CallRecords
       /\ \A ids, ts : CallOK(Call("host", op, subject), ids, ts)
<1>1. NoCall \in CallRecords /\ NoCall.pc = "idle"
  BY DEF NoCall, Call, CallRecords, NoSubject, NoAuth, InstanceRoles
<1>2. ASSUME NEW op \in {"me", "assign", "revoke"}, NEW subject \in Subjects
      PROVE  /\ Call("host", op, subject) \in CallRecords
             /\ Call("host", op, subject).pc = "host" /\ Call("host", op, subject).op = op
             /\ Call("host", op, subject).subject = subject
             /\ Call("host", op, subject).page = 0 /\ Call("host", op, subject).listed = {}
  BY DEF Call, CallRecords, NoAuth, InstanceRoles
<1> QED
  BY <1>1, <1>2 DEF CallOK

\* A new database, or one that was given an administrator.
LEMMA IdentityInvInit == IdentityInit => IdentityInv
<1> SUFFICES ASSUME IdentityInit PROVE IdentityInv
  OBVIOUS
<1>1. call \in [Requests -> CallRecords] /\ \A r \in Requests : CallOK(call[r], PersonIds, tuples)
  BY CallBegins DEF IdentityInit
<1>2. CASE ~seeded
  <2>1. hosts = {} /\ people = {} /\ tuples = {} /\ owner = [a \in Accounts |-> NoAuth]
    BY <1>2 DEF IdentityInit
  <2>2. PeopleOK(people)
    BY <2>1, FS_EmptySet DEF PeopleOK
  <2> QED
    BY <1>1, <1>2, <2>1, <2>2 DEF IdentityInv, IdentityInit, LastAdminLostOnlyToStaleCheck
<1>3. CASE seeded
  <2> DEFINE admin == Person(1, 1, CHOOSE s \in Subjects : TRUE)
  <2>1. /\ hosts = {1} /\ people = {admin} /\ tuples = {<<"admins", 1>>} /\ seeded = TRUE
        /\ owner \in [Accounts -> {NoAuth, 1}]
    BY <1>3 DEF IdentityInit
  <2>2. admin \in [id : Nat, host : {1}, client_id : Subjects] /\ admin.id = 1
    BY IdentityAssumption DEF Person
  <2> HIDE DEF admin
  <2>3. IsFiniteSet(people) /\ Cardinality(people) = 1
    BY <2>1, FS_Singleton
  <2>4. PeopleOK(people)
    BY <2>1, <2>2, <2>3 DEF PeopleOK
  <2>5. PersonIds = {1}
    BY <2>1, <2>2 DEF PersonIds
  <2>6. 1 \in Admins
    BY <2>1, <2>2 DEF Admins
  <2>7. tuples \subseteq InstanceRoles \X PersonIds
    BY <2>1, <2>5 DEF InstanceRoles
  <2> QED
    BY <1>1, <2>1, <2>4, <2>5, <2>6, <2>7
    DEF IdentityInv, IdentityInit, LastAdminLostOnlyToStaleCheck
<1> QED
  BY <1>2, <1>3

\* A request that goes on leaves the others as they are.
LEMMA OtherCallsOK ==
  ASSUME IdentityInv, NEW r \in Requests, UNCHANGED tuples, PersonIds \subseteq PersonIds',
         \A q \in Requests \ {r} : call'[q] = call[q], CallOK(call'[r], PersonIds', tuples')
  PROVE  \A q \in Requests : CallOK(call'[q], PersonIds', tuples')
<1>1. ASSUME NEW q \in Requests, q # r PROVE CallOK(call'[q], PersonIds', tuples')
  <2>1. call'[q] = call[q] /\ CallOK(call[q], PersonIds, tuples)
    BY <1>1 DEF IdentityInv
  <2> QED
    BY <2>1 DEF CallOK
<1> QED
  BY <1>1

\* A step of one request that writes nothing.
LEMMA CallGoesOn ==
  ASSUME IdentityInv, NEW r \in Requests, call' \in [Requests -> CallRecords],
         \A q \in Requests \ {r} : call'[q] = call[q], CallOK(call'[r], PersonIds, tuples),
         UNCHANGED <<people, owner, tuples, seeded, staleWrite>>, hosts' \in {{}, {1}}
  PROVE  IdentityInv'
<1>1. PersonIds' = PersonIds
  BY DEF PersonIds
<1>2. \A q \in Requests : CallOK(call'[q], PersonIds', tuples')
  BY <1>1, OtherCallsOK
<1>3. LastAdminLostOnlyToStaleCheck'
  BY DEF IdentityInv, LastAdminLostOnlyToStaleCheck, Admins
<1> QED
  BY <1>1, <1>2, <1>3 DEF IdentityInv

\* A request that begins or ends, as a whole record.
LEMMA CallSet ==
  ASSUME IdentityInv, NEW r \in Requests, NEW next \in CallRecords,
         CallOK(next, PersonIds, tuples), call' = [call EXCEPT ![r] = next],
         UNCHANGED <<people, owner, tuples, seeded, staleWrite>>, hosts' \in {{}, {1}}
  PROVE  IdentityInv'
<1>1. /\ call' \in [Requests -> CallRecords] /\ call'[r] = next
      /\ \A q \in Requests \ {r} : call'[q] = call[q]
  BY DEF IdentityInv
<1> QED
  BY <1>1, CallGoesOn

\* The host's row is found, or is to be created.
LEMMA FindHostStep ==
  ASSUME IdentityInv, NEW r \in Requests, find_by_url(r)
  PROVE  IdentityInv'
<1>1. /\ call[r] \in CallRecords /\ CallOK(call[r], PersonIds, tuples) /\ call[r].pc = "host"
      /\ hosts \in {{}, {1}}
  BY DEF IdentityInv, find_by_url
<1> DEFINE pc == IF hosts = {} THEN "create_host" ELSE "person"
           host == IF hosts = {} THEN 0 ELSE CHOOSE h \in hosts : TRUE
           next == [call[r] EXCEPT !.pc = pc, !.host = host]
<1>2. pc \in {"create_host", "person"} /\ host \in {0, 1} /\ (pc = "person" => host = 1)
  BY <1>1
<1>3. call' = [call EXCEPT ![r] = next]
  BY DEF find_by_url
<1> HIDE DEF pc, host
<1>4. /\ next \in CallRecords /\ next.pc = pc /\ next.host = host /\ next.op = call[r].op
      /\ next.subject = call[r].subject /\ next.page = call[r].page /\ next.listed = call[r].listed
  <2>1. host \in Nat
    BY <1>2
  <2>2. next \in CallRecords
    BY <1>1, <1>2, <2>1 DEF CallRecords
  <2> QED
    BY <1>1, <2>2 DEF CallRecords
<1> HIDE DEF next
<1>5. CallOK(next, PersonIds, tuples)
  BY <1>1, <1>2, <1>4 DEF CallOK
<1>6. UNCHANGED <<people, owner, tuples, seeded, staleWrite>> /\ hosts' \in {{}, {1}}
  BY <1>1 DEF find_by_url
<1> QED
  BY <1>3, <1>4, <1>5, <1>6, CallSet

\* Of two first requests one inserts the host, and the other fails.
LEMMA CreateHostStep ==
  ASSUME IdentityInv, NEW r \in Requests, create_host(r)
  PROVE  IdentityInv'
<1>1. UNCHANGED <<people, owner, tuples, seeded, staleWrite>>
  BY DEF create_host
<1>2. CASE ~HostInserted
  <2>1. call' = [call EXCEPT ![r] = NoCall] /\ UNCHANGED hosts
    BY <1>2 DEF create_host
  <2> QED
    BY <1>1, <2>1, CallBegins, CallSet DEF IdentityInv
<1>3. CASE HostInserted
  <2> DEFINE next == [call[r] EXCEPT !.pc = "person", !.host = 1]
  <2>1. Cardinality(hosts) + 1 = 1 /\ hosts = {}
    BY <1>3, FS_EmptySet DEF HostInserted
  <2>2. hosts' = {1} /\ call' = [call EXCEPT ![r] = next]
    BY <1>3, <2>1 DEF create_host
  <2>3. call[r] \in CallRecords /\ CallOK(call[r], PersonIds, tuples) /\ call[r].pc = "create_host"
    BY DEF IdentityInv, create_host
  <2>4. /\ next \in CallRecords /\ next.pc = "person" /\ next.host = 1 /\ next.op = call[r].op
        /\ next.subject = call[r].subject /\ next.page = call[r].page
        /\ next.listed = call[r].listed
    BY <2>3 DEF CallRecords
  <2> HIDE DEF next
  <2>5. CallOK(next, PersonIds, tuples)
    BY <2>3, <2>4 DEF CallOK
  <2> QED
    BY <1>1, <2>2, <2>4, <2>5, CallSet
<1> QED
  BY <1>2, <1>3

\* The row of the subject is found, or inserted where there is none.
LEMMA FindOrCreateStep ==
  ASSUME IdentityInv, NEW r \in Requests, find_or_create(r)
  PROVE  IdentityInv'
<1> DEFINE known == {p \in people : p.host = call[r].host /\ p.client_id = call[r].subject}
           new == Person(Cardinality(people) + 1, call[r].host, call[r].subject)
           row == IF known = {} THEN new ELSE CHOOSE p \in known : TRUE
           roles == RolesOf(row.id, tuples)
           next == [call[r] EXCEPT !.pc = call[r].op, !.id = row.id, !.always = roles, !.ever = roles]
<1>1. /\ call[r].pc = "person" /\ people' = people \cup {row} /\ call' = [call EXCEPT ![r] = next]
      /\ UNCHANGED <<hosts, owner, tuples, seeded, staleWrite>>
  BY DEF find_or_create
<1>2. /\ call[r] \in CallRecords /\ CallOK(call[r], PersonIds, tuples) /\ PeopleOK(people)
      /\ call[r].host = 1 /\ call[r].subject \in Subjects
      /\ call[r].op \in {"me", "assign", "revoke"}
  BY <1>1 DEF IdentityInv, CallOK, CallRecords
<1>3. /\ IsFiniteSet(people) /\ Cardinality(people) \in Nat
      /\ \A p \in people : p.id \in 1 .. Cardinality(people)
  BY <1>2, FS_CardinalityType DEF PeopleOK
<1>4. row \in [id : Nat, host : {1}, client_id : Subjects] /\ PeopleOK(people')
  <2>1. CASE known # {}
    <3>1. row \in people
      BY <2>1
    <3>2. people' = people
      BY <1>1, <3>1
    <3> QED
      BY <1>2, <3>1, <3>2 DEF PeopleOK
  <2>2. CASE known = {}
    <3>1. /\ row \in [id : Nat, host : {1}, client_id : Subjects]
          /\ row.id = Cardinality(people) + 1 /\ row.client_id = call[r].subject
      BY <1>2, <1>3, <2>2 DEF Person
    <3>2. \A p \in people : p.client_id # row.client_id
      BY <1>2, <2>2, <3>1 DEF PeopleOK
    <3>3. \A p \in people : p.id # row.id
      BY <1>3, <3>1
    <3> HIDE DEF row, known
    <3>4. row \notin people
      BY <3>3
    <3>5. IsFiniteSet(people') /\ Cardinality(people') = Cardinality(people) + 1
      BY <1>1, <1>3, <3>4, FS_AddElement
    <3>6. people' \subseteq [id : Nat, host : {1}, client_id : Subjects]
      BY <1>1, <1>2, <3>1 DEF PeopleOK
    <3>7. \A p \in people' : p.id \in 1 .. Cardinality(people')
      BY <1>1, <1>3, <3>1, <3>5
    <3>8. \A p, q \in people' : p.client_id = q.client_id => p = q
      BY <1>1, <1>2, <3>2 DEF PeopleOK
    <3> QED
      BY <3>1, <3>5, <3>6, <3>7, <3>8 DEF PeopleOK
  <2> QED
    BY <2>1, <2>2
<1> HIDE DEF row, new, known
<1>5. row.id \in Nat /\ roles \in SUBSET InstanceRoles
  BY <1>4 DEF RolesOf
<1>6. /\ next \in CallRecords /\ next.pc = call[r].op /\ next.id = row.id /\ next.always = roles
      /\ next.ever = roles /\ next.page = call[r].page /\ next.listed = call[r].listed
  BY <1>2, <1>5 DEF CallRecords
<1> HIDE DEF next
<1>7. PersonIds \subseteq PersonIds'
  BY <1>1 DEF PersonIds
<1>8. call[r].page = 0 /\ call[r].listed = {}
  BY <1>1, <1>2 DEF CallOK
<1>9. next.pc = "me" => ListingOK(next, tuples)
  BY <1>6, <1>8 DEF ListingOK, Position
<1>10. CallOK(next, PersonIds', tuples')
  BY <1>1, <1>2, <1>6, <1>9 DEF CallOK
<1>11. /\ call' \in [Requests -> CallRecords] /\ call'[r] = next
       /\ \A q \in Requests \ {r} : call'[q] = call[q]
  BY <1>1, <1>6 DEF IdentityInv
<1>12. \A q \in Requests : CallOK(call'[q], PersonIds', tuples')
  BY <1>1, <1>7, <1>10, <1>11, OtherCallsOK
<1>13. owner' \in [Accounts -> {NoAuth} \cup PersonIds']
  BY <1>1, <1>7 DEF IdentityInv
<1>14. tuples' \subseteq InstanceRoles \X PersonIds'
  BY <1>1, <1>7 DEF IdentityInv
<1>15. LastAdminLostOnlyToStaleCheck'
  BY <1>1 DEF IdentityInv, LastAdminLostOnlyToStaleCheck, Admins
<1> QED
  BY <1>1, <1>4, <1>11, <1>12, <1>13, <1>14, <1>15 DEF IdentityInv

\* The caller's permission is checked and the owner of the account looked up.
LEMMA AuthorizeStep ==
  ASSUME IdentityInv, NEW r \in Requests, NEW a \in Accounts, NEW role \in InstanceRoles,
         Authorize(r, a, role)
  PROVE  IdentityInv'
<1>1. UNCHANGED <<people, owner, tuples, seeded, staleWrite>> /\ hosts' \in {{}, {1}}
  BY DEF Authorize, IdentityInv
<1>2. CASE ~(Linked(a) /\ administrate(call[r].id))
  <2>1. call' = [call EXCEPT ![r] = NoCall]
    BY <1>2 DEF Authorize
  <2> QED
    BY <1>1, <2>1, CallBegins, CallSet
<1>3. CASE Linked(a) /\ administrate(call[r].id)
  <2> DEFINE next == [call[r] EXCEPT !.pc = "write", !.target = owner[a], !.role = role]
  <2>1. call' = [call EXCEPT ![r] = next]
    BY <1>3 DEF Authorize
  <2>2. call[r] \in CallRecords /\ owner[a] \in PersonIds
    BY <1>3 DEF IdentityInv, Linked
  <2>3. owner[a] \in Nat
    BY <2>2 DEF IdentityInv, PeopleOK, PersonIds
  <2>4. next \in CallRecords /\ next.pc = "write" /\ next.target = owner[a]
    BY <2>2, <2>3 DEF CallRecords
  <2> HIDE DEF next
  <2>5. CallOK(next, PersonIds, tuples)
    BY <2>2, <2>4 DEF CallOK
  <2> QED
    BY <1>1, <2>1, <2>4, <2>5, CallSet
<1> QED
  BY <1>2, <1>3

\* The roles that a listing has not come to, those on its next page, and how far
\* it has come with that page.
RestOf(c, ts) == {role \in RolesOf(c.id, ts) : Position(role) > c.page}
ReadOf(c, ts) ==
  {role \in RestOf(c, ts) : \A other \in RestOf(c, ts) : Position(role) <= Position(other)}
ComesTo(c, ts) ==
  IF ReadOf(c, ts) = {} THEN c.page ELSE Position(CHOOSE role \in ReadOf(c, ts) : TRUE)

\* A page: with the last one every role that is left has been read, and before it
\* none is passed over.
LEMMA PageReadsNext ==
  ASSUME NEW c \in CallRecords, NEW ts, ListingOK(c, ts)
  PROVE  /\ ReadOf(c, ts) \subseteq InstanceRoles /\ ReadOf(c, ts) \subseteq c.ever
         /\ ComesTo(c, ts) \in 0 .. 2
         /\ \A role \in c.always :
              Position(role) <= ComesTo(c, ts) => role \in c.listed \cup ReadOf(c, ts)
         /\ LastPage(RestOf(c, ts)) => c.always \subseteq c.listed \cup ReadOf(c, ts)
<1> DEFINE rest == RestOf(c, ts)
           read == ReadOf(c, ts)
           at == ComesTo(c, ts)
<1>0. /\ rest = {role \in RolesOf(c.id, ts) : Position(role) > c.page}
      /\ read = {role \in rest : \A other \in rest : Position(role) <= Position(other)}
      /\ at = IF read = {} THEN c.page ELSE Position(CHOOSE role \in read : TRUE)
  BY DEF RestOf, ReadOf, ComesTo
<1> HIDE DEF rest, read, at
<1>1. /\ c.page \in 0 .. 2 /\ c.always \subseteq InstanceRoles /\ c.always \subseteq RolesOf(c.id, ts)
      /\ RolesOf(c.id, ts) \subseteq c.ever
      /\ \A role \in c.always : Position(role) <= c.page => role \in c.listed
  BY DEF CallRecords, ListingOK
<1>2. \A role \in InstanceRoles : Position(role) \in {1, 2}
  BY DEF Position
<1>3. rest \subseteq InstanceRoles /\ rest \subseteq RolesOf(c.id, ts)
  BY <1>0 DEF RolesOf
<1>4. read \subseteq InstanceRoles /\ read \subseteq c.ever
  BY <1>0, <1>1, <1>3
<1>5. ASSUME read # {}
      PROVE  at \in {1, 2} /\ \A role \in rest : Position(role) <= at => role \in read
  <2>1. PICK role \in read : at = Position(role)
    BY <1>0, <1>5
  <2> QED
    BY <1>0, <1>2, <1>3, <2>1
<1>6. read = {} => rest = {}
  <2> SUFFICES ASSUME rest # {} PROVE read # {}
    OBVIOUS
  <2>1. CASE "admins" \in rest
    <3>1. "admins" \in read
      BY <1>0, <1>2, <1>3, <2>1 DEF Position
    <3> QED
      BY <3>1
  <2>2. CASE "admins" \notin rest
    <3>1. rest = {"moderators"}
      BY <1>3, <2>2 DEF InstanceRoles
    <3>2. "moderators" \in read
      BY <1>0, <3>1 DEF Position
    <3> QED
      BY <3>2
  <2> QED
    BY <2>1, <2>2
<1>7. at \in 0 .. 2
  BY <1>0, <1>1, <1>5
<1>8. ASSUME NEW role \in c.always, role \notin c.listed
      PROVE  role \in rest
  BY <1>0, <1>1, <1>2, <1>8
<1>9. \A role \in c.always : Position(role) <= at => role \in c.listed \cup read
  BY <1>0, <1>1, <1>5, <1>6, <1>8
<1>10. LastPage(rest) => read = rest
  <2> SUFFICES ASSUME LastPage(rest) PROVE read = rest
    OBVIOUS
  <2>1. IsFiniteSet(rest)
    <3>1. IsFiniteSet({"admins"})
      BY FS_Singleton
    <3>2. IsFiniteSet({"admins"} \cup {"moderators"})
      BY <3>1, FS_AddElement
    <3>3. rest \in SUBSET ({"admins"} \cup {"moderators"})
      BY <1>3 DEF InstanceRoles
    <3> QED
      BY <3>2, <3>3, FS_Subset
  <2>2. Cardinality(rest) \in Nat /\ Cardinality(rest) <= 1
    BY <2>1, FS_CardinalityType DEF LastPage
  <2>3. Cardinality(rest) = 0 \/ Cardinality(rest) = 1
    BY <2>2
  <2>4. rest = {} \/ \E x : rest = {x}
    BY <2>1, <2>3, FS_EmptySet, FS_Singleton
  <2> QED
    BY <1>0, <1>2, <1>3, <2>4
<1>11. LastPage(rest) => c.always \subseteq c.listed \cup read
  BY <1>8, <1>10
<1> QED
  BY <1>4, <1>7, <1>9, <1>11 DEF rest, read, at

\* One page of the roles is read.
LEMMA ListStep ==
  ASSUME IdentityInv, NEW r \in Requests, list_instance_roles(r)
  PROVE  IdentityInv'
<1> DEFINE rest == RestOf(call[r], tuples)
           read == ReadOf(call[r], tuples)
           at == ComesTo(call[r], tuples)
           pc == IF LastPage(rest) THEN "listed" ELSE "me"
           next == [call[r] EXCEPT !.listed = call[r].listed \cup read, !.page = at, !.pc = pc]
<1>1. /\ call[r] \in CallRecords /\ call[r].pc = "me" /\ ListingOK(call[r], tuples)
  BY DEF IdentityInv, CallOK, list_instance_roles
<1>2. call' = [call EXCEPT ![r] = next]
  BY DEF list_instance_roles, RestOf, ReadOf, ComesTo
<1>3. /\ read \subseteq InstanceRoles /\ read \subseteq call[r].ever /\ at \in 0 .. 2
      /\ \A role \in call[r].always : Position(role) <= at => role \in call[r].listed \cup read
      /\ LastPage(rest) => call[r].always \subseteq call[r].listed \cup read
  BY <1>1, PageReadsNext
<1> HIDE DEF rest, read, at
<1>4. pc \in {"listed", "me"} /\ (pc = "listed" => LastPage(rest))
  OBVIOUS
<1> HIDE DEF pc
<1>5. call[r].listed \cup read \in SUBSET InstanceRoles
  BY <1>1, <1>3 DEF CallRecords
<1>6. next \in CallRecords
  BY <1>1, <1>3, <1>4, <1>5 DEF CallRecords
<1>7. /\ next.pc = pc /\ next.listed = call[r].listed \cup read /\ next.page = at
      /\ next.id = call[r].id /\ next.always = call[r].always /\ next.ever = call[r].ever
  BY <1>1 DEF CallRecords
<1> HIDE DEF next
<1>8. next.listed \subseteq next.ever
  BY <1>1, <1>3, <1>7 DEF ListingOK
<1>9. ListingOK(next, tuples)
  BY <1>1, <1>3, <1>7, <1>8 DEF ListingOK
<1>10. CallOK(next, PersonIds, tuples)
  BY <1>3, <1>4, <1>7, <1>8, <1>9 DEF CallOK
<1>11. UNCHANGED <<people, owner, tuples, seeded, staleWrite>> /\ hosts' \in {{}, {1}}
  BY DEF list_instance_roles, IdentityInv
<1> QED
  BY <1>2, <1>6, <1>10, <1>11, CallSet

\* Listings under way take note of the tuples that come and go.
LEMMA ObservedOK ==
  ASSUME IdentityInv, NEW r \in Requests, NEW ts,
         call' = Observed([call EXCEPT ![r] = NoCall], ts)
  PROVE  call' \in [Requests -> CallRecords] /\ \A q \in Requests : CallOK(call'[q], PersonIds, ts)
<1> DEFINE calls == [call EXCEPT ![r] = NoCall]
<1>1. calls \in [Requests -> CallRecords] /\ \A q \in Requests : CallOK(calls[q], PersonIds, tuples)
  BY CallBegins DEF IdentityInv
<1>2. call' = [q \in Requests |->
                 IF calls[q].pc = "me"
                 THEN [calls[q] EXCEPT !.always = @ \cap RolesOf(calls[q].id, ts),
                                       !.ever = @ \cup RolesOf(calls[q].id, ts)]
                 ELSE calls[q]]
  BY DEF Observed
<1> HIDE DEF calls
<1>3. ASSUME NEW q \in Requests PROVE call'[q] \in CallRecords /\ CallOK(call'[q], PersonIds, ts)
  <2>1. calls[q] \in CallRecords /\ CallOK(calls[q], PersonIds, tuples)
    BY <1>1
  <2>2. CASE calls[q].pc # "me"
    BY <1>2, <2>1, <2>2 DEF CallOK
  <2>3. CASE calls[q].pc = "me"
    <3> DEFINE roles == RolesOf(calls[q].id, ts)
    <3>1. roles \subseteq InstanceRoles
      BY DEF RolesOf
    <3> HIDE DEF roles
    <3>2. call'[q] = [calls[q] EXCEPT !.always = calls[q].always \cap roles,
                                      !.ever = calls[q].ever \cup roles]
      BY <1>2, <2>3 DEF roles
    <3>3. /\ calls[q].always \cap roles \in SUBSET InstanceRoles
          /\ calls[q].ever \cup roles \in SUBSET InstanceRoles
      BY <2>1, <3>1 DEF CallRecords
    <3>4. call'[q] \in CallRecords
      BY <2>1, <3>2, <3>3 DEF CallRecords
    <3>5. /\ call'[q].pc = "me" /\ call'[q].id = calls[q].id
          /\ call'[q].always = calls[q].always \cap roles
          /\ call'[q].ever = calls[q].ever \cup roles
          /\ call'[q].listed = calls[q].listed /\ call'[q].page = calls[q].page
      BY <2>1, <2>3, <3>2 DEF CallRecords
    <3>6. ListingOK(calls[q], tuples)
      BY <2>1, <2>3 DEF CallOK
    <3>7. ListingOK(call'[q], ts)
      BY <3>5, <3>6 DEF ListingOK, roles
    <3> QED
      BY <3>4, <3>5, <3>7 DEF CallOK
  <2> QED
    BY <2>2, <2>3
<1>4. call' \in [Requests -> CallRecords]
  BY <1>2, <1>3
<1> QED
  BY <1>3, <1>4

\* A role is given to a person that is there.
LEMMA AssignStep ==
  ASSUME IdentityInv, NEW r \in Requests, assign_instance_role(r)
  PROVE  IdentityInv'
<1>1. /\ call[r].pc = "write" /\ tuples' = tuples \cup {<<call[r].role, call[r].target>>}
      /\ call' = Observed([call EXCEPT ![r] = NoCall], tuples')
      /\ UNCHANGED <<hosts, people, owner, seeded, staleWrite>>
  BY DEF assign_instance_role
<1>2. call[r].role \in InstanceRoles /\ call[r].target \in PersonIds
  BY <1>1 DEF IdentityInv, CallOK, CallRecords
<1>3. PersonIds' = PersonIds
  BY <1>1 DEF PersonIds
<1>4. call' \in [Requests -> CallRecords] /\ \A q \in Requests : CallOK(call'[q], PersonIds', tuples')
  BY <1>1, <1>3, ObservedOK
<1>5. tuples' \subseteq InstanceRoles \X PersonIds'
  BY <1>1, <1>2, <1>3 DEF IdentityInv
<1>6. LastAdminLostOnlyToStaleCheck'
  BY <1>1 DEF IdentityInv, LastAdminLostOnlyToStaleCheck, Admins
<1> QED
  BY <1>1, <1>3, <1>4, <1>5, <1>6 DEF IdentityInv

\* Who takes the admin role from another and is still admin is an admin left.
LEMMA RevokeStep ==
  ASSUME IdentityInv, NEW r \in Requests, revoke_instance_role(r)
  PROVE  IdentityInv'
<1>1. /\ tuples' = IF OwnAdmin(r) THEN tuples ELSE tuples \ {<<call[r].role, call[r].target>>}
      /\ call' = Observed([call EXCEPT ![r] = NoCall], tuples')
      /\ UNCHANGED <<hosts, people, owner, seeded>>
  BY DEF revoke_instance_role
<1>2. PersonIds' = PersonIds
  BY <1>1 DEF PersonIds
<1>3. call' \in [Requests -> CallRecords] /\ \A q \in Requests : CallOK(call'[q], PersonIds', tuples')
  BY <1>1, <1>2, ObservedOK
<1>4. tuples' \subseteq InstanceRoles \X PersonIds'
  BY <1>1, <1>2 DEF IdentityInv
<1>5. staleWrite' \in BOOLEAN /\ (staleWrite => staleWrite')
  BY DEF revoke_instance_role, IdentityInv
<1>6. LastAdminLostOnlyToStaleCheck'
  <2> SUFFICES ASSUME seeded, ~staleWrite' PROVE Admins' # {}
    BY <1>1 DEF LastAdminLostOnlyToStaleCheck
  <2>1. PICK id : id \in Admins
    BY <1>5 DEF IdentityInv, LastAdminLostOnlyToStaleCheck
  <2>2. CASE tuples' = tuples \/ call[r].role # "admins"
    BY <1>1, <2>1, <2>2 DEF Admins
  <2>3. CASE tuples' # tuples /\ call[r].role = "admins"
    <3>1. administrate(call[r].id) /\ call[r].target # call[r].id
      BY <1>1, <2>3 DEF revoke_instance_role, OwnAdmin
    <3>2. <<"admins", call[r].id>> \in tuples' /\ call[r].id \in PersonIds
      BY <1>1, <3>1 DEF administrate, IdentityInv
    <3>3. call[r].id \in Admins'
      BY <1>1, <3>2 DEF Admins, PersonIds
    <3> QED
      BY <3>3
  <2> QED
    BY <2>2, <2>3
<1> QED
  BY <1>1, <1>2, <1>3, <1>4, <1>5, <1>6 DEF IdentityInv

\* An account is linked to a person that is there.
LEMMA LinkStep ==
  ASSUME IdentityInv, NEW a \in Accounts, NEW id, link_auth_account(a, id)
  PROVE  IdentityInv'
<1>1. /\ id \in PersonIds /\ owner' = [owner EXCEPT ![a] = id]
      /\ UNCHANGED <<hosts, people, tuples, call, seeded, staleWrite>>
  BY DEF link_auth_account, PersonIds
<1>2. PersonIds' = PersonIds /\ Admins' = Admins
  BY <1>1 DEF PersonIds, Admins
<1>3. owner' \in [Accounts -> {NoAuth} \cup PersonIds']
  BY <1>1, <1>2 DEF IdentityInv
<1> QED
  BY <1>1, <1>2, <1>3 DEF IdentityInv, LastAdminLostOnlyToStaleCheck

\* Every step keeps the invariant.
LEMMA IdentityInvStep == IdentityInv /\ [IdentityNext]_identityVars => IdentityInv'
<1> SUFFICES ASSUME IdentityInv, [IdentityNext]_identityVars PROVE IdentityInv'
  OBVIOUS
<1>1. CASE UNCHANGED identityVars
  <2>1. PersonIds' = PersonIds /\ Admins' = Admins
    BY <1>1 DEF identityVars, PersonIds, Admins
  <2> QED
    BY <1>1, <2>1 DEF identityVars, IdentityInv, LastAdminLostOnlyToStaleCheck
<1>2. ASSUME NEW r \in Requests, NEW s \in Subjects, get_me(r, s) \/ assign_route(r, s) \/ revoke_route(r, s)
      PROVE  IdentityInv'
  <2>1. PICK op \in {"me", "assign", "revoke"} : Begin(r, op, s)
    BY <1>2 DEF get_me, assign_route, revoke_route
  <2>2. /\ call' = [call EXCEPT ![r] = Call("host", op, s)]
        /\ UNCHANGED <<people, owner, tuples, seeded, staleWrite>> /\ hosts' \in {{}, {1}}
    BY <2>1 DEF Begin, IdentityInv
  <2> QED
    BY <2>2, CallBegins, CallSet
<1>3. ASSUME NEW r \in Requests, GiveUp(r) PROVE IdentityInv'
  BY <1>3, CallBegins, CallSet DEF GiveUp, IdentityInv
<1>4. CASE \E a \in Accounts, p \in people : link_auth_account(a, p.id)
  BY <1>4, LinkStep
<1> QED
  BY <1>1, <1>2, <1>3, <1>4, FindHostStep, CreateHostStep, FindOrCreateStep, ListStep,
     AuthorizeStep, AssignStep, RevokeStep DEF IdentityNext

\* However requests interleave: a person is one auth account, references are
\* sound, the last administrator goes only in a race of two revocations, and a
\* list of roles is true of the time it took.
THEOREM IdentityCorrect == IdentitySpec => []IdentitySafety
BY IdentityInvInit, IdentityInvStep, IdentityInvSuffices, PTL DEF IdentitySpec
=============================================================================
