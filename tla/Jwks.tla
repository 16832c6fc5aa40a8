-------------------------------- MODULE Jwks --------------------------------
(***************************************************************************)
(* The bearer-token check in front of every /api/v1 and /internal/v1 route:*)
(* the JWKS cache that request tasks share and the middleware that reads   *)
(* it.                                                                     *)
(*                                                                         *)
(* A token is the id of the key that signed it and whether the rest of it  *)
(* verifies (signature, issuer, audience, expiry).  The provider publishes *)
(* new keys and withdraws old ones at any time, and any request to it may  *)
(* fail.  An empty set of keys stands also for a cache never filled.       *)
(***************************************************************************)
EXTENDS Integers, Sequences

CONSTANTS
  Tasks,        \* request tasks of the server
  Kids,         \* key ids of the identity provider
  ForeignKids,  \* those of its keys that are not RS256 keys
  Interval,     \* min_refetch_interval
  MaxNow        \* bound of the model: the latest time

NoKid == "no kid"
NoTask == "none"

ASSUME JwksAssumption ==
  /\ ForeignKids \subseteq Kids
  /\ Interval \in Nat
  /\ MaxNow \in Nat
  /\ NoTask \notin Tasks

NoToken == [kid |-> NoKid, valid |-> FALSE]

VARIABLES
  published,  \* keys the provider serves
  withdrawn,  \* keys it used to serve
  cache,      \* JwksCacheInner
  mutex,      \* the task that holds refresh_mutex
  auth,       \* auth[t]: the request task t is authenticating
  clock,      \* the time
  accepted,   \* history: the tokens that were accepted
  fetches,    \* history: when cache refreshes completed, in order
  seen        \* history: keys some refresh brought

jwksVars == <<published, withdrawn, cache, mutex, auth, clock, accepted, fetches, seen>>

Auth(pc, token) == [pc |-> pc, token |-> token, answer |-> {}]

NoRequest == Auth("idle", NoToken)

Tokens == [kid : Kids \cup {NoKid}, valid : BOOLEAN]

-----------------------------------------------------------------------------
(* The cache.                                                              *)

\* Faulty variant: any key with the right id will do.
AnyKeyFaulty(c, kid) == kid \in c.keys

\* The key is in the set and is not announced for another algorithm.
key_from_cache(c, kid) == kid \in c.keys \ ForeignKids

\* Faulty variant: a refresh that fails empties the cache.
ForgetfulFaulty(c, ok, answer, time) ==
  [c EXCEPT !.keys = IF ok THEN answer ELSE {}, !.last_fetch = time]

\* A good answer replaces the whole set; a bad one only counts as an attempt.
fetch_jwks_inner(c, ok, answer, time) ==
  [c EXCEPT !.keys = IF ok THEN answer ELSE @, !.last_fetch = time]

\* Discovery that fails leaves the cache alone: the next miss may try again.
try_init(c, discovered, ok, answer, time) ==
  IF discovered THEN [fetch_jwks_inner(c, ok, answer, time) EXCEPT !.jwks_uri = TRUE] ELSE c

\* JwksCache::new: the first refresh is allowed at once.
NewCache == [keys |-> {}, jwks_uri |-> FALSE, last_fetch |-> -(Interval + 1)]

\* main() tries to fill the cache before it serves requests.
JwksInit ==
  /\ published \in SUBSET Kids
  /\ withdrawn = {}
  /\ clock = 0
  /\ \E discovered, ok \in BOOLEAN :
       /\ cache = try_init(NewCache, discovered, ok, published, 0)
       /\ fetches = IF discovered THEN <<0>> ELSE << >>
       /\ seen = IF discovered /\ ok THEN published ELSE {}
  /\ mutex = NoTask
  /\ auth = [t \in Tasks |-> NoRequest]
  /\ accepted = {}

-----------------------------------------------------------------------------
(* A request.                                                              *)

\* The request ends: accepted if the key was found and the rest verifies.
Answer(t, token, found) ==
  /\ auth' = [auth EXCEPT ![t] = NoRequest]
  /\ accepted' = IF found /\ token.valid THEN accepted \cup {token} ELSE accepted

\* Faulty variant: a token without a kid is looked up like any other.
LooksUpAnyFaulty(token) == FALSE

\* The header of the token has no kid: it is refused.
KidMissing(token) == token.kid = NoKid

\* A missing or malformed token is refused as one without a kid.  A known kid needs
\* no lock.
auth_middleware(t, token) ==
  /\ auth[t].pc = "idle"
  /\ IF KidMissing(token) \/ key_from_cache(cache, token.kid)
     THEN Answer(t, token, ~KidMissing(token))
     ELSE /\ auth' = [auth EXCEPT ![t] = Auth("lock", token)]
          /\ UNCHANGED accepted
  /\ UNCHANGED <<published, withdrawn, cache, mutex, clock, fetches, seen>>

\* Faulty variant: the refresh is not serialised.
NoMutexFaulty(t) == TRUE

MutexFree(t) == mutex = NoTask

\* Faulty variant: the guard outlives the look-up.
LeakedGuardFaulty(t) == t

\* The guard is dropped however the look-up ends.
AfterGuard(t) == NoTask

\* The lock is taken and the cache looked up again: another task may have
\* refreshed it.  Only a miss that is old enough goes on to a refresh.
LockAndRecheck(t) ==
  /\ auth[t].pc = "lock"
  /\ MutexFree(t)
  /\ LET found == key_from_cache(cache, auth[t].token.kid)
         mayFetch == clock - cache.last_fetch >= Interval
     IN IF ~found /\ mayFetch
        THEN /\ auth' = [auth EXCEPT ![t].pc = "send"]
             /\ mutex' = t
             /\ UNCHANGED accepted
        ELSE /\ Answer(t, auth[t].token, found)
             /\ UNCHANGED mutex
  /\ UNCHANGED <<published, withdrawn, cache, clock, fetches, seen>>

\* The provider answers a request for its keys with those of this moment.
SendFetch(t) ==
  /\ auth[t].pc = "send"
  /\ auth' = [auth EXCEPT ![t].pc = "receive", ![t].answer = published]
  /\ UNCHANGED <<published, withdrawn, cache, mutex, clock, accepted, fetches, seen>>

\* Discovery, needed while no jwks_uri is known, fails.
DiscoveryFails(t) ==
  /\ auth[t].pc = "send"
  /\ ~cache.jwks_uri
  /\ Answer(t, auth[t].token, key_from_cache(cache, auth[t].token.kid))
  /\ mutex' = AfterGuard(t)
  /\ UNCHANGED <<published, withdrawn, cache, clock, fetches, seen>>

\* The answer, or its absence, is applied and the key looked up a last time.
ReceiveFetch(t, ok) ==
  /\ auth[t].pc = "receive"
  /\ cache' = try_init(cache, TRUE, ok, auth[t].answer, clock)
  /\ fetches' = Append(fetches, clock)
  /\ seen' = IF ok THEN seen \cup auth[t].answer ELSE seen
  /\ Answer(t, auth[t].token, key_from_cache(cache', auth[t].token.kid))
  /\ mutex' = AfterGuard(t)
  /\ UNCHANGED <<published, withdrawn, clock>>

\* The client goes away: the task is dropped where it waits, with its guard.
Disconnect(t) ==
  /\ auth[t].pc # "idle"
  /\ auth' = [auth EXCEPT ![t] = NoRequest]
  /\ mutex' = IF mutex = t THEN AfterGuard(t) ELSE mutex
  /\ UNCHANGED <<published, withdrawn, cache, clock, accepted, fetches, seen>>

-----------------------------------------------------------------------------
(* The provider and time.                                                  *)

Publish(kid) ==
  /\ kid \notin published \cup withdrawn
  /\ published' = published \cup {kid}
  /\ UNCHANGED <<withdrawn, cache, mutex, auth, clock, accepted, fetches, seen>>

Withdraw(kid) ==
  /\ kid \in published
  /\ published' = published \ {kid}
  /\ withdrawn' = withdrawn \cup {kid}
  /\ UNCHANGED <<cache, mutex, auth, clock, accepted, fetches, seen>>

JwksTick ==
  /\ clock < MaxNow
  /\ clock' = clock + 1
  /\ UNCHANGED <<published, withdrawn, cache, mutex, auth, accepted, fetches, seen>>

TaskStep(t) ==
  \/ LockAndRecheck(t)
  \/ SendFetch(t)
  \/ DiscoveryFails(t)
  \/ \E ok \in BOOLEAN : ReceiveFetch(t, ok)

JwksNext ==
  \/ \E t \in Tasks, token \in Tokens : auth_middleware(t, token)
  \/ \E t \in Tasks : TaskStep(t)
  \/ \E t \in Tasks : Disconnect(t)
  \/ \E kid \in Kids : Publish(kid)
  \/ \E kid \in Kids : Withdraw(kid)
  \/ JwksTick

\* The lock is handed out in the order of arrival.  Nothing makes the provider
\* answer: the HTTP client is built without a timeout.
JwksFairness == \A t \in Tasks : SF_jwksVars(LockAndRecheck(t))

JwksSpec == JwksInit /\ [][JwksNext]_jwksVars /\ JwksFairness

-----------------------------------------------------------------------------
(* Properties.                                                             *)

\* The type invariant: only a token with a kid makes a request wait for a
\* refresh, and the refresh mutex is held by a task of the server or by none.
JwksTypeOK ==
  /\ published \subseteq Kids
  /\ withdrawn \subseteq Kids
  /\ cache \in [keys : SUBSET Kids, jwks_uri : BOOLEAN, last_fetch : Int]
  /\ mutex \in Tasks \cup {NoTask}
  /\ auth \in [Tasks ->
       {NoRequest} \cup [pc : {"lock", "send", "receive"}, token : [kid : Kids, valid : BOOLEAN],
                         answer : SUBSET Kids]]
  /\ clock \in 0..MaxNow
  /\ accepted \subseteq Tokens
  /\ fetches \in Seq(0..MaxNow)
  /\ seen \subseteq Kids

\* min_refetch_interval holds between any two refreshes, however many tasks
\* miss the cache at once (get_key checks the age under refresh_mutex).
RefetchesApart ==
  \A i, j \in DOMAIN fetches : i < j => fetches[j] - fetches[i] >= Interval

\* A key the server has fetched stays usable until the provider withdraws it:
\* neither a failing refresh nor the answer of an older one takes it away.
FetchedKeysStay == seen \ withdrawn \subseteq cache.keys

\* A token is accepted only under an RS256 key the provider published.
AcceptedUnderPublishedKey ==
  \A token \in accepted :
    token.valid /\ token.kid \in (published \cup withdrawn) \ ForeignKids

Fetching(t) == auth[t].pc \in {"send", "receive"}

\* A request that misses the cache waits for ever only when a fetch hangs, its
\* own or that of the task that holds refresh_mutex: as long as every fetch
\* ends, however it does, every request is answered.
RequestsAnswered ==
  []<>(\A t \in Tasks : ~Fetching(t)) => \A t \in Tasks : []<>(auth[t].pc = "idle")

\* What holds of the cache and of the tokens that pass it in every state:
\* refreshes keep their distance, fetched keys stay, and only keys that the
\* provider published are believed.
JwksSafety ==
  JwksTypeOK /\ RefetchesApart /\ FetchedKeysStay /\ AcceptedUnderPublishedKey
=============================================================================
