-------------------------- MODULE FederationProofs --------------------------
(***************************************************************************)
(* Proofs about HttpSignatures and RemoteActors, for any remote actors,    *)
(* keys and names, any number of concurrent requests and any bound on      *)
(* redirects.                                                              *)
(***************************************************************************)
EXTENDS HttpSignatures, RemoteActors, FiniteSetTheorems, TLAPS

-----------------------------------------------------------------------------
(* HTTP signatures: the invariant.                                         *)

FetchRecords ==
  [pc : {"key", "owner"}, sent : Signed, got : Arrived, key : Keys,
   step : {"validate", "send"}, redirects : 0 .. MaxRedirects, pinned : Addresses]

HandledRecords == [pc : {"handled"}, sent : Signed, got : Arrived, key : Keys]

\* What post_inbox checked is true of the request as long as it is served.
RequestWasChecked ==
  inbound.pc # "idle" =>
    /\ validate_required_signed_headers(inbound.sent)
    /\ validate_date_header(inbound.got)
    /\ validate_digest_header(inbound.got)
    /\ ensure_host_matches_public_base_url(inbound.got)

\* After the first fetch the signature has been verified under the key it brought.
SignatureWasVerified ==
  inbound.pc \in {"owner", "handled"} =>
    verify_cavage_signature(inbound.sent, inbound.got, inbound.key)

\* After the second one the document is known to be the actor's own.
OwnerWasMatched ==
  inbound.pc = "handled" => signature_key_document_matches_actor(inbound.got)

\* A connection goes to an address that was found to be public.
SendsPinned == InFetch("send") => inbound.pinned = "public"

SignatureInv ==
  /\ HttpSignaturesTypeOK
  /\ ContactsPublicOnly
  /\ RequestWasChecked
  /\ SignatureWasVerified
  /\ OwnerWasMatched
  /\ SendsPinned

\* What was verified is what is promised of an activity that is handled: the
\* digest ties the actor that is read to the one that was signed.
LEMMA SignatureInvSuffices == SignatureInv => SignatureSafety
<1> SUFFICES ASSUME SignatureInv, inbound.pc = "handled"
             PROVE  HandledAsSigned /\ HandledUnderActorsKey
  BY DEF SignatureInv, SignatureSafety, HandledAsSigned, HandledUnderActorsKey
<1>1. /\ CoveredUnchanged(inbound.sent, inbound.got) /\ inbound.key = inbound.sent.key
      /\ Headers \subseteq SignedHeaders(inbound.sent)
  BY DEF SignatureInv, SignatureWasVerified, verify_cavage_signature, RequestWasChecked,
         validate_required_signed_headers
<1>2. /\ inbound.got.inbox = inbound.sent.inbox
      /\ inbound.got.age = inbound.sent.age
      /\ inbound.got.digest = inbound.sent.actor
  BY <1>1 DEF CoveredUnchanged, Headers
<1>3. /\ inbound.got.digest = inbound.got.actor
      /\ inbound.got.inbox = "this"
      /\ -Tolerance <= inbound.got.age /\ inbound.got.age <= Tolerance
  BY DEF SignatureInv, RequestWasChecked, validate_digest_header, validate_date_header,
         ensure_host_matches_public_base_url
<1>4. same_activitypub_id(inbound.got.keyId, inbound.got.actor)
  BY DEF SignatureInv, OwnerWasMatched, signature_key_document_matches_actor
<1> QED
  BY <1>1, <1>2, <1>3, <1>4 DEF HandledAsSigned, HandledUnderActorsKey

\* A fetch begins at its first step.
LEMMA FetchBegins ==
  ASSUME NEW pc \in {"key", "owner"}, NEW sent \in Signed, NEW got \in Arrived, NEW key \in Keys
  PROVE  /\ Fetching(pc, sent, got, key) \in FetchRecords
         /\ Fetching(pc, sent, got, key).pc = pc
         /\ Fetching(pc, sent, got, key).sent = sent
         /\ Fetching(pc, sent, got, key).got = got
         /\ Fetching(pc, sent, got, key).key = key
         /\ Fetching(pc, sent, got, key).step = "validate"
BY RedirectsAssumption DEF Fetching, FetchRecords, Addresses

\* What a request in a fetch is.
LEMMA InFetchRecord ==
  ASSUME HttpSignaturesTypeOK, inbound.pc \in {"key", "owner"}
  PROVE  inbound \in FetchRecords
BY DEF HttpSignaturesTypeOK, FetchRecords, NoRequest

\* A request that ends leaves nothing to show.
LEMMA EndedStep ==
  ASSUME SignatureInv, Ended, contacted' \subseteq {"public"}
  PROVE  SignatureInv'
<1>1. inbound' = NoRequest /\ inbound'.pc = "idle"
  BY DEF Ended, NoRequest
<1> QED
  BY <1>1 DEF SignatureInv, HttpSignaturesTypeOK, ContactsPublicOnly, RequestWasChecked,
              SignatureWasVerified, OwnerWasMatched, SendsPinned, InFetch, Addresses

\* While a request is sent only public addresses are connected to.
LEMMA ConnectedStep ==
  ASSUME SignatureInv, InFetch("send"), NEW address, Connected(address)
  PROVE  contacted' \subseteq {"public"} /\ contacted' \subseteq Addresses
BY DEF SignatureInv, SendsPinned, Connected, client_for_url, ContactsPublicOnly, Addresses

\* A step of a fetch that keeps what was signed, what arrived and the key.
LEMMA FetchGoesOn ==
  ASSUME SignatureInv, inbound.pc \in {"key", "owner"}, inbound' \in FetchRecords,
         inbound'.sent = inbound.sent, inbound'.got = inbound.got,
         inbound'.pc = inbound.pc, inbound'.key = inbound.key,
         inbound'.step = "send" => inbound'.pinned = "public",
         contacted' \subseteq {"public"}
  PROVE  SignatureInv'
<1>1. HttpSignaturesTypeOK' /\ ContactsPublicOnly'
  BY DEF HttpSignaturesTypeOK, ContactsPublicOnly, FetchRecords, Addresses
<1>2. RequestWasChecked'
  BY DEF RequestWasChecked, SignatureInv, validate_required_signed_headers, SignedHeaders,
         validate_date_header, validate_digest_header, ensure_host_matches_public_base_url
<1>3. SignatureWasVerified'
  BY DEF SignatureWasVerified, SignatureInv, verify_cavage_signature, CoveredUnchanged,
         SignedHeaders
<1>4. OwnerWasMatched' /\ SendsPinned'
  BY DEF OwnerWasMatched, SendsPinned, InFetch
<1> QED
  BY <1>1, <1>2, <1>3, <1>4 DEF SignatureInv
-----------------------------------------------------------------------------
(* HTTP signatures: the steps.                                             *)

\* Nothing has arrived yet.
LEMMA SignatureInvInit == HttpSignaturesInit => SignatureInv
<1> SUFFICES ASSUME HttpSignaturesInit PROVE SignatureInv
  OBVIOUS
<1>1. inbound = NoRequest /\ inbound.pc = "idle" /\ contacted = {}
  BY DEF HttpSignaturesInit, NoRequest
<1> QED
  BY <1>1 DEF SignatureInv, HttpSignaturesTypeOK, ContactsPublicOnly, RequestWasChecked,
              SignatureWasVerified, OwnerWasMatched, SendsPinned, InFetch

\* The checks before the first fetch.
LEMMA PostStep ==
  ASSUME SignatureInv, post_inbox
  PROVE  SignatureInv'
<1>1. PICK got \in Arrived, sent \in Signed :
        /\ ensure_host_matches_public_base_url(got)
        /\ validate_required_signed_headers(sent)
        /\ validate_date_header(got)
        /\ validate_digest_header(got)
        /\ inbound' = Fetching("key", sent, got, sent.key)
  BY DEF post_inbox
<1>2. sent.key \in Keys
  BY DEF Signed
<1>3. /\ inbound' \in FetchRecords
      /\ inbound'.pc = "key" /\ inbound'.sent = sent /\ inbound'.got = got
      /\ inbound'.step = "validate"
  BY <1>1, <1>2, FetchBegins
<1>4. HttpSignaturesTypeOK' /\ ContactsPublicOnly'
  BY <1>3 DEF post_inbox, SignatureInv, HttpSignaturesTypeOK, ContactsPublicOnly, FetchRecords
<1>5. RequestWasChecked'
  BY <1>1, <1>3 DEF RequestWasChecked, validate_required_signed_headers, SignedHeaders,
         validate_date_header, validate_digest_header, ensure_host_matches_public_base_url
<1>6. SignatureWasVerified' /\ OwnerWasMatched' /\ SendsPinned'
  BY <1>3 DEF SignatureWasVerified, OwnerWasMatched, SendsPinned, InFetch
<1> QED
  BY <1>4, <1>5, <1>6 DEF SignatureInv

\* Each hop is validated and pinned.
LEMMA ValidateStep ==
  ASSUME SignatureInv, NEW address \in Addresses, validate_fetch_url(address)
  PROVE  SignatureInv'
<1>1. contacted' \subseteq {"public"}
  BY DEF validate_fetch_url, SignatureInv, ContactsPublicOnly
<1>2. inbound \in FetchRecords
  BY InFetchRecord DEF validate_fetch_url, InFetch, SignatureInv
<1>3. CASE address = "public"
  <2>1. inbound' = [inbound EXCEPT !.step = "send", !.pinned = address]
    BY <1>3 DEF validate_fetch_url
  <2>2. /\ inbound' \in FetchRecords
        /\ inbound'.sent = inbound.sent /\ inbound'.got = inbound.got
        /\ inbound'.pc = inbound.pc /\ inbound'.key = inbound.key
        /\ inbound'.pinned = "public"
    BY <1>2, <1>3, <2>1 DEF FetchRecords
  <2> QED
    BY <1>1, <1>2, <2>2, FetchGoesOn DEF FetchRecords
<1>4. CASE address # "public"
  BY <1>1, <1>4, EndedStep DEF validate_fetch_url
<1> QED
  BY <1>3, <1>4

\* A redirect goes back to the validation, or is one too many.
LEMMA RedirectStep ==
  ASSUME SignatureInv, NEW address \in Addresses, Redirected(address)
  PROVE  SignatureInv'
<1>1. contacted' \subseteq {"public"}
  BY ConnectedStep DEF Redirected
<1>2. inbound \in FetchRecords
  BY InFetchRecord DEF Redirected, InFetch, SignatureInv
<1>3. CASE TooManyRedirects(AfterRedirect)
  BY <1>1, <1>3, EndedStep DEF Redirected
<1>4. CASE ~TooManyRedirects(AfterRedirect)
  <2>1. inbound' = [inbound EXCEPT !.step = "validate", !.redirects = AfterRedirect]
    BY <1>4 DEF Redirected
  <2>2. AfterRedirect \in 0 .. MaxRedirects
    BY <1>2, <1>4, RedirectsAssumption DEF AfterRedirect, TooManyRedirects, FetchRecords
  <2>3. /\ inbound' \in FetchRecords
        /\ inbound'.sent = inbound.sent /\ inbound'.got = inbound.got
        /\ inbound'.pc = inbound.pc /\ inbound'.key = inbound.key
        /\ inbound'.step = "validate"
    BY <1>2, <2>1, <2>2 DEF FetchRecords
  <2> QED
    BY <1>1, <1>2, <2>3, FetchGoesOn DEF FetchRecords
<1> QED
  BY <1>3, <1>4

\* The key is there: the signature is verified before the owner is asked for.
LEMMA KeyStep ==
  ASSUME SignatureInv, NEW address \in Addresses, NEW document \in KeyDocuments,
         KeyFetched(address, document)
  PROVE  SignatureInv'
<1> DEFINE verified == /\ key_value_matches_key_id(inbound.got.keyId, document)
                       /\ verify_cavage_signature(inbound.sent, inbound.got, document.key)
<1>1. contacted' \subseteq {"public"} /\ contacted' \subseteq Addresses
  BY ConnectedStep DEF KeyFetched
<1>2. inbound \in FetchRecords
  BY InFetchRecord DEF KeyFetched, InFetch, SignatureInv
<1>3. CASE ~verified
  BY <1>1, <1>3, EndedStep DEF KeyFetched
<1>4. CASE verified
  <2>1. /\ inbound' = Fetching("owner", inbound.sent, inbound.got, document.key)
        /\ document.key \in Keys
    BY <1>4 DEF KeyFetched, KeyDocuments
  <2>2. /\ inbound' \in FetchRecords
        /\ inbound'.pc = "owner" /\ inbound'.sent = inbound.sent /\ inbound'.got = inbound.got
        /\ inbound'.key = document.key /\ inbound'.step = "validate"
    BY <1>2, <2>1, FetchBegins DEF FetchRecords
  <2>3. HttpSignaturesTypeOK' /\ ContactsPublicOnly'
    BY <1>1, <2>2 DEF HttpSignaturesTypeOK, ContactsPublicOnly, FetchRecords
  <2>4. RequestWasChecked'
    BY <2>2 DEF KeyFetched, SignatureInv, RequestWasChecked, validate_required_signed_headers,
           SignedHeaders, validate_date_header, validate_digest_header,
           ensure_host_matches_public_base_url
  <2>5. SignatureWasVerified'
    BY <1>4, <2>2 DEF SignatureWasVerified, verify_cavage_signature, CoveredUnchanged,
           SignedHeaders
  <2>6. OwnerWasMatched' /\ SendsPinned'
    BY <2>2 DEF OwnerWasMatched, SendsPinned, InFetch
  <2> QED
    BY <2>3, <2>4, <2>5, <2>6 DEF SignatureInv
<1> QED
  BY <1>3, <1>4

\* The owner is there: the activity is handled if the document is the actor's.
LEMMA OwnerStep ==
  ASSUME SignatureInv, NEW address \in Addresses, NEW document \in KeyDocuments,
         OwnerFetched(address, document)
  PROVE  SignatureInv'
<1> DEFINE matches == /\ key_value_matches_key_id(inbound.got.keyId, document)
                      /\ same_activitypub_id(document.owner, inbound.got.actor)
                      /\ signature_key_document_matches_actor(inbound.got)
<1>1. contacted' \subseteq {"public"} /\ contacted' \subseteq Addresses
  BY ConnectedStep DEF OwnerFetched
<1>2. inbound \in FetchRecords
  BY InFetchRecord DEF OwnerFetched, InFetch, SignatureInv
<1>3. CASE ~matches
  BY <1>1, <1>3, EndedStep DEF OwnerFetched
<1>4. CASE matches
  <2>1. inbound' = [pc |-> "handled", sent |-> inbound.sent, got |-> inbound.got,
                    key |-> inbound.key]
    BY <1>4 DEF OwnerFetched
  <2>2. /\ inbound' \in HandledRecords
        /\ inbound'.pc = "handled" /\ inbound'.sent = inbound.sent
        /\ inbound'.got = inbound.got /\ inbound'.key = inbound.key
    BY <1>2, <2>1 DEF FetchRecords, HandledRecords
  <2>3. HttpSignaturesTypeOK' /\ ContactsPublicOnly'
    BY <1>1, <2>2 DEF HttpSignaturesTypeOK, ContactsPublicOnly, HandledRecords
  <2>4. RequestWasChecked'
    BY <2>2 DEF OwnerFetched, SignatureInv, RequestWasChecked, validate_required_signed_headers,
           SignedHeaders, validate_date_header, validate_digest_header,
           ensure_host_matches_public_base_url
  <2>5. SignatureWasVerified'
    BY <2>2 DEF OwnerFetched, SignatureInv, SignatureWasVerified, verify_cavage_signature,
           CoveredUnchanged, SignedHeaders
  <2>6. OwnerWasMatched' /\ SendsPinned'
    BY <1>4, <2>2 DEF OwnerWasMatched, SendsPinned, InFetch,
           signature_key_document_matches_actor, same_activitypub_id
  <2> QED
    BY <2>3, <2>4, <2>5, <2>6 DEF SignatureInv
<1> QED
  BY <1>3, <1>4

\* Every step keeps the invariant.
LEMMA SignatureInvStep == SignatureInv /\ [HttpSignaturesNext]_signatureVars => SignatureInv'
<1> SUFFICES ASSUME SignatureInv, [HttpSignaturesNext]_signatureVars PROVE SignatureInv'
  OBVIOUS
<1>1. CASE post_inbox
  BY <1>1, PostStep
<1>2. CASE FetchStep
  <2>1. ASSUME NEW address \in Addresses, FetchFailed(address) PROVE SignatureInv'
    BY <2>1, ConnectedStep, EndedStep DEF FetchFailed
  <2> QED
    BY <1>2, <2>1, ValidateStep, RedirectStep, KeyStep, OwnerStep DEF FetchStep
<1>3. CASE Handled
  BY <1>3, EndedStep DEF Handled, SignatureInv, ContactsPublicOnly
<1>4. CASE UNCHANGED signatureVars
  BY <1>4 DEF signatureVars, SignatureInv, HttpSignaturesTypeOK, ContactsPublicOnly,
         RequestWasChecked, SignatureWasVerified, OwnerWasMatched, SendsPinned, InFetch,
         validate_required_signed_headers, SignedHeaders, validate_date_header,
         validate_digest_header, ensure_host_matches_public_base_url, verify_cavage_signature,
         CoveredUnchanged, signature_key_document_matches_actor, same_activitypub_id
<1> QED
  BY <1>1, <1>2, <1>3, <1>4 DEF HttpSignaturesNext

\* verify and ensure_signature_owner_matches_actor, whatever remote servers, DNS
\* and the way of a request do: what is handled is what its actor signed, and
\* only public addresses are connected to.
THEOREM SignaturesCorrect == HttpSignaturesSpec => []SignatureSafety
<1>1. HttpSignaturesInit => SignatureInv
  BY SignatureInvInit
<1>2. SignatureInv /\ [HttpSignaturesNext]_signatureVars => SignatureInv'
  BY SignatureInvStep
<1>3. SignatureInv => SignatureSafety
  BY SignatureInvSuffices
<1> QED
  BY <1>1, <1>2, <1>3, PTL DEF HttpSignaturesSpec

-----------------------------------------------------------------------------
(* Remote actors: the invariant.                                           *)

RemoteRecords == [id : Nat, acct : Names, url : Ids, via : Ids]

ResolvingRecords ==
  [pc : {"idle", "validate", "finger", "send", "ask", "find", "write"},
   want : Ids \cup {NoId}, redirects : 0 .. MaxRedirects, pinned : Addresses,
   doc : Ids \cup {NoId}, name : Names \cup {NoName}, row : Nat]

\* The id of a row is its place in the order of the inserts.
RowsAreNumbered(rows) ==
  /\ IsFiniteSet(rows)
  /\ \A row \in rows : row.id \in 1 .. Cardinality(rows)
  /\ \A row, other \in rows : row.id = other.id => row = other

\* What a request found out before its next call is still so: the address it
\* sends to, the document it is about to write, and, across the gap between
\* find_by_url and the update, that the row it found is the row of that document.
RequestOK(q, rows) ==
  /\ q \in ResolvingRecords
  /\ q.pc \in {"send", "ask"} => q.pinned = "public"
  /\ q.pc \in {"validate", "send", "find", "write"} => q.want \in Ids
  /\ q.pc \in {"find", "write"} =>
       q.doc \in Ids /\ q.name \in Names /\ same_activitypub_id(q.doc, q.want)
  /\ q.pc = "write" /\ q.row # 0 => \E row \in rows : row.id = q.row /\ row.url = q.doc

RemoteActorInv ==
  /\ remote \subseteq RemoteRecords
  /\ RowsAreNumbered(remote)
  /\ RowsFoundAtTheirUrl
  /\ OneRowEach
  /\ ReachesPublicOnly
  /\ DOMAIN resolving = Resolvers /\ resolving = [r \in Resolvers |-> resolving[r]]
  /\ \A r \in Resolvers : RequestOK(resolving[r], remote)

\* A row of `before' is in `after' under the same id and URL.
RowsKept(before, after) ==
  \A row \in before : \E now \in after : now.id = row.id /\ now.url = row.url

\* The invariant contains what is promised of the rows.
LEMMA RemoteActorInvSuffices == RemoteActorInv => RemoteActorSafety
BY DEF RemoteActorInv, RequestOK, ResolvingRecords, RemoteRecords, RemoteActorSafety,
       RemoteActorsTypeOK, ReachesPublicOnly, Addresses

\* A request that begins anew holds nothing it has to rely on.
LEMMA BeginsOK ==
  ASSUME NEW rows, NEW pc \in {"idle", "finger", "validate"}, NEW want \in Ids \cup {NoId},
         pc = "validate" => want \in Ids
  PROVE  RequestOK(Resolving(pc, want), rows)
BY RedirectsAssumption DEF RequestOK, Resolving, ResolvingRecords, Addresses

\* No row at all, and nobody resolving.
LEMMA RemoteActorInvInit == RemoteActorsInit => RemoteActorInv
<1> SUFFICES ASSUME RemoteActorsInit PROVE RemoteActorInv
  OBVIOUS
<1>1. RequestOK(NoResolving, remote)
  BY BeginsOK DEF NoResolving
<1>2. RowsAreNumbered(remote)
  BY FS_EmptySet DEF RemoteActorsInit, RowsAreNumbered
<1> QED
  BY <1>1, <1>2 DEF RemoteActorsInit, RemoteActorInv, RowsFoundAtTheirUrl, OneRowEach,
         ReachesPublicOnly

\* One request goes on, and the rows that the others found are kept.
LEMMA OthersKeepTheirs ==
  ASSUME RemoteActorInv, NEW r \in Resolvers, NEW next, Goes(r, next),
         RequestOK(next, remote'), RowsKept(remote, remote')
  PROVE  /\ DOMAIN resolving' = Resolvers /\ resolving' = [q \in Resolvers |-> resolving'[q]]
         /\ \A q \in Resolvers : RequestOK(resolving'[q], remote')
<1>1. DOMAIN resolving' = Resolvers /\ resolving' = [q \in Resolvers |-> resolving'[q]]
  BY DEF Goes, RemoteActorInv
<1>2. resolving'[r] = next
  BY DEF Goes, RemoteActorInv
<1>3. ASSUME NEW q \in Resolvers, q # r PROVE RequestOK(resolving'[q], remote')
  <2>1. resolving'[q] = resolving[q]
    BY <1>3 DEF Goes, RemoteActorInv
  <2>2. RequestOK(resolving[q], remote)
    BY DEF RemoteActorInv
  <2>3. RequestOK(resolving[q], remote')
    BY <2>2 DEF RequestOK, RowsKept
  <2> QED
    BY <2>1, <2>3
<1> QED
  BY <1>1, <1>2, <1>3

\* A step that leaves the rows alone.
LEMMA RequestGoesOn ==
  ASSUME RemoteActorInv, NEW r \in Resolvers, NEW next, Goes(r, next),
         RequestOK(next, remote), UNCHANGED remote, reached' \subseteq {"public"}
  PROVE  RemoteActorInv' /\ RowsKept(remote, remote')
<1>1. RowsKept(remote, remote')
  BY DEF RowsKept
<1>2. RequestOK(next, remote')
  BY DEF RequestOK
<1>3. /\ remote' \subseteq RemoteRecords /\ RowsAreNumbered(remote')
      /\ RowsFoundAtTheirUrl' /\ OneRowEach' /\ ReachesPublicOnly'
  BY DEF RemoteActorInv, RowsFoundAtTheirUrl, OneRowEach, ReachesPublicOnly
<1> QED
  BY <1>1, <1>2, <1>3, OthersKeepTheirs DEF RemoteActorInv

\* A request that ends, whatever became of it.
LEMMA RequestEnds ==
  ASSUME RemoteActorInv, NEW r \in Resolvers, Goes(r, NoResolving), UNCHANGED remote,
         reached' \subseteq {"public"}
  PROVE  RemoteActorInv' /\ RowsKept(remote, remote')
BY BeginsOK, RequestGoesOn DEF NoResolving

\* The client connects to the address that was validated, not to what DNS says now.
LEMMA ReachedIsPublic ==
  ASSUME RemoteActorInv, NEW r \in Resolvers, NEW address \in Addresses,
         resolving[r].pc \in {"send", "ask"}, Reached(r, address)
  PROVE  reached' \subseteq {"public"}
BY DEF RemoteActorInv, RequestOK, ReachesPublicOnly, Reached, pinned_client

\* Validating either pins the address for the next connection or ends the request.
LEMMA ValidateUrlStep ==
  ASSUME RemoteActorInv, NEW r \in Resolvers, NEW address \in Addresses,
         validate_actor_url(r, address)
  PROVE  RemoteActorInv' /\ RowsKept(remote, remote')
<1>1. UNCHANGED remote /\ reached' \subseteq {"public"}
  BY DEF validate_actor_url, RemoteActorInv, ReachesPublicOnly
<1>2. CASE address # "public"
  BY <1>1, <1>2, RequestEnds DEF validate_actor_url, validate_public_ip
<1>3. CASE address = "public"
  <2> DEFINE next == [resolving[r] EXCEPT !.pc = IF @ = "validate" THEN "send" ELSE "ask",
                                          !.pinned = address]
  <2>1. Goes(r, next)
    BY <1>3 DEF validate_actor_url, validate_public_ip
  <2>2. RequestOK(resolving[r], remote)
    BY DEF RemoteActorInv
  <2>3. resolving[r].pc \in {"validate", "finger"}
    BY DEF validate_actor_url, Validating
  <2>4. RequestOK(next, remote)
    BY <1>3, <2>2, <2>3 DEF RequestOK, ResolvingRecords, Addresses
  <2> HIDE DEF next
  <2> QED
    BY <1>1, <2>1, <2>4, RequestGoesOn
<1> QED
  BY <1>2, <1>3

\* WebFinger's answer starts the fetch of the actor it links to.
LEMMA FingerStep ==
  ASSUME RemoteActorInv, NEW r \in Resolvers, NEW address \in Addresses, NEW url \in Wanted,
         FingerAnswered(r, address, url)
  PROVE  RemoteActorInv' /\ RowsKept(remote, remote')
<1>1. UNCHANGED remote /\ reached' \subseteq {"public"}
  BY ReachedIsPublic DEF FingerAnswered
<1>2. RequestOK(Resolving("validate", url), remote)
  BY BeginsOK DEF Wanted
<1> QED
  BY <1>1, <1>2, RequestGoesOn DEF FingerAnswered

\* A redirect starts over at the validation, or ends the request at the limit.
LEMMA ActorRedirectStep ==
  ASSUME RemoteActorInv, NEW r \in Resolvers, NEW address \in Addresses,
         ActorRedirected(r, address)
  PROVE  RemoteActorInv' /\ RowsKept(remote, remote')
<1>1. UNCHANGED remote /\ reached' \subseteq {"public"}
  BY ReachedIsPublic DEF ActorRedirected
<1>2. CASE RedirectsNow(r) > MaxRedirects
  BY <1>1, <1>2, RequestEnds DEF ActorRedirected
<1>3. CASE ~(RedirectsNow(r) > MaxRedirects)
  <2> DEFINE next == [Resolving("validate", resolving[r].want) EXCEPT
                        !.redirects = RedirectsNow(r)]
  <2>1. Goes(r, next)
    BY <1>3 DEF ActorRedirected
  <2>2. resolving[r].want \in Ids /\ resolving[r].redirects \in 0 .. MaxRedirects
    BY DEF RemoteActorInv, RequestOK, ResolvingRecords, ActorRedirected
  <2>3. RedirectsNow(r) \in 0 .. MaxRedirects
    BY <1>3, <2>2, RedirectsAssumption DEF RedirectsNow
  <2>4. RequestOK(next, remote)
    BY <2>2, <2>3, RedirectsAssumption DEF RequestOK, Resolving, ResolvingRecords, Addresses
  <2> HIDE DEF next
  <2> QED
    BY <1>1, <2>1, <2>4, RequestGoesOn
<1> QED
  BY <1>2, <1>3

\* A document is kept only if its id is the URL asked for and its actor has a name.
LEMMA ActorFetchedStep ==
  ASSUME RemoteActorInv, NEW r \in Resolvers, NEW address \in Addresses, NEW id \in Ids,
         NEW name \in Names \cup {NoName}, ActorFetched(r, address, id, name)
  PROVE  RemoteActorInv' /\ RowsKept(remote, remote')
<1>1. UNCHANGED remote /\ reached' \subseteq {"public"}
  BY ReachedIsPublic DEF ActorFetched
<1>2. CASE ~(IdAsRequested(id, resolving[r].want) /\ HasName(name))
  BY <1>1, <1>2, RequestEnds DEF ActorFetched
<1>3. CASE IdAsRequested(id, resolving[r].want) /\ HasName(name)
  <2> DEFINE next == [Resolving("find", resolving[r].want) EXCEPT !.doc = id, !.name = name]
  <2>1. Goes(r, next)
    BY <1>3 DEF ActorFetched
  <2>2. resolving[r].want \in Ids /\ name \in Names /\ same_activitypub_id(id, resolving[r].want)
    BY <1>3 DEF RemoteActorInv, RequestOK, ActorFetched, HasName, IdAsRequested
  <2>3. /\ next.pc = "find" /\ next.want = resolving[r].want /\ next.doc = id
        /\ next.name = name
    BY DEF Resolving
  <2>4. next \in ResolvingRecords
    <3>1. Resolving("find", resolving[r].want) \in ResolvingRecords
      BY <2>2, RedirectsAssumption DEF Resolving, ResolvingRecords, Addresses
    <3> QED
      BY <2>2, <3>1 DEF ResolvingRecords
  <2>5. RequestOK(next, remote)
    BY <2>2, <2>3, <2>4 DEF RequestOK
  <2> HIDE DEF next
  <2> QED
    BY <1>1, <2>1, <2>5, RequestGoesOn
<1> QED
  BY <1>2, <1>3

\* find_by_url remembers the id of the row, which is a row of the document's URL.
LEMMA FindStep ==
  ASSUME RemoteActorInv, NEW r \in Resolvers, find_remote_account(r)
  PROVE  RemoteActorInv' /\ RowsKept(remote, remote')
<1>1. UNCHANGED remote /\ reached' \subseteq {"public"}
  BY DEF find_remote_account, RemoteActorInv, ReachesPublicOnly
<1> DEFINE found == IF FoundByUrl(r) = {} THEN 0 ELSE (CHOOSE row \in FoundByUrl(r) : TRUE).id
           next == [resolving[r] EXCEPT !.pc = "write", !.row = found]
<1>2. Goes(r, next)
  BY DEF find_remote_account
<1>3. /\ found \in Nat
      /\ found # 0 => \E row \in remote : row.id = found /\ row.url = resolving[r].doc
  <2>1. CASE FoundByUrl(r) = {}
    BY <2>1
  <2>2. CASE FoundByUrl(r) # {}
    <3>1. PICK stored \in FoundByUrl(r) : stored = CHOOSE row \in FoundByUrl(r) : TRUE
      BY <2>2
    <3> QED
      BY <2>2, <3>1 DEF FoundByUrl, RemoteActorInv, RemoteRecords
  <2> QED
    BY <2>1, <2>2
<1> HIDE DEF found
<1>4. RequestOK(resolving[r], remote) /\ resolving[r].pc = "find"
  BY DEF RemoteActorInv, find_remote_account
<1>5. RequestOK(next, remote)
  BY <1>3, <1>4 DEF RequestOK, ResolvingRecords
<1> HIDE DEF next
<1> QED
  BY <1>1, <1>2, <1>5, RequestGoesOn

\* Writing ends the request; what remains to show is about the rows.
LEMMA RowsWritten ==
  ASSUME RemoteActorInv, NEW r \in Resolvers, Goes(r, NoResolving), UNCHANGED reached,
         remote' \subseteq RemoteRecords, RowsAreNumbered(remote'), RowsFoundAtTheirUrl',
         OneRowEach', RowsKept(remote, remote')
  PROVE  RemoteActorInv'
<1>1. RequestOK(NoResolving, remote')
  BY BeginsOK DEF NoResolving
<1> QED
  BY <1>1, OthersKeepTheirs DEF RemoteActorInv, ReachesPublicOnly

\* An insert, if the constraints let it through, makes a row with an id of its own.
LEMMA CreateStep ==
  ASSUME RemoteActorInv, NEW r \in Resolvers, create_remote_account(r)
  PROVE  RemoteActorInv' /\ RowsKept(remote, remote')
<1> DEFINE row == RemoteAccount(Cardinality(remote) + 1, resolving[r].name, resolving[r].doc,
                                resolving[r].want)
<1>1. CASE ~UniqueAmong(remote, row)
  BY <1>1, RequestEnds DEF create_remote_account, RemoteActorInv, ReachesPublicOnly
<1>2. CASE UniqueAmong(remote, row)
  <2>1. /\ remote' = remote \cup {row} /\ Goes(r, NoResolving) /\ UNCHANGED reached
        /\ resolving[r].pc = "write"
    BY <1>2 DEF create_remote_account
  <2>2. /\ IsFiniteSet(remote) /\ Cardinality(remote) \in Nat
        /\ \A other \in remote : other.id \in 1 .. Cardinality(remote)
    BY FS_CardinalityType DEF RemoteActorInv, RowsAreNumbered
  <2>3. /\ resolving[r].doc \in Ids /\ resolving[r].name \in Names /\ resolving[r].want \in Ids
        /\ same_activitypub_id(resolving[r].doc, resolving[r].want)
    BY <2>1 DEF RemoteActorInv, RequestOK
  <2>4. /\ row \in RemoteRecords /\ row.id = Cardinality(remote) + 1
        /\ same_activitypub_id(row.via, row.url)
    BY <2>2, <2>3 DEF RemoteAccount, RemoteRecords, same_activitypub_id
  <2> HIDE DEF row
  <2>5. row \notin remote
    BY <2>2, <2>4
  <2>6. IsFiniteSet(remote') /\ Cardinality(remote') = Cardinality(remote) + 1
    BY <2>1, <2>2, <2>5, FS_AddElement
  <2>7. \A other \in remote' : other.id \in 1 .. Cardinality(remote')
    BY <2>1, <2>2, <2>4, <2>6
  <2>8. \A one, other \in remote' : one.id = other.id => one = other
    BY <2>1, <2>2, <2>4 DEF RemoteActorInv, RowsAreNumbered
  <2>9. RowsAreNumbered(remote')
    BY <2>6, <2>7, <2>8 DEF RowsAreNumbered
  <2>10. RowsFoundAtTheirUrl' /\ remote' \subseteq RemoteRecords
    BY <2>1, <2>4 DEF RemoteActorInv, RowsFoundAtTheirUrl
  <2>11. OneRowEach'
    BY <1>2, <2>1 DEF RemoteActorInv, OneRowEach, UniqueAmong
  <2>12. RowsKept(remote, remote')
    BY <2>1 DEF RowsKept
  <2> QED
    BY <2>1, <2>9, <2>10, <2>11, <2>12, RowsWritten
<1> QED
  BY <1>1, <1>2

\* An update replaces the row that was found by another one of the same id and URL.
LEMMA UpdateStep ==
  ASSUME RemoteActorInv, NEW r \in Resolvers, update_remote_account(r)
  PROVE  RemoteActorInv' /\ RowsKept(remote, remote')
<1> DEFINE others == {other \in remote : other.id # resolving[r].row}
           row == RemoteAccount(resolving[r].row, resolving[r].name, resolving[r].doc,
                                resolving[r].want)
<1>1. CASE ~UniqueAmong(others, row)
  BY <1>1, RequestEnds DEF update_remote_account, RemoteActorInv, ReachesPublicOnly
<1>2. CASE UniqueAmong(others, row)
  <2>1. /\ remote' = others \cup {row} /\ Goes(r, NoResolving) /\ UNCHANGED reached
        /\ resolving[r].pc = "write" /\ resolving[r].row # 0
    BY <1>2 DEF update_remote_account
  <2>2. PICK old \in remote : old.id = resolving[r].row /\ old.url = resolving[r].doc
    BY <2>1 DEF RemoteActorInv, RequestOK
  <2>3. /\ resolving[r].doc \in Ids /\ resolving[r].name \in Names /\ resolving[r].want \in Ids
        /\ same_activitypub_id(resolving[r].doc, resolving[r].want) /\ resolving[r].row \in Nat
    BY <2>1 DEF RemoteActorInv, RequestOK, ResolvingRecords
  <2>4. /\ row \in RemoteRecords /\ row.id = old.id /\ row.url = old.url
        /\ same_activitypub_id(row.via, row.url)
    BY <2>2, <2>3 DEF RemoteAccount, RemoteRecords, same_activitypub_id
  <2>5. others = remote \ {old}
    BY <2>2 DEF RemoteActorInv, RowsAreNumbered
  <2>6. /\ IsFiniteSet(remote) /\ Cardinality(remote) \in Nat
        /\ \A other \in remote : other.id \in 1 .. Cardinality(remote)
    BY FS_CardinalityType DEF RemoteActorInv, RowsAreNumbered
  <2>7. \A other \in others : other \in remote /\ other.id # row.id
    BY <2>2, <2>4
  <2> HIDE DEF row, others
  <2>8. IsFiniteSet(others) /\ Cardinality(others) = Cardinality(remote) - 1
    BY <2>2, <2>5, <2>6, FS_RemoveElement
  <2>9. row \notin others
    BY <2>7
  <2>10. IsFiniteSet(remote') /\ Cardinality(remote') = Cardinality(remote)
    <3>1. IsFiniteSet(remote') /\ Cardinality(remote') = Cardinality(others) + 1
      BY <2>1, <2>8, <2>9, FS_AddElement
    <3> QED
      BY <2>6, <2>8, <3>1
  <2>11. \A other \in remote' : other.id \in 1 .. Cardinality(remote')
    BY <2>1, <2>2, <2>4, <2>6, <2>7, <2>10
  <2>12. \A one, other \in remote' : one.id = other.id => one = other
    BY <2>1, <2>7 DEF RemoteActorInv, RowsAreNumbered
  <2>13. RowsAreNumbered(remote')
    BY <2>10, <2>11, <2>12 DEF RowsAreNumbered
  <2>14. RowsFoundAtTheirUrl' /\ remote' \subseteq RemoteRecords
    BY <2>1, <2>4, <2>7 DEF RemoteActorInv, RowsFoundAtTheirUrl
  <2>15. OneRowEach'
    BY <1>2, <2>1, <2>7 DEF RemoteActorInv, OneRowEach, UniqueAmong
  <2>16. RowsKept(remote, remote')
    BY <2>1, <2>2, <2>4, <2>5 DEF RowsKept
  <2> QED
    BY <2>1, <2>13, <2>14, <2>15, <2>16, RowsWritten
<1> QED
  BY <1>1, <1>2

\* Every step keeps the invariant, and the actor of every row.
LEMMA RemoteActorInvStep ==
  RemoteActorInv /\ [RemoteActorsNext]_actorVars => RemoteActorInv' /\ RowsKept(remote, remote')
<1> SUFFICES ASSUME RemoteActorInv, [RemoteActorsNext]_actorVars
             PROVE  RemoteActorInv' /\ RowsKept(remote, remote')
  OBVIOUS
<1>1. CASE UNCHANGED actorVars
  <2>1. remote' = remote /\ resolving' = resolving /\ reached' = reached
    BY <1>1 DEF actorVars
  <2> QED
    BY <2>1 DEF RemoteActorInv, RowsFoundAtTheirUrl, OneRowEach, ReachesPublicOnly, RowsKept
<1>2. ASSUME NEW r \in Resolvers, NEW url \in Wanted, resolve_remote_actor(r, url)
      PROVE  RemoteActorInv' /\ RowsKept(remote, remote')
  BY <1>2, BeginsOK, RequestGoesOn
  DEF resolve_remote_actor, Wanted, RemoteActorInv, ReachesPublicOnly
<1>3. ASSUME NEW r \in Resolvers, resolve_remote_webfinger(r)
      PROVE  RemoteActorInv' /\ RowsKept(remote, remote')
  BY <1>3, BeginsOK, RequestGoesOn DEF resolve_remote_webfinger, RemoteActorInv, ReachesPublicOnly
<1>4. ASSUME NEW r \in Resolvers, GiveUpResolving(r)
      PROVE  RemoteActorInv' /\ RowsKept(remote, remote')
  BY <1>4, RequestEnds DEF GiveUpResolving, RemoteActorInv, ReachesPublicOnly
<1>5. ASSUME NEW r \in Resolvers, ResolveStep(r)
      PROVE  RemoteActorInv' /\ RowsKept(remote, remote')
  <2>1. ASSUME NEW address \in Addresses, ResolveFailed(r, address)
        PROVE  RemoteActorInv' /\ RowsKept(remote, remote')
    BY <2>1, RequestEnds, ReachedIsPublic DEF ResolveFailed
  <2> QED
    BY <1>5, <2>1, ValidateUrlStep, FingerStep, ActorRedirectStep, ActorFetchedStep, FindStep,
       CreateStep, UpdateStep DEF ResolveStep
<1> QED
  BY <1>1, <1>2, <1>3, <1>4, <1>5 DEF RemoteActorsNext

\* Whatever remote servers and DNS answer, and however many requests race: what
\* a row says was found at the actor's own URL, an actor has one row, and only
\* public addresses are connected to.
THEOREM RemoteActorsCorrect == RemoteActorsSpec => []RemoteActorSafety
<1>1. RemoteActorInv /\ [RemoteActorsNext]_actorVars => RemoteActorInv'
  BY RemoteActorInvStep
<1> QED
  BY <1>1, RemoteActorInvInit, RemoteActorInvSuffices, PTL DEF RemoteActorsSpec

\* The id by which follows and blocks know an actor never comes to stand for
\* another one, although find_by_url and the update are two statements.
THEOREM RowsKeepTheirActorProved == RemoteActorsSpec => RowsKeepTheirActor
<1>1. RemoteActorInv /\ [RemoteActorsNext]_actorVars => RemoteActorInv'
  BY RemoteActorInvStep
<1>2. RemoteActorInv /\ [RemoteActorsNext]_actorVars
        => [\A row \in remote : \E now \in remote' :
              now.id = row.id /\ now.url = row.url]_actorVars
  BY RemoteActorInvStep DEF RowsKept
<1> QED
  BY <1>1, <1>2, RemoteActorInvInit, PTL DEF RemoteActorsSpec, RowsKeepTheirActor
=============================================================================
