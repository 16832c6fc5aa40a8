--------------------------- MODULE HttpSignatures ---------------------------
(***************************************************************************)
(* An activity posted to an inbox: its HTTP signature is verified with the *)
(* key that the document behind the keyId holds, the document is fetched a *)
(* second time for the owner of the key, and then the activity is handled. *)
(*                                                                         *)
(* What its signer signed and what arrives are two records: whatever the   *)
(* signature does not cover may have changed on the way.  Remote servers   *)
(* (external) answer a request with anything, a redirect to anywhere       *)
(* included, and DNS (external) names any address each time it is asked.   *)
(* Requests share no state, so one at a time is enough.                    *)
(***************************************************************************)
EXTENDS RemoteIds

CONSTANTS
  RsaKeys,      \* public keys of remote actors
  Ed25519Keys,
  Tolerance     \* date_tolerance

KeyIds == {id \in Ids : ~id.slash}
Keys == RsaKeys \cup Ed25519Keys
Headers == {"(request-target)", "host", "date", "digest"}

\* The headers a signature lists: all, all but one, or no list.
Coverings == {Headers} \cup {Headers \ {h} : h \in Headers} \cup {{}}

\* Activities differ in who they say they are by; the age of a Date is negative if
\* it lies in the future.
Ages == -(Tolerance + 1) .. Tolerance + 1
Signed == [key : Keys, covered : Coverings, actor : Ids, inbox : {"this", "other"}, age : Ages]

NoDigest == [actor |-> "none", slash |-> FALSE]
Arrived ==
  [signature : {"none", "malformed", "rfc9421", "cavage"},
   algorithm : {"rsa-sha256", "hs2019", "ed25519", "other"},
   keyId : KeyIds, actor : Ids, inbox : {"this", "other"}, age : Ages,
   digest : {NoDigest} \cup Ids]

\* The public key in a document: its id, the key, and the actor said to own it.
KeyDocuments == [id : KeyIds, key : Keys, owner : Ids]

VARIABLES
  inbound,   \* the request being served
  contacted  \* history: kinds of addresses the verifier connected to

signatureVars == <<inbound, contacted>>

NoRequest == [pc |-> "idle"]

Fetching(pc, sent, got, key) ==
  [pc |-> pc, sent |-> sent, got |-> got, key |-> key, step |-> "validate",
   redirects |-> 0, pinned |-> "private"]

HttpSignaturesInit == inbound = NoRequest /\ contacted = {}

-----------------------------------------------------------------------------
(* What the verifier checks before it fetches the key.                     *)

\* RFC 9421, a missing signature header and one that does not parse are refused.
parse_cavage_signature(got) == got.signature = "cavage"

\* Without a list, the signature covers the date.
SignedHeaders(sent) == IF sent.covered = {} THEN {"date"} ELSE sent.covered

\* Faulty variant: the digest need not be signed.
UnsignedDigestFaulty(sent) == {"(request-target)", "host", "date"} \subseteq SignedHeaders(sent)

\* An activity has a body, so its digest must be signed too.
validate_required_signed_headers(sent) == Headers \subseteq SignedHeaders(sent)

\* Faulty variant: what is dated in the future has not expired.
NotExpiredFaulty(got) == got.age <= Tolerance

validate_date_header(got) == -Tolerance <= got.age /\ got.age <= Tolerance

validate_digest_header(got) == got.digest = got.actor

ensure_host_matches_public_base_url(got) == got.inbox = "this"

post_inbox ==
  /\ inbound = NoRequest
  /\ \E got \in Arrived :
       /\ ensure_host_matches_public_base_url(got)
       /\ parse_cavage_signature(got)
       /\ \E sent \in Signed :
            /\ validate_required_signed_headers(sent)
            /\ validate_date_header(got)
            /\ validate_digest_header(got)
            /\ inbound' = Fetching("key", sent, got, sent.key)
  /\ UNCHANGED contacted

-----------------------------------------------------------------------------
(* fetch_actor_key: each hop is validated, pinned to the address that was  *)
(* validated, and then requested.                                          *)

InFetch(step) == inbound.pc \in {"key", "owner"} /\ inbound.step = step

Ended == inbound' = NoRequest

validate_fetch_url(address) ==
  /\ InFetch("validate")
  /\ IF address = "public"
     THEN inbound' = [inbound EXCEPT !.step = "send", !.pinned = address]
     ELSE Ended
  /\ UNCHANGED contacted

\* Faulty variant: the client asks DNS again.
NotPinnedFaulty(address) == address

\* resolve_to_addrs: the connection goes to the address that was validated.
client_for_url(address) == inbound.pinned

Connected(address) == contacted' = contacted \cup {client_for_url(address)}

\* Faulty variant: redirects are not counted.
EndlessFaulty == 0

AfterRedirect == inbound.redirects + 1

\* Faulty variant: one redirect too many is followed.
OneMoreFaulty(redirects) == redirects > MaxRedirects + 1

TooManyRedirects(redirects) == redirects > MaxRedirects

\* A redirect, wherever to.
Redirected(address) ==
  /\ InFetch("send")
  /\ IF TooManyRedirects(AfterRedirect)
     THEN Ended
     ELSE inbound' = [inbound EXCEPT !.step = "validate", !.redirects = AfterRedirect]
  /\ Connected(address)

\* No answer, an error, a body over 1 MiB, or a document without a key.
FetchFailed(address) ==
  /\ InFetch("send")
  /\ Ended
  /\ Connected(address)

\* hs2019 takes a key of either kind.
Checks(algorithm, key) ==
  \/ algorithm \in {"rsa-sha256", "hs2019"} /\ key \in RsaKeys
  \/ algorithm \in {"ed25519", "hs2019"} /\ key \in Ed25519Keys

\* The signature is over the values the covered headers had.
CoveredUnchanged(sent, got) ==
  /\ {"(request-target)", "host"} \subseteq SignedHeaders(sent) => got.inbox = sent.inbox
  /\ "date" \in SignedHeaders(sent) => got.age = sent.age
  /\ "digest" \in SignedHeaders(sent) => got.digest = sent.actor

verify_cavage_signature(sent, got, key) ==
  Checks(got.algorithm, key) /\ key = sent.key /\ CoveredUnchanged(sent, got)

\* actor_public_key_from_json takes the key whose id is the keyId, and no other.
key_value_matches_key_id(keyId, document) == document.id = keyId

KeyFetched(address, document) ==
  /\ InFetch("send") /\ inbound.pc = "key"
  /\ IF /\ key_value_matches_key_id(inbound.got.keyId, document)
        /\ verify_cavage_signature(inbound.sent, inbound.got, document.key)
     THEN inbound' = Fetching("owner", inbound.sent, inbound.got, document.key)
     ELSE Ended
  /\ Connected(address)

\* Faulty variant: the word of the document is enough.
AnyDocumentFaulty(got) == TRUE

\* The document of the key is that of the actor itself.
signature_key_document_matches_actor(got) == same_activitypub_id(got.keyId, got.actor)

\* The document, fetched again, may be another by now.
OwnerFetched(address, document) ==
  /\ InFetch("send") /\ inbound.pc = "owner"
  /\ IF /\ key_value_matches_key_id(inbound.got.keyId, document)
        /\ same_activitypub_id(document.owner, inbound.got.actor)
        /\ signature_key_document_matches_actor(inbound.got)
     THEN inbound' = [pc |-> "handled", sent |-> inbound.sent, got |-> inbound.got,
                      key |-> inbound.key]
     ELSE Ended
  /\ Connected(address)

\* handle_inbox_activity, of which the other modules tell.
Handled == inbound.pc = "handled" /\ Ended /\ UNCHANGED contacted

FetchStep ==
  \E address \in Addresses :
    \/ validate_fetch_url(address)
    \/ Redirected(address)
    \/ FetchFailed(address)
    \/ \E document \in KeyDocuments :
         KeyFetched(address, document) \/ OwnerFetched(address, document)

HttpSignaturesNext ==
  \/ post_inbox
  \/ FetchStep
  \/ Handled

\* Each request of a fetch ends: the client gives up after ten seconds.
FetchFairness == WF_signatureVars(FetchStep)

HttpSignaturesSpec ==
  HttpSignaturesInit /\ [][HttpSignaturesNext]_signatureVars /\ FetchFairness

-----------------------------------------------------------------------------
(* Properties.                                                             *)

\* The type invariant: a fetch follows no more redirects than it may, and a
\* request goes out only pinned to an address.
HttpSignaturesTypeOK ==
  /\ inbound \in
       {NoRequest}
       \cup [pc : {"handled"}, sent : Signed, got : Arrived, key : Keys]
       \cup [pc : {"key", "owner"}, sent : Signed, got : Arrived, key : Keys,
             step : {"validate", "send"}, redirects : 0 .. MaxRedirects, pinned : Addresses]
  /\ contacted \subseteq Addresses

\* What is handled is what its signer signed, sent to this inbox no longer ago
\* than the tolerance, whatever was changed on the way (the checks of verify).
HandledAsSigned ==
  inbound.pc = "handled" =>
    /\ inbound.got.actor = inbound.sent.actor
    /\ inbound.sent.inbox = "this"
    /\ -Tolerance <= inbound.sent.age /\ inbound.sent.age <= Tolerance

\* An activity is handled for an actor only if it was signed under a key that
\* the actor's own URL led to, although key and owner come from two fetches
\* between which the document may change (ensure_signature_owner_matches_actor).
HandledUnderActorsKey ==
  inbound.pc = "handled" =>
    /\ inbound.sent.key = inbound.key
    /\ same_activitypub_id(inbound.got.keyId, inbound.sent.actor)

\* The verifier connects to public addresses only, whatever redirects say and
\* however DNS changes between the check and the connection.
ContactsPublicOnly == contacted \subseteq {"public"}

\* A fetch ends although the servers may redirect for ever (fetch_limited_json).
FetchEnds == []<>(inbound.pc \notin {"key", "owner"})

\* What holds of every activity that gets past the verifier, and of how the
\* verifier got there.
SignatureSafety ==
  HttpSignaturesTypeOK /\ HandledAsSigned /\ HandledUnderActorsKey /\ ContactsPublicOnly
=============================================================================
