---------------------------- MODULE RemoteActors ----------------------------
(***************************************************************************)
(* Remote actors as the database knows them: a client names one by URL or  *)
(* by acct, or an activity comes from one; its document is fetched, and the*)
(* row of remote_accounts is written that follows and blocks point to.     *)
(*                                                                         *)
(* Requests run concurrently, and each call of a server or of the database *)
(* is a step.  As in HttpSignatures, servers and DNS (external) answer     *)
(* anything.  All actors are on one host, so that an acct is a name; the   *)
(* inbox and the key of a row are written with its name and left out.      *)
(***************************************************************************)
EXTENDS RemoteIds, FiniteSets

CONSTANTS
  Resolvers,  \* concurrent requests
  Names       \* values of preferredUsername

VARIABLES
  remote,     \* rows of remote_accounts
  resolving,  \* resolving[r]: the request of r
  reached     \* history: kinds of addresses connected to

actorVars == <<remote, resolving, reached>>

NoName == "no name"
NoId == [actor |-> "none", slash |-> FALSE]

\* A slash at the end of the URL asked for makes no difference.
Wanted == {id \in Ids : ~id.slash}

\* want is the URL asked for, doc the id and name that the document gives.
Resolving(pc, want) ==
  [pc |-> pc, want |-> want, redirects |-> 0, pinned |-> "private", doc |-> NoId,
   name |-> NoName, row |-> 0]

NoResolving == Resolving("idle", NoId)

\* via, a history, is the URL whose fetch led to what the row says.
RemoteAccount(id, acct, url, via) == [id |-> id, acct |-> acct, url |-> url, via |-> via]

RemoteActorsInit ==
  /\ remote = {}
  /\ resolving = [r \in Resolvers |-> NoResolving]
  /\ reached = {}

Goes(r, next) == resolving' = [resolving EXCEPT ![r] = next]

-----------------------------------------------------------------------------
(* Finding the document.                                                   *)

\* A client's request, or a Follow or Block in the inbox.
resolve_remote_actor(r, url) ==
  /\ resolving[r] = NoResolving
  /\ Goes(r, Resolving("validate", url))
  /\ UNCHANGED <<remote, reached>>

\* acct:user@domain: WebFinger is asked first, without redirects.
resolve_remote_webfinger(r) ==
  /\ resolving[r] = NoResolving
  /\ Goes(r, Resolving("finger", NoId))
  /\ UNCHANGED <<remote, reached>>

Validating == {"validate", "finger"}

\* The ranges of private, local and reserved addresses are refused.
validate_public_ip(address) == address = "public"

validate_actor_url(r, address) ==
  /\ resolving[r].pc \in Validating
  /\ Goes(r, IF validate_public_ip(address)
             THEN [resolving[r] EXCEPT
                     !.pc = IF @ = "validate" THEN "send" ELSE "ask", !.pinned = address]
             ELSE NoResolving)
  /\ UNCHANGED <<remote, reached>>

\* Faulty variant: the client asks DNS again.
UnpinnedFaulty(r, address) == address

pinned_client(r, address) == resolving[r].pinned

Reached(r, address) == reached' = reached \cup {pinned_client(r, address)}

\* WebFinger, of the acct asked for, links to this actor.
FingerAnswered(r, address, url) ==
  /\ resolving[r].pc = "ask"
  /\ Goes(r, Resolving("validate", url))
  /\ Reached(r, address)
  /\ UNCHANGED remote

\* Faulty variant: redirects are not counted.
UncountedFaulty(r) == 0

RedirectsNow(r) == resolving[r].redirects + 1

ActorRedirected(r, address) ==
  /\ resolving[r].pc = "send"
  /\ Goes(r, IF RedirectsNow(r) > MaxRedirects THEN NoResolving
             ELSE [Resolving("validate", resolving[r].want) EXCEPT
                     !.redirects = RedirectsNow(r)])
  /\ Reached(r, address)
  /\ UNCHANGED remote

\* No answer, an error, a WebFinger of another subject, or not a document.
ResolveFailed(r, address) ==
  /\ resolving[r].pc \in {"send", "ask"}
  /\ Goes(r, NoResolving)
  /\ Reached(r, address)
  /\ UNCHANGED remote

\* Faulty variant: the id of the document is taken for what it is.
AnyIdFaulty(id, want) == TRUE

IdAsRequested(id, want) == same_activitypub_id(id, want)

\* Faulty variant: an actor without a name is taken over too.
NamelessFaulty(name) == TRUE

\* preferredUsername is not empty.
HasName(name) == name # NoName

ActorFetched(r, address, id, name) ==
  /\ resolving[r].pc = "send"
  /\ Goes(r, IF IdAsRequested(id, resolving[r].want) /\ HasName(name)
             THEN [Resolving("find", resolving[r].want) EXCEPT !.doc = id, !.name = name]
             ELSE NoResolving)
  /\ Reached(r, address)
  /\ UNCHANGED remote

-----------------------------------------------------------------------------
(* upsert_remote_account.                                                  *)

\* Faulty variant: the row is looked up by acct.
FindByAcctFaulty(r) == {row \in remote : row.acct = resolving[r].name}

FoundByUrl(r) == {row \in remote : row.url = resolving[r].doc}

find_remote_account(r) ==
  /\ resolving[r].pc = "find"
  /\ Goes(r, [resolving[r] EXCEPT
       !.pc = "write",
       !.row = IF FoundByUrl(r) = {} THEN 0 ELSE (CHOOSE row \in FoundByUrl(r) : TRUE).id])
  /\ UNCHANGED <<remote, reached>>

\* Faulty variant: the columns of remote_accounts are not unique.
NoConstraintFaulty(others, row) == TRUE

\* acct and url are UNIQUE.
UniqueAmong(others, row) == \A other \in others : other.acct # row.acct /\ other.url # row.url

create_remote_account(r) ==
  LET q == resolving[r]
      row == RemoteAccount(Cardinality(remote) + 1, q.name, q.doc, q.want)
  IN  /\ q.pc = "write" /\ q.row = 0
      /\ remote' = IF UniqueAmong(remote, row) THEN remote \cup {row} ELSE remote
      /\ Goes(r, NoResolving)
      /\ UNCHANGED reached

update_remote_account(r) ==
  LET q == resolving[r]
      others == {row \in remote : row.id # q.row}
      row == RemoteAccount(q.row, q.name, q.doc, q.want)
  IN  /\ q.pc = "write" /\ q.row # 0
      /\ remote' = IF UniqueAmong(others, row) THEN others \cup {row} ELSE remote
      /\ Goes(r, NoResolving)
      /\ UNCHANGED reached

\* A database error, or the client goes away.
GiveUpResolving(r) ==
  /\ resolving[r] # NoResolving
  /\ Goes(r, NoResolving)
  /\ UNCHANGED <<remote, reached>>

ResolveStep(r) ==
  \/ \E address \in Addresses :
       \/ validate_actor_url(r, address)
       \/ \E url \in Wanted : FingerAnswered(r, address, url)
       \/ ActorRedirected(r, address)
       \/ ResolveFailed(r, address)
       \/ \E id \in Ids, name \in Names \cup {NoName} : ActorFetched(r, address, id, name)
  \/ find_remote_account(r)
  \/ create_remote_account(r)
  \/ update_remote_account(r)

RemoteActorsNext ==
  \E r \in Resolvers :
    \/ \E url \in Wanted : resolve_remote_actor(r, url)
    \/ resolve_remote_webfinger(r)
    \/ ResolveStep(r)
    \/ GiveUpResolving(r)

\* Requests of the client end after ten seconds, statements return.
ResolveFairness == \A r \in Resolvers : WF_actorVars(ResolveStep(r))

RemoteActorsSpec == RemoteActorsInit /\ [][RemoteActorsNext]_actorVars /\ ResolveFairness

-----------------------------------------------------------------------------
(* Properties.                                                             *)

\* The type invariant: every row has the name and the URL of an actor, and a
\* request follows no more redirects than it may.
RemoteActorsTypeOK ==
  /\ remote \subseteq [id : Nat, acct : Names, url : Ids, via : Ids]
  /\ resolving \in [Resolvers ->
       [pc : {"idle", "validate", "finger", "send", "ask", "find", "write"},
        want : Ids \cup {NoId}, redirects : 0 .. MaxRedirects, pinned : Addresses,
        doc : Ids \cup {NoId}, name : Names \cup {NoName}, row : Nat]]
  /\ reached \subseteq Addresses

\* What the row of an actor says was found by asking the actor's own URL,
\* whatever the documents of other actors claim (resolve_remote_actor).
RowsFoundAtTheirUrl == \A row \in remote : same_activitypub_id(row.via, row.url)

\* A row, by whose id follows and blocks know their actor, never comes to stand
\* for another one: not if actors swap their names, and not in a race.
RowsKeepTheirActor ==
  [][\A row \in remote : \E now \in remote' : now.id = row.id /\ now.url = row.url]_actorVars

\* Two first requests for an actor, or two actors that claim one name, do not
\* leave two rows behind (find_by_url and create are two statements).
OneRowEach ==
  \A row, other \in remote : row.acct = other.acct \/ row.url = other.url => row = other

\* Resolving an actor connects to public addresses only (validate_fetch_url).
ReachesPublicOnly == reached \subseteq {"public"}

\* Resolving an actor ends although servers may redirect for ever.
ResolvesEnd == \A r \in Resolvers : []<>(resolving[r] = NoResolving)

\* What holds of the rows of remote actors, and of how they were found.
RemoteActorSafety ==
  RemoteActorsTypeOK /\ RowsFoundAtTheirUrl /\ OneRowEach /\ ReachesPublicOnly
=============================================================================
