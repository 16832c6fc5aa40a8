------------------------------- MODULE OAuth2 -------------------------------
(***************************************************************************)
(* The login and consent provider of an OAuth2 flow: the server stands     *)
(* between Hydra, which runs the flow, and Kratos, which knows the user's  *)
(* session.                                                                *)
(*                                                                         *)
(* One browser takes one flow after the other; its user may log in to and  *)
(* out of Kratos at any time and may load a page twice, so that two        *)
(* handlers serve the same challenge.  Hydra (external) takes one decision *)
(* per challenge, refuses further ones, remembers who logged in and what   *)
(* was consented, and asks to skip what it remembers.  Every call of it may*)
(* fail before or after it took effect; a handler whose call fails answers *)
(* 502 and ends.                                                           *)
(***************************************************************************)
EXTENDS Naturals

CONSTANTS
  Pages,      \* requests of the browser served at a time
  Users,      \* Kratos identities
  WithEmail   \* those whose traits have an email

NoUser == "no user"
NoEmail == "no email"

ASSUME OAuth2Assumption == WithEmail \subseteq Users /\ NoEmail \notin Users

Scopes == {"openid", "email"}

VARIABLES
  session,     \* the Kratos session the browser's cookie names
  remembered,  \* Hydra: the subject it remembers in this browser
  consented,   \* Hydra: consented[u]: the scopes it remembers as granted
  flow,        \* Hydra: the flow of the browser
  page,        \* page[p]: the request being served
  proved       \* history: users for whom Kratos confirmed an active session

oauthVars == <<session, remembered, consented, flow, page, proved>>

\* stage: "login" and "consent" wait for a decision.
NoFlow ==
  [stage |-> "none", skip |-> FALSE, subject |-> NoUser, context |-> NoEmail,
   requested |-> {}, skip_consent |-> FALSE, granted |-> {}, id_token |-> NoEmail]

Page(pc, user, scope) == [pc |-> pc, user |-> user, scope |-> scope]
NoPage == Page("idle", NoUser, {})

Email(user) == IF user \in WithEmail THEN user ELSE NoEmail

OAuthInit ==
  /\ session = [user |-> NoUser, active |-> FALSE]
  /\ remembered = NoUser
  /\ consented = [u \in Users |-> {}]
  /\ flow = NoFlow
  /\ page = [p \in Pages |-> NoPage]
  /\ proved = {}

-----------------------------------------------------------------------------
(* The browser, Kratos and the start of a flow.                            *)

KratosLogin(user) ==
  /\ session' = [user |-> user, active |-> TRUE]
  /\ UNCHANGED <<remembered, consented, flow, page, proved>>

\* The session ends; the cookie may stay.
KratosLogout ==
  /\ session.active
  /\ session' = [session EXCEPT !.active = FALSE]
  /\ UNCHANGED <<remembered, consented, flow, page, proved>>

\* A client sends the browser to Hydra, which asks the server for a login.  A
\* page still at work on an earlier challenge could only decide about that one.
StartFlow(requested, skip_consent) ==
  /\ flow.stage \in {"none", "done"}
  /\ \A p \in Pages : page[p] = NoPage
  /\ flow' = [NoFlow EXCEPT !.stage = "login", !.skip = remembered # NoUser,
                            !.subject = remembered, !.requested = requested,
                            !.skip_consent = skip_consent]
  /\ UNCHANGED <<session, remembered, consented, page, proved>>

\* Hydra forgets, after REMEMBER_FOR_SECS.
Forget ==
  /\ remembered # NoUser
  /\ remembered' = NoUser
  /\ UNCHANGED <<session, consented, flow, page, proved>>

-----------------------------------------------------------------------------
(* GET /oauth2/login.                                                      *)

\* get_login_request, then whoami unless Hydra says skip.
get_login_request(p) ==
  /\ page[p] = NoPage
  /\ flow.stage = "login"
  /\ page' = [page EXCEPT ![p] =
       IF flow.skip THEN Page("skip", flow.subject, {}) ELSE Page("whoami", NoUser, {})]
  /\ UNCHANGED <<session, remembered, consented, flow, proved>>

\* Faulty variant: an answer without a session is taken for one.
NoSessionFaulty(s) == TRUE

\* Faulty variant: a session that is no longer active will do.
AnySessionFaulty(s) == s.user # NoUser

\* The user of the session, if Kratos knows it and it is active.
whoami(s) == s.active

\* No cookie, no session or an error of Kratos: the login will be rejected.
verify_kratos_session(p) ==
  /\ page[p].pc = "whoami"
  /\ \/ /\ whoami(session)
        /\ page' = [page EXCEPT ![p] = Page("accept", session.user, {})]
        /\ proved' = IF session.active THEN proved \cup {session.user} ELSE proved
     \/ /\ page' = [page EXCEPT ![p] = Page("reject", NoUser, {})]
        /\ UNCHANGED proved
  /\ UNCHANGED <<session, remembered, consented, flow>>

\* Faulty variant: the login is accepted without its context.
NoContextFaulty(user, skip) == NoEmail

\* A skipped login is accepted without a context, another with the email.
LoginContext(user, skip) == IF skip THEN NoEmail ELSE Email(user)

accept_login(p) ==
  /\ page[p].pc \in {"skip", "accept"}
  /\ flow.stage = "login"
  /\ flow' = [flow EXCEPT !.stage = "consent", !.subject = page[p].user,
                          !.context = LoginContext(page[p].user, page[p].pc = "skip")]
  /\ remembered' = page[p].user
  /\ page' = [page EXCEPT ![p] = NoPage]
  /\ UNCHANGED <<session, consented, proved>>

reject_login(p) ==
  /\ page[p].pc = "reject"
  /\ flow.stage = "login"
  /\ flow' = NoFlow
  /\ page' = [page EXCEPT ![p] = NoPage]
  /\ UNCHANGED <<session, remembered, consented, proved>>

-----------------------------------------------------------------------------
(* GET and POST /oauth2/consent.                                           *)

\* Faulty variant: the email goes into every id token.
EmailAlwaysFaulty(context, scope) == context

build_consent_session(context, scope) == IF "email" \in scope THEN context ELSE NoEmail

\* Hydra asks to skip a consent it remembers; the client may be trusted too.
ConsentSkipped == flow.requested \subseteq consented[flow.subject] \/ flow.skip_consent

\* Without a skip the details are shown, which changes nothing.
get_consent(p) ==
  /\ page[p] = NoPage
  /\ flow.stage = "consent"
  /\ ConsentSkipped
  /\ page' = [page EXCEPT ![p] = Page("grant", NoUser, flow.requested)]
  /\ UNCHANGED <<session, remembered, consented, flow, proved>>

\* Faulty variant: what the user posts is granted.
AnyScopeFaulty(scope, requested) == TRUE

\* A scope that was not requested is refused with 400.
GrantAllowed(scope, requested) == scope \subseteq requested

post_consent(p, scope) ==
  /\ page[p] = NoPage
  /\ flow.stage = "consent"
  /\ GrantAllowed(scope, flow.requested)
  /\ page' = [page EXCEPT ![p] = Page("grant", NoUser, scope)]
  /\ UNCHANGED <<session, remembered, consented, flow, proved>>

accept_consent(p) ==
  /\ page[p].pc = "grant"
  /\ flow.stage = "consent"
  /\ flow' = [flow EXCEPT !.stage = "done", !.granted = page[p].scope,
                          !.id_token = build_consent_session(flow.context, page[p].scope)]
  /\ consented' = [consented EXCEPT ![flow.subject] = page[p].scope]
  /\ page' = [page EXCEPT ![p] = NoPage]
  /\ UNCHANGED <<session, remembered, proved>>

reject_consent(p) ==
  /\ page[p] = NoPage
  /\ flow.stage = "consent"
  /\ flow' = NoFlow
  /\ UNCHANGED <<session, remembered, consented, page, proved>>

\* 502: the call failed, or the challenge was decided by another request.
BadGateway(p) ==
  /\ page[p] # NoPage
  /\ page' = [page EXCEPT ![p] = NoPage]
  /\ UNCHANGED <<session, remembered, consented, flow, proved>>

OAuthNext ==
  \/ \E u \in Users : KratosLogin(u)
  \/ KratosLogout
  \/ Forget
  \/ \E requested \in SUBSET Scopes, trusted \in BOOLEAN : StartFlow(requested, trusted)
  \/ \E p \in Pages :
       \/ get_login_request(p) \/ verify_kratos_session(p)
       \/ accept_login(p) \/ reject_login(p)
       \/ get_consent(p) \/ accept_consent(p) \/ reject_consent(p)
       \/ \E scope \in SUBSET Scopes : post_consent(p, scope)
       \/ BadGateway(p)

OAuthSpec == OAuthInit /\ [][OAuthNext]_oauthVars

-----------------------------------------------------------------------------
(* Properties.                                                             *)

\* The type invariant: a login is accepted, and a consent asked for, only for
\* somebody.
OAuthTypeOK ==
  /\ session \in [user : Users \cup {NoUser}, active : BOOLEAN]
  /\ remembered \in Users \cup {NoUser}
  /\ consented \in [Users -> SUBSET Scopes]
  /\ flow \in [stage : {"none", "login", "consent", "done"}, skip : BOOLEAN,
               subject : Users \cup {NoUser}, context : Users \cup {NoEmail},
               requested : SUBSET Scopes, skip_consent : BOOLEAN,
               granted : SUBSET Scopes, id_token : Users \cup {NoEmail}]
  /\ flow.stage \in {"consent", "done"} => flow.subject \in Users
  /\ page \in [Pages ->
       [pc : {"skip", "accept"}, user : Users, scope : {{}}]
       \cup [pc : {"idle", "whoami", "reject", "grant"}, user : {NoUser}, scope : SUBSET Scopes]]
  /\ proved \subseteq Users

\* Whoever Hydra believes to be logged in was confirmed by Kratos with an
\* active session, now or when Hydra began to remember: an ended session, a
\* page loaded twice or a change of user in between makes no difference.
LoginWasProved == flow.stage \in {"consent", "done"} => flow.subject \in proved

\* A flow never grants more than it asked for, and an id token carries an email
\* only with the email scope, and only that of the user who logged in.
GrantWithinRequest ==
  flow.stage = "done" =>
    /\ flow.granted \subseteq flow.requested
    /\ flow.id_token # NoEmail => "email" \in flow.granted /\ flow.id_token = flow.subject

\* A user with an email who grants the email scope gets it in the id token,
\* unless the login was skipped: accept_login then sends no context.
EmailMissingOnlyAfterSkip ==
  (flow.stage = "done" /\ "email" \in flow.granted /\ flow.subject \in WithEmail
     /\ flow.id_token = NoEmail) => flow.skip

\* What holds of every flow: it is for somebody Kratos confirmed, grants what
\* was asked for, and carries the email that was granted unless it was skipped.
OAuthSafety ==
  OAuthTypeOK /\ LoginWasProved /\ GrantWithinRequest /\ EmailMissingOnlyAfterSkip
=============================================================================
