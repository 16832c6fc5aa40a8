----------------------------- MODULE SigningKeys -----------------------------
(***************************************************************************)
(* The signing keys of local accounts: made with the account, encrypted    *)
(* under the master password, and decrypted to sign what a client asks for *)
(* and what is delivered to an inbox.                                      *)
(*                                                                         *)
(* The master password is in a file that is read anew each time.  The      *)
(* operator (external) may create, replace, spoil and remove the two files *)
(* at any time.  Reading a file and checking its permissions are two steps.*)
(* No part of the program revokes a key or makes a second one for an       *)
(* account, so an account has at most one.  Requests share only the keys,  *)
(* each written in one step: one request at a time is enough.              *)
(***************************************************************************)
EXTENDS Naturals

CONSTANTS
  Locals,    \* local accounts
  Passwords  \* contents of a password file

Paths == {"secrets", "fallback"}

\* A file is as it should be, open to others, empty, unreadable, or not there.
FileStates == {"good", "insecure", "empty", "unreadable", "absent"}

VARIABLES
  file,        \* file[p]: the password file at each path
  signingKey,  \* signingKey[a]: the key of the account, or NoKey
  work,        \* the request being served
  signatures,  \* history: every signature made
  steady       \* history: secrets was there all the time and kept its password

keyVars == <<file, signingKey, work, signatures, steady>>

\* A pair is named by the account it is made for.
generate_raw(account) == [public |-> account, private |-> account]

\* Argon2id and AES-GCM: the private key, to be had with the password only.
encrypt(private, password) == [private |-> private, password |-> password]

SigningKey(public, encrypted) == [public |-> public, encrypted |-> encrypted]

\* The generator makes a pair and encrypts its private half.
generate(account, password) ==
  SigningKey(generate_raw(account).public, encrypt(generate_raw(account).private, password))

NoKey == SigningKey("none", encrypt("none", "none"))
NoPassword == "no password"

Work(pc, op, account) ==
  [pc |-> pc, op |-> op, account |-> account, path |-> "secrets", key |-> NoKey,
   password |-> NoPassword]

NoWork == Work("idle", "none", "nobody")

\* The deployment may use either file, or have both.
SigningKeysInit ==
  /\ file \in [Paths -> [state : {"good", "absent"}, password : Passwords]]
  /\ signingKey = [a \in Locals |-> NoKey]
  /\ work = NoWork
  /\ signatures = {}
  /\ steady = (file["secrets"].state # "absent")

Continues(next) ==
  /\ work' = next
  /\ UNCHANGED <<file, steady>>

\* The operator.
Operate(path, state, password) ==
  /\ file' = [file EXCEPT ![path] = [state |-> state, password |-> password]]
  /\ steady' = (steady /\ (path = "secrets" =>
                             state # "absent" /\ password = file[path].password))
  /\ UNCHANGED <<signingKey, work, signatures>>

-----------------------------------------------------------------------------
(* The requests.                                                           *)

\* The end of create_account's transaction makes the key.
create(account) ==
  /\ work = NoWork
  /\ signingKey[account] = NoKey
  /\ Continues(Work("read", "create", account))
  /\ UNCHANGED <<signingKey, signatures>>

find_active_by_account_id(account) == signingKey[account]

\* What the route for the public key and the actor document show.
get_public_key_info(account) == find_active_by_account_id(account).public

\* sign_request: find_account_by_nanoid, then check_sign_permission; without
\* the account or the permission nothing starts.
sign(account) ==
  /\ work = NoWork
  /\ find_active_by_account_id(account) # NoKey
  /\ Continues([Work("read", "sign", account) EXCEPT
                     !.key = find_active_by_account_id(account)])
  /\ UNCHANGED <<signingKey, signatures>>

deliver_activity_to_inbox(account) ==
  /\ work = NoWork
  /\ find_active_by_account_id(account) # NoKey
  /\ Continues([Work("read", "deliver", account) EXCEPT
                     !.key = find_active_by_account_id(account)])
  /\ UNCHANGED <<signingKey, signatures>>

\* Faulty variant: whatever is wrong with a file, the next one is tried.
AnyErrorFaulty(state) == state # "good"

\* Only a file that is not there makes get_password go on to the fallback.
NextPath(state) == state = "absent"

get_password ==
  LET now == file[work.path]
  IN  /\ work.pc = "read"
      /\ Continues(
           IF NextPath(now.state) /\ work.path = "secrets"
           THEN [work EXCEPT !.path = "fallback"]
           ELSE IF now.state \in {"absent", "unreadable"} THEN NoWork
           ELSE [work EXCEPT !.pc = "validate",
                   !.password = IF now.state = "empty" THEN NoPassword ELSE now.password])
      /\ UNCHANGED <<signingKey, signatures>>

\* Faulty variant: an empty file gives an empty password.
EmptyPasswordFaulty ==
  /\ work.pc = "validate"
  /\ Continues(
       IF file[work.path].state \notin {"absent", "insecure"}
       THEN [work EXCEPT !.pc = "use"] ELSE NoWork)
  /\ UNCHANGED <<signingKey, signatures>>

\* The permissions are those of the file that is there now.
validate_file_permissions ==
  /\ work.pc = "validate"
  /\ Continues(
       IF file[work.path].state \notin {"absent", "insecure"} /\ work.password # NoPassword
       THEN [work EXCEPT !.pc = "use"] ELSE NoWork)
  /\ UNCHANGED <<signingKey, signatures>>

\* The private key is encrypted and stored; the transaction commits.
StoreKey ==
  /\ work.pc = "use" /\ work.op = "create"
  /\ signingKey' = [signingKey EXCEPT ![work.account] = generate(work.account, work.password)]
  /\ Continues(NoWork)
  /\ UNCHANGED signatures

\* Faulty variant: the authentication tag is not checked.
GarbageFaulty(encrypted, password) ==
  {IF encrypted.password = password THEN encrypted.private ELSE "garbage"}

\* AES-GCM: the private key, or an error for any other password.
decrypt(encrypted, password) ==
  IF encrypted.password = password THEN {encrypted.private} ELSE {}

\* The Signer of the key's algorithm.
Signature(scheme, account, private) == [scheme |-> scheme, account |-> account, by |-> private]

\* HttpSigner: one signature of each scheme, with the same key.
http_sign(account, private) ==
  {Signature(scheme, account, private) : scheme \in {"cavage", "rfc9421"}}

\* The SignatureVerifier of the key's algorithm.
verify(signature, public) == signature.by = public

SignWith ==
  /\ work.pc = "use" /\ work.op \in {"sign", "deliver"}
  /\ signatures' = signatures \cup
       UNION {http_sign(work.account, private) :
                private \in decrypt(work.key.encrypted, work.password)}
  /\ Continues(NoWork)
  /\ UNCHANGED signingKey

\* The database fails, or the client goes away.
Abandon ==
  /\ work # NoWork
  /\ Continues(NoWork)
  /\ UNCHANGED <<signingKey, signatures>>

SigningKeysNext ==
  \/ \E path \in Paths, state \in FileStates, password \in Passwords :
       Operate(path, state, password)
  \/ \E a \in Locals : create(a) \/ sign(a) \/ deliver_activity_to_inbox(a)
  \/ get_password
  \/ validate_file_permissions
  \/ StoreKey
  \/ SignWith
  \/ Abandon

SigningKeysSpec == SigningKeysInit /\ [][SigningKeysNext]_keyVars

-----------------------------------------------------------------------------
(* Properties.                                                             *)

Keys == {generate(a, p) : a \in Locals, p \in Passwords} \cup {NoKey}

(* A request holds no password before it has read a file, and a key only   *)
(* when it is to sign.                                                     *)
SigningKeysTypeOK ==
  /\ file \in [Paths -> [state : FileStates, password : Passwords]]
  /\ signingKey \in [Locals -> Keys]
  /\ work \in
       [pc : {"idle", "read", "validate", "use"}, op : {"none", "create", "sign", "deliver"},
        account : Locals \cup {"nobody"}, path : Paths, key : Keys,
        password : Passwords \cup {NoPassword}]
  /\ work.pc = "use" => work.password # NoPassword
  /\ work.key # NoKey => work.op \in {"sign", "deliver"}
  /\ steady \in BOOLEAN

(* While the secrets file is there and keeps its password, every key is    *)
(* made under one password: a file that is unreadable, empty or open to    *)
(* others for a time makes requests fail and never lets the fallback be    *)
(* used.                                                                   *)
KeysUnderOnePassword ==
  steady => \A a, b \in Locals :
    signingKey[a] # NoKey /\ signingKey[b] # NoKey =>
      signingKey[a].encrypted.password = signingKey[b].encrypted.password

(* Every signature verifies under the public key that the account shows,   *)
(* whatever the operator did to the password since the key was made: a key *)
(* that cannot be decrypted signs nothing.                                 *)
SignaturesVerify == \A s \in signatures : verify(s, get_public_key_info(s.account))

(* What holds of the keys whatever happens to the password files.          *)
KeySafety == SigningKeysTypeOK /\ KeysUnderOnePassword /\ SignaturesVerify
=============================================================================
