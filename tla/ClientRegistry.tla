--------------------------- MODULE ClientRegistry ----------------------------
(***************************************************************************)
(* One OAuth 2.0 client: its row in hydra_client, the requests that change *)
(* it, and the authorization requests that are pushed for it.              *)
(*                                                                         *)
(* Administrators replace, patch and delete the client and set the         *)
(* lifespans of its tokens; whoever has the registration access token may  *)
(* replace or delete it.  PATCH and the lifespans are read, change, write: *)
(* the row is read by the handler, outside the transaction of              *)
(* UpdateClient, which reads it again for the secret and then writes every *)
(* column.  A database that notices conflicts makes UpdateClient run       *)
(* again, on the client that the first attempt has left behind.            *)
(*                                                                         *)
(* What a request brings (a secret, redirect URIs, a registration access   *)
(* token) is known by the request that brought it.                         *)
(***************************************************************************)
EXTENDS Naturals

CONSTANTS
    Requests,
    Isolations,     \* isolation levels of the database that are looked at
    Lifespan,       \* how long a pushed request lives
    MaxTime,        \* bound: how long time is watched
    None

\* A secret as it was sent, its hash, and the hash of a hash, which no secret
\* matches that anyone knows.
Secret == [of : Requests, form : {"plain", "hash", "garbled"}]

\* A row, and what an update is going to write; an update without a secret keeps
\* the one that is there, a row without a token has no registration access.
Client == [secret : Secret \cup {None}, token : Requests \cup {None}, uris : Requests]

ASSUME RegistryAssumption ==
    /\ None \notin Requests /\ None \notin Secret /\ None \notin Client
    /\ Isolations \subseteq {"serializable", "read_committed"}
    /\ Lifespan \in Nat /\ MaxTime \in Nat

Pushed == [by : Requests, uris : Requests, exp : Nat]

VARIABLES
    isolation,      \* of the transactions of UpdateClient
    now,
    \* the database
    row,            \* the client, or None
    par,            \* rows of hydra_oauth2_par
    \* requests
    pc,
    kind,           \* what it is, once begun
    update,         \* the client as UpdateClient is to write it, or None
    seen,           \* the row UpdateClient has read, or None
    \* history
    retried,                    \* updates that were run more than once
    oldSecrets, oldTokens,      \* the ones that were replaced
    pushed                      \* all that were pushed

tables == <<row, par, oldSecrets, oldTokens, pushed>>
vars == <<isolation, now, tables, pc, kind, update, seen, retried>>

Kinds == {"none", "create", "set", "patch", "lifespans", "dynamic set", "delete", "push"}
Labels == {"idle", "update", "write", "delete", "push", "done"}

TypeOK ==
    /\ isolation \in Isolations
    /\ now \in 0 .. MaxTime
    /\ row \in Client \cup {None} /\ par \subseteq Pushed
    /\ pc \in [Requests -> Labels] /\ kind \in [Requests -> Kinds]
    /\ update \in [Requests -> Client \cup {None}] /\ seen \in [Requests -> Client \cup {None}]
    /\ retried \subseteq Requests /\ oldSecrets \subseteq Secret /\ oldTokens \subseteq Requests
    /\ pushed \subseteq Pushed

Init ==
    /\ isolation \in Isolations
    /\ now = 0
    /\ row = None /\ par = {}
    /\ pc = [u \in Requests |-> "idle"] /\ kind = [u \in Requests |-> "none"]
    /\ update = [u \in Requests |-> None] /\ seen = [u \in Requests |-> None]
    /\ retried = {} /\ oldSecrets = {} /\ oldTokens = {} /\ pushed = {}

Tick ==
    /\ now < MaxTime
    /\ now' = now + 1
    /\ UNCHANGED <<isolation, tables, pc, kind, update, seen, retried>>

SecretOf(r) == IF r = None THEN {} ELSE {r.secret} \ {None}
TokenOf(r) == IF r = None THEN {} ELSE {r.token} \ {None}

\* The row becomes r.
SetRow(r) ==
    /\ row' = r
    /\ oldSecrets' = oldSecrets \cup (SecretOf(row) \ SecretOf(r))
    /\ oldTokens' = oldTokens \cup (TokenOf(row) \ TokenOf(r))
    /\ UNCHANGED <<par, pushed>>

\* A request begins: it is a k, has c to write, and goes on at the label.
Begin(u, k, c, at) ==
    /\ pc[u] = "idle"
    /\ pc' = [pc EXCEPT ![u] = at]
    /\ kind' = [kind EXCEPT ![u] = k]
    /\ update' = [update EXCEPT ![u] = c]

\* What u sends, or has generated for it.
Plain(u) == [of |-> u, form |-> "plain"]

\* ClientHasher().Hash does not look whether it is given a hash.
Hash(secret) == [secret EXCEPT !.form = IF @ = "plain" THEN "hash" ELSE "garbled"]

(***************************************************************************)
(* The handlers.                                                           *)
(***************************************************************************)
\* createOAuth2Client and createOidcDynamicClient: the secret may be generated,
\* the registration access token always is.
Create(u) ==
    /\ Begin(u, "create", None, "done")
    /\ row = None
    /\ SetRow([secret |-> Hash(Plain(u)), token |-> u, uris |-> u])
    /\ UNCHANGED <<isolation, now, seen, retried>>

\* setOAuth2Client: the registration access token is not part of the payload.
Set(u, secret) ==
    /\ Begin(u, "set", [secret |-> secret, token |-> None, uris |-> u], "update")
    /\ UNCHANGED <<isolation, now, tables, seen, retried>>

\* Mutant: a patch that leaves the secret alone takes the hash along.
PatchKeepingSecret(u, secret, own) ==
    /\ row # None
    /\ Begin(u, "patch", [secret |-> IF secret = None THEN row.secret ELSE secret, token |-> None,
                          uris |-> IF own THEN u ELSE row.uris], "update")
    /\ UNCHANGED <<isolation, now, tables, seen, retried>>

\* Mutant: the registration access token survives the patch.
PatchKeepingToken(u, secret, own) ==
    /\ row # None
    /\ Begin(u, "patch", [secret |-> secret, token |-> row.token,
                          uris |-> IF own THEN u ELSE row.uris], "update")
    /\ UNCHANGED <<isolation, now, tables, seen, retried>>

\* patchOAuth2Client: the client goes through JSON, which leaves out the signature
\* of the registration access token, and back; a secret that is not patched is
\* emptied.
Patch(u, secret, own) ==
    /\ row # None
    /\ Begin(u, "patch", [secret |-> secret, token |-> None,
                          uris |-> IF own THEN u ELSE row.uris], "update")
    /\ UNCHANGED <<isolation, now, tables, seen, retried>>

\* setOAuth2ClientLifespans: the row as it was read, but for the lifespans.
SetLifespans(u) ==
    /\ row # None
    /\ Begin(u, "lifespans", [row EXCEPT !.secret = None], "update")
    /\ UNCHANGED <<isolation, now, tables, seen, retried>>

\* setOidcDynamicClient, for who presents the token of the row (ValidDynamicAuth);
\* "Regenerate the registration access token".
SetDynamic(u) ==
    /\ row # None /\ row.token # None
    /\ Begin(u, "dynamic set", [secret |-> None, token |-> u, uris |-> u], "update")
    /\ UNCHANGED <<isolation, now, tables, seen, retried>>

\* deleteOAuth2Client and deleteOidcDynamicClient: the client is looked for,
Delete(u) ==
    /\ row # None
    /\ Begin(u, "delete", None, "delete")
    /\ UNCHANGED <<isolation, now, tables, seen, retried>>

\* then deleted.
DeleteClient(u) ==
    /\ pc[u] = "delete"
    /\ pc' = [pc EXCEPT ![u] = "done"]
    /\ SetRow(None)
    /\ UNCHANGED <<isolation, now, kind, update, seen, retried>>

(***************************************************************************)
(* UpdateClient, a transaction.                                            *)
(***************************************************************************)
ReadClient(u) ==
    /\ pc[u] = "update" /\ row # None
    /\ pc' = [pc EXCEPT ![u] = "write"]
    /\ seen' = [seen EXCEPT ![u] = row]
    /\ UNCHANGED <<isolation, now, tables, kind, update, retried>>

\* The secret to be written: that of the row if there is none, or the hash of
\* what is there.
Filled(u) == IF update[u].secret = None THEN seen[u].secret ELSE Hash(update[u].secret)

Written(u) == [update[u] EXCEPT !.secret = Filled(u)]

WriteRow(u) ==
    /\ pc[u] = "write"
    /\ pc' = [pc EXCEPT ![u] = "done"]
    /\ SetRow(Written(u))
    /\ UNCHANGED <<isolation, now, kind, update, seen, retried>>

\* Mutant: a row is inserted if there is none.
WriteClientAnyway(u) == WriteRow(u)

\* Mutant: the row is read and written without a transaction.
WriteClientAlone(u) == row # None /\ WriteRow(u)

\* All columns are written.  No row is ErrNoRows; another row than was read is a
\* conflict, for a database that notices.
WriteClient(u) == row # None /\ (isolation = "serializable" => row = seen[u]) /\ WriteRow(u)

\* Transaction: after a conflict with any other transaction of the database all is
\* rolled back and the function called again, but the client it works on keeps the
\* secret that was filled in.
Retry(u) ==
    /\ pc[u] = "write" /\ isolation = "serializable"
    /\ pc' = [pc EXCEPT ![u] = "update"]
    /\ update' = [update EXCEPT ![u] = Written(u)]
    /\ seen' = [seen EXCEPT ![u] = None]
    /\ retried' = retried \cup {u}
    /\ UNCHANGED <<isolation, now, tables, kind>>

\* A failure: the request is not valid, the client is gone, a statement fails or
\* has met conflicts for too long.
Refuse(u) ==
    /\ pc[u] \in {"update", "write", "push"}
    /\ pc' = [pc EXCEPT ![u] = "done"]
    /\ UNCHANGED <<isolation, now, tables, kind, update, seen, retried>>

(***************************************************************************)
(* Pushed authorization requests.                                          *)
(***************************************************************************)
\* oAuth2PushedAuthorize: the request is validated against the client that was
\* read,
Push(u) ==
    /\ row # None
    /\ Begin(u, "push", row, "push")
    /\ UNCHANGED <<isolation, now, tables, seen, retried>>

\* CreatePARSession: and stored, whether or not the client is still there.
CreatePARSession(u) ==
    /\ pc[u] = "push"
    /\ pc' = [pc EXCEPT ![u] = "done"]
    /\ LET s == [by |-> u, uris |-> update[u].uris, exp |-> now + Lifespan]
       IN  par' = par \cup {s} /\ pushed' = pushed \cup {s}
    /\ UNCHANGED <<isolation, now, row, oldSecrets, oldTokens, kind, update, seen, retried>>

\* GetPARSession, as authorizeRequestFromPAR calls it for every step of a login:
\* what a browser with the request_uri of s is sent on with.
Resolves(s) == s \in par /\ now < s.exp /\ row # None

\* Mutant: the janitor takes notAfter as it is given.
FlushPARAhead(notAfter) ==
    /\ par' = {s \in par : s.exp >= notAfter}
    /\ UNCHANGED <<isolation, now, row, oldSecrets, oldTokens, pushed, pc, kind, update, seen,
                   retried>>

\* FlushInactivePARSessions: "notAfter is capped at the current time".  expires_at
\* is the expiry of the session; where the column has no fractions of a second it
\* may be up to a second earlier or later.
FlushPAR(notAfter) ==
    /\ par' = {s \in par : s.exp >= IF now < notAfter THEN now ELSE notAfter}
    /\ UNCHANGED <<isolation, now, row, oldSecrets, oldTokens, pushed, pc, kind, update, seen,
                   retried>>

Next ==
    \/ Tick
    \/ \E notAfter \in 0 .. MaxTime + Lifespan + 1 : FlushPAR(notAfter)
    \/ \E u \in Requests :
          \/ Create(u)
          \/ \E secret \in {Plain(u), None} : Set(u, secret)
          \/ \E secret \in {Plain(u), None}, own \in BOOLEAN : Patch(u, secret, own)
          \/ SetLifespans(u) \/ SetDynamic(u) \/ Delete(u) \/ DeleteClient(u)
          \/ ReadClient(u) \/ WriteClient(u) \/ Retry(u) \/ Refuse(u)
          \/ Push(u) \/ CreatePARSession(u)

Spec == Init /\ [][Next]_vars

(***************************************************************************)
(* Properties.                                                             *)
(***************************************************************************)
\* A secret that was replaced works again only where transactions are read
\* committed, and only by an update without a secret that had read it before
\* (UpdateClient, patchOAuth2Client).
SecretReturnsStale ==
    (row # None /\ row.secret.form = "hash" /\ row.secret \in oldSecrets) =>
        /\ isolation = "read_committed"
        /\ \E u \in Requests :
              /\ pc[u] = "done" /\ update[u] # None /\ update[u].secret = None
              /\ seen[u] # None /\ seen[u].secret = row.secret

\* A client is left with a secret that nobody knows only by an update that was run
\* again after a conflict, and that found in its payload the hash that its earlier
\* attempt had put there; handlers themselves never pass a hash on (UpdateClient,
\* patchOAuth2Client, setOAuth2ClientLifespans).
SecretSpoiltByRetry ==
    (row # None /\ row.secret.form # "hash") =>
        \E u \in retried :
            pc[u] = "done" /\ update[u] # None /\ row.secret = Hash(update[u].secret)

\* "If you pass `client_secret` the secret is used, otherwise the existing secret
\* is used": there always is a secret that someone knows (setOAuth2Client).
SecretUsable == row # None => row.secret.form = "hash"

\* A registration access token that was replaced works again only by an update of
\* the lifespans that had read it before (setOidcDynamicClient, ValidDynamicAuth).
TokenReturnsWithLifespans ==
    (row # None /\ row.token \in oldTokens) =>
        \E u \in Requests :
            /\ pc[u] = "done" /\ kind[u] = "lifespans"
            /\ update[u] # None /\ update[u].token = row.token

\* An update that was under way when the client was deleted does not bring it back
\* (UpdateClient: no row is an error).
DeletedStaysDeleted ==
    [][(row = None /\ row' # None) => \E u \in Requests : pc[u] = "idle" /\ kind'[u] = "create"]_vars

\* "a session that has not expired yet is never deleted": as long as the client
\* exists, a pushed request resolves until it expires, whatever the janitor is
\* asked to delete (FlushInactivePARSessions).
LiveRequestResolves == \A s \in pushed : (row # None /\ now < s.exp) => Resolves(s)

\* An inductive invariant.  What a request brings is new as long as the request is
\* under way; what it is to write is what it brought, or the hash that an earlier
\* attempt has left.
Fresh(u) ==
    /\ \A s \in SecretOf(row) \cup oldSecrets : s.of # u
    /\ u \notin TokenOf(row) \cup oldTokens
    /\ \A v \in Requests \ {u} :
          u \notin TokenOf(update[v]) /\ \A s \in SecretOf(update[v]) : s.of # u
    /\ \A v \in Requests : \A s \in SecretOf(seen[v]) : s.of # u

SecretSound(u) ==
    IF u \in retried THEN update[u].secret # None /\ update[u].secret.form # "plain"
                     ELSE update[u].secret \in {Plain(u), None}

RequestSound(u) ==
    /\ pc[u] = "idle" => kind[u] = "none"
    /\ pc[u] \in {"idle", "update", "write"} => Fresh(u)
    /\ pc[u] \in {"update", "write"} =>
          /\ update[u] # None /\ SecretSound(u)
          /\ kind[u] # "lifespans" => update[u].token \in {u, None}
    /\ pc[u] = "write" => seen[u] # None /\ seen[u].secret # None /\ seen[u].secret.form # "plain"
    /\ pc[u] = "push" => update[u] # None
    /\ u \in retried => pc[u] \in {"update", "write", "done"}

\* Where conflicts go unnoticed nothing is retried, and every secret works.
NoRetrySound ==
    isolation = "read_committed" =>
        /\ retried = {}
        /\ row # None => row.secret.form = "hash"
        /\ \A u \in Requests : seen[u] # None => seen[u].secret # None /\ seen[u].secret.form = "hash"

\* Nothing that has not expired is taken out of the table.
ParSound == \A s \in pushed : now < s.exp => s \in par

IndInv ==
    /\ TypeOK
    /\ row # None => row.secret # None /\ row.secret.form # "plain"
    /\ \A u \in Requests : RequestSound(u)
    /\ ParSound
    /\ NoRetrySound
    /\ SecretReturnsStale
    /\ SecretSpoiltByRetry
    /\ TokenReturnsWithLifespans
=============================================================================
