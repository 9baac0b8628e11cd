# TLA+ models of Ory Hydra

This directory specifies the parts of Hydra that decide who gets a token and how
long it is valid, checks them with TLC on small instances and proves the central
properties with TLAPS for every instance. `PROJECT.json` lists the runs, the
lines of Go each definition stands for, the hazards the properties are aimed at,
the disagreements found, and the theorems.

Paths below are relative to `src/`.

## 1. The system

Hydra is a stateless Go server (several instances may run) over one SQL database.
`fosite/` is the OAuth 2.0 library it embeds, `persistence/sql` the storage,
`consent/` and `flow/` the delegation of login and consent to other
applications, `oauth2/` the HTTP handlers.

| component | state | operations | what is hard | what makes it correct |
|---|---|---|---|---|
| authorization code grant (`fosite/handler/oauth2/flow_authorize_code_*.go`) | rows of `hydra_oauth2_code`, `_oidc` | issue, exchange, replay | the first phase checks outside any transaction, the hooks take any time, the second phase writes | one exchange per code; a replay ends the family |
| refresh token grant (`flow_refresh.go`, `persister_oauth2.go`) | `hydra_oauth2_refresh` (active, first_used_at, used_times), `_access` | strict and graceful rotation, reuse detection | concurrent rotations, reuse during a rotation, isolation level | one valid pair (strict), bounded reuse (graceful), nothing after a kill |
| PKCE (`fosite/handler/pkce`) | `hydra_oauth2_pkce` | store, look up, delete, compare | the row is deleted before the comparison | no exchange of a challenged code without its verifier |
| revocation (`revocation.go`, `revoke_handler.go`) | the token tables | delete a family | failing statements, tokens already rotated, requests under way | what a revocation has deleted stays dead, a token it did not find is invalid |
| administration and janitor (`consent/handler.go`, `oauth2/handler.go`, `cmd/cli/handler_janitor.go`) | all tables | revoke consents and sessions, delete access tokens, flush | at any moment of the above | revoked stays revoked |
| token hooks (`oauth2/token_hook.go`) | none | HTTP call between the phases | stretches the window between check and use | the second phase may not rely on the first |
| login and consent (`consent/strategy_default.go`, `flow/`) | encrypted copies of the flow held by browsers and apps, CSRF and session cookies | request, accept, verify, skip | copies are never consumed; tabs share cookies; sessions and consents end meanwhile | codes and cookies stay in the browser that began the flow; skipping rests on a real consent |
| login sessions and consents (`persister_consent.go`) | `hydra_oauth2_authentication_session`, `hydra_oauth2_flow` | upsert, insert, delete with cascades | row and code are written in different transactions | a code has its consent behind it |
| logout | `hydra_oauth2_logout_request` | request, accept, complete, notify | verifiers are reusable, cookie and request may disagree, a session changes its subject, calls outlive the request | a logout ends the session it was asked for, after its clients were called |
| device grant (`rfc8628`) | `hydra_oauth2_device_auth_codes` | user code, poll, exchange | concurrent polls | one exchange per device code, for a consent given for that device |
| DPoP, pre-authorized codes | used proof ids, codes | check and mark | check-then-mark | one token per code; a proof is shared by overlapping requests at most |
| PAR | `hydra_oauth2_par` | push, resolve, flush | the janitor and browsers still on their way | resolves until it expires |
| client assertions, JWT bearer | `hydra_oauth2_jti_blacklist` | check and set | expiry races the check | no assertion is accepted twice before it expires |
| JWKs | `hydra_jwk` | lazy generation, rotation | several instances generate at once | one key per process, every key that signs is published |
| clients (`client/handler.go`, `persister_client.go`) | `hydra_client` | create, replace, patch, lifespans, dynamic registration, delete | the update reads the row, inside or outside its transaction, writes all columns, and is run again after a conflict | what was replaced does not come back; what is stored works |
| wallet attestation, RAR, formats, configuration | none | validation | little | not modelled, see section 8 |

How they interact: the authorization endpoint drives the login and consent flow;
its last step stores the flow's row and then, in another transaction, the code
with its PKCE and OpenID Connect rows, all of which reference the flow's row with
`ON DELETE CASCADE`. The token endpoint turns a code into a *family* of tokens
that share the code's `request_id`. Revoking a consent deletes the flow's row and
so the family.

## 2. Modules

| module | models | extends / instances |
|---|---|---|
| `TokenEndpoint` | `POST /oauth2/token` (code and refresh grants), `POST /oauth2/revoke`, administration, janitor, time | instances `TokenFamily` |
| `TokenFamily` | abstract: what the tokens that descend from one code promise | |
| `LoginConsent` | `GET /oauth2/auth`, the admin endpoints that accept requests, login sessions, consents | instances `Authorization` |
| `Authorization` | abstract: what login and consent promise about the codes they hand out | |
| `Logout` | `GET /oauth2/sessions/logout`, the logout app's answers, back-channel logout, `DELETE .../auth/sessions/login` | |
| `DeviceGrant` | `POST /oauth2/device/auth`, `/oauth2/device/verify`, polls at the token endpoint | instances `TokenFamily` |
| `OneTimeUse` | token requests with client assertions, JWT bearer grants, DPoP proofs, pre-authorized codes | instances `TokenFamily` |
| `KeySet` | the keys that sign JWTs, `/.well-known/jwks.json`, `/admin/keys` | |
| `ClientRegistry` | `/admin/clients`, `/oauth2/register`, `POST /oauth2/par`, the flush of pushed requests | |

Each has a module `MC...` with the symmetry and the functions for TLC's constants
and, except for the two abstract ones, a module `...Proofs` with its theorems. The modules
are separate specifications: they share tables only at the points listed with each
of them, and each models what the others do there as an action of its environment.

### TokenEndpoint

Each table is a variable (`code`, `pkce`, `oidc`, `access`, `refresh`,
`usedTimes`); tokens are named by the request that issued them, a family by its
code. Each HTTP request is a process with a program counter `pc`:

    idle -> pkce -> pkce_delete -> hook -> populate -> commit -> done      code
    idle -> hook -> populate -> commit -> done                             refresh
    idle -> replay_access -> replay_refresh -> replayed                    used code
    idle -> kill -> kill_commit -> killed                                  reuse, revocation
    idle -> kill -> missed                                                 revocation, token not found

A refresh begins with `kill` when its token was reused. `unrevoked` is the end of a
revocation or a replay whose statements failed, `failed` that of any other request.
A revocation is answered with 200 whether it ends in `killed`, `missed` or `unrevoked`.

Each arrow of the first phase is one SQL statement outside any transaction. The
second phase, one transaction in the code, is two steps: `Begin...` is its first
statement, `Commit...` the rest. That is the smallest split that tells the
isolation levels apart. With `Serializable = TRUE` (CockroachDB, SQLite) a
transaction whose first statement would by now have another outcome cannot
commit and is retried (`popx.Transaction`). With `FALSE` (PostgreSQL's READ
COMMITTED, since `popx` sets no level) it goes on with what it did, and later
statements see what is committed by then. Foreign keys hold at both levels.
MySQL's REPEATABLE READ lies between the two and is not a case of its own.

`Abandon` covers refusals by a hook, lost clients, failing statements and the
end of the process: whatever was not committed is rolled back, whatever the
first phase wrote stays. `StorageFaults` adds the failures that the code
swallows: of the replay's two revocations and of the revocation endpoint. A
rotation that finds nothing to rotate (`NothingToRotate`) has lost a race: it is rolled
back and the request refused.
Refusals that change nothing are not steps. Expiry, the end of a grace period
and the janitor may happen at any time.

Left out: what is inside a token; legacy refresh rows without
`access_token_signature`; configuration changes while requests run; lifespans of
single clients (the janitor may therefore flush an unexpired token); more than
one client. It is assumed that pop's `Delete` reports no error when it matches no row,
which makes the early return in `strictRefreshRotation` unreachable, and that a code
is not issued again after its consent was revoked (section 5 says when it is).

### LoginConsent

A flow under way is not stored: challenges and verifiers are encrypted copies of
it. The model has them as sets that only grow, so every copy can be submitted
again, by any browser, until `ExpireFlow`. Per browser there is one session
cookie and one CSRF cookie of each kind. `RequestLogin` and `SkipLogin` begin a
flow, `AcceptLogin` and `AcceptConsent` are the admin endpoints,
`RememberLogin`, `ForgetLogin`, `ForgetGoneSession` and `LoginRequired` are the
outcomes of `verifyAuthentication` (with `requestConsent`, which runs in the same
request), `VerifyConsent` stores the row and then compares the CSRF cookie,
`IssueAuthorizeCode` is the following transaction. `codes` records which browser
received a code.

Left out: rejected requests (their verifiers change nothing), subject
obfuscation, scopes (whether the client asks for more than it was granted is a
free choice), several clients, `max_age` (a free choice between `RequestLogin`
and `SkipLogin`), the logout request itself (`CompleteLogout` is its last step;
module `Logout` has the rest).

The refinement mapping to `Authorization` forgets challenges, verifiers and cookies:
`began` has a flow with the browser of its challenge, `logins` the answers to login
challenges that were not skipped, `approvals` and `remembered` the answers to consent
challenges that were not skipped, `grants` the stored rows. A skipped login or consent,
every comparison of cookies and every replay is then a stutter, or a step that the
abstract specification allows for reasons of its own.

### Logout

A session has the subject that signed in last; a link is a row of the flow table with
its session, its client and the subject of its flow. A logout request is a row with the
session and the subject it is about, whether a relying party asked for it (`rp`), and its
state. A request that completes a logout is a process:

    idle -> verified -> listing -> listed -> deleting -> answering -> done

`VerifyLogout` reads the row (it stays verifiable), `CheckSession` and `SkipLogout`
(back to `idle`) compare the subject of the cookie. `ListTasks` is the query for the
clients of that session and that subject, `StartCalls` the start of the goroutines, which
comes after the key was asked for and every token signed; the goroutines (`call`) go on
alone and may fail (`EndCall`). `DeleteSession` deletes the session by its id, with its
links, `Answer` sends the response that clears the cookie, `FailLogout` the error that does
so too. `HeadlessLogout` enters at `listing`. `SignIn`, `Link`, `Unlink` stand for
what `LoginConsent` does to the same tables; a login of another subject takes a session
over. Left out: front-channel URLs, which come from the same query and are part of the
answer only; sessions that are not remembered; what a client does with the call.

### DeviceGrant

`device` is the table of device codes, `openid` the OpenID Connect rows, `consent`
the flows' rows. A verification stores its flow (`VerifyConsent`), reads the device
row (`ReadDevice`) and accepts it in a transaction (`CommitVerification`); several
flows may be under way for one device, and one user code may serve two devices one
after the other. A poll looks at the device code twice, before and after the token
hook; at READ COMMITTED the second look and the writes are two steps. `isolation` is
chosen in the initial state and never changes. Left out: login, which is that of
`LoginConsent`; clients and audiences; a limit on polling, which the code lacks.
Its refinement of `TokenFamily` has a family per device code, which is opened when the
row is gone, by an exchange or because the consent was withdrawn; a refresh token comes
with the scope `offline_access`.

### OneTimeUse

Each request goes through the steps `check_jti`, `purge`, `insert_jti` (the table of
JWT identifiers), `check_proof`, `mark_proof` (that of DPoP proofs), `read_code`,
`redeem`, `details`, `issue`; each is one SQL statement or one in-memory step of a handler in
the order in which the handlers are registered. Time runs in half seconds because one
validator compares whole seconds and the table instants. `Refuse` may happen at any
step, and so stands for every check that only refuses: signatures, audiences,
nonces (which are signed timestamps, without state), transaction codes, and the end
of the process. Left out: the creation of pre-authorized codes; what a token says
but for the DPoP binding. Its refinement of `TokenFamily` has a family per code, which is
opened when the request that has redeemed the code has stored its token or failed.

### KeySet

One key set with its rows; the lock of each process; signers that ask for the kid
and later for the key; readers of the discovery endpoint, which generates without
the lock; the five changes administrators can make; crashes. `created_at` comes from
the clocks of different instances, so its order is free (`Times`). Left out: key
material, algorithms, and sets kept in a hardware security module (`hsm/`).

### ClientRegistry

`isolation` is chosen in the initial state, as in `DeviceGrant`. One client: its secret, its registration access token and the rest (`uris`), each
named by the request that brought it. A secret is plain, a hash, or the hash of a hash. An update is begun by its handler, which may
read the row (`Patch`, `SetLifespans`), and goes on with the transaction of
`UpdateClient`: `ReadClient`, `WriteClient`. `Retry` is `popx.Transaction` calling its
function again after a conflict: the rows are as before, but the client that the function
works on keeps the secret that the first attempt has filled in or hashed. `Patch` and `Set` write no registration
token, since the signature is not part of the JSON (`json:"-"`). `Push` validates
a request against the client that was read, `CreatePARSession` stores it. Resolving
changes nothing, so it is a state function (`Resolves`). `expires_at` is taken as exact;
where the column is a MySQL `TIMESTAMP` without fractions it may be off by a second. Left out: the validation of
single values, listing, several clients (they share nothing).

## 3. Hazards and properties

`PROJECT.json` has one entry per hazard with its line. The properties:

*TokenEndpoint.* `SingleRedemption`, `StrictSinglePair`, `ParentRetired`,
`GraceBound` (check-then-act across the hook), `KilledIsFinal`,
`RevokedConsentIsFinal`, `ReplayLeavesNoRefresh` (a deletion against requests
already past their checks), `VerifierChecked` (retry after a partial failure),
`OpenIDRowFollowsCode` (rows in step across crashes), `ImplementsFamily`
(refinement), `RequestsAreAnswered` (liveness), `IndInv`.

*LoginConsent.* `CodeToStarter`, `CookieFromOwnLogin` (replay across browsers
and tabs), `SkipRootedInConsent`, `ImplementsAuthorization` (several answers,
revocation between two transactions, skipping on top of skipping), `PromptHonoured`,
`IndInv`.

*Logout.* `ConfirmedLogout` (reusable verifiers, changed cookies),
`NotifiedBeforeGone` (list, tell, delete in separate statements, a session that changes
its subject), `CalledTwiceOverlaps` (duplicate submits, calls that start long after the
list was read).

*DeviceGrant.* `ImplementsDeviceFamily` (concurrent polls, withdrawal during a poll), `DeviceTokensBacked` (several
flows for one user code, revocation during a poll), and in its `IndInv`
`AcceptedForTyped` (a user code that is handed out again).

*OneTimeUse.* `AcceptedOnceInTime` (check, purge, insert around the expiry),
`ProofReplayOverlaps` (check-then-mark), `ImplementsCodeFamily` (failures after the redemption), `TokenEarned` (a
session that is replaced between two handlers).

*KeySet.* `OneKeyPerInstance`, `SignedIsPublished` (several generators, failures),
`EverySignerAnswered` (a lock held by someone who fails), `KidNamesKey` (section 5).

*ClientRegistry.* `SecretReturnsStale`, `TokenReturnsWithLifespans`,
`DeletedStaysDeleted` (updates that overlap), `SecretSpoiltByRetry` and `SecretUsable`
(section 5; updates that are run again), `LiveRequestResolves` (the janitor).

Each property of a passing run has a mutant: an operator that changes a modelled
definition the way a bug in the Go code would, and that makes TLC report the
property. Mutants stand before the definition they change.

## 4. Passing runs

| run | instance | checks |
|---|---|---|
| `TokenStrict` | 1 code, 4 requests, strict, PKCE enforced, serializable, storage faults (1 million states) | `IndInv`, `SingleRedemption`, `StrictSinglePair`, `KilledIsFinal`, `ReplayLeavesNoRefresh`, `VerifierChecked` |
| `TokenReadCommitted` | 1 code without a challenge, 4 requests, READ COMMITTED, graceful with reuse count 2, storage faults (880 thousand states) | `RevokedConsentIsFinal`, `OpenIDRowFollowsCode`, `GraceBound`, `ParentRetired` |
| `TokenProgress` | 1 code, 3 requests, `FairSpec`, no symmetry | `RequestsAreAnswered`, `ImplementsFamily` |
| `LoginConsent` | 2 flows, browsers, subjects, consent ids; 2 answers of each kind; with and without prompt=none and an id_token_hint; 1 flow expires (930 thousand states) | `IndInv`, `CodeToStarter`, `CookieFromOwnLogin`, `SkipRootedInConsent`, `PromptHonoured`, `ImplementsAuthorization` |
| `Logout` | 2 logins in 1 browser, into one session or two and of one subject or two, 1 client, 1 logout request, 2 handlers (2.4 million states) | `IndInv`, `NotifiedBeforeGone`, `ConfirmedLogout`, `CalledTwiceOverlaps` |
| `DeviceGrant` | 2 devices, 1 user code, 2 flows, 2 verifications, 2 polls, both isolation levels (640 thousand states) | `IndInv`, `ImplementsDeviceFamily`, `DeviceTokensBacked` |
| `OneTimeUse` | 3 requests, 1 client assertion, 1 JWT bearer grant, 1 proof, 1 code, half seconds 1 to 3 with the expiry at 2, anonymous access (2 million states) | `IndInv`, `AcceptedOnceInTime`, `ProofReplayOverlaps`, `ImplementsCodeFamily`, `TokenEarned` |
| `KeySet` | 3 signers in 2 processes, 1 reader, 1 change, `FairSpec` (300 thousand states) | `IndInv`, `OneKeyPerInstance`, `SignedIsPublished`, `EverySignerAnswered` |
| `ClientRegistry` | 4 requests, both isolation levels, lifespan 1 in a time of 1 (1.7 million states) | `IndInv`, `SecretReturnsStale`, `SecretSpoiltByRetry`, `TokenReturnsWithLifespans`, `LiveRequestResolves`, `DeletedStaysDeleted` |

*Why the bounds are enough.* Families of tokens do not share rows except through
`DeleteAccessTokens`, so one code is enough; the runs differ in whether it has a challenge. Four requests are the exchange, two
rivals for its refresh token, and one that kills the family or presents a token of
the next generation; with a reuse count of 2 they are the exchange, two uses of its refresh
token in the grace period, and a third that is one too many. Two flows in two browsers give the shared cookie, the skipped
login and the skipped consent, and two answers a challenge that is answered twice for
different subjects. Two logins are two sessions in one browser, which makes the cookie
and the logout request disagree, or two subjects of one session; and two handlers are a
duplicate submit. Two devices
and one user code give the code that is handed out again, and two flows the device
that is verified twice. Three requests can overlap pairwise
and one after the other; the time before, at and after the expiry is all that the
JWT tables tell apart. Two signers in a process contend for its lock, the third is in
another. Four requests at one client are a creation, an update that overlaps with two
others, or a push, an update and a deletion. Where a property is also proved, which is
every safety property, the bound does not matter.

*Named bounds.* `MaxAnswers` (how many answers to login challenges, and how many to
consent challenges, there are in all), `MaxExpired` (how many flows become too old, which
only disables steps), `MaxLogins` (pairs of session and subject), `MaxTime`, `MaxChanges`, and the sizes of the sets
of requests. Requests, flows, browsers and the like are interchangeable, so
symmetry is used in all runs that check only safety, except where a constant function
tells the values apart. Subjects are not symmetric in `LoginConsent`, since a hint names
one of them.

*Deadlock* is not checked: a finite set of requests or flows is used up.

*Fairness.* `TokenEndpoint!FairSpec` has weak fairness of `Proceeds(r)` for each
request that has begun, `KeySet!FairSpec` of each signer's next step. Each of these
is a goroutine of its own, whose database and hook calls have timeouts, and
`sync.RWMutex` lets every waiting goroutine in; so what can go on does. New requests,
administration, time, crashes and failures are not fair.

## 5. What does not hold

Three runs check a statement of a comment and end in a counterexample; the quotations
are in `PROJECT.json`.

| run | counterexample |
|---|---|
| `ReplayRace` | A refresh that is under way when its code is replayed commits after the access tokens were deleted and before the refresh tokens are: its new access token survives. |
| `KeyRollover` | A key is added between the moment the kid is read (the session is made) and the moment the token is signed: the header names the older key. |
| `SecretRetry` | The transaction of an update meets a conflict and is run again: its payload now holds the hash that the first attempt has put there, the hash of that hash is stored, and no secret works any more. |

Other limits of the guarantees can be seen by changing a setting of a passing run,
or are a known consequence of how the code is built:

* `Serializable = FALSE` refutes `SingleRedemption` (both exchanges read the code as
  active, and the UPDATE that invalidates it is unconditional) and `StrictSinglePair`
  (two rotations, each past its first DELETE).
* In `ClientRegistry` at READ COMMITTED an update without a secret writes back the one
  that it has read, although another was set meanwhile; `SecretReturnsStale` says that
  nothing else brings one back ("otherwise the existing secret is used", `client/handler.go:235`).
* `EnforcePKCE = FALSE` refutes `VerifierChecked`: a failed attempt deletes the
  challenge, the next needs no verifier.
* A revocation whose token was rotated or flushed finds nothing, and is answered with 200
  like one that deleted the family (`revocation.go:57`, `:72`); so is one whose statements
  fail. The tokens that succeeded the presented one stay valid. `KilledIsFinal` says that
  what was deleted stays so, and that a token that was not found is invalid itself.
* A rotated refresh token is accepted again within its grace period and reuse count:
  `ParentRetired` is about its row and its access token, `GraceBound` about how often.
* At READ COMMITTED a second exchange of a code that began before the first committed
  finds no OpenID Connect row and gets no ID token (`OpenIDRowFollowsCode`).
* In `LoginConsent` a login verifier re-creates a revoked login session, and a consent
  verifier stores a revoked consent again, until the flow is too old.
  A consent row whose submission was refused for its CSRF cookie was stored before, and
  counts as remembered; a consent that is revoked between the decision to skip and the
  verifier goes unnoticed. `SkipRootedInConsent` is about consents that were ever answered.
* In `Logout` clients that another subject of the same session uses are not listed, and the
  session is deleted nevertheless. A call that fails is logged and not repeated, and the end
  of the process loses it: `NotifiedBeforeGone` is about calls that were started. Two
  submits that overlap may call a client twice, the second after the session has ended, where
  a comment gives that as the reason for skipping ("that would mean we had called them
  twice"); `CalledTwiceOverlaps` says that only such do. A logout clears the cookie of
  its browser, which may name another session of the same subject.
* In `DeviceGrant` at READ COMMITTED two polls may both exchange a device code; and a
  second verification of a device overwrites the first, where a comment says that only
  one flow was used (`oauth2/handler.go:762`).
* In `OneTimeUse` a client assertion may be accepted again in the half second after
  its expiry, since the validator compares whole seconds; two requests that overlap
  may share a DPoP proof. `AcceptedOnceInTime` and `ProofReplayOverlaps` state what
  remains.
* In `ClientRegistry` an update of the lifespans brings back a registration access
  token that was replaced after it read the client, and with it redirect URIs and all
  other columns, where the documentation of the endpoint says "Does not modify other fields"
  (`client/handler.go:740`) and a test expects 401 for such a token
  (`client/handler_test.go:582`). `TokenReturnsWithLifespans` says that
  nothing else does.

## 6. What is proved

All safety properties and all refinements of the passing runs, for all values of the constants that
satisfy the named assumptions (subsets are subsets, flags Boolean, null values are
not ordinary ones, counts are numbers). In each module the invariant `IndInv` is inductive;
the proofs have one lemma per action, or per action and conjunct, and each
property follows from it or is one of its conjuncts.

`TokenEndpointProofs`. `IndInv` is `TypeOK`, `Lineage` (a stored token's request is
`done`; a request that presents a token works on that token's family) and
`OpenedFirst` (nobody holds or works on tokens of a family before its code is used).
The second and third exclude that tokens appear in a family from a request that has
not yet been counted. From it, each with a strengthening of its own:
`SingleRedemptionHolds`, `StrictSinglePairHolds` (assuming `Serializable`),
`KilledHolds`, `ReplayHolds` (assuming `Serializable`; statements of a revocation may fail),
`ParentRetiredHolds` (assuming `Serializable \/ Graceful`), `VerifierHolds`
(assuming `EnforcePKCE`), `RevokedConsentHolds`, `OpenIDRowHolds`, `GraceBoundHolds`
(no assumption). Section 5 shows that most of the assumptions are needed.
For `KilledHolds`, `InactiveUsed` says that an inactive refresh token has been counted in
`usedTimes`, so that no step makes it usable once a revocation has not found it
(`TokensDecline`). `GraceBoundHolds` relates `usedTimes` to the cardinality of the set of successors.
`Refinement` (assuming `Serializable`): every step is an `Open`, `Extend` or `Shrink`
of `TokenFamily`, or a stutter; a commit of a rotation finds an active refresh token
in the family, and a commit of an exchange a code not yet used. `DeadFamilyStaysDead`
takes a consequence of the abstract specification back to the endpoints: a family without
valid tokens whose code is used or withdrawn has none ever after.

`LoginConsentProofs`. `IndInv` adds `FlowsSound`, `CookiesSound`, `CopiesSound` and
`TablesSound`, which trace each cookie and each copy back to the browser and the
challenge it stems from (together `FlowInv`). `CodeToStarterHolds`, `CookieHolds`,
`SkipRootedHolds`, `CodeBackedHolds`, `PromptHolds` follow. `ImplementsAuthorizationTheorem`
is the refinement: requesting or skipping a login is `Begin`, an answer `LogIn` or
`Approve`, `VerifyConsent` is `Grant`, `IssueAuthorizeCode` is `Issue`, and whatever deletes
rows is `Withdraw`. For its guards `FlowInv` is not enough. `LoginsRooted` says in addition
that every session and every skipped login goes back to a login with credentials in the
same browser, through any number of skipped logins in between, and that every consent
challenge has its login. `CodesAuthorizedTheorem` proves `CodesAuthorized` of the abstract
specification, where it takes a few lines, and concludes it for the flow by the refinement.

`LogoutProofs`. `IndInv` adds `LinksSound` (a link has its session), `RequestsSound` (an
accepted request was confirmed), `ListsSound` (what a request has listed is complete but for
who joined later, and is what it calls) and `EndedSound` (all links of a session that a
request has ended are newer than that). `NotifiedBeforeGoneTheorem` follows from the third,
`CalledTwiceOverlapsTheorem` from the third and the fourth: who lists after the end finds
only newer links.

`DeviceGrantProofs`. `IndInv` adds `RowsSound`, `VerificationsSound` and `PollsSound`:
rows, verifications and polls all speak of the device whose code was typed in, and an
exchanged device code has no row any more on a serializable database, and stored tokens were
exchanged. `DeviceFamilyTheorem`: on a serializable database a poll that finds the row is
`Open`, every other step `Shrink`. `SingleExchangeTheorem` and `DeadDeviceStaysDead` say what
this comes to.

`OneTimeUseProofs`. `IndInv` adds `BlacklistSound` (until the expiry the table has
what was accepted), `ProofsSound` (a request that passed the check of its proof began
before anyone who used the proof was over) and `CodesSound` (a request past the
redemption has the code for itself). `CodeFamilyTheorem`: `Issue` is `Open` for a request
with a code, since by `CodesSound` no token of the code is there and no other request is
between the redemption and its token; every other step is `Shrink`, and in particular no
step makes a spent code redeemable again. It needs no assumption on the isolation level,
as the UPDATE names the state that it expects. `SpentCodeYieldsNothing` is what follows
for a code whose request failed.

`KeySetProofs`. `IndInv` adds `LocksSound`, `MadeSound` (whoever generates has found
none, and its process has made none), `RowsSound` and `KidsDistinct`.

`ClientRegistryProofs`. `IndInv` adds `RequestSound` (what a request brings is new
while it is under way; what it writes is what it brought or, once it was retried, a hash),
`NoRetrySound` (at READ COMMITTED nothing is retried and every stored secret works) and
`ParSound`. None of the theorems assumes an isolation level: `SecretReturnsStaleTheorem` says
that a replaced secret works again only at READ COMMITTED, and only from an update without a
secret that had read it; `SecretSpoiltByRetryTheorem` that a secret that nobody knows is
the doing of an update that was retried, which happens on a serializable database only.

## 7. Only model-checked

`RequestsAreAnswered` and `EverySignerAnswered`: liveness is out
of the prover's reach. The counterexamples of section 5. Conversely, that the device grant
refines `TokenFamily` with refresh tokens is only proved: the run has no scope
`offline_access`, which would take TLC beyond a few minutes.

## 8. Not modelled

Wallet attestation, rich authorization requests, introspection and userinfo, the
grants that carry no state between requests, token formats and cryptography,
hardware security modules,
configuration and wiring; `PROJECT.json` gives the reason for each. The modelled
parts are a small share of the repository's lines, and will stay one: a quarter of
them is the generated API client, and most of the rest are configuration, migrations, vendored helpers
(`oryx/`), command line tools, mocks, validation of values and the formats of tokens
and messages, none of which holds state that several requests share.

Of the modelled components these operations are missing: rejected login and consent requests, whose
verifiers change nothing; obfuscated subjects; trust relationships of the JWT bearer
grant, which are looked up only; the creation of pre-authorized codes; the TLS key at
start-up. DPoP nonces are signed timestamps and need no state. Refresh tokens of the
pre-authorized code grant are returned but not stored, so there is nothing to rotate.

## 9. Plan

1. A composition of `LoginConsent` and `TokenEndpoint` over their abstract specifications:
   the codes of `Authorization` are the families of `TokenFamily`, and a replayed consent
   verifier issues a code again under a revoked `request_id`.
2. Trust relationships and their expiry next to the JWT bearer grant; subject
   obfuscation in `LoginConsent`.
3. An abstract specification of sessions that `Logout` and `LoginConsent` share.

## 10. Running

    tlc -config TokenStrict.cfg MCTokenEndpoint
    tlc -config DeviceGrant.cfg MCDeviceGrant
    tlapm TokenEndpointProofs.tla

The slowest run takes about two minutes on two cores.
