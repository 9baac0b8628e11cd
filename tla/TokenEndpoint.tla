---------------------------- MODULE TokenEndpoint ----------------------------
(***************************************************************************)
(* The token endpoint for the authorization_code and refresh_token grants, *)
(* the revocation endpoint and the administrative deletions, over the      *)
(* tables hydra_oauth2_code, _pkce, _oidc, _access and _refresh.           *)
(*                                                                         *)
(* POST /oauth2/token runs in two phases (oauth2/handler.go): first every  *)
(* handler's HandleTokenEndpointRequest, statement by statement and        *)
(* outside any transaction; then the token hooks, HTTP calls of any        *)
(* length; then every handler's PopulateTokenEndpointResponse inside one   *)
(* transaction.  What the first phase read may be stale in the second.     *)
(*                                                                         *)
(* A request that succeeds stores one access token and one refresh token,  *)
(* so both are named by the request that issued them.  All tokens that     *)
(* descend from one authorization code carry its request_id: they are one  *)
(* family, named by the code.                                              *)
(***************************************************************************)
EXTENDS Naturals, FiniteSets

CONSTANTS
    Codes,          \* authorization codes; each is also a request_id
    Requests,       \* HTTP requests to the token and revocation endpoints
    Challenged,     \* codes whose authorization request had a code_challenge
    OpenIDCodes,    \* codes granted with scope openid
    OfflineCodes,   \* codes granted with scope offline_access
    EnforcePKCE,    \* oauth2.pkce.enforced
    Graceful,       \* grant.refresh_token.rotation_grace_period > 0
    GraceCount,     \* rotation_grace_reuse_count, 0 is "no limit"
    Serializable,   \* isolation level of the database's transactions
    StorageFaults,  \* may a statement of a revocation fail?
    NoCode, NoToken

ASSUME ConstantsAssumption ==
    /\ Challenged \subseteq Codes /\ OpenIDCodes \subseteq Codes
    /\ OfflineCodes \subseteq Codes
    /\ {EnforcePKCE, Graceful, Serializable, StorageFaults} \subseteq BOOLEAN
    /\ GraceCount \in Nat
    /\ NoCode \notin Codes /\ NoToken \notin Requests

VARIABLES
    code,           \* rows of hydra_oauth2_code
    codeExpired,    \* codes whose lifespan is over
    pkce,           \* codes with a row in hydra_oauth2_pkce
    oidc,           \* codes with a row in hydra_oauth2_oidc
    access,         \* rows of hydra_oauth2_access, by issuing request
    refresh,        \* rows of hydra_oauth2_refresh, by issuing request
    usedTimes,      \* column used_times; first_used_at is set iff it is > 0
    graceOver,      \* tokens whose first_used_at + grace period has passed
    refreshExpired, \* refresh tokens whose lifespan is over
    pc,             \* where each request is
    kind,           \* what each request is
    fam,            \* request_id it works on
    tok,            \* refresh token it presented
    verifier,       \* code_verifier it presented
    snap            \* rows matched by its transaction's first statement

tables == <<code, codeExpired, pkce, oidc, access, refresh, usedTimes,
            graceOver, refreshExpired>>
locals == <<pc, kind, fam, tok, verifier, snap>>
vars == <<tables, locals>>

Phases == {"idle", "pkce", "pkce_delete", "hook", "populate", "commit", "done",
           "replay_access", "replay_refresh", "replayed",
           "kill", "kill_commit", "killed", "missed", "unrevoked", "failed"}
Final == {"done", "replayed", "killed", "missed", "unrevoked", "failed"}

\* A revocation presents the refresh token or the access token of a pair.
Revocations == {"revoke_refresh", "revoke_access"}

TypeOK ==
    /\ code \in [Codes -> {"unissued", "active", "used", "gone"}]
    /\ codeExpired \subseteq Codes /\ pkce \subseteq Codes /\ oidc \subseteq Codes
    /\ access \in [Requests -> {"none", "live", "deleted"}]
    /\ refresh \in [Requests -> {"none", "active", "inactive", "deleted"}]
    /\ usedTimes \in [Requests -> Nat]
    /\ graceOver \subseteq Requests
    /\ refreshExpired \subseteq Requests
    /\ pc \in [Requests -> Phases]
    /\ kind \in [Requests -> {"none", "code", "refresh"} \cup Revocations]
    /\ fam \in [Requests -> Codes \cup {NoCode}]
    /\ tok \in [Requests -> Requests \cup {NoToken}]
    /\ verifier \in [Requests -> {"none", "right", "wrong"}]
    /\ snap \in [Requests -> SUBSET Requests]

Init ==
    /\ code = [c \in Codes |-> "unissued"]
    /\ codeExpired = {} /\ pkce = {} /\ oidc = {}
    /\ access = [r \in Requests |-> "none"]
    /\ refresh = [r \in Requests |-> "none"]
    /\ usedTimes = [r \in Requests |-> 0]
    /\ graceOver = {} /\ refreshExpired = {}
    /\ pc = [r \in Requests |-> "idle"]
    /\ kind = [r \in Requests |-> "none"]
    /\ fam = [r \in Requests |-> NoCode]
    /\ tok = [r \in Requests |-> NoToken]
    /\ verifier = [r \in Requests |-> "none"]
    /\ snap = [r \in Requests |-> {}]

(***************************************************************************)
(* The tables.                                                             *)
(***************************************************************************)
RefreshRow(q) == refresh[q] \in {"active", "inactive"}
RefreshRows(c) == {q \in Requests : fam[q] = c /\ RefreshRow(q)}
ActiveRefresh(c) == {q \in Requests : fam[q] = c /\ refresh[q] = "active"}
LiveAccess(c) == {q \in Requests : fam[q] = c /\ access[q] = "live"}

\* GetRefreshTokenSession: an inactive token still counts as active while its
\* grace period lasts and its reuse count is not exhausted.
UsedUp(q) == GraceCount > 0 /\ usedTimes[q] >= GraceCount
InGrace(q) == Graceful /\ usedTimes[q] > 0 /\ q \notin graceOver /\ ~UsedUp(q)
Usable(q) == refresh[q] = "active" \/ (refresh[q] = "inactive" /\ InGrace(q))

\* deleteSessionByRequestID and deleteSessionBySignature
DeleteAccess(S) == [q \in Requests |-> IF q \in S /\ access[q] = "live"
                                       THEN "deleted" ELSE access[q]]
DeleteRefresh(S) == [q \in Requests |-> IF q \in S /\ RefreshRow(q)
                                        THEN "deleted" ELSE refresh[q]]

Goto(r, phase) == pc' = [pc EXCEPT ![r] = phase]
Start(r, k, c, q, v) ==
    /\ pc[r] = "idle"
    /\ kind' = [kind EXCEPT ![r] = k]
    /\ fam' = [fam EXCEPT ![r] = c]
    /\ tok' = [tok EXCEPT ![r] = q]
    /\ verifier' = [verifier EXCEPT ![r] = v]
    /\ UNCHANGED <<tables, snap>>
Local == UNCHANGED <<kind, fam, tok, verifier>>

(***************************************************************************)
(* The authorization endpoint stores the code, its PKCE session and its    *)
(* OpenID Connect session in one transaction.                              *)
(***************************************************************************)
IssueCode(c) ==
    /\ code[c] = "unissued"
    /\ EnforcePKCE => c \in Challenged
    /\ code' = [code EXCEPT ![c] = "active"]
    /\ pkce' = pkce \cup ({c} \cap Challenged)
    /\ oidc' = oidc \cup ({c} \cap OpenIDCodes)
    /\ UNCHANGED <<codeExpired, access, refresh, usedTimes, graceOver,
                   refreshExpired, locals>>

ExpireCode(c) ==
    /\ code[c] = "active" /\ c \notin codeExpired
    /\ codeExpired' = codeExpired \cup {c}
    /\ UNCHANGED <<code, pkce, oidc, access, refresh, usedTimes, graceOver,
                   refreshExpired, locals>>

(***************************************************************************)
(* grant_type=authorization_code, first phase.                             *)
(***************************************************************************)
\* AuthorizeExplicitGrantHandler.HandleTokenEndpointRequest accepts the code.
\* Its refusals change nothing and are not steps.
HandleCode(r, c, v) ==
    /\ Start(r, "code", c, NoToken, v)
    /\ code[c] = "active" /\ c \notin codeExpired
    /\ Goto(r, "pkce")

\* ... or finds the code used: two revocations, each its own transaction.
HandleUsedCode(r, c) ==
    /\ Start(r, "code", c, NoToken, "none")
    /\ code[c] = "used"
    /\ Goto(r, "replay_access")

\* An error of either statement only goes into the hint of the answer.
ReplayRevokeAccess(r) ==
    /\ pc[r] = "replay_access"
    /\ \/ access' = DeleteAccess(LiveAccess(fam[r]))
       \/ StorageFaults /\ UNCHANGED access
    /\ Goto(r, "replay_refresh")
    /\ Local
    /\ UNCHANGED <<code, codeExpired, pkce, oidc, refresh, usedTimes, graceOver,
                   refreshExpired, snap>>

RevokeRefreshAfterReplay(r, rows) ==
    /\ pc[r] = "replay_refresh"
    /\ \/ refresh' = DeleteRefresh(rows) /\ Goto(r, "replayed")
       \/ StorageFaults /\ UNCHANGED refresh /\ Goto(r, "unrevoked")
    /\ Local
    /\ UNCHANGED <<code, codeExpired, pkce, oidc, access, usedTimes, graceOver,
                   refreshExpired, snap>>

\* Mutant: only active refresh tokens are revoked.
ReplayKeepsInactive(r) == RevokeRefreshAfterReplay(r, ActiveRefresh(fam[r]))

ReplayRevokeRefresh(r) == RevokeRefreshAfterReplay(r, RefreshRows(fam[r]))

\* pkce.Handler.HandleTokenEndpointRequest: GetPKCERequestSession ...
GetPKCE(r) ==
    /\ pc[r] = "pkce"
    /\ Goto(r, IF fam[r] \in pkce THEN "pkce_delete"
               ELSE IF verifier[r] = "none" /\ ~EnforcePKCE THEN "hook"
               ELSE "failed")
    /\ Local
    /\ UNCHANGED <<tables, snap>>

\* ... then DeletePKCERequestSession, before the verifier is compared.
ConsumePKCE(r, accepted) ==
    /\ pc[r] = "pkce_delete"
    /\ pkce' = pkce \ {fam[r]}
    /\ Goto(r, IF verifier[r] \in accepted THEN "hook" ELSE "failed")
    /\ Local
    /\ UNCHANGED <<code, codeExpired, oidc, access, refresh, usedTimes,
                   graceOver, refreshExpired, snap>>

\* Mutant: a request without a verifier is not refused.
DeletePKCEUnchecked(r) == ConsumePKCE(r, {"none", "right"})

DeletePKCE(r) == ConsumePKCE(r, {"right"})

(***************************************************************************)
(* grant_type=refresh_token, first phase.                                  *)
(***************************************************************************)
\* Mutant: the token's signature is taken for its request_id.
HandleRefreshBySignature(r, q) ==
    /\ Start(r, "refresh", q, q, "none")
    /\ Usable(q) /\ q \notin refreshExpired
    /\ Goto(r, "hook")

HandleRefresh(r, q) ==
    /\ Start(r, "refresh", fam[q], q, "none")
    /\ Usable(q) /\ q \notin refreshExpired
    /\ Goto(r, "hook")

\* handleRefreshTokenReuse is about to run.
HandleReusedRefresh(r, q) ==
    /\ Start(r, "refresh", fam[q], q, "none")
    /\ RefreshRow(q) /\ ~Usable(q)
    /\ Goto(r, "kill")

(***************************************************************************)
(* The token hook and the refresh token hook let the request pass.         *)
(***************************************************************************)
CallHook(r) ==
    /\ pc[r] = "hook"
    /\ Goto(r, "populate")
    /\ Local
    /\ UNCHANGED <<tables, snap>>

(***************************************************************************)
(* Second phase, inside h.r.Transaction.  Begin is the transaction's first *)
(* statement.  Under SERIALIZABLE a transaction whose first statement      *)
(* would by now have another outcome does not commit but is retried        *)
(* (popx.Transaction); under READ COMMITTED it goes on.                    *)
(***************************************************************************)
BeginCode(r) ==
    /\ pc[r] = "populate" /\ kind[r] = "code"
    /\ Goto(r, IF code[fam[r]] = "active" /\ fam[r] \notin codeExpired
               THEN "commit" ELSE "failed")
    /\ Local
    /\ UNCHANGED <<tables, snap>>

\* InvalidateAuthorizeCodeSession, CreateAccessTokenSession,
\* CreateRefreshTokenSession, DeleteOpenIDConnectSession.
Redeem(r, states, oidcLeft) ==
    /\ pc[r] = "commit" /\ kind[r] = "code"
    /\ code[fam[r]] \in states
    /\ code' = [code EXCEPT ![fam[r]] = IF @ = "gone" THEN "gone" ELSE "used"]
    /\ access' = [access EXCEPT ![r] = "live"]
    /\ refresh' = [refresh EXCEPT ![r] = IF fam[r] \in OfflineCodes THEN "active" ELSE @]
    /\ oidc' = oidcLeft
    /\ Goto(r, "done")
    /\ Local
    /\ UNCHANGED <<codeExpired, pkce, usedTimes, graceOver, refreshExpired, snap>>

\* Mutants: a code that was used meanwhile is used again; tokens are stored
\* although the flow's row is gone; the OpenID Connect session is kept.
CommitUsedCode(r) == Redeem(r, {"active", "used"}, oidc \ {fam[r]})
CommitGoneCode(r) == Redeem(r, {"active", "gone"}, oidc \ {fam[r]})
CommitCodeKeepsOpenID(r) == Redeem(r, {"active"}, oidc)

\* The UPDATE of the code does not ask whether it is active.  The new rows
\* reference the flow's row, which a revoked consent has deleted.
CommitCode(r) ==
    Redeem(r, IF Serializable THEN {"active"} ELSE {"active", "used"}, oidc \ {fam[r]})

\* strictRefreshRotation first deletes the family's access tokens.
BeginRotation(r) ==
    /\ pc[r] = "populate" /\ kind[r] = "refresh"
    /\ snap' = [snap EXCEPT ![r] = IF Graceful THEN {} ELSE LiveAccess(fam[r])]
    /\ Goto(r, "commit")
    /\ Local
    /\ UNCHANGED tables

StaleRotation(r) ==
    /\ kind[r] = "refresh" /\ ~Graceful /\ snap[r] # LiveAccess(fam[r])

RotateStrict(r, retired, removed) ==
    /\ pc[r] = "commit" /\ kind[r] = "refresh" /\ ~Graceful
    /\ Serializable => ~StaleRotation(r)
    /\ access' = [DeleteAccess(removed) EXCEPT ![r] = "live"]
    /\ refresh' = [q \in Requests |-> IF q = r THEN "active"
                                      ELSE IF q \in retired THEN "inactive"
                                      ELSE refresh[q]]
    /\ Goto(r, "done")
    /\ Local
    /\ UNCHANGED <<code, codeExpired, pkce, oidc, usedTimes, graceOver,
                   refreshExpired, snap>>

\* Mutants: the family's access tokens are kept; a rotation that disables no token
\* goes on.
CommitStrictKeepsAccess(r) == RotateStrict(r, {tok[r]}, {}) /\ Usable(tok[r])
CommitStrictOfNothing(r) == RotateStrict(r, ActiveRefresh(fam[r]), snap[r])

\* It then disables every active refresh token of the family, whichever was
\* presented; if there is none the exchange fails.
CommitStrict(r) ==
    /\ ActiveRefresh(fam[r]) # {}
    /\ RotateStrict(r, ActiveRefresh(fam[r]), snap[r])

\* gracefulRefreshRotation updates the presented token's row and deletes the
\* access token that was issued with it.
RotateGraceful(r, removed) ==
    LET q == tok[r] IN
    /\ pc[r] = "commit" /\ kind[r] = "refresh" /\ Graceful
    /\ RefreshRow(q)
    /\ refresh' = [refresh EXCEPT ![q] = "inactive", ![r] = "active"]
    /\ usedTimes' = [usedTimes EXCEPT ![q] = @ + 1]
    /\ access' = [DeleteAccess(removed) EXCEPT ![r] = "live"]
    /\ Goto(r, "done")
    /\ Local
    /\ UNCHANGED <<code, codeExpired, pkce, oidc, graceOver, refreshExpired, snap>>

\* Mutants: only GetRefreshTokenSession checks the reuse count; the access
\* token is kept.
CommitGracefulUncounted(r) == RotateGraceful(r, {tok[r]})
CommitGracefulKeepsAccess(r) == RotateGraceful(r, {}) /\ ~UsedUp(tok[r])

CommitGraceful(r) == RotateGraceful(r, {tok[r]}) /\ ~UsedUp(tok[r])

\* ErrNotFound from the rotation: the transaction is rolled back.
NothingToRotate(r) ==
    IF Graceful THEN ~RefreshRow(tok[r]) \/ UsedUp(tok[r])
                ELSE ActiveRefresh(fam[r]) = {}
NotFound(r, next) ==
    /\ pc[r] = "commit" /\ kind[r] = "refresh"
    /\ NothingToRotate(r)
    /\ Goto(r, next)
    /\ Local
    /\ UNCHANGED <<tables, snap>>

\* Mutant: handleRetryError takes ErrNotFound for a conflict, so that
\* popx.Transaction runs the rotation again.
RotationNotFoundRetried(r) == NotFound(r, "populate")

RotationNotFound(r) == NotFound(r, "failed")

\* A revoked consent leaves the new rows without the flow they reference.
ForeignKeyFault(r) ==
    /\ pc[r] = "commit" /\ kind[r] = "code" /\ ~Serializable
    /\ code[fam[r]] = "gone"
    /\ Goto(r, "failed")
    /\ Local
    /\ UNCHANGED <<tables, snap>>

Retry(r) ==
    /\ Serializable
    /\ \/ /\ pc[r] = "commit"
          /\ StaleRotation(r) \/ (kind[r] = "code" /\ code[fam[r]] # "active")
          /\ Goto(r, "populate")
       \/ /\ pc[r] = "kill_commit"
          /\ snap[r] # RefreshRows(fam[r])
          /\ Goto(r, "kill")
    /\ Local
    /\ UNCHANGED <<tables, snap>>

(***************************************************************************)
(* Deleting a family in one transaction, refresh tokens first:             *)
(* handleRefreshTokenReuse, and the revocation endpoint.                   *)
(***************************************************************************)
\* POST /oauth2/revoke with either token that request q was answered with.
HandleRevocation(r, q, k) ==
    /\ Start(r, k, fam[q], q, "none")
    /\ pc[q] = "done" /\ (k = "revoke_refresh" => refresh[q] # "none")
    /\ Goto(r, "kill")

\* The discovery functions of RevokeToken.
Discovered(r) ==
    IF kind[r] = "revoke_access" THEN access[tok[r]] = "live" ELSE Usable(tok[r])

\* A revocation that finds no session, or an inactive one, deletes nothing:
\* storeErrorsToRevocationError makes a success of it and the answer is 200,
\* whatever else the family holds.
BeginKill(r) ==
    /\ pc[r] = "kill"
    /\ IF kind[r] \in Revocations /\ ~Discovered(r)
       THEN Goto(r, "missed") /\ UNCHANGED snap
       ELSE /\ snap' = [snap EXCEPT ![r] = RefreshRows(fam[r])]
            /\ Goto(r, "kill_commit")
    /\ Local
    /\ UNCHANGED tables

Kill(r, rows) ==
    /\ pc[r] = "kill_commit"
    /\ Serializable => snap[r] = RefreshRows(fam[r])
    /\ refresh' = DeleteRefresh(rows)
    /\ access' = DeleteAccess(LiveAccess(fam[r]))
    /\ Goto(r, "killed")
    /\ Local
    /\ UNCHANGED <<code, codeExpired, pkce, oidc, usedTimes, graceOver,
                   refreshExpired, snap>>

\* Mutant: only active refresh tokens are deleted.
CommitKillActive(r) == Kill(r, {q \in snap[r] : refresh[q] = "active"})

CommitKill(r) == Kill(r, snap[r])

\* A revocation whose statements fail is rolled back; RevokeToken returns
\* ErrTemporarilyUnavailable, which WriteRevocationResponse answers with 200.
RevocationFault(r) ==
    /\ pc[r] = "kill_commit" /\ kind[r] \in Revocations /\ StorageFaults
    /\ Goto(r, "unrevoked")
    /\ Local
    /\ UNCHANGED <<tables, snap>>

(***************************************************************************)
(* The request is refused by a hook, its client goes away, a statement     *)
(* fails or the process dies: an open transaction is rolled back.          *)
(***************************************************************************)
Abandon(r) ==
    /\ pc[r] \notin Final \cup {"idle"}
    /\ Goto(r, "failed")
    /\ Local
    /\ UNCHANGED <<tables, snap>>

(***************************************************************************)
(* Administration, the janitor and time.                                   *)
(***************************************************************************)
\* revokeConsentSession: the flow's row takes its code, PKCE and OpenID
\* Connect rows with it (ON DELETE CASCADE).
RevokeConsent(c) ==
    /\ code[c] \in {"active", "used"}
    /\ code' = [code EXCEPT ![c] = "gone"]
    /\ pkce' = pkce \ {c}
    /\ oidc' = oidc \ {c}
    /\ access' = DeleteAccess(LiveAccess(c))
    /\ refresh' = DeleteRefresh(RefreshRows(c))
    /\ UNCHANGED <<codeExpired, usedTimes, graceOver, refreshExpired, locals>>

\* DELETE /admin/oauth2/tokens; all codes belong to one client.
DeleteAccessTokens ==
    /\ \E q \in Requests : access[q] = "live"
    /\ access' = DeleteAccess(Requests)
    /\ UNCHANGED <<code, codeExpired, pkce, oidc, refresh, usedTimes, graceOver,
                   refreshExpired, locals>>

EndGrace(q) ==
    /\ Graceful /\ usedTimes[q] > 0 /\ q \notin graceOver
    /\ graceOver' = graceOver \cup {q}
    /\ UNCHANGED <<code, codeExpired, pkce, oidc, access, refresh, usedTimes,
                   refreshExpired, locals>>

ExpireRefresh(q) ==
    /\ RefreshRow(q) /\ q \notin refreshExpired
    /\ refreshExpired' = refreshExpired \cup {q}
    /\ UNCHANGED <<code, codeExpired, pkce, oidc, access, refresh, usedTimes,
                   graceOver, locals>>

\* The janitor: requested_at is older than the configured lifespan.  A client
\* may have a longer lifespan of its own, so the token need not be expired.
FlushInactiveAccessTokens(q) ==
    /\ access[q] = "live"
    /\ access' = DeleteAccess({q})
    /\ UNCHANGED <<code, codeExpired, pkce, oidc, refresh, usedTimes, graceOver,
                   refreshExpired, locals>>

FlushInactiveRefreshTokens(q) ==
    /\ RefreshRow(q)
    /\ refresh' = DeleteRefresh({q})
    /\ UNCHANGED <<code, codeExpired, pkce, oidc, access, usedTimes, graceOver,
                   refreshExpired, locals>>

(***************************************************************************)
(* The specification.                                                      *)
(***************************************************************************)
Begins(r) ==
    \/ \E c \in Codes : \/ \E v \in {"none", "right", "wrong"} : HandleCode(r, c, v)
                        \/ HandleUsedCode(r, c)
    \/ \E q \in Requests : \/ HandleRefresh(r, q)
                           \/ HandleReusedRefresh(r, q)
                           \/ \E k \in Revocations : HandleRevocation(r, q, k)

Proceeds(r) ==
    \/ ReplayRevokeAccess(r) \/ ReplayRevokeRefresh(r)
    \/ GetPKCE(r) \/ DeletePKCE(r)
    \/ CallHook(r)
    \/ BeginCode(r) \/ CommitCode(r)
    \/ BeginRotation(r) \/ CommitStrict(r) \/ CommitGraceful(r)
    \/ RotationNotFound(r) \/ ForeignKeyFault(r) \/ Retry(r)
    \/ BeginKill(r) \/ CommitKill(r) \/ RevocationFault(r)

Environment ==
    \/ \E c \in Codes : IssueCode(c) \/ ExpireCode(c) \/ RevokeConsent(c)
    \/ DeleteAccessTokens
    \/ \E q \in Requests : \/ EndGrace(q) \/ ExpireRefresh(q)
                           \/ FlushInactiveAccessTokens(q)
                           \/ FlushInactiveRefreshTokens(q)

Next ==
    \/ \E r \in Requests : Begins(r) \/ Proceeds(r) \/ Abandon(r)
    \/ Environment

Spec == Init /\ [][Next]_vars

\* Every request that has begun is served by a goroutine of its own: the Go
\* scheduler, the database and the HTTP client's timeouts let it proceed.
FairSpec == Spec /\ \A r \in Requests : WF_vars(Proceeds(r))
(***************************************************************************)
(* Properties.                                                             *)
(***************************************************************************)
FamilyDead(c) == \A q \in Requests : fam[q] = c => access[q] # "live" /\ ~RefreshRow(q)

\* An authorization code is exchanged for tokens at most once, although the
\* request that exchanges it looked at the code long before it invalidates it
\* (PopulateTokenEndpointResponse reads it again inside the transaction).
SingleRedemption ==
    \A r, s \in Requests :
        /\ pc[r] = "done" /\ kind[r] = "code"
        /\ pc[s] = "done" /\ kind[s] = "code"
        /\ fam[r] = fam[s]
        => r = s

\* Strict rotation leaves "the only valid, new token pair": two tokens of one
\* family are never valid side by side.
StrictSinglePair ==
    ~Graceful => \A q, s \in Requests :
        /\ fam[q] = fam[s]
        /\ \/ access[q] = "live" /\ access[s] = "live"
           \/ refresh[q] = "active" /\ refresh[s] = "active"
        => q = s

\* Once a refresh token has been exchanged its row is never active again and
\* the access token issued with it stays deleted.  Strict rotation then never
\* accepts the token again; graceful rotation does, within the grace period
\* and the reuse count only (GraceBound).
ParentRetired ==
    \A r \in Requests : pc[r] = "done" /\ kind[r] = "refresh"
        => refresh[tok[r]] # "active" /\ access[tok[r]] # "live"

\* After refresh token reuse was detected, or a revocation that found its
\* token has committed, no token of the family is valid, and none is issued
\* later by a request that was already past its checks.  A revocation that
\* found nothing is answered alike; then at least the presented token "cannot
\* be used again after the revocation" (revoke_handler.go:31), although other
\* tokens of its family may.
KilledIsFinal ==
    \A r \in Requests :
        /\ pc[r] = "killed" => FamilyDead(fam[r])
        /\ pc[r] = "missed" => ~Discovered(r)

\* The same after the resource owner's consent was revoked.
RevokedConsentIsFinal == \A c \in Codes : code[c] = "gone" => FamilyDead(c)

\* After a used code was presented again and the refresh tokens were deleted,
\* the family has no refresh token and never gets one.
ReplayLeavesNoRefresh ==
    \A r \in Requests : pc[r] = "replayed" => RefreshRows(fam[r]) = {}

\* Graceful rotation: one refresh token yields at most GraceCount successors,
\* however many requests passed GetRefreshTokenSession at the same time.
GraceBound ==
    Graceful /\ GraceCount > 0 => \A q \in Requests :
        Cardinality({r \in Requests : pc[r] = "done" /\ kind[r] = "refresh" /\ tok[r] = q})
            <= GraceCount

\* A code that was requested with a code_challenge is only exchanged by a
\* request that presented the matching code_verifier.
VerifierChecked ==
    \A r \in Requests : pc[r] = "done" /\ kind[r] = "code" /\ fam[r] \in Challenged
        => verifier[r] = "right"

\* The OpenID Connect session is there exactly while its code is active: the
\* exchange that uses the code up takes it along, an exchange that fails or
\* is abandoned leaves both.  (At READ COMMITTED a second exchange, begun
\* before the first committed, succeeds without it and gets no ID token.)
OpenIDRowFollowsCode ==
    \A c \in Codes : c \in oidc <=> (code[c] = "active" /\ c \in OpenIDCodes)

\* Every request that has begun is eventually answered: neither the retries
\* of conflicting transactions nor the revocations go on for ever.
RequestsAreAnswered ==
    \A r \in Requests : pc[r] # "idle" ~> pc[r] \in Final

\* What the comment in flow_authorize_code_token.go promises: after a used
\* code was presented again all tokens of the family are revoked.
ReplayRevokesAll == \A r \in Requests : pc[r] = "replayed" => FamilyDead(fam[r])

(***************************************************************************)
(* The inductive invariant.                                                *)
(***************************************************************************)
\* What a request's phase says about what it has stored and presented.
Lineage ==
    \A r \in Requests :
        /\ pc[r] # "idle" => fam[r] \in Codes
        /\ access[r] # "none" \/ refresh[r] # "none" => pc[r] = "done"
        /\ pc[r] = "done" => access[r] # "none" /\ kind[r] \in {"code", "refresh"}
        /\ kind[r] \in {"refresh"} \cup Revocations
           => /\ pc[r] # "idle" /\ tok[r] \in Requests
              /\ pc[tok[r]] = "done" /\ fam[tok[r]] = fam[r]

\* Nobody holds tokens of a family, or works on them, before its code is used.
OpenedFirst ==
    \A r \in Requests :
        \/ pc[r] \in {"done", "replay_access", "replay_refresh", "replayed",
                     "kill", "kill_commit", "killed", "missed", "unrevoked"}
        \/ kind[r] \in {"refresh"} \cup Revocations
        => code[fam[r]] \in {"used", "gone"}

IndInv == TypeOK /\ Lineage /\ OpenedFirst

(***************************************************************************)
(* What a family of tokens promises: see TokenFamily.                      *)
(***************************************************************************)
Family == INSTANCE TokenFamily WITH
    Families <- Codes, Tokens <- Requests,
    opened <- {c \in Codes : code[c] \in {"used", "gone"}},
    rows <- [c \in Codes |-> RefreshRows(c)],
    valid <- [c \in Codes |-> LiveAccess(c)]

\* The endpoints implement TokenFamily.
ImplementsFamily == Family!Spec
=============================================================================
