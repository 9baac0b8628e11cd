------------------------- MODULE TokenEndpointProofs -------------------------
(***************************************************************************)
(* Proofs about TokenEndpoint, for any sets of codes and requests and any  *)
(* configuration.                                                          *)
(***************************************************************************)
EXTENDS TokenEndpoint, FiniteSetTheorems, TLAPS

USE DEF Final, Revocations

\* The steps of a request that has begun, and the steps that only move it on.
Moves(r) == GetPKCE(r) \/ CallHook(r) \/ BeginCode(r) \/ BeginRotation(r)
            \/ RotationNotFound(r) \/ ForeignKeyFault(r) \/ Retry(r)
            \/ BeginKill(r) \/ RevocationFault(r) \/ Abandon(r)

\* The initial state satisfies the inductive invariant.
LEMMA InitIndInv == Init => IndInv
BY ConstantsAssumption DEF Init, IndInv, TypeOK, Lineage, OpenedFirst, Phases

\* Every step keeps the types.
LEMMA StepTypeOK == ASSUME TypeOK, Lineage, [Next]_vars PROVE TypeOK'
<1>. USE ConstantsAssumption DEF TypeOK, Phases
<1>1. CASE UNCHANGED vars
    BY <1>1 DEF vars, tables, locals
<1>2. ASSUME NEW r \in Requests, Begins(r) PROVE TypeOK'
    BY <1>2 DEF Begins, HandleCode, HandleUsedCode, HandleRefresh, HandleReusedRefresh,
                HandleRevocation, Start, Goto, tables
<1>3. ASSUME NEW r \in Requests, Proceeds(r) \/ Abandon(r) PROVE TypeOK'
  <2>1. CASE ReplayRevokeAccess(r)
    BY <2>1 DEF ReplayRevokeAccess, DeleteAccess, Goto, Local
  <2>2. CASE ReplayRevokeRefresh(r)
    BY <2>2 DEF ReplayRevokeRefresh, RevokeRefreshAfterReplay, DeleteRefresh, Goto, Local
  <2>3. CASE DeletePKCE(r)
    BY <2>3 DEF DeletePKCE, ConsumePKCE, Goto, Local
  <2>4. CASE CommitCode(r)
    BY <2>4 DEF CommitCode, Redeem, Goto, Local
  <2>5. CASE CommitStrict(r)
    BY <2>5 DEF CommitStrict, RotateStrict, DeleteAccess, Goto, Local
  <2>6. CASE CommitGraceful(r)
    <3>1. tok[r] \in Requests
      BY <2>6 DEF Lineage, CommitGraceful, RotateGraceful
    <3>. QED BY <2>6, <3>1 DEF CommitGraceful, RotateGraceful, DeleteAccess, Goto, Local
  <2>7. CASE CommitKill(r)
    BY <2>7 DEF CommitKill, Kill, DeleteAccess, DeleteRefresh, Goto, Local
  <2>8. CASE Moves(r)
    BY <2>8 DEF Moves, GetPKCE, CallHook, BeginCode, BeginRotation, RotationNotFound,
                NotFound, NothingToRotate, ForeignKeyFault, Retry, BeginKill, RevocationFault, Abandon,
                Goto, Local, tables, LiveAccess, RefreshRows
  <2>. QED BY <1>3, <2>1, <2>2, <2>3, <2>4, <2>5, <2>6, <2>7, <2>8 DEF Proceeds, Moves
<1>4. CASE Environment
  <2>1. ASSUME NEW c \in Codes, IssueCode(c) \/ ExpireCode(c) PROVE TypeOK'
    BY <2>1 DEF IssueCode, ExpireCode, locals
  <2>2. ASSUME NEW c \in Codes, RevokeConsent(c) PROVE TypeOK'
    BY <2>2 DEF RevokeConsent, DeleteAccess, DeleteRefresh, locals
  <2>3. CASE DeleteAccessTokens
    BY <2>3 DEF DeleteAccessTokens, DeleteAccess, locals
  <2>4. ASSUME NEW q \in Requests, EndGrace(q) \/ ExpireRefresh(q)
        PROVE TypeOK'
    BY <2>4 DEF EndGrace, ExpireRefresh, locals
  <2>5. ASSUME NEW q \in Requests,
               FlushInactiveAccessTokens(q) \/ FlushInactiveRefreshTokens(q)
        PROVE TypeOK'
    BY <2>5 DEF FlushInactiveAccessTokens, FlushInactiveRefreshTokens, DeleteAccess,
                DeleteRefresh, locals
  <2>. QED BY <1>4, <2>1, <2>2, <2>3, <2>4, <2>5 DEF Environment
<1>. QED BY <1>1, <1>2, <1>3, <1>4 DEF Next

\* Every step keeps the lineage of the tokens.
LEMMA StepLineage == ASSUME TypeOK, Lineage, [Next]_vars PROVE Lineage'
<1>. USE ConstantsAssumption DEF TypeOK, Lineage, Phases
<1>1. CASE UNCHANGED vars
    BY <1>1 DEF vars, tables, locals
<1>2. ASSUME NEW r \in Requests, Begins(r) PROVE Lineage'
  <2>1. ASSUME NEW c \in Codes, NEW v \in {"none", "right", "wrong"},
               HandleCode(r, c, v) \/ HandleUsedCode(r, c)
        PROVE Lineage'
    BY <2>1 DEF HandleCode, HandleUsedCode, Start, Goto, tables
  <2>2. ASSUME NEW q \in Requests, HandleRefresh(r, q) \/ HandleReusedRefresh(r, q)
        PROVE Lineage'
    BY <2>2 DEF HandleRefresh, HandleReusedRefresh, Usable, RefreshRow, Start, Goto, tables
  <2>3. ASSUME NEW q \in Requests, NEW k \in Revocations, HandleRevocation(r, q, k)
        PROVE Lineage'
    BY <2>3 DEF HandleRevocation, Start, Goto, tables
  <2>. QED BY <1>2, <2>1, <2>2, <2>3 DEF Begins
<1>3. ASSUME NEW r \in Requests, Proceeds(r) \/ Abandon(r) PROVE Lineage'
  <2>1. CASE ReplayRevokeAccess(r)
    BY <2>1 DEF ReplayRevokeAccess, DeleteAccess, Goto, Local
  <2>2. CASE ReplayRevokeRefresh(r)
    BY <2>2 DEF ReplayRevokeRefresh, RevokeRefreshAfterReplay, DeleteRefresh, RefreshRow,
                Goto, Local
  <2>3. CASE DeletePKCE(r)
    BY <2>3 DEF DeletePKCE, ConsumePKCE, Goto, Local
  <2>4. CASE CommitCode(r)
    BY <2>4 DEF CommitCode, Redeem, Goto, Local
  <2>5. CASE CommitStrict(r)
    BY <2>5 DEF CommitStrict, RotateStrict, ActiveRefresh, DeleteAccess, Goto, Local
  <2>6. CASE CommitGraceful(r)
    BY <2>6 DEF CommitGraceful, RotateGraceful, DeleteAccess, Goto, Local, RefreshRow
  <2>7. CASE CommitKill(r)
    BY <2>7 DEF CommitKill, Kill, DeleteAccess, DeleteRefresh, RefreshRow, Goto, Local
  <2>8. CASE Moves(r)
    BY <2>8 DEF Moves, GetPKCE, CallHook, BeginCode, BeginRotation, RotationNotFound,
                NotFound, NothingToRotate, ForeignKeyFault, Retry, BeginKill, RevocationFault, Abandon,
                Goto, Local, tables
  <2>. QED BY <1>3, <2>1, <2>2, <2>3, <2>4, <2>5, <2>6, <2>7, <2>8 DEF Proceeds, Moves
<1>4. CASE Environment
  <2>1. ASSUME NEW c \in Codes, IssueCode(c) \/ ExpireCode(c) PROVE Lineage'
    BY <2>1 DEF IssueCode, ExpireCode, locals, RefreshRow
  <2>2. ASSUME NEW c \in Codes, RevokeConsent(c) PROVE Lineage'
    BY <2>2 DEF RevokeConsent, DeleteAccess, DeleteRefresh, locals, RefreshRow
  <2>3. CASE DeleteAccessTokens
    BY <2>3 DEF DeleteAccessTokens, DeleteAccess, locals, RefreshRow
  <2>4. ASSUME NEW q \in Requests, EndGrace(q) \/ ExpireRefresh(q)
        PROVE Lineage'
    BY <2>4 DEF EndGrace, ExpireRefresh, locals, RefreshRow
  <2>5. ASSUME NEW q \in Requests,
               FlushInactiveAccessTokens(q) \/ FlushInactiveRefreshTokens(q)
        PROVE Lineage'
    BY <2>5 DEF FlushInactiveAccessTokens, FlushInactiveRefreshTokens, DeleteAccess,
                DeleteRefresh, locals, RefreshRow
  <2>. QED BY <1>4, <2>1, <2>2, <2>3, <2>4, <2>5 DEF Environment
<1>. QED BY <1>1, <1>2, <1>3, <1>4 DEF Next

\* No step lets tokens appear before their code is used.
LEMMA StepOpenedFirst == ASSUME TypeOK, Lineage, OpenedFirst, [Next]_vars PROVE OpenedFirst'
<1>. USE ConstantsAssumption DEF TypeOK, Lineage, OpenedFirst, Phases
<1>1. CASE UNCHANGED vars
    BY <1>1 DEF vars, tables, locals
<1>2. ASSUME NEW r \in Requests, Begins(r) PROVE OpenedFirst'
  <2>1. ASSUME NEW c \in Codes, NEW v \in {"none", "right", "wrong"},
               HandleCode(r, c, v) \/ HandleUsedCode(r, c)
        PROVE OpenedFirst'
    BY <2>1 DEF HandleCode, HandleUsedCode, Start, Goto, tables
  <2>2. ASSUME NEW q \in Requests, HandleRefresh(r, q) \/ HandleReusedRefresh(r, q)
        PROVE OpenedFirst'
    BY <2>2 DEF HandleRefresh, HandleReusedRefresh, Usable, RefreshRow, Start, Goto, tables
  <2>3. ASSUME NEW q \in Requests, NEW k \in Revocations, HandleRevocation(r, q, k)
        PROVE OpenedFirst'
    BY <2>3 DEF HandleRevocation, Start, Goto, tables
  <2>. QED BY <1>2, <2>1, <2>2, <2>3 DEF Begins
<1>3. ASSUME NEW r \in Requests, Proceeds(r) \/ Abandon(r) PROVE OpenedFirst'
  <2>1. CASE ReplayRevokeAccess(r)
    BY <2>1 DEF ReplayRevokeAccess, DeleteAccess, Goto, Local
  <2>2. CASE ReplayRevokeRefresh(r)
    BY <2>2 DEF ReplayRevokeRefresh, RevokeRefreshAfterReplay, DeleteRefresh, RefreshRow,
                Goto, Local
  <2>3. CASE DeletePKCE(r)
    BY <2>3 DEF DeletePKCE, ConsumePKCE, Goto, Local
  <2>4. CASE CommitCode(r)
    BY <2>4 DEF CommitCode, Redeem, Goto, Local
  <2>5. CASE CommitStrict(r)
    BY <2>5 DEF CommitStrict, RotateStrict, ActiveRefresh, DeleteAccess, Goto, Local
  <2>6. CASE CommitGraceful(r)
    BY <2>6 DEF CommitGraceful, RotateGraceful, DeleteAccess, Goto, Local, RefreshRow
  <2>7. CASE CommitKill(r)
    BY <2>7 DEF CommitKill, Kill, DeleteAccess, DeleteRefresh, RefreshRow, Goto, Local
  <2>8. CASE Moves(r)
    BY <2>8 DEF Moves, GetPKCE, CallHook, BeginCode, BeginRotation, RotationNotFound,
                NotFound, NothingToRotate, ForeignKeyFault, Retry, BeginKill, RevocationFault, Abandon,
                Goto, Local, tables
  <2>. QED BY <1>3, <2>1, <2>2, <2>3, <2>4, <2>5, <2>6, <2>7, <2>8 DEF Proceeds, Moves
<1>4. CASE Environment
  <2>1. ASSUME NEW c \in Codes, IssueCode(c) \/ ExpireCode(c) PROVE OpenedFirst'
    BY <2>1 DEF IssueCode, ExpireCode, locals, RefreshRow
  <2>2. ASSUME NEW c \in Codes, RevokeConsent(c) PROVE OpenedFirst'
    BY <2>2 DEF RevokeConsent, DeleteAccess, DeleteRefresh, locals, RefreshRow
  <2>3. CASE DeleteAccessTokens
    BY <2>3 DEF DeleteAccessTokens, DeleteAccess, locals, RefreshRow
  <2>4. ASSUME NEW q \in Requests, EndGrace(q) \/ ExpireRefresh(q)
        PROVE OpenedFirst'
    BY <2>4 DEF EndGrace, ExpireRefresh, locals, RefreshRow
  <2>5. ASSUME NEW q \in Requests,
               FlushInactiveAccessTokens(q) \/ FlushInactiveRefreshTokens(q)
        PROVE OpenedFirst'
    BY <2>5 DEF FlushInactiveAccessTokens, FlushInactiveRefreshTokens, DeleteAccess,
                DeleteRefresh, locals, RefreshRow
  <2>. QED BY <1>4, <2>1, <2>2, <2>3, <2>4, <2>5 DEF Environment
<1>. QED BY <1>1, <1>2, <1>3, <1>4 DEF Next

\* No step lets a code be redeemed twice, if transactions are serializable.
LEMMA StepSingleRedemption ==
    ASSUME Serializable, TypeOK, Lineage, OpenedFirst, SingleRedemption, [Next]_vars
    PROVE  SingleRedemption'
<1>. USE ConstantsAssumption DEF TypeOK, Lineage, OpenedFirst, SingleRedemption, Phases
<1>1. CASE UNCHANGED vars
    BY <1>1 DEF vars, tables, locals
<1>2. ASSUME NEW r \in Requests, Begins(r) PROVE SingleRedemption'
  <2>1. ASSUME NEW c \in Codes, NEW v \in {"none", "right", "wrong"},
               HandleCode(r, c, v) \/ HandleUsedCode(r, c)
        PROVE SingleRedemption'
    BY <2>1 DEF HandleCode, HandleUsedCode, Start, Goto, tables
  <2>2. ASSUME NEW q \in Requests, HandleRefresh(r, q) \/ HandleReusedRefresh(r, q)
        PROVE SingleRedemption'
    BY <2>2 DEF HandleRefresh, HandleReusedRefresh, Usable, RefreshRow, Start, Goto, tables
  <2>3. ASSUME NEW q \in Requests, NEW k \in Revocations, HandleRevocation(r, q, k)
        PROVE SingleRedemption'
    BY <2>3 DEF HandleRevocation, Start, Goto, tables
  <2>. QED BY <1>2, <2>1, <2>2, <2>3 DEF Begins
<1>3. ASSUME NEW r \in Requests, Proceeds(r) \/ Abandon(r) PROVE SingleRedemption'
  <2>1. CASE ReplayRevokeAccess(r)
    BY <2>1 DEF ReplayRevokeAccess, DeleteAccess, Goto, Local
  <2>2. CASE ReplayRevokeRefresh(r)
    BY <2>2 DEF ReplayRevokeRefresh, RevokeRefreshAfterReplay, DeleteRefresh, RefreshRows,
                RefreshRow, Goto, Local
  <2>3. CASE DeletePKCE(r)
    BY <2>3 DEF DeletePKCE, ConsumePKCE, Goto, Local
  <2>4. CASE CommitCode(r)
    BY <2>4 DEF CommitCode, Redeem, Goto, Local
  <2>5. CASE CommitStrict(r)
    BY <2>5 DEF CommitStrict, RotateStrict, StaleRotation, ActiveRefresh, LiveAccess,
                DeleteAccess, RefreshRow, Goto, Local
  <2>6. CASE CommitGraceful(r)
    BY <2>6 DEF CommitGraceful, RotateGraceful, DeleteAccess, RefreshRow, Goto, Local
  <2>7. CASE CommitKill(r)
    BY <2>7 DEF CommitKill, Kill, DeleteAccess, DeleteRefresh, LiveAccess, RefreshRows,
                RefreshRow, Goto, Local
  <2>8. CASE Moves(r)
    BY <2>8 DEF Moves, GetPKCE, CallHook, BeginCode, BeginRotation, RotationNotFound,
                NotFound, NothingToRotate, ForeignKeyFault, Retry, BeginKill, RevocationFault, Abandon,
                Goto, Local, tables
  <2>. QED BY <1>3, <2>1, <2>2, <2>3, <2>4, <2>5, <2>6, <2>7, <2>8 DEF Proceeds, Moves
<1>4. CASE Environment
  <2>1. ASSUME NEW c \in Codes, IssueCode(c) \/ ExpireCode(c) PROVE SingleRedemption'
    BY <2>1 DEF IssueCode, ExpireCode, locals, RefreshRow, LiveAccess, RefreshRows
  <2>2. ASSUME NEW c \in Codes, RevokeConsent(c) PROVE SingleRedemption'
    BY <2>2 DEF RevokeConsent, DeleteAccess, DeleteRefresh, locals, RefreshRow, LiveAccess, RefreshRows
  <2>3. CASE DeleteAccessTokens
    BY <2>3 DEF DeleteAccessTokens, DeleteAccess, locals, RefreshRow, LiveAccess, RefreshRows
  <2>4. ASSUME NEW q \in Requests, EndGrace(q) \/ ExpireRefresh(q)
        PROVE SingleRedemption'
    BY <2>4 DEF EndGrace, ExpireRefresh, locals, RefreshRow, LiveAccess, RefreshRows
  <2>5. ASSUME NEW q \in Requests,
               FlushInactiveAccessTokens(q) \/ FlushInactiveRefreshTokens(q)
        PROVE SingleRedemption'
    BY <2>5 DEF FlushInactiveAccessTokens, FlushInactiveRefreshTokens, DeleteAccess,
                DeleteRefresh, locals, RefreshRow, LiveAccess, RefreshRows
  <2>. QED BY <1>4, <2>1, <2>2, <2>3, <2>4, <2>5 DEF Environment
<1>. QED BY <1>1, <1>2, <1>3, <1>4 DEF Next

\* No step leaves two valid pairs, if transactions are serializable.
LEMMA StepStrictSinglePair ==
    ASSUME Serializable, TypeOK, Lineage, OpenedFirst, StrictSinglePair, [Next]_vars
    PROVE  StrictSinglePair'
<1>. USE ConstantsAssumption DEF TypeOK, Lineage, OpenedFirst, StrictSinglePair, Phases
<1>1. CASE UNCHANGED vars
    BY <1>1 DEF vars, tables, locals
<1>2. ASSUME NEW r \in Requests, Begins(r) PROVE StrictSinglePair'
  <2>1. ASSUME NEW c \in Codes, NEW v \in {"none", "right", "wrong"},
               HandleCode(r, c, v) \/ HandleUsedCode(r, c)
        PROVE StrictSinglePair'
    BY <2>1 DEF HandleCode, HandleUsedCode, Start, Goto, tables
  <2>2. ASSUME NEW q \in Requests, HandleRefresh(r, q) \/ HandleReusedRefresh(r, q)
        PROVE StrictSinglePair'
    BY <2>2 DEF HandleRefresh, HandleReusedRefresh, Usable, RefreshRow, Start, Goto, tables
  <2>3. ASSUME NEW q \in Requests, NEW k \in Revocations, HandleRevocation(r, q, k)
        PROVE StrictSinglePair'
    BY <2>3 DEF HandleRevocation, Start, Goto, tables
  <2>. QED BY <1>2, <2>1, <2>2, <2>3 DEF Begins
<1>3. ASSUME NEW r \in Requests, Proceeds(r) \/ Abandon(r) PROVE StrictSinglePair'
  <2>1. CASE ReplayRevokeAccess(r)
    BY <2>1 DEF ReplayRevokeAccess, DeleteAccess, Goto, Local
  <2>2. CASE ReplayRevokeRefresh(r)
    BY <2>2 DEF ReplayRevokeRefresh, RevokeRefreshAfterReplay, DeleteRefresh, RefreshRows,
                RefreshRow, Goto, Local
  <2>3. CASE DeletePKCE(r)
    BY <2>3 DEF DeletePKCE, ConsumePKCE, Goto, Local
  <2>4. CASE CommitCode(r)
    BY <2>4 DEF CommitCode, Redeem, Goto, Local
  <2>5. CASE CommitStrict(r)
    BY <2>5 DEF CommitStrict, RotateStrict, StaleRotation, ActiveRefresh, LiveAccess,
                DeleteAccess, RefreshRow, Goto, Local
  <2>6. CASE CommitGraceful(r)
    BY <2>6 DEF CommitGraceful, RotateGraceful, DeleteAccess, RefreshRow, Goto, Local
  <2>7. CASE CommitKill(r)
    BY <2>7 DEF CommitKill, Kill, DeleteAccess, DeleteRefresh, LiveAccess, RefreshRows,
                RefreshRow, Goto, Local
  <2>8. CASE Moves(r)
    BY <2>8 DEF Moves, GetPKCE, CallHook, BeginCode, BeginRotation, RotationNotFound,
                NotFound, NothingToRotate, ForeignKeyFault, Retry, BeginKill, RevocationFault, Abandon,
                Goto, Local, tables
  <2>. QED BY <1>3, <2>1, <2>2, <2>3, <2>4, <2>5, <2>6, <2>7, <2>8 DEF Proceeds, Moves
<1>4. CASE Environment
  <2>1. ASSUME NEW c \in Codes, IssueCode(c) \/ ExpireCode(c) PROVE StrictSinglePair'
    BY <2>1 DEF IssueCode, ExpireCode, locals, RefreshRow, LiveAccess, RefreshRows
  <2>2. ASSUME NEW c \in Codes, RevokeConsent(c) PROVE StrictSinglePair'
    BY <2>2 DEF RevokeConsent, DeleteAccess, DeleteRefresh, locals, RefreshRow, LiveAccess, RefreshRows
  <2>3. CASE DeleteAccessTokens
    BY <2>3 DEF DeleteAccessTokens, DeleteAccess, locals, RefreshRow, LiveAccess, RefreshRows
  <2>4. ASSUME NEW q \in Requests, EndGrace(q) \/ ExpireRefresh(q)
        PROVE StrictSinglePair'
    BY <2>4 DEF EndGrace, ExpireRefresh, locals, RefreshRow, LiveAccess, RefreshRows
  <2>5. ASSUME NEW q \in Requests,
               FlushInactiveAccessTokens(q) \/ FlushInactiveRefreshTokens(q)
        PROVE StrictSinglePair'
    BY <2>5 DEF FlushInactiveAccessTokens, FlushInactiveRefreshTokens, DeleteAccess,
                DeleteRefresh, locals, RefreshRow, LiveAccess, RefreshRows
  <2>. QED BY <1>4, <2>1, <2>2, <2>3, <2>4, <2>5 DEF Environment
<1>. QED BY <1>1, <1>2, <1>3, <1>4 DEF Next

\* No step revives an exchanged token.
LEMMA StepParentRetired ==
    ASSUME Serializable \/ Graceful, TypeOK, Lineage, OpenedFirst, ParentRetired, [Next]_vars
    PROVE  ParentRetired'
<1>. USE ConstantsAssumption DEF TypeOK, Lineage, OpenedFirst, ParentRetired, Phases
<1>1. CASE UNCHANGED vars
    BY <1>1 DEF vars, tables, locals
<1>2. ASSUME NEW r \in Requests, Begins(r) PROVE ParentRetired'
  <2>1. ASSUME NEW c \in Codes, NEW v \in {"none", "right", "wrong"},
               HandleCode(r, c, v) \/ HandleUsedCode(r, c)
        PROVE ParentRetired'
    BY <2>1 DEF HandleCode, HandleUsedCode, Start, Goto, tables
  <2>2. ASSUME NEW q \in Requests, HandleRefresh(r, q) \/ HandleReusedRefresh(r, q)
        PROVE ParentRetired'
    BY <2>2 DEF HandleRefresh, HandleReusedRefresh, Usable, RefreshRow, Start, Goto, tables
  <2>3. ASSUME NEW q \in Requests, NEW k \in Revocations, HandleRevocation(r, q, k)
        PROVE ParentRetired'
    BY <2>3 DEF HandleRevocation, Start, Goto, tables
  <2>. QED BY <1>2, <2>1, <2>2, <2>3 DEF Begins
<1>3. ASSUME NEW r \in Requests, Proceeds(r) \/ Abandon(r) PROVE ParentRetired'
  <2>1. CASE ReplayRevokeAccess(r)
    BY <2>1 DEF ReplayRevokeAccess, DeleteAccess, Goto, Local
  <2>2. CASE ReplayRevokeRefresh(r)
    BY <2>2 DEF ReplayRevokeRefresh, RevokeRefreshAfterReplay, DeleteRefresh, RefreshRows,
                RefreshRow, Goto, Local
  <2>3. CASE DeletePKCE(r)
    BY <2>3 DEF DeletePKCE, ConsumePKCE, Goto, Local
  <2>4. CASE CommitCode(r)
    BY <2>4 DEF CommitCode, Redeem, Goto, Local
  <2>5. CASE CommitStrict(r)
    BY <2>5 DEF CommitStrict, RotateStrict, StaleRotation, ActiveRefresh, LiveAccess,
                DeleteAccess, RefreshRow, Goto, Local
  <2>6. CASE CommitGraceful(r)
    BY <2>6 DEF CommitGraceful, RotateGraceful, DeleteAccess, RefreshRow, Goto, Local
  <2>7. CASE CommitKill(r)
    BY <2>7 DEF CommitKill, Kill, DeleteAccess, DeleteRefresh, LiveAccess, RefreshRows,
                RefreshRow, Goto, Local
  <2>8. CASE Moves(r)
    BY <2>8 DEF Moves, GetPKCE, CallHook, BeginCode, BeginRotation, RotationNotFound,
                NotFound, NothingToRotate, ForeignKeyFault, Retry, BeginKill, RevocationFault, Abandon,
                Goto, Local, tables
  <2>. QED BY <1>3, <2>1, <2>2, <2>3, <2>4, <2>5, <2>6, <2>7, <2>8 DEF Proceeds, Moves
<1>4. CASE Environment
  <2>1. ASSUME NEW c \in Codes, IssueCode(c) \/ ExpireCode(c) PROVE ParentRetired'
    BY <2>1 DEF IssueCode, ExpireCode, locals, RefreshRow, LiveAccess, RefreshRows
  <2>2. ASSUME NEW c \in Codes, RevokeConsent(c) PROVE ParentRetired'
    BY <2>2 DEF RevokeConsent, DeleteAccess, DeleteRefresh, locals, RefreshRow, LiveAccess, RefreshRows
  <2>3. CASE DeleteAccessTokens
    BY <2>3 DEF DeleteAccessTokens, DeleteAccess, locals, RefreshRow, LiveAccess, RefreshRows
  <2>4. ASSUME NEW q \in Requests, EndGrace(q) \/ ExpireRefresh(q)
        PROVE ParentRetired'
    BY <2>4 DEF EndGrace, ExpireRefresh, locals, RefreshRow, LiveAccess, RefreshRows
  <2>5. ASSUME NEW q \in Requests,
               FlushInactiveAccessTokens(q) \/ FlushInactiveRefreshTokens(q)
        PROVE ParentRetired'
    BY <2>5 DEF FlushInactiveAccessTokens, FlushInactiveRefreshTokens, DeleteAccess,
                DeleteRefresh, locals, RefreshRow, LiveAccess, RefreshRows
  <2>. QED BY <1>4, <2>1, <2>2, <2>3, <2>4, <2>5 DEF Environment
<1>. QED BY <1>1, <1>2, <1>3, <1>4 DEF Next

\* No step stores a token of a family whose consent was revoked.
LEMMA StepRevokedConsent ==
    ASSUME TypeOK, Lineage, OpenedFirst, RevokedConsentIsFinal, [Next]_vars
    PROVE  RevokedConsentIsFinal'
<1>. USE ConstantsAssumption DEF TypeOK, Lineage, OpenedFirst, RevokedConsentIsFinal, FamilyDead, RefreshRow, Phases
<1>1. CASE UNCHANGED vars
    BY <1>1 DEF vars, tables, locals
<1>2. ASSUME NEW r \in Requests, Begins(r) PROVE RevokedConsentIsFinal'
  <2>1. ASSUME NEW c \in Codes, NEW v \in {"none", "right", "wrong"},
               HandleCode(r, c, v) \/ HandleUsedCode(r, c)
        PROVE RevokedConsentIsFinal'
    BY <2>1 DEF HandleCode, HandleUsedCode, Start, Goto, tables
  <2>2. ASSUME NEW q \in Requests, HandleRefresh(r, q) \/ HandleReusedRefresh(r, q)
        PROVE RevokedConsentIsFinal'
    BY <2>2 DEF HandleRefresh, HandleReusedRefresh, Usable, RefreshRow, Start, Goto, tables
  <2>3. ASSUME NEW q \in Requests, NEW k \in Revocations, HandleRevocation(r, q, k)
        PROVE RevokedConsentIsFinal'
    BY <2>3 DEF HandleRevocation, Start, Goto, tables
  <2>. QED BY <1>2, <2>1, <2>2, <2>3 DEF Begins
<1>3. ASSUME NEW r \in Requests, Proceeds(r) \/ Abandon(r) PROVE RevokedConsentIsFinal'
  <2>1. CASE ReplayRevokeAccess(r)
    BY <2>1 DEF ReplayRevokeAccess, DeleteAccess, Goto, Local
  <2>2. CASE ReplayRevokeRefresh(r)
    BY <2>2 DEF ReplayRevokeRefresh, RevokeRefreshAfterReplay, DeleteRefresh, RefreshRows,
                RefreshRow, Goto, Local
  <2>3. CASE DeletePKCE(r)
    BY <2>3 DEF DeletePKCE, ConsumePKCE, Goto, Local
  <2>4. CASE CommitCode(r)
    BY <2>4 DEF CommitCode, Redeem, Goto, Local
  <2>5. CASE CommitStrict(r)
    BY <2>5 DEF CommitStrict, RotateStrict, StaleRotation, ActiveRefresh, LiveAccess,
                DeleteAccess, RefreshRow, Goto, Local
  <2>6. CASE CommitGraceful(r)
    BY <2>6 DEF CommitGraceful, RotateGraceful, DeleteAccess, RefreshRow, Goto, Local
  <2>7. CASE CommitKill(r)
    BY <2>7 DEF CommitKill, Kill, DeleteAccess, DeleteRefresh, LiveAccess, RefreshRows,
                RefreshRow, Goto, Local
  <2>8. CASE Moves(r)
    BY <2>8 DEF Moves, GetPKCE, CallHook, BeginCode, BeginRotation, RotationNotFound,
                NotFound, NothingToRotate, ForeignKeyFault, Retry, BeginKill, RevocationFault, Abandon,
                Goto, Local, tables
  <2>. QED BY <1>3, <2>1, <2>2, <2>3, <2>4, <2>5, <2>6, <2>7, <2>8 DEF Proceeds, Moves
<1>4. CASE Environment
  <2>1. ASSUME NEW c \in Codes, IssueCode(c) \/ ExpireCode(c) PROVE RevokedConsentIsFinal'
    BY <2>1 DEF IssueCode, ExpireCode, locals, RefreshRow, LiveAccess, RefreshRows
  <2>2. ASSUME NEW c \in Codes, RevokeConsent(c) PROVE RevokedConsentIsFinal'
    BY <2>2 DEF RevokeConsent, DeleteAccess, DeleteRefresh, locals, RefreshRow, LiveAccess, RefreshRows
  <2>3. CASE DeleteAccessTokens
    BY <2>3 DEF DeleteAccessTokens, DeleteAccess, locals, RefreshRow, LiveAccess, RefreshRows
  <2>4. ASSUME NEW q \in Requests, EndGrace(q) \/ ExpireRefresh(q)
        PROVE RevokedConsentIsFinal'
    BY <2>4 DEF EndGrace, ExpireRefresh, locals, RefreshRow, LiveAccess, RefreshRows
  <2>5. ASSUME NEW q \in Requests,
               FlushInactiveAccessTokens(q) \/ FlushInactiveRefreshTokens(q)
        PROVE RevokedConsentIsFinal'
    BY <2>5 DEF FlushInactiveAccessTokens, FlushInactiveRefreshTokens, DeleteAccess,
                DeleteRefresh, locals, RefreshRow, LiveAccess, RefreshRows
  <2>. QED BY <1>4, <2>1, <2>2, <2>3, <2>4, <2>5 DEF Environment
<1>. QED BY <1>1, <1>2, <1>3, <1>4 DEF Next

\* The two halves of KilledIsFinal.
KilledDead == \A r \in Requests : pc[r] = "killed" => FamilyDead(fam[r])
MissedInvalid == \A r \in Requests : pc[r] = "missed" => ~Discovered(r)

\* Only revocations end that way.
MissedRevokes == \A r \in Requests : pc[r] = "missed" => kind[r] \in Revocations

\* No step stores a token of a family that was deleted.
LEMMA StepKilled ==
    ASSUME Serializable, TypeOK, Lineage, OpenedFirst, KilledDead, [Next]_vars
    PROVE  KilledDead'
<1>. USE ConstantsAssumption DEF TypeOK, Lineage, OpenedFirst, KilledDead, FamilyDead, RefreshRow, Phases
<1>1. CASE UNCHANGED vars
    BY <1>1 DEF vars, tables, locals
<1>2. ASSUME NEW r \in Requests, Begins(r) PROVE KilledDead'
  <2>1. ASSUME NEW c \in Codes, NEW v \in {"none", "right", "wrong"},
               HandleCode(r, c, v) \/ HandleUsedCode(r, c)
        PROVE KilledDead'
    BY <2>1 DEF HandleCode, HandleUsedCode, Start, Goto, tables
  <2>2. ASSUME NEW q \in Requests, HandleRefresh(r, q) \/ HandleReusedRefresh(r, q)
        PROVE KilledDead'
    BY <2>2 DEF HandleRefresh, HandleReusedRefresh, Usable, RefreshRow, Start, Goto, tables
  <2>3. ASSUME NEW q \in Requests, NEW k \in Revocations, HandleRevocation(r, q, k)
        PROVE KilledDead'
    BY <2>3 DEF HandleRevocation, Start, Goto, tables
  <2>. QED BY <1>2, <2>1, <2>2, <2>3 DEF Begins
<1>3. ASSUME NEW r \in Requests, Proceeds(r) \/ Abandon(r) PROVE KilledDead'
  <2>1. CASE ReplayRevokeAccess(r)
    BY <2>1 DEF ReplayRevokeAccess, DeleteAccess, Goto, Local
  <2>2. CASE ReplayRevokeRefresh(r)
    BY <2>2 DEF ReplayRevokeRefresh, RevokeRefreshAfterReplay, DeleteRefresh, RefreshRows,
                RefreshRow, Goto, Local
  <2>3. CASE DeletePKCE(r)
    BY <2>3 DEF DeletePKCE, ConsumePKCE, Goto, Local
  <2>4. CASE CommitCode(r)
    BY <2>4 DEF CommitCode, Redeem, Goto, Local
  <2>5. CASE CommitStrict(r)
    BY <2>5 DEF CommitStrict, RotateStrict, StaleRotation, ActiveRefresh, LiveAccess,
                DeleteAccess, RefreshRow, Goto, Local
  <2>6. CASE CommitGraceful(r)
    BY <2>6 DEF CommitGraceful, RotateGraceful, DeleteAccess, RefreshRow, Goto, Local
  <2>7. CASE CommitKill(r)
    BY <2>7 DEF CommitKill, Kill, DeleteAccess, DeleteRefresh, LiveAccess, RefreshRows,
                RefreshRow, Goto, Local
  <2>8. CASE Moves(r)
    BY <2>8 DEF Moves, GetPKCE, CallHook, BeginCode, BeginRotation, RotationNotFound,
                NotFound, NothingToRotate, ForeignKeyFault, Retry, BeginKill, RevocationFault, Abandon,
                Goto, Local, tables
  <2>. QED BY <1>3, <2>1, <2>2, <2>3, <2>4, <2>5, <2>6, <2>7, <2>8 DEF Proceeds, Moves
<1>4. CASE Environment
  <2>1. ASSUME NEW c \in Codes, IssueCode(c) \/ ExpireCode(c) PROVE KilledDead'
    BY <2>1 DEF IssueCode, ExpireCode, locals, RefreshRow, LiveAccess, RefreshRows
  <2>2. ASSUME NEW c \in Codes, RevokeConsent(c) PROVE KilledDead'
    BY <2>2 DEF RevokeConsent, DeleteAccess, DeleteRefresh, locals, RefreshRow, LiveAccess, RefreshRows
  <2>3. CASE DeleteAccessTokens
    BY <2>3 DEF DeleteAccessTokens, DeleteAccess, locals, RefreshRow, LiveAccess, RefreshRows
  <2>4. ASSUME NEW q \in Requests, EndGrace(q) \/ ExpireRefresh(q)
        PROVE KilledDead'
    BY <2>4 DEF EndGrace, ExpireRefresh, locals, RefreshRow, LiveAccess, RefreshRows
  <2>5. ASSUME NEW q \in Requests,
               FlushInactiveAccessTokens(q) \/ FlushInactiveRefreshTokens(q)
        PROVE KilledDead'
    BY <2>5 DEF FlushInactiveAccessTokens, FlushInactiveRefreshTokens, DeleteAccess,
                DeleteRefresh, locals, RefreshRow, LiveAccess, RefreshRows
  <2>. QED BY <1>4, <2>1, <2>2, <2>3, <2>4, <2>5 DEF Environment
<1>. QED BY <1>1, <1>2, <1>3, <1>4 DEF Next

\* Graceful rotation leaves no inactive token with used_times = 0.
InactiveUsed ==
    \A q \in Requests : Graceful /\ refresh[q] = "inactive" => usedTimes[q] > 0

\* No step breaks that.
LEMMA StepInactiveUsed ==
    ASSUME TypeOK, Lineage, InactiveUsed, [Next]_vars PROVE InactiveUsed'
<1>. USE ConstantsAssumption DEF TypeOK, InactiveUsed
<1>1. CASE UNCHANGED vars
    BY <1>1 DEF vars, tables
<1>2. ASSUME NEW r \in Requests, Begins(r) PROVE UNCHANGED tables
    BY <1>2 DEF Begins, HandleCode, HandleUsedCode, HandleRefresh, HandleReusedRefresh,
                HandleRevocation, Start
<1>3. ASSUME NEW r \in Requests, Proceeds(r) \/ Abandon(r) PROVE InactiveUsed'
  <2>1. CASE CommitGraceful(r)
    <3>1. tok[r] \in Requests
      BY <2>1 DEF Lineage, CommitGraceful, RotateGraceful
    <3>. QED BY <2>1, <3>1 DEF CommitGraceful, RotateGraceful
  <2>2. CASE CommitStrict(r)
    BY <2>2 DEF CommitStrict, RotateStrict
  <2>5. CASE CommitCode(r)
    <3>1. \A q \in Requests : refresh'[q] = "inactive" => refresh[q] = "inactive"
      BY <2>5 DEF CommitCode, Redeem
    <3>2. UNCHANGED usedTimes
      BY <2>5 DEF CommitCode, Redeem
    <3>. QED BY <3>1, <3>2
  <2>3. CASE ReplayRevokeAccess(r) \/ ReplayRevokeRefresh(r) \/ DeletePKCE(r) \/ CommitKill(r)
    BY <2>3 DEF ReplayRevokeAccess, ReplayRevokeRefresh, RevokeRefreshAfterReplay,
                DeletePKCE, ConsumePKCE, CommitKill, Kill, DeleteRefresh
  <2>4. CASE Moves(r)
    BY <2>4 DEF Moves, GetPKCE, CallHook, BeginCode, BeginRotation, RotationNotFound,
                NotFound, ForeignKeyFault, Retry, BeginKill, RevocationFault, Abandon, tables
  <2>. QED BY <1>3, <2>1, <2>2, <2>3, <2>4, <2>5 DEF Proceeds, Moves
<1>4. CASE Environment
  <2>1. ASSUME NEW c \in Codes, RevokeConsent(c) PROVE InactiveUsed'
    BY <2>1 DEF RevokeConsent, DeleteRefresh
  <2>2. ASSUME NEW q \in Requests, FlushInactiveRefreshTokens(q) PROVE InactiveUsed'
    BY <2>2 DEF FlushInactiveRefreshTokens, DeleteRefresh
  <2>3. ASSUME UNCHANGED <<refresh, usedTimes>> PROVE InactiveUsed'
    BY <2>3
  <2>. QED BY <1>4, <2>1, <2>2, <2>3
           DEF Environment, IssueCode, ExpireCode, DeleteAccessTokens, EndGrace,
               ExpireRefresh, FlushInactiveAccessTokens
<1>. QED BY <1>1, <1>2, <1>3, <1>4 DEF Next, tables

\* A request that was answered keeps what it was; no step makes its access
\* token valid again or its refresh token usable again.
LEMMA TokensDecline ==
    ASSUME TypeOK, Lineage, InactiveUsed, [Next]_vars, NEW q \in Requests, pc[q] = "done"
    PROVE  /\ access[q] # "live" => access'[q] # "live"
           /\ ~Usable(q) => ~Usable(q)'
<1>. USE ConstantsAssumption DEF TypeOK, Usable, InGrace, UsedUp
<1>1. CASE UNCHANGED vars
    BY <1>1 DEF vars, tables
<1>2. ASSUME NEW r \in Requests, Begins(r) PROVE UNCHANGED tables
    BY <1>2 DEF Begins, HandleCode, HandleUsedCode, HandleRefresh, HandleReusedRefresh,
                HandleRevocation, Start
<1>3. ASSUME NEW r \in Requests, Proceeds(r) \/ Abandon(r)
      PROVE  /\ access[q] # "live" => access'[q] # "live"
             /\ ~Usable(q) => ~Usable(q)'
  <2>1. CASE ReplayRevokeAccess(r)
    BY <2>1 DEF ReplayRevokeAccess, DeleteAccess
  <2>2. CASE ReplayRevokeRefresh(r)
    BY <2>2 DEF ReplayRevokeRefresh, RevokeRefreshAfterReplay, DeleteRefresh
  <2>3. CASE DeletePKCE(r)
    BY <2>3 DEF DeletePKCE, ConsumePKCE
  <2>4. CASE CommitCode(r)
    BY <2>4 DEF CommitCode, Redeem
  <2>5. CASE CommitStrict(r)
    BY <2>5 DEF CommitStrict, RotateStrict, ActiveRefresh, DeleteAccess
  <2>6. CASE CommitGraceful(r)
    <3>1. tok[r] \in Requests /\ q # r
      BY <2>6 DEF Lineage, CommitGraceful, RotateGraceful
    <3>2. CASE q = tok[r]
      BY <2>6, <3>1, <3>2 DEF CommitGraceful, RotateGraceful, DeleteAccess, RefreshRow,
                              InactiveUsed
    <3>3. CASE q # tok[r]
      BY <2>6, <3>1, <3>3 DEF CommitGraceful, RotateGraceful, DeleteAccess
    <3>. QED BY <3>2, <3>3
  <2>7. CASE CommitKill(r)
    BY <2>7 DEF CommitKill, Kill, DeleteAccess, DeleteRefresh
  <2>8. CASE Moves(r)
    <3>1. UNCHANGED tables
      BY <2>8 DEF Moves, GetPKCE, CallHook, BeginCode, BeginRotation, RotationNotFound,
                  NotFound, ForeignKeyFault, Retry, BeginKill, RevocationFault, Abandon
    <3>. QED BY <3>1 DEF tables
  <2>. QED BY <1>3, <2>1, <2>2, <2>3, <2>4, <2>5, <2>6, <2>7, <2>8 DEF Proceeds, Moves
<1>4. CASE Environment
    BY <1>4 DEF Environment, IssueCode, ExpireCode, RevokeConsent, DeleteAccessTokens,
                EndGrace, ExpireRefresh, FlushInactiveAccessTokens,
                FlushInactiveRefreshTokens, DeleteAccess, DeleteRefresh
<1>. QED BY <1>1, <1>2, <1>3, <1>4 DEF Next, tables

\* A request that found nothing to revoke stays as it was answered.
LEMMA MissedBefore ==
    ASSUME TypeOK, [Next]_vars, NEW r \in Requests, pc'[r] = "missed"
    PROVE  \/ pc[r] = "missed" /\ kind'[r] = kind[r] /\ tok'[r] = tok[r]
           \/ ~Discovered(r)' /\ kind'[r] \in Revocations
<1>. USE DEF TypeOK
<1>1. CASE UNCHANGED vars
    BY <1>1 DEF vars, locals
<1>2. ASSUME NEW s \in Requests, Begins(s) PROVE pc[r] = "missed" /\ kind'[r] = kind[r] /\ tok'[r] = tok[r]
    BY <1>2 DEF Begins, HandleCode, HandleUsedCode, HandleRefresh, HandleReusedRefresh,
                HandleRevocation, Start, Goto
<1>3. ASSUME NEW s \in Requests, Proceeds(s) \/ Abandon(s), ~BeginKill(s)
      PROVE  pc[r] = "missed" /\ kind'[r] = kind[r] /\ tok'[r] = tok[r]
    BY <1>3 DEF Proceeds, ReplayRevokeAccess, ReplayRevokeRefresh,
           RevokeRefreshAfterReplay, CommitKill, Kill, DeletePKCE, ConsumePKCE,
           CommitCode, Redeem, CommitStrict, RotateStrict, CommitGraceful,
           RotateGraceful, GetPKCE, CallHook, BeginCode, BeginRotation,
           RotationNotFound, NotFound, ForeignKeyFault, Retry,
           RevocationFault, Abandon, Goto, Local
<1>4. ASSUME NEW s \in Requests, BeginKill(s), pc[r] # "missed"
      PROVE  ~Discovered(r)' /\ kind'[r] \in Revocations
  <2>1. r = s /\ kind[r] \in Revocations /\ ~Discovered(r)
    BY <1>4 DEF BeginKill, Goto, Phases
  <2>2. UNCHANGED <<tables, kind, tok>>
    BY <1>4 DEF BeginKill, Local
  <2>. QED BY <2>1, <2>2 DEF Discovered, Usable, InGrace, UsedUp, tables
<1>5. ASSUME NEW s \in Requests, BeginKill(s), pc[r] = "missed"
      PROVE  kind'[r] = kind[r] /\ tok'[r] = tok[r]
    BY <1>5 DEF BeginKill, Local
<1>6. CASE Environment
    BY <1>6 DEF Environment, IssueCode, ExpireCode, RevokeConsent, DeleteAccessTokens,
                EndGrace, ExpireRefresh, FlushInactiveAccessTokens,
                FlushInactiveRefreshTokens, locals
<1>. QED BY <1>1, <1>2, <1>3, <1>4, <1>5, <1>6 DEF Next

\* What a revocation did not find is not found later either.
LEMMA StepMissed ==
    ASSUME TypeOK, Lineage, InactiveUsed, MissedInvalid, MissedRevokes, [Next]_vars
    PROVE  MissedInvalid' /\ MissedRevokes'
<1>1. SUFFICES ASSUME NEW r \in Requests, pc'[r] = "missed"
               PROVE  ~Discovered(r)' /\ kind'[r] \in Revocations
    BY DEF MissedInvalid, MissedRevokes
<1>2. CASE pc[r] = "missed" /\ kind'[r] = kind[r] /\ tok'[r] = tok[r]
  <2>1. ~Discovered(r) /\ kind[r] \in Revocations
    BY <1>2 DEF MissedInvalid, MissedRevokes
  <2>2. PICK q \in Requests : q = tok[r] /\ pc[q] = "done"
    BY <2>1 DEF Lineage
  <2>3. /\ access[q] # "live" => access'[q] # "live"
        /\ ~Usable(q) => ~Usable(q)'
    BY <2>2, TokensDecline
  <2>4. tok'[r] = q
    BY <1>2, <2>2
  <2>5. ~Discovered(r)'
    BY <1>2, <2>1, <2>2, <2>3, <2>4 DEF Discovered, Usable, InGrace, UsedUp
  <2>. QED BY <1>2, <2>1, <2>5
<1>. QED BY <1>1, <1>2, MissedBefore

\* No step stores a refresh token of a family whose code was replayed.
LEMMA StepReplay ==
    ASSUME Serializable, TypeOK, Lineage, OpenedFirst,
           ReplayLeavesNoRefresh, [Next]_vars
    PROVE  ReplayLeavesNoRefresh'
<1>. USE ConstantsAssumption DEF TypeOK, Lineage, OpenedFirst, ReplayLeavesNoRefresh, RefreshRows, RefreshRow, Phases
<1>1. CASE UNCHANGED vars
    BY <1>1 DEF vars, tables, locals
<1>2. ASSUME NEW r \in Requests, Begins(r) PROVE ReplayLeavesNoRefresh'
  <2>1. ASSUME NEW c \in Codes, NEW v \in {"none", "right", "wrong"},
               HandleCode(r, c, v) \/ HandleUsedCode(r, c)
        PROVE ReplayLeavesNoRefresh'
    BY <2>1 DEF HandleCode, HandleUsedCode, Start, Goto, tables
  <2>2. ASSUME NEW q \in Requests, HandleRefresh(r, q) \/ HandleReusedRefresh(r, q)
        PROVE ReplayLeavesNoRefresh'
    BY <2>2 DEF HandleRefresh, HandleReusedRefresh, Usable, RefreshRow, Start, Goto, tables
  <2>3. ASSUME NEW q \in Requests, NEW k \in Revocations, HandleRevocation(r, q, k)
        PROVE ReplayLeavesNoRefresh'
    BY <2>3 DEF HandleRevocation, Start, Goto, tables
  <2>. QED BY <1>2, <2>1, <2>2, <2>3 DEF Begins
<1>3. ASSUME NEW r \in Requests, Proceeds(r) \/ Abandon(r) PROVE ReplayLeavesNoRefresh'
  <2>1. CASE ReplayRevokeAccess(r)
    BY <2>1 DEF ReplayRevokeAccess, DeleteAccess, Goto, Local
  <2>2. CASE ReplayRevokeRefresh(r)
    BY <2>2 DEF ReplayRevokeRefresh, RevokeRefreshAfterReplay, DeleteRefresh, RefreshRows,
                RefreshRow, Goto, Local
  <2>3. CASE DeletePKCE(r)
    BY <2>3 DEF DeletePKCE, ConsumePKCE, Goto, Local
  <2>4. CASE CommitCode(r)
    BY <2>4 DEF CommitCode, Redeem, Goto, Local
  <2>5. CASE CommitStrict(r)
    BY <2>5 DEF CommitStrict, RotateStrict, StaleRotation, ActiveRefresh, LiveAccess,
                DeleteAccess, RefreshRow, Goto, Local
  <2>6. CASE CommitGraceful(r)
    BY <2>6 DEF CommitGraceful, RotateGraceful, DeleteAccess, RefreshRow, Goto, Local
  <2>7. CASE CommitKill(r)
    BY <2>7 DEF CommitKill, Kill, DeleteAccess, DeleteRefresh, LiveAccess, RefreshRows,
                RefreshRow, Goto, Local
  <2>8. CASE Moves(r)
    BY <2>8 DEF Moves, GetPKCE, CallHook, BeginCode, BeginRotation, RotationNotFound,
                NotFound, NothingToRotate, ForeignKeyFault, Retry, BeginKill, RevocationFault, Abandon,
                Goto, Local, tables
  <2>. QED BY <1>3, <2>1, <2>2, <2>3, <2>4, <2>5, <2>6, <2>7, <2>8 DEF Proceeds, Moves
<1>4. CASE Environment
  <2>1. ASSUME NEW c \in Codes, IssueCode(c) \/ ExpireCode(c) PROVE ReplayLeavesNoRefresh'
    BY <2>1 DEF IssueCode, ExpireCode, locals, RefreshRow, LiveAccess, RefreshRows
  <2>2. ASSUME NEW c \in Codes, RevokeConsent(c) PROVE ReplayLeavesNoRefresh'
    BY <2>2 DEF RevokeConsent, DeleteAccess, DeleteRefresh, locals, RefreshRow, LiveAccess, RefreshRows
  <2>3. CASE DeleteAccessTokens
    BY <2>3 DEF DeleteAccessTokens, DeleteAccess, locals, RefreshRow, LiveAccess, RefreshRows
  <2>4. ASSUME NEW q \in Requests, EndGrace(q) \/ ExpireRefresh(q)
        PROVE ReplayLeavesNoRefresh'
    BY <2>4 DEF EndGrace, ExpireRefresh, locals, RefreshRow, LiveAccess, RefreshRows
  <2>5. ASSUME NEW q \in Requests,
               FlushInactiveAccessTokens(q) \/ FlushInactiveRefreshTokens(q)
        PROVE ReplayLeavesNoRefresh'
    BY <2>5 DEF FlushInactiveAccessTokens, FlushInactiveRefreshTokens, DeleteAccess,
                DeleteRefresh, locals, RefreshRow, LiveAccess, RefreshRows
  <2>. QED BY <1>4, <2>1, <2>2, <2>3, <2>4, <2>5 DEF Environment
<1>. QED BY <1>1, <1>2, <1>3, <1>4 DEF Next

(***************************************************************************)
(* The theorems.                                                           *)
(***************************************************************************)
\* In every reachable state, at every isolation level and with any faults,
\* the tables are well typed, every stored token was issued by a finished
\* request whose presented token is of the same family, and nobody works on
\* a family before its authorization code was invalidated.
THEOREM Invariance == Spec => []IndInv
<1>1. IndInv /\ [Next]_vars => IndInv'
  BY StepTypeOK, StepLineage, StepOpenedFirst DEF IndInv
<1>. QED BY InitIndInv, <1>1, PTL DEF Spec

\* Serializable transactions make authorization codes single-use: of all the
\* requests that passed HandleTokenEndpointRequest with one code, at most one
\* gets through PopulateTokenEndpointResponse.
THEOREM SingleRedemptionHolds == ASSUME Serializable PROVE Spec => []SingleRedemption
<1>1. Init => SingleRedemption
  BY DEF Init, SingleRedemption
<1>2. IndInv /\ SingleRedemption /\ [Next]_vars => SingleRedemption'
  BY StepSingleRedemption DEF IndInv
<1>. QED BY Invariance, <1>1, <1>2, PTL DEF Spec

\* Serializable transactions make strictRefreshRotation leave one valid pair
\* per family, although its UPDATE and DELETE go by request_id.
THEOREM StrictSinglePairHolds == ASSUME Serializable PROVE Spec => []StrictSinglePair
<1>1. Init => StrictSinglePair
  BY DEF Init, StrictSinglePair
<1>2. IndInv /\ SingleRedemption /\ StrictSinglePair /\ [Next]_vars => StrictSinglePair'
  BY StepStrictSinglePair DEF IndInv
<1>. QED BY Invariance, SingleRedemptionHolds, <1>1, <1>2, PTL DEF Spec

\* The row of a refresh token that was rotated, strictly or gracefully, never
\* becomes active again and the access token issued with it stays deleted, so
\* that only the grace period and the reuse count can let the token pass once
\* more; graceful rotation needs no serializable transactions for it.
THEOREM ParentRetiredHolds ==
    ASSUME Serializable \/ Graceful PROVE Spec => []ParentRetired
<1>1. Init => ParentRetired
  BY DEF Init, ParentRetired
<1>2. IndInv /\ ParentRetired /\ [Next]_vars => ParentRetired'
  BY StepParentRetired DEF IndInv
<1>. QED BY Invariance, <1>1, <1>2, PTL DEF Spec

\* After revokeConsentSession no token of the flow is valid or issued later,
\* at every isolation level: the foreign keys stand in for the check that
\* the token endpoint does not repeat.
THEOREM RevokedConsentHolds == Spec => []RevokedConsentIsFinal
<1>1. Init => RevokedConsentIsFinal
  BY DEF Init, RevokedConsentIsFinal
<1>2. IndInv /\ RevokedConsentIsFinal /\ [Next]_vars => RevokedConsentIsFinal'
  BY StepRevokedConsent DEF IndInv
<1>. QED BY Invariance, <1>1, <1>2, PTL DEF Spec

\* After handleRefreshTokenReuse, or a RevokeToken that found its token, has
\* committed, no request that was already past its checks brings the family
\* back; a token that RevokeToken did not find is never found again.  Faults
\* of the statements are allowed for.
THEOREM KilledHolds == ASSUME Serializable PROVE Spec => []KilledIsFinal
<1>1. Init => KilledDead /\ MissedInvalid /\ MissedRevokes /\ InactiveUsed
  BY DEF Init, KilledDead, MissedInvalid, MissedRevokes, InactiveUsed
<1>2. IndInv /\ KilledDead /\ [Next]_vars => KilledDead'
  BY StepKilled DEF IndInv
<1>3. IndInv /\ InactiveUsed /\ MissedInvalid /\ MissedRevokes /\ [Next]_vars
      => InactiveUsed' /\ MissedInvalid' /\ MissedRevokes'
  BY StepMissed, StepInactiveUsed DEF IndInv
<1>4. KilledDead /\ MissedInvalid => KilledIsFinal
  BY DEF KilledDead, MissedInvalid, KilledIsFinal
<1>. QED BY Invariance, <1>1, <1>2, <1>3, <1>4, PTL DEF Spec

\* After a used code was presented again the family has no refresh token and
\* gets none, although the two revocations are separate transactions.
THEOREM ReplayHolds ==
    ASSUME Serializable PROVE Spec => []ReplayLeavesNoRefresh
<1>1. Init => ReplayLeavesNoRefresh
  BY DEF Init, ReplayLeavesNoRefresh
<1>2. IndInv /\ ReplayLeavesNoRefresh /\ [Next]_vars => ReplayLeavesNoRefresh'
  BY StepReplay DEF IndInv
<1>. QED BY Invariance, <1>1, <1>2, PTL DEF Spec

(***************************************************************************)
(* PKCE, the OpenID Connect session and the reuse bound.                   *)
(***************************************************************************)
\* Under enforced PKCE a request is past the PKCE handler only with the right
\* verifier: the row it consumed is the only way there.
PassedPKCE ==
    \A r \in Requests : kind[r] = "code" /\ pc[r] \in {"hook", "populate", "commit", "done"}
        => verifier[r] = "right"

\* No step lets a request without the verifier past the PKCE handler.
LEMMA StepPassedPKCE ==
    ASSUME EnforcePKCE, TypeOK, Lineage, PassedPKCE, [Next]_vars PROVE PassedPKCE'
<1>. USE ConstantsAssumption DEF TypeOK, PassedPKCE, Phases
<1>1. CASE UNCHANGED vars
    BY <1>1 DEF vars, locals
<1>2. ASSUME NEW r \in Requests, Begins(r) PROVE PassedPKCE'
    BY <1>2 DEF Begins, HandleCode, HandleUsedCode, HandleRefresh, HandleReusedRefresh,
                HandleRevocation, Start, Goto
<1>3. ASSUME NEW r \in Requests, Proceeds(r) \/ Abandon(r) PROVE PassedPKCE'
  <2>1. CASE ReplayRevokeAccess(r) \/ ReplayRevokeRefresh(r) \/ CommitKill(r)
    BY <2>1 DEF ReplayRevokeAccess, ReplayRevokeRefresh, RevokeRefreshAfterReplay,
                CommitKill, Kill, Goto, Local
  <2>2. CASE DeletePKCE(r)
    BY <2>2 DEF DeletePKCE, ConsumePKCE, Goto, Local
  <2>3. CASE CommitCode(r) \/ CommitStrict(r) \/ CommitGraceful(r)
    BY <2>3 DEF CommitCode, Redeem, CommitStrict, RotateStrict, CommitGraceful,
                RotateGraceful, Goto, Local
  <2>4. CASE Moves(r)
    BY <2>4 DEF Moves, GetPKCE, CallHook, BeginCode, BeginRotation, RotationNotFound,
                NotFound, NothingToRotate, ForeignKeyFault, Retry, BeginKill, RevocationFault, Abandon,
                Goto, Local
  <2>. QED BY <1>3, <2>1, <2>2, <2>3, <2>4 DEF Proceeds, Moves
<1>4. CASE Environment
    BY <1>4 DEF Environment, IssueCode, ExpireCode, RevokeConsent, DeleteAccessTokens,
                EndGrace, ExpireRefresh, FlushInactiveAccessTokens,
                FlushInactiveRefreshTokens, locals
<1>. QED BY <1>1, <1>2, <1>3, <1>4 DEF Next

\* With oauth2.pkce.enforced a challenged code is exchanged only by a request
\* that presented its verifier, although the challenge is deleted before the
\* comparison and a failed attempt leaves the code redeemable.
THEOREM VerifierHolds == ASSUME EnforcePKCE PROVE Spec => []VerifierChecked
<1>1. Init => PassedPKCE
  BY DEF Init, PassedPKCE
<1>2. IndInv /\ PassedPKCE /\ [Next]_vars => PassedPKCE'
  BY StepPassedPKCE DEF IndInv
<1>3. PassedPKCE => VerifierChecked
  BY DEF PassedPKCE, VerifierChecked
<1>. QED BY Invariance, <1>1, <1>2, <1>3, PTL DEF Spec

\* No step separates the OpenID Connect session from its code.
LEMMA StepOpenIDRow ==
    ASSUME TypeOK, Lineage, OpenIDRowFollowsCode, [Next]_vars PROVE OpenIDRowFollowsCode'
<1>. USE ConstantsAssumption DEF TypeOK, OpenIDRowFollowsCode
<1>1. CASE UNCHANGED vars
    BY <1>1 DEF vars, tables
<1>2. ASSUME NEW r \in Requests, Begins(r) PROVE OpenIDRowFollowsCode'
    BY <1>2 DEF Begins, HandleCode, HandleUsedCode, HandleRefresh, HandleReusedRefresh,
                HandleRevocation, Start, tables
<1>3. ASSUME NEW r \in Requests, Proceeds(r) \/ Abandon(r) PROVE OpenIDRowFollowsCode'
  <2>1. CASE CommitCode(r)
    <3>1. fam[r] \in Codes /\ code[fam[r]] \in {"active", "used"}
      BY <2>1 DEF CommitCode, Redeem, Lineage
    <3>2. code' = [code EXCEPT ![fam[r]] = "used"] /\ oidc' = oidc \ {fam[r]}
      BY <2>1, <3>1 DEF CommitCode, Redeem
    <3>. QED BY <3>1, <3>2
  <2>2. CASE ~CommitCode(r)
    BY <1>3, <2>2
       DEF Proceeds, ReplayRevokeAccess, ReplayRevokeRefresh, RevokeRefreshAfterReplay,
           CommitKill, Kill, DeletePKCE, ConsumePKCE, CommitStrict, RotateStrict,
           CommitGraceful, RotateGraceful, GetPKCE, CallHook, BeginCode, BeginRotation,
           RotationNotFound, NotFound, ForeignKeyFault, Retry, BeginKill,
           RevocationFault, Abandon, tables
  <2>. QED BY <2>1, <2>2
<1>4. CASE Environment
  <2>1. ASSUME NEW c \in Codes, IssueCode(c) PROVE OpenIDRowFollowsCode'
    BY <2>1 DEF IssueCode
  <2>2. ASSUME NEW c \in Codes, RevokeConsent(c) PROVE OpenIDRowFollowsCode'
    BY <2>2 DEF RevokeConsent
  <2>3. ASSUME UNCHANGED <<code, oidc>> PROVE OpenIDRowFollowsCode'
    BY <2>3
  <2>. QED BY <1>4, <2>1, <2>2, <2>3
           DEF Environment, ExpireCode, DeleteAccessTokens, EndGrace, ExpireRefresh,
               FlushInactiveAccessTokens, FlushInactiveRefreshTokens
<1>. QED BY <1>1, <1>2, <1>3, <1>4 DEF Next

\* The OpenID Connect session of a code is there exactly while the code is
\* active, at either isolation level and whichever exchange is abandoned.
THEOREM OpenIDRowHolds == Spec => []OpenIDRowFollowsCode
<1>1. Init => OpenIDRowFollowsCode
  BY DEF Init, OpenIDRowFollowsCode
<1>2. IndInv /\ OpenIDRowFollowsCode /\ [Next]_vars => OpenIDRowFollowsCode'
  BY StepOpenIDRow DEF IndInv
<1>. QED BY Invariance, <1>1, <1>2, PTL DEF Spec

\* The requests that were answered for refresh token q, and that used_times
\* counts them and stays within the bound.
Successors(q) == {r \in Requests : pc[r] = "done" /\ kind[r] = "refresh" /\ tok[r] = q}
UsesCounted ==
    \A q \in Requests : /\ IsFiniteSet(Successors(q))
                        /\ Cardinality(Successors(q)) = usedTimes[q]
                        /\ GraceCount > 0 => usedTimes[q] <= GraceCount

\* A step that neither finishes a refresh nor counts a use keeps the count.
LEMMA SameUses ==
    ASSUME UsesCounted, UNCHANGED usedTimes, \A q \in Requests : Successors(q)' = Successors(q)
    PROVE  UsesCounted'
BY DEF UsesCounted

\* Every step of graceful rotation counts the use it makes.
LEMMA StepUsesCounted ==
    ASSUME Graceful, TypeOK, Lineage, UsesCounted, [Next]_vars PROVE UsesCounted'
<1>. USE ConstantsAssumption DEF TypeOK, Phases
<1>1. CASE UNCHANGED vars
  <2>1. UNCHANGED <<pc, kind, tok, usedTimes>>
    BY <1>1 DEF vars, tables, locals
  <2>. QED BY <2>1, SameUses DEF Successors
<1>2. ASSUME NEW r \in Requests, Begins(r) PROVE UsesCounted'
  <2>1. /\ UNCHANGED usedTimes /\ pc[r] = "idle" /\ pc'[r] # "done"
        /\ \A s \in Requests \ {r} : pc'[s] = pc[s] /\ kind'[s] = kind[s] /\ tok'[s] = tok[s]
    BY <1>2 DEF Begins, HandleCode, HandleUsedCode, HandleRefresh, HandleReusedRefresh,
                HandleRevocation, Start, Goto, tables
  <2>. QED BY <2>1, SameUses DEF Successors
<1>3. ASSUME NEW r \in Requests, Proceeds(r) \/ Abandon(r) PROVE UsesCounted'
  <2>1. CASE CommitGraceful(r)
    <3>1. /\ tok[r] \in Requests /\ pc[r] = "commit" /\ kind[r] = "refresh"
          /\ UNCHANGED <<kind, tok>> /\ pc' = [pc EXCEPT ![r] = "done"]
          /\ usedTimes' = [usedTimes EXCEPT ![tok[r]] = @ + 1]
          /\ ~UsedUp(tok[r])
      BY <2>1 DEF CommitGraceful, RotateGraceful, Lineage, Goto, Local
    <3>2. \A q \in Requests : Successors(q)' = IF q = tok[r] THEN Successors(q) \cup {r}
                                               ELSE Successors(q)
      BY <3>1 DEF Successors
    <3>3. r \notin Successors(tok[r]) /\ IsFiniteSet(Successors(tok[r]))
      BY <3>1 DEF Successors, UsesCounted
    <3>4. /\ IsFiniteSet(Successors(tok[r]) \cup {r})
          /\ Cardinality(Successors(tok[r]) \cup {r}) = Cardinality(Successors(tok[r])) + 1
      BY <3>3, FS_AddElement
    <3>5. GraceCount > 0 => usedTimes[tok[r]] + 1 <= GraceCount
      BY <3>1 DEF UsedUp
    <3>. QED BY <3>1, <3>2, <3>4, <3>5 DEF UsesCounted
  <2>2. CASE CommitCode(r)
    <3>1. /\ kind[r] = "code" /\ UNCHANGED <<kind, tok, usedTimes>>
          /\ pc' = [pc EXCEPT ![r] = "done"]
      BY <2>2 DEF CommitCode, Redeem, Goto, Local
    <3>. QED BY <3>1, SameUses DEF Successors
  <2>3. CASE ~CommitGraceful(r) /\ ~CommitCode(r)
    <3>1. /\ UNCHANGED <<kind, tok, usedTimes>> /\ pc[r] # "done" /\ pc'[r] # "done"
          /\ \A s \in Requests \ {r} : pc'[s] = pc[s]
      BY <1>3, <2>3
         DEF Proceeds, ReplayRevokeAccess, ReplayRevokeRefresh, RevokeRefreshAfterReplay,
             CommitKill, Kill, DeletePKCE, ConsumePKCE, CommitStrict, RotateStrict,
             GetPKCE, CallHook, BeginCode, BeginRotation, RotationNotFound, NotFound,
             ForeignKeyFault, Retry, BeginKill, RevocationFault, Abandon, Goto, Local,
             tables
    <3>. QED BY <3>1, SameUses DEF Successors
  <2>. QED BY <2>1, <2>2, <2>3
<1>4. CASE Environment
  <2>1. UNCHANGED <<pc, kind, tok, usedTimes>>
    BY <1>4 DEF Environment, IssueCode, ExpireCode, RevokeConsent, DeleteAccessTokens,
                EndGrace, ExpireRefresh, FlushInactiveAccessTokens,
                FlushInactiveRefreshTokens, locals
  <2>. QED BY <2>1, SameUses DEF Successors
<1>. QED BY <1>1, <1>2, <1>3, <1>4 DEF Next

\* A refresh token is exchanged at most GraceCount times, however many requests
\* passed GetRefreshTokenSession together and at either isolation level: the
\* UPDATE of gracefulRefreshRotation enforces the bound.
THEOREM GraceBoundHolds == Spec => []GraceBound
<1>1. CASE Graceful
  <2>1. Init => UsesCounted
    <3>1. SUFFICES ASSUME Init PROVE UsesCounted
      OBVIOUS
    <3>2. \A q \in Requests : Successors(q) = {} /\ usedTimes[q] = 0
      BY <3>1 DEF Init, Successors
    <3>. QED BY <3>2, FS_EmptySet, ConstantsAssumption DEF UsesCounted
  <2>2. IndInv /\ UsesCounted /\ [Next]_vars => UsesCounted'
    BY <1>1, StepUsesCounted DEF IndInv
  <2>3. UsesCounted => GraceBound
    BY DEF UsesCounted, GraceBound, Successors
  <2>. QED BY Invariance, <2>1, <2>2, <2>3, PTL DEF Spec
<1>2. CASE ~Graceful
  <2>1. GraceBound
    BY <1>2 DEF GraceBound
  <2>. QED BY <2>1, PTL
<1>. QED BY <1>1, <1>2

(***************************************************************************)
(* Refinement: with serializable transactions the endpoints implement      *)
(* TokenFamily.                                                            *)
(***************************************************************************)
openedFams == {c \in Codes : code[c] \in {"used", "gone"}}

\* A step under which no family gains a token and no code comes back is a
\* Shrink of TokenFamily.
LEMMA ShrinkStep ==
    ASSUME openedFams \subseteq openedFams',
           \A c \in Codes : RefreshRows(c)' \subseteq RefreshRows(c)
                            /\ LiveAccess(c)' \subseteq LiveAccess(c)
    PROVE  Family!Next
BY DEF Family!Next, Family!Shrink, openedFams

\* A step that gives one unopened family its first pair is an Open.
LEMMA OpenStep ==
    ASSUME NEW f \in Codes, NEW t \in Requests, NEW S \in {{}, {t}},
           f \notin openedFams, openedFams' = openedFams \cup {f},
           \A c \in Codes : RefreshRows(c)' = IF c = f THEN S ELSE RefreshRows(c),
           \A c \in Codes : LiveAccess(c)' = IF c = f THEN {t} ELSE LiveAccess(c)
    PROVE  Family!Next
<1>1. Family!Open(f, t)
  BY DEF Family!Open, openedFams
<1>. QED BY <1>1 DEF Family!Next

\* A step that adds a pair to one opened family with a refresh token, and may
\* drop access tokens of it, is an Extend.
LEMMA ExtendStep ==
    ASSUME NEW f \in Codes, NEW t \in Requests, NEW R,
           f \in openedFams, UNCHANGED openedFams, RefreshRows(f) # {},
           t \notin RefreshRows(f) \cup LiveAccess(f),
           \A c \in Codes : RefreshRows(c)' = IF c = f THEN RefreshRows(c) \cup {t}
                                              ELSE RefreshRows(c),
           \A c \in Codes : LiveAccess(c)' = IF c = f THEN (LiveAccess(c) \ R) \cup {t}
                                             ELSE LiveAccess(c)
    PROVE  Family!Next
<1>1. LiveAccess(f) \ R \in SUBSET LiveAccess(f)
  OBVIOUS
<1>2. Family!Extend(f, t)
  BY <1>1 DEF Family!Extend, openedFams
<1>. QED BY <1>2 DEF Family!Next

\* Every step of the endpoints is a step of TokenFamily or changes nothing
\* of it.
LEMMA StepFamily ==
    ASSUME Serializable, TypeOK, Lineage, OpenedFirst, [Next]_vars
    PROVE  [Family!Next]_Family!famVars
<1>. USE ConstantsAssumption
     DEF TypeOK, Lineage, OpenedFirst, Phases, openedFams, RefreshRows, LiveAccess, RefreshRow
<1>1. CASE UNCHANGED vars
    BY <1>1, ShrinkStep DEF vars, tables, locals
<1>2. ASSUME NEW r \in Requests, Begins(r) PROVE Family!Next
  <2>1. UNCHANGED tables /\ fam' = [fam EXCEPT ![r] = fam'[r]] /\ pc[r] = "idle"
    BY <1>2 DEF Begins, HandleCode, HandleUsedCode, HandleRefresh, HandleReusedRefresh,
                HandleRevocation, Start
  <2>. QED BY <2>1, ShrinkStep DEF tables
<1>3. ASSUME NEW r \in Requests, Proceeds(r) \/ Abandon(r) PROVE Family!Next
  <2>1. CASE ReplayRevokeAccess(r)
    BY <2>1, ShrinkStep DEF ReplayRevokeAccess, DeleteAccess, Local
  <2>2. CASE ReplayRevokeRefresh(r)
    BY <2>2, ShrinkStep DEF ReplayRevokeRefresh, RevokeRefreshAfterReplay, DeleteRefresh, Local
  <2>3. CASE DeletePKCE(r)
    BY <2>3, ShrinkStep DEF DeletePKCE, ConsumePKCE, Local
  <2>4. CASE CommitCode(r)
    <3>1. /\ fam[r] \in Codes /\ code[fam[r]] = "active"
          /\ \A q \in Requests : fam[q] = fam[r] => access[q] = "none" /\ refresh[q] = "none"
      BY <2>4 DEF CommitCode, Redeem
    <3>2. openedFams' = openedFams \cup {fam[r]} /\ fam[r] \notin openedFams
      BY <2>4, <3>1 DEF CommitCode, Redeem
    <3>3. \A c \in Codes : LiveAccess(c)' = IF c = fam[r] THEN {r} ELSE LiveAccess(c)
      BY <2>4, <3>1 DEF CommitCode, Redeem, Local
    <3>4. PICK S \in {{}, {r}} : \A c \in Codes :
             RefreshRows(c)' = IF c = fam[r] THEN S ELSE RefreshRows(c)
      BY <2>4, <3>1 DEF CommitCode, Redeem, Local
    <3>. QED BY <3>1, <3>2, <3>3, <3>4, OpenStep
  <2>5. ASSUME CommitStrict(r) \/ CommitGraceful(r) PROVE Family!Next
    <3>1. /\ fam[r] \in Codes /\ code[fam[r]] \in {"used", "gone"}
          /\ access[r] = "none" /\ refresh[r] = "none"
      BY <2>5 DEF CommitStrict, CommitGraceful, RotateStrict, RotateGraceful
    <3>2. fam[r] \in openedFams /\ UNCHANGED <<code, fam, openedFams>>
      BY <2>5, <3>1 DEF CommitStrict, CommitGraceful, RotateStrict, RotateGraceful, Local
    <3>3. RefreshRows(fam[r]) # {} /\ r \notin RefreshRows(fam[r]) \cup LiveAccess(fam[r])
      BY <2>5, <3>1 DEF CommitStrict, CommitGraceful, RotateStrict, RotateGraceful,
                        ActiveRefresh
    <3>4. \A c \in Codes : RefreshRows(c)' = IF c = fam[r] THEN RefreshRows(c) \cup {r}
                                             ELSE RefreshRows(c)
      BY <2>5, <3>1 DEF CommitStrict, CommitGraceful, RotateStrict, RotateGraceful,
                        ActiveRefresh, Local
    <3>5. CASE CommitStrict(r)
      <4>1. snap[r] = LiveAccess(fam[r])
        BY <3>5 DEF CommitStrict, RotateStrict, StaleRotation
      <4>2. access' = [DeleteAccess(snap[r]) EXCEPT ![r] = "live"]
        BY <3>5 DEF CommitStrict, RotateStrict
      <4>3. \A c \in Codes :
               LiveAccess(c)' = IF c = fam[r] THEN (LiveAccess(c) \ snap[r]) \cup {r}
                                ELSE LiveAccess(c)
        BY <3>1, <3>2, <4>1, <4>2 DEF DeleteAccess
      <4>. HIDE DEF RefreshRows, LiveAccess, openedFams
      <4>. QED BY ONLY <3>1, <3>2, <3>3, <3>4, <4>3, r \in Requests, ExtendStep
    <3>6. CASE CommitGraceful(r)
      <4>. PICK R : R = {tok[r]}
        OBVIOUS
      <4>1. fam[tok[r]] = fam[r]
        BY <3>6 DEF CommitGraceful, RotateGraceful
      <4>2. access' = [DeleteAccess(R) EXCEPT ![r] = "live"]
        BY <3>6 DEF CommitGraceful, RotateGraceful
      <4>3. \A c \in Codes :
               LiveAccess(c)' = IF c = fam[r] THEN (LiveAccess(c) \ R) \cup {r}
                                ELSE LiveAccess(c)
        BY <3>1, <3>2, <4>1, <4>2 DEF DeleteAccess
      <4>. HIDE DEF RefreshRows, LiveAccess, openedFams
      <4>. QED BY ONLY <3>1, <3>2, <3>3, <3>4, <4>3, r \in Requests, ExtendStep
    <3>. QED BY <2>5, <3>5, <3>6
  <2>6. CASE CommitKill(r)
    BY <2>6, ShrinkStep DEF CommitKill, Kill, DeleteAccess, DeleteRefresh, Local
  <2>7. CASE Moves(r)
    BY <2>7, ShrinkStep
       DEF Moves, GetPKCE, CallHook, BeginCode, BeginRotation, RotationNotFound,
           NotFound, ForeignKeyFault, Retry, BeginKill, RevocationFault, Abandon,
           Local, tables
  <2>. QED BY <1>3, <2>1, <2>2, <2>3, <2>4, <2>5, <2>6, <2>7 DEF Proceeds, Moves
<1>4. CASE Environment
  <2>1. ASSUME NEW c \in Codes, IssueCode(c) \/ ExpireCode(c) PROVE Family!Next
    BY <2>1, ShrinkStep DEF IssueCode, ExpireCode, locals
  <2>2. ASSUME NEW c \in Codes, RevokeConsent(c) PROVE Family!Next
    BY <2>2, ShrinkStep DEF RevokeConsent, DeleteAccess, DeleteRefresh, locals
  <2>3. CASE DeleteAccessTokens
    BY <2>3, ShrinkStep DEF DeleteAccessTokens, DeleteAccess, locals
  <2>4. ASSUME NEW q \in Requests, EndGrace(q) \/ ExpireRefresh(q)
        PROVE Family!Next
    BY <2>4, ShrinkStep DEF EndGrace, ExpireRefresh, locals
  <2>5. ASSUME NEW q \in Requests,
               FlushInactiveAccessTokens(q) \/ FlushInactiveRefreshTokens(q)
        PROVE Family!Next
    BY <2>5, ShrinkStep DEF FlushInactiveAccessTokens, FlushInactiveRefreshTokens,
                            DeleteAccess, DeleteRefresh, locals
  <2>. QED BY <1>4, <2>1, <2>2, <2>3, <2>4, <2>5 DEF Environment
<1>. QED BY <1>1, <1>2, <1>3, <1>4 DEF Next

\* With serializable transactions the token endpoint, the revocation endpoint
\* and the administrative deletions implement TokenFamily.
THEOREM Refinement == ASSUME Serializable PROVE Spec => ImplementsFamily
<1>1. Init => Family!Init
  BY DEF Init, Family!Init, RefreshRows, RefreshRow, LiveAccess
<1>2. IndInv /\ [Next]_vars => [Family!Next]_Family!famVars
  BY StepFamily DEF IndInv
<1>. QED BY Invariance, <1>1, <1>2, PTL DEF Spec, ImplementsFamily, Family!Spec

\* And so a code's tokens are gone for good once they are gone: after a replay, a
\* revocation, a withdrawn consent or the janitor, no request that is still under
\* way, whatever it has read before, gives the family another token.
THEOREM DeadFamilyStaysDead ==
    ASSUME Serializable, NEW c \in Codes
    PROVE  Spec => [](Family!Dead(c) => []Family!Dead(c))
<1>1. Family!Dead(c) /\ [Family!Next]_Family!famVars => Family!Dead(c)'
  <2>1. ASSUME Family!Dead(c), Family!Shrink PROVE Family!Dead(c)'
    BY <2>1 DEF Family!Dead, Family!Shrink
  <2>2. ASSUME Family!Dead(c), NEW f \in Codes, NEW t \in Requests,
               Family!Open(f, t) \/ Family!Extend(f, t)
        PROVE  Family!Dead(c)'
    <3>1. f # c
      BY <2>2 DEF Family!Dead, Family!Open, Family!Extend
    <3>. QED BY <2>2, <3>1 DEF Family!Dead, Family!Open, Family!Extend
  <2>3. ASSUME Family!Dead(c), UNCHANGED Family!famVars PROVE Family!Dead(c)'
    BY <2>3 DEF Family!Dead, Family!famVars
  <2>. QED BY <2>1, <2>2, <2>3 DEF Family!Next
<1>. QED BY Refinement, <1>1, PTL DEF ImplementsFamily, Family!Spec
=============================================================================
