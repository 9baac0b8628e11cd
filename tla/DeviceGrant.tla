----------------------------- MODULE DeviceGrant -----------------------------
(***************************************************************************)
(* The device authorization grant: POST /oauth2/device/auth, the user who  *)
(* types the code in and consents at /oauth2/device/verify, and the device *)
(* that polls the token endpoint.                                          *)
(*                                                                         *)
(* A device code is named by its request id.  The user's login and consent *)
(* are those of LoginConsent; here a flow is one consent request, of one   *)
(* subject for one device, whose row is stored when its verifier is        *)
(* submitted, and again after it was revoked.  A user code is free again   *)
(* when its device code is used.                                           *)
(* Rows that carry a challenge_id (device codes, OpenID Connect sessions,  *)
(* tokens) need the consent's row and go with it (ON DELETE CASCADE).      *)
(* The device requests all scopes; clients and audiences are left out.     *)
(***************************************************************************)
EXTENDS Naturals

CONSTANTS
    Devices,        \* device codes
    UserCodes,
    Flows,          \* consent requests, by consent_challenge_id
    Scopes,
    Verifiers,      \* requests that submit a consent verifier
    Polls,          \* token requests of the devices
    Isolations,     \* isolation levels of the database that are looked at
    NoDevice, NoFlow, NoRow

\* "openid" \in Scopes is the scope for which an ID token is issued.
ASSUME DeviceAssumption ==
    /\ NoDevice \notin Devices /\ NoFlow \notin Flows
    /\ Isolations \subseteq {"serializable", "read_committed"}

DeviceRow == [userCode : UserCodes, state : {"unused", "accepted"},
              flow : Flows \cup {NoFlow}, granted : SUBSET Scopes]
\* userCode: what the user typed in; the flow itself keeps only the request id.
Challenge == [device : Devices, userCode : UserCodes]
Token == [poll : Polls, device : Devices, flow : Flows, granted : SUBSET Scopes,
          idToken : Flows \cup {NoFlow}]

ASSUME NoRowAssumption == NoRow \notin DeviceRow /\ NoRow \notin Challenge

VARIABLES
    isolation,      \* of the transactions at the token endpoint
    \* the database
    device,         \* rows of hydra_oauth2_device_auth_codes
    consent,        \* rows of hydra_oauth2_flow
    openid,         \* rows of hydra_oauth2_oidc, by device code: their flow
    tokens,         \* access and refresh tokens, and the ID token issued with them
    \* outside
    issued,         \* device codes that were handed out
    expired,        \* device and user codes whose lifetime is over
    challenge,      \* flows that were started for a user code
    \* requests that submit a consent verifier
    vpc, vflow,
    vdevice,        \* the device code that was read
    vgranted,       \* the scopes of the consent, and of the device code's row
    \* polls
    pc, code,
    seen,           \* the row as it was read
    \* history
    exchanged       \* <<poll, device code>>

tables == <<device, consent, openid, tokens>>
outside == <<isolation, issued, expired, challenge>>
verifying == <<vpc, vflow, vdevice, vgranted>>
polling == <<pc, code, seen, exchanged>>
vars == <<tables, outside, verifying, polling>>

TypeOK ==
    /\ isolation \in Isolations
    /\ device \in [Devices -> DeviceRow \cup {NoRow}]
    /\ consent \subseteq Flows
    /\ openid \in [Devices -> Flows \cup {NoFlow}]
    /\ tokens \subseteq Token
    /\ issued \subseteq Devices /\ expired \subseteq Devices
    /\ challenge \in [Flows -> Challenge \cup {NoRow}]
    /\ vpc \in [Verifiers -> {"idle", "stored", "read"}]
    /\ vflow \in [Verifiers -> Flows \cup {NoFlow}]
    /\ vdevice \in [Verifiers -> Devices \cup {NoDevice}]
    /\ vgranted \in [Verifiers -> SUBSET Scopes]
    /\ pc \in [Polls -> {"idle", "handled", "read", "answered"}]
    /\ code \in [Polls -> Devices \cup {NoDevice}]
    /\ seen \in [Polls -> DeviceRow \cup {NoRow}]
    /\ exchanged \subseteq Polls \X Devices

Init ==
    /\ isolation \in Isolations
    /\ device = [d \in Devices |-> NoRow]
    /\ consent = {}
    /\ openid = [d \in Devices |-> NoFlow]
    /\ tokens = {}
    /\ issued = {} /\ expired = {}
    /\ challenge = [f \in Flows |-> NoRow]
    /\ vpc = [v \in Verifiers |-> "idle"]
    /\ vflow = [v \in Verifiers |-> NoFlow]
    /\ vdevice = [v \in Verifiers |-> NoDevice]
    /\ vgranted = [v \in Verifiers |-> {}]
    /\ pc = [p \in Polls |-> "idle"]
    /\ code = [p \in Polls |-> NoDevice]
    /\ seen = [p \in Polls |-> NoRow]
    /\ exchanged = {}

(***************************************************************************)
(* Codes.                                                                  *)
(***************************************************************************)
\* handleDeviceAuthSession: the user code is unique among the rows; a collision
\* is tried again with another one.
CreateDeviceAuthSession(d, k) ==
    /\ d \notin issued
    /\ \A e \in Devices : device[e] # NoRow => device[e].userCode # k
    /\ issued' = issued \cup {d}
    /\ device' = [device EXCEPT ![d] = [userCode |-> k, state |-> "unused",
                                        flow |-> NoFlow, granted |-> {}]]
    /\ UNCHANGED <<consent, openid, tokens, isolation, expired, challenge, verifying, polling>>

ExpireCodes(d) ==
    /\ d \in issued \ expired
    /\ expired' = expired \cup {d}
    /\ UNCHANGED <<tables, isolation, issued, challenge, verifying, polling>>

\* acceptUserCodeRequest, and the login that follows: the flow keeps the request
\* id of the device code, and nothing marks the user code as taken.
AcceptUserCode(f, d) ==
    /\ challenge[f] = NoRow
    /\ device[d] # NoRow /\ device[d].state = "unused" /\ d \notin expired
    /\ challenge' = [challenge EXCEPT ![f] =
           [device |-> d, userCode |-> device[d].userCode]]
    /\ UNCHANGED <<tables, isolation, issued, expired, verifying, polling>>

(***************************************************************************)
(* performOAuth2DeviceVerificationFlow.                                    *)
(***************************************************************************)
\* verifyConsent stores the flow, under its primary key.
VerifyConsent(v, f, granted) ==
    /\ vpc[v] = "idle"
    /\ challenge[f] # NoRow /\ f \notin consent
    /\ consent' = consent \cup {f}
    /\ vpc' = [vpc EXCEPT ![v] = "stored"]
    /\ vflow' = [vflow EXCEPT ![v] = f]
    /\ vgranted' = [vgranted EXCEPT ![v] = granted]
    /\ UNCHANGED <<device, openid, tokens, outside, vdevice, polling>>

EndVerification(v) ==
    /\ vpc' = [vpc EXCEPT ![v] = "idle"]
    /\ vflow' = [vflow EXCEPT ![v] = NoFlow]
    /\ vdevice' = [vdevice EXCEPT ![v] = NoDevice]
    /\ vgranted' = [vgranted EXCEPT ![v] = {}]

\* Mutant: the device code is looked up by the user code that was typed in.
DevicesOfUserCode(f) ==
    {d \in Devices : device[d] # NoRow /\ device[d].userCode = challenge[f].userCode}

\* GetDeviceCodeSessionByRequestID: neither its state nor its expiry is looked at.
DevicesOfFlow(f) == {d \in Devices : device[d] # NoRow /\ d = challenge[f].device}

\* The row is read before the transaction, and updateSessionWithRequest adds the
\* flow's scopes to those of the row.
ReadDevice(v) ==
    /\ vpc[v] = "stored"
    /\ \E d \in DevicesOfFlow(vflow[v]) :
          /\ vdevice' = [vdevice EXCEPT ![v] = d]
          /\ vgranted' = [vgranted EXCEPT ![v] = @ \cup device[d].granted]
    /\ vpc' = [vpc EXCEPT ![v] = "read"]
    /\ UNCHANGED <<tables, outside, vflow, polling>>

AbandonVerification(v) ==
    /\ vpc[v] # "idle"
    /\ EndVerification(v)
    /\ UNCHANGED <<tables, outside, polling>>

\* UpdateDeviceCodeSessionBySignature: an update of no row is no error.
Accept(d, f, granted) ==
    device' = IF device[d] = NoRow THEN device
              ELSE [device EXCEPT ![d] = [userCode |-> @.userCode, state |-> "accepted",
                                          flow |-> f, granted |-> granted]]

\* The transaction: the device code is accepted, and an OpenID Connect session
\* created under the primary key; challenge_id refers to the flow's row.
CommitVerification(v) ==
    LET f == vflow[v]
        d == vdevice[v]
    IN /\ vpc[v] = "read"
       /\ f \in consent
       /\ Accept(d, f, vgranted[v])
       /\ IF "openid" \in vgranted[v]
          THEN openid[d] = NoFlow /\ openid' = [openid EXCEPT ![d] = f]
          ELSE UNCHANGED openid
       /\ EndVerification(v)
       /\ UNCHANGED <<consent, tokens, outside, polling>>

\* revokeConsentSession, with what the foreign keys delete
RevokeConsent(f) ==
    /\ f \in consent
    /\ consent' = consent \ {f}
    /\ device' = [d \in Devices |-> IF device[d] # NoRow /\ device[d].flow = f
                                    THEN NoRow ELSE device[d]]
    /\ openid' = [d \in Devices |-> IF openid[d] = f THEN NoFlow ELSE openid[d]]
    /\ tokens' = {t \in tokens : t.flow # f}
    /\ UNCHANGED <<outside, verifying, polling>>

(***************************************************************************)
(* The token endpoint.                                                     *)
(***************************************************************************)
\* session, ValidateDeviceCode
Exchangeable(d) == device[d] # NoRow /\ device[d].state = "accepted" /\ d \notin expired

\* HandleTokenEndpointRequest; a pending, unknown or expired code is refused.
HandleTokenEndpointRequest(p, d) ==
    /\ pc[p] = "idle" /\ Exchangeable(d)
    /\ pc' = [pc EXCEPT ![p] = "handled"]
    /\ code' = [code EXCEPT ![p] = d]
    /\ seen' = [seen EXCEPT ![p] = device[d]]
    /\ UNCHANGED <<tables, outside, verifying, exchanged>>

\* Mutant: no foreign key on challenge_id of the tokens.
ExchangeUnchecked(p, x) ==
    LET d == code[p]
    IN /\ device' = [device EXCEPT ![d] = NoRow]
       /\ tokens' = tokens \cup {[poll |-> p, device |-> d, flow |-> x.flow,
                                  granted |-> x.granted, idToken |-> openid[d]]}
       /\ exchanged' = exchanged \cup {<<p, d>>}
       /\ pc' = [pc EXCEPT ![p] = "answered"]
       /\ UNCHANGED <<consent, openid, outside, verifying, code, seen>>

\* what PopulateTokenEndpointResponse writes for the row x that it has read:
\* the device code is deleted, the tokens are stored, and an ID token is issued if
\* there is an OpenID Connect session, which stays (it is deleted by the device
\* code, and stored by its signature).
Exchange(p, x) ==
    LET d == code[p]
    IN /\ x.flow \in consent
       /\ device' = [device EXCEPT ![d] = NoRow]
       /\ tokens' = tokens \cup {[poll |-> p, device |-> d, flow |-> x.flow,
                                  granted |-> x.granted, idToken |-> openid[d]]}
       /\ exchanged' = exchanged \cup {<<p, d>>}
       /\ pc' = [pc EXCEPT ![p] = "answered"]
       /\ UNCHANGED <<consent, openid, outside, verifying, code, seen>>

\* Mutant: the session of the first read is used, without a second look.
PopulateFromFirstRead(p) ==
    /\ isolation = "serializable"
    /\ pc[p] = "handled"
    /\ Exchange(p, seen[p])

\* PopulateTokenEndpointResponse where transactions are serializable
Populate(p) ==
    /\ isolation = "serializable"
    /\ pc[p] = "handled" /\ Exchangeable(code[p])
    /\ Exchange(p, device[code[p]])

\* and in two statements, with others in between, where they are not: the DELETE
\* does not tell whether there was a row.
PopulateRead(p) ==
    /\ isolation = "read_committed"
    /\ pc[p] = "handled" /\ Exchangeable(code[p])
    /\ seen' = [seen EXCEPT ![p] = device[code[p]]]
    /\ pc' = [pc EXCEPT ![p] = "read"]
    /\ UNCHANGED <<tables, outside, verifying, code, exchanged>>

PopulateWrite(p) ==
    /\ pc[p] = "read"
    /\ Exchange(p, seen[p])

\* The hook refuses, the second look finds no code, or a statement fails.
AbandonPoll(p) ==
    /\ pc[p] \in {"handled", "read"}
    /\ pc' = [pc EXCEPT ![p] = "answered"]
    /\ UNCHANGED <<tables, outside, verifying, code, seen, exchanged>>

Codes ==
    \E d \in Devices :
        \/ \E k \in UserCodes : CreateDeviceAuthSession(d, k)
        \/ ExpireCodes(d)
        \/ \E f \in Flows : AcceptUserCode(f, d)

Verification ==
    \/ \E v \in Verifiers :
          \/ \E f \in Flows, granted \in SUBSET Scopes : VerifyConsent(v, f, granted)
          \/ ReadDevice(v) \/ CommitVerification(v) \/ AbandonVerification(v)
    \/ \E f \in Flows : RevokeConsent(f)

Polling ==
    \E p \in Polls :
        \/ \E d \in Devices : HandleTokenEndpointRequest(p, d)
        \/ Populate(p) \/ PopulateRead(p) \/ PopulateWrite(p) \/ AbandonPoll(p)

Next == Codes \/ Verification \/ Polling

Spec == Init /\ [][Next]_vars

(***************************************************************************)
(* Properties.                                                             *)
(***************************************************************************)
\* The flow was started by someone who typed in the code of the device.
TypedFor(f, d) == f # NoFlow /\ challenge[f] # NoRow /\ challenge[f].device = d

\* Where transactions are serializable, a device code is exchanged once, however
\* often and fast the device polls (PopulateTokenEndpointResponse).
SingleExchange ==
    isolation = "serializable" =>
        \A x, y \in exchanged : x[2] = y[2] => x = y

\* Tokens stand only on a consent that is stored, and it, like the one behind the
\* ID token, was given by someone who typed in the code of that very device;
\* revoking the consent leaves no token, even while a poll is under way.
DeviceTokensBacked ==
    \A t \in tokens :
        /\ t.flow \in consent /\ TypedFor(t.flow, t.device)
        /\ t.idToken # NoFlow => TypedFor(t.idToken, t.device)

\* A device is accepted only by a user who typed in its code: not the one of
\* another device that had the same user code before
\* (performOAuth2DeviceVerificationFlow).
AcceptedForTyped ==
    \A d \in Devices :
        (device[d] # NoRow /\ device[d].state = "accepted") => TypedFor(device[d].flow, d)

\* What these rest on.  Rows: a device code that has a row was handed out, and an
\* accepted one has its consent.  Verifications: they work for the device of
\* their flow.  Polls: the row a poll has read was one of its device code.
RowsSound ==
    \A d \in Devices :
        /\ device[d] # NoRow => d \in issued
        /\ (device[d] # NoRow /\ device[d].state = "accepted") => device[d].flow \in consent
        /\ openid[d] # NoFlow => TypedFor(openid[d], d)

VerificationsSound ==
    \A v \in Verifiers :
        /\ vpc[v] # "idle" => vflow[v] # NoFlow /\ challenge[vflow[v]] # NoRow
        /\ vpc[v] = "read" => TypedFor(vflow[v], vdevice[v])

PollsSound ==
    /\ \A p \in Polls :
          /\ pc[p] # "idle" => /\ code[p] \in issued
                               /\ seen[p] # NoRow /\ TypedFor(seen[p].flow, code[p])
          /\ pc[p] = "read" => isolation = "read_committed"
    /\ \A x \in exchanged : /\ pc[x[1]] = "answered" /\ code[x[1]] = x[2]
                            /\ isolation = "serializable" => device[x[2]] = NoRow
    /\ \A t \in tokens : <<t.poll, t.device>> \in exchanged

\* An inductive invariant.
IndInv ==
    /\ TypeOK
    /\ RowsSound /\ VerificationsSound /\ PollsSound
    /\ SingleExchange /\ DeviceTokensBacked /\ AcceptedForTyped

(***************************************************************************)
(* The tokens of one device code are a family: see TokenFamily.            *)
(***************************************************************************)
TokensOf(d) == {t \in tokens : t.device = d}

\* A refresh token is stored with an access token if offline_access was granted.
AccessOf(d) == {t.poll : t \in TokensOf(d)}
RefreshOf(d) == {t.poll : t \in {u \in TokensOf(d) : "offline_access" \in u.granted}}

Family == INSTANCE TokenFamily WITH
    Families <- Devices, Tokens <- Polls,
    opened <- {d \in issued : device[d] = NoRow},
    rows <- [d \in Devices |-> RefreshOf(d)],
    valid <- [d \in Devices |-> AccessOf(d)]

\* Where transactions are serializable, the grant implements TokenFamily: a device
\* code that was exchanged, or whose consent was withdrawn, yields no token any
\* more, whichever polls and verifications are still under way.
ImplementsDeviceFamily ==
    Family!Init /\ [][isolation = "serializable" => Family!Next]_(Family!famVars)
=============================================================================
