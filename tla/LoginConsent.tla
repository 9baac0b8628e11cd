---------------------------- MODULE LoginConsent -----------------------------
(***************************************************************************)
(* The login and consent flow of GET /oauth2/auth, the admin endpoints     *)
(* that accept login and consent requests, and the login sessions and      *)
(* consent sessions that the flow stores.                                  *)
(*                                                                         *)
(* A flow is not stored while it is under way.  Challenges and verifiers   *)
(* are encrypted copies of it that travel through the browser and the      *)
(* login and consent apps, and nothing takes a copy back: until the flow   *)
(* is older than ttl.login_consent_request, a challenge can be answered    *)
(* again and a verifier submitted again.  Single use rests on the primary  *)
(* key of hydra_oauth2_flow alone.                                         *)
(*                                                                         *)
(* There is one client, so one CSRF cookie of each kind per browser.  A    *)
(* flow is named by its login challenge (Flow.ID), and the login session   *)
(* that it creates carries its name.  A browser follows redirects as they  *)
(* are, so prompt and id_token_hint are the same in all requests of a flow.*)
(* A rejected request yields a verifier that changes nothing when it is    *)
(* submitted, and is left out.                                             *)
(***************************************************************************)
EXTENDS Naturals, FiniteSets

CONSTANTS
    Flows, Browsers, Subjects,
    Cids,           \* consent request ids (Flow.ConsentRequestID)
    Prompts,        \* the prompt parameters that the client sends
    Hints,          \* the subjects of the id_token_hints that it sends
    MaxAnswers,     \* bound: acceptances, of logins and of consents
    MaxExpired,     \* bound: how many flows become too old
    NoFlow, NoSubject, NoCid, NoChallenge, NoSession, NoRow

ASSUME ValuesAssumption ==
    /\ NoFlow \notin Flows /\ NoSubject \notin Subjects /\ NoCid \notin Cids
    /\ Prompts \subseteq {"", "login", "none", "consent"}
    /\ Hints \subseteq Subjects \cup {NoSubject}
    /\ MaxAnswers \in Nat /\ MaxExpired \in Nat

\* Flow.SessionID, and Flow.Subject as the login challenge carries it: it is
\* set iff Flow.LoginSkip is.
Challenge == [browser : Browsers, prompt : Prompts, hint : Hints, sid : Flows,
              subject : Subjects \cup {NoSubject}]
LoginVerifier == [flow : Flows, subject : Subjects,
                  remember : BOOLEAN, extend : BOOLEAN]
ConsentChallenge == [flow : Flows, cid : Cids, subject : Subjects, skip : BOOLEAN]
ConsentVerifier == [flow : Flows, cid : Cids, subject : Subjects, skip : BOOLEAN,
                    remember : BOOLEAN]
Session == [subject : Subjects, remember : BOOLEAN]
Code == [flow : Flows, cid : Cids, subject : Subjects, browser : Browsers]

ASSUME NullsAssumption ==
    NoChallenge \notin Challenge /\ NoSession \notin Session /\ NoRow \notin ConsentVerifier

VARIABLES
    \* encrypted copies of flows
    challenge,          \* login challenges, by flow
    loginVerifiers, consentChallenges, consentVerifiers,
    expired,            \* flows that decodeFlow finds too old
    \* cookies, by browser
    cookie,             \* the login session
    loginCSRF,          \* the flow whose Flow.LoginCSRF it holds
    consentCSRF,        \* the consent request whose Flow.ConsentCSRF it holds
    \* the database
    session,            \* rows of hydra_oauth2_authentication_session
    row,                \* rows of hydra_oauth2_flow
    linked,             \* rows whose login_session_id is not NULL
    codes,              \* rows of hydra_oauth2_code, and who received them
    \* requests that have stored a consent and not yet a code
    issuing

tokens == <<challenge, loginVerifiers, consentChallenges, consentVerifiers, expired>>
cookies == <<cookie, loginCSRF, consentCSRF>>
tables == <<session, row, linked, codes, issuing>>
vars == <<tokens, cookies, tables>>

TypeOK ==
    /\ challenge \in [Flows -> Challenge \cup {NoChallenge}]
    /\ loginVerifiers \subseteq LoginVerifier
    /\ consentChallenges \subseteq ConsentChallenge
    /\ consentVerifiers \subseteq ConsentVerifier
    /\ expired \subseteq Flows
    /\ cookie \in [Browsers -> Flows \cup {NoFlow}]
    /\ loginCSRF \in [Browsers -> Flows \cup {NoFlow}]
    /\ consentCSRF \in [Browsers -> Cids \cup {NoCid}]
    /\ session \in [Flows -> Session \cup {NoSession}]
    /\ row \in [Flows -> ConsentVerifier \cup {NoRow}]
    /\ linked \subseteq Flows
    /\ codes \subseteq Code /\ issuing \subseteq Code

Init ==
    /\ challenge = [f \in Flows |-> NoChallenge]
    /\ loginVerifiers = {} /\ consentChallenges = {} /\ consentVerifiers = {}
    /\ expired = {}
    /\ cookie = [b \in Browsers |-> NoFlow]
    /\ loginCSRF = [b \in Browsers |-> NoFlow]
    /\ consentCSRF = [b \in Browsers |-> NoCid]
    /\ session = [f \in Flows |-> NoSession]
    /\ row = [f \in Flows |-> NoRow]
    /\ linked = {} /\ codes = {} /\ issuing = {}

\* decodeFlow
Decodes(f) == challenge[f] # NoChallenge /\ f \notin expired

Skipped(f) == challenge[f].subject # NoSubject

Sid(f) == challenge[f].sid

(***************************************************************************)
(* GET /oauth2/auth without a verifier.                                    *)
(***************************************************************************)
\* authenticationSession
Remembered(b) ==
    {s \in Flows : cookie[b] = s /\ session[s] # NoSession /\ session[s].remember}

\* matchesValueFromSession, and the last check of ValidatePrompt
HintMatches(h, s) == h \in {NoSubject, s}

\* requestAuthentication and forwardAuthenticationRequest without a session: there
\* is none, or prompt=login, or max_age has passed.
RequestLogin(b, f, p, h) ==
    /\ challenge[f] = NoChallenge
    /\ p # "none"
    /\ challenge' = [challenge EXCEPT ![f] =
           [browser |-> b, prompt |-> p, hint |-> h, sid |-> f, subject |-> NoSubject]]
    /\ loginCSRF' = [loginCSRF EXCEPT ![b] = f]
    /\ UNCHANGED <<loginVerifiers, consentChallenges, consentVerifiers, expired,
                   cookie, consentCSRF, tables>>

\* the same with the session s that the browser is signed in to
SkipLogin(b, f, p, h, s) ==
    /\ challenge[f] = NoChallenge
    /\ p # "login"
    /\ s \in Remembered(b)
    /\ HintMatches(h, session[s].subject)
    /\ challenge' = [challenge EXCEPT ![f] =
           [browser |-> b, prompt |-> p, hint |-> h, sid |-> s, subject |-> session[s].subject]]
    /\ loginCSRF' = [loginCSRF EXCEPT ![b] = f]
    /\ UNCHANGED <<loginVerifiers, consentChallenges, consentVerifiers, expired,
                   cookie, consentCSRF, tables>>

\* acceptOAuth2LoginRequest and Flow.HandleLoginRequest.  A subject other than
\* the remembered one only sends the browser back with prompt=login; extend (of
\* the session's lifespan) is read for a skipped login alone.
AcceptLogin(f, s, remember, extend) ==
    /\ Decodes(f)
    /\ IF Skipped(f) THEN s = challenge[f].subject /\ remember ELSE ~extend
    /\ Cardinality(loginVerifiers) < MaxAnswers
    /\ loginVerifiers' = loginVerifiers \cup
           {[flow |-> f, subject |-> s, remember |-> remember, extend |-> extend]}
    /\ UNCHANGED <<challenge, consentChallenges, consentVerifiers, expired, cookies, tables>>

(***************************************************************************)
(* GET /oauth2/auth with a login verifier.                                 *)
(***************************************************************************)
\* Mutant: no CSRF check in verifyAuthentication.
LoginAllowedAnywhere(b, v) == Decodes(v.flow)

\* DecodeAndInvalidateLoginVerifier and validateCSRFCookie
LoginAllowed(b, v) == Decodes(v.flow) /\ loginCSRF[b] = v.flow

\* ValidatePrompt: the subject is the one of the id_token_hint
SubjectExpected(v) == HintMatches(challenge[v.flow].hint, v.subject)

\* ConfirmLoginSession: an upsert
Confirmed(v) ==
    IF Skipped(v.flow) THEN session
    ELSE [session EXCEPT ![Sid(v.flow)] = [subject |-> v.subject, remember |-> v.remember]]

\* DELETE of login sessions; login_session_id is ON DELETE SET NULL
DeleteSessions(from, gone) ==
    /\ session' = [s \in Flows |-> IF s \in gone THEN NoSession ELSE from[s]]
    /\ linked' = {f \in linked : Sid(f) \notin gone}

\* Mutant: the query forgets the subject.
PreviousConsentOfAnyone(s) ==
    {f \in Flows : row[f] # NoRow /\ ~row[f].skip /\ row[f].remember}

\* FindGrantedAndRememberedConsentRequest
PreviousConsent(s) ==
    {f \in Flows : row[f] # NoRow /\ row[f].subject = s /\ ~row[f].skip /\ row[f].remember}

\* Mutant: forwardConsentRequest does not look at prompt=none.
ForwardConsentAlways(b, v, c, skip) ==
    /\ skip => challenge[v.flow].prompt # "consent" /\ PreviousConsent(v.subject) # {}
    /\ \A x \in consentChallenges : x.cid # c
    /\ consentChallenges' = consentChallenges \cup
           {[flow |-> v.flow, cid |-> c, subject |-> v.subject, skip |-> skip]}
    /\ consentCSRF' = [consentCSRF EXCEPT ![b] = c]

\* requestConsent and forwardConsentRequest; skip: the client asked for no more
\* scope than the previous consent granted.
ForwardConsent(b, v, c, skip) ==
    /\ skip => challenge[v.flow].prompt # "consent" /\ PreviousConsent(v.subject) # {}
    /\ challenge[v.flow].prompt = "none" => skip
    /\ \A x \in consentChallenges : x.cid # c
    /\ consentChallenges' = consentChallenges \cup
           {[flow |-> v.flow, cid |-> c, subject |-> v.subject, skip |-> skip]}
    /\ consentCSRF' = [consentCSRF EXCEPT ![b] = c]

\* prompt=none, and no consent that covers the request: an error
ConsentRequired(v) ==
    challenge[v.flow].prompt = "none" /\ UNCHANGED <<consentChallenges, consentCSRF>>

RequestConsent(b, v) ==
    \/ \E c \in Cids, skip \in BOOLEAN : ForwardConsent(b, v, c, skip)
    \/ ConsentRequired(v)

\* verifyAuthentication of a login that is to be remembered, then requestConsent
RememberLogin(b, v) ==
    /\ LoginAllowed(b, v) /\ SubjectExpected(v) /\ v.remember
    /\ session' = Confirmed(v)
    /\ cookie' = IF Skipped(v.flow) /\ ~v.extend THEN cookie
                 ELSE [cookie EXCEPT ![b] = Sid(v.flow)]
    /\ RequestConsent(b, v)
    /\ UNCHANGED <<challenge, loginVerifiers, consentVerifiers, expired,
                   loginCSRF, row, linked, codes, issuing>>

\* the same for a login that is not to be remembered: revokeAuthenticationSession
\* ends the session that the cookie names.
ForgetLogin(b, v) ==
    /\ LoginAllowed(b, v) /\ SubjectExpected(v) /\ ~v.remember
    /\ cookie[b] # NoFlow => Confirmed(v)[cookie[b]] # NoSession
    /\ DeleteSessions(Confirmed(v), {cookie[b]})
    /\ cookie' = [cookie EXCEPT ![b] = NoFlow]
    /\ RequestConsent(b, v)
    /\ UNCHANGED <<challenge, loginVerifiers, consentVerifiers, expired,
                   loginCSRF, row, codes, issuing>>

\* ... which fails when that session is already gone: the request ends there,
\* after the cookie is cleared.
ForgetGoneSession(b, v) ==
    /\ LoginAllowed(b, v) /\ SubjectExpected(v) /\ ~v.remember
    /\ cookie[b] # NoFlow /\ Confirmed(v)[cookie[b]] = NoSession
    /\ session' = Confirmed(v)
    /\ cookie' = [cookie EXCEPT ![b] = NoFlow]
    /\ UNCHANGED <<tokens, loginCSRF, consentCSRF, row, linked, codes, issuing>>

\* ValidatePrompt answers login_required: the session that the cookie names ends,
\* and so does the request.
LoginRequired(b, v) ==
    /\ LoginAllowed(b, v) /\ ~SubjectExpected(v) /\ cookie[b] # NoFlow
    /\ DeleteSessions(session, {cookie[b]})
    /\ cookie' = [cookie EXCEPT ![b] = NoFlow]
    /\ UNCHANGED <<tokens, loginCSRF, consentCSRF, row, codes, issuing>>

(***************************************************************************)
(* Consent.                                                                *)
(***************************************************************************)
\* acceptOAuth2ConsentRequest and Flow.HandleConsentRequest
AcceptConsent(x, remember) ==
    /\ Decodes(x.flow)
    /\ Cardinality(consentVerifiers) < MaxAnswers
    /\ consentVerifiers' = consentVerifiers \cup
           {[flow |-> x.flow, cid |-> x.cid, subject |-> x.subject, skip |-> x.skip,
             remember |-> remember]}
    /\ UNCHANGED <<challenge, loginVerifiers, consentChallenges, expired, cookies, tables>>

\* Mutant: no CSRF check in verifyConsent.
ConsentAllowedAnywhere(b, v) == TRUE

\* validateCSRFCookie in verifyConsent
ConsentAllowed(b, v) == consentCSRF[b] = v.cid

\* Mutant: CreateConsentSession is an upsert, as ConfirmLoginSession is.
VerifyConsentUpsert(b, v) ==
    /\ Decodes(v.flow)
    /\ session[Sid(v.flow)] # NoSession
    /\ row' = [row EXCEPT ![v.flow] = v]
    /\ linked' = linked \cup {v.flow}
    /\ issuing' = IF ConsentAllowed(b, v)
                  THEN issuing \cup {[flow |-> v.flow, cid |-> v.cid,
                                      subject |-> v.subject, browser |-> b]}
                  ELSE issuing
    /\ UNCHANGED <<tokens, cookies, session, codes>>

\* verifyConsent: GET /oauth2/auth with a consent verifier.  The row is stored,
\* under its primary key and the foreign key to the login session, before the
\* CSRF cookie is looked at.
VerifyConsent(b, v) ==
    /\ Decodes(v.flow)
    /\ row[v.flow] = NoRow
    /\ session[Sid(v.flow)] # NoSession
    /\ row' = [row EXCEPT ![v.flow] = v]
    /\ linked' = linked \cup {v.flow}
    /\ issuing' = IF ConsentAllowed(b, v)
                  THEN issuing \cup {[flow |-> v.flow, cid |-> v.cid,
                                      subject |-> v.subject, browser |-> b]}
                  ELSE issuing
    /\ UNCHANGED <<tokens, cookies, session, codes>>

\* NewAuthorizeResponse in its transaction; challenge_id of the new row refers
\* to consent_challenge_id of hydra_oauth2_flow.
IssueAuthorizeCode(x) ==
    /\ row[x.flow] # NoRow /\ row[x.flow].cid = x.cid
    /\ codes' = codes \cup {x}
    /\ issuing' = issuing \ {x}
    /\ UNCHANGED <<tokens, cookies, session, row, linked>>

\* Any error of that transaction, or the end of the process.
AbandonIssue(x) ==
    /\ issuing' = issuing \ {x}
    /\ UNCHANGED <<tokens, cookies, session, row, linked, codes>>

\* revokeConsentSession for one consent request or for all of a subject's;
\* codes go with their row (ON DELETE CASCADE).
DeleteConsents(gone) ==
    /\ row' = [f \in Flows |-> IF f \in gone THEN NoRow ELSE row[f]]
    /\ linked' = linked \ gone
    /\ codes' = {x \in codes : x.flow \notin gone}
    /\ UNCHANGED <<tokens, cookies, session, issuing>>

RevokeConsentByID(f) == row[f] # NoRow /\ DeleteConsents({f})

RevokeSubjectConsent(s) ==
    LET gone == {f \in Flows : row[f] # NoRow /\ row[f].subject = s}
    IN gone # {} /\ DeleteConsents(gone)

(***************************************************************************)
(* The end of login sessions and flows.                                    *)
(***************************************************************************)
\* issueLogoutVerifier to completeLogout, as one step: the session is one that
\* was remembered, and the browser that follows the logout verifier, whose
\* cookie is cleared, may be another than the one signed in to that session.
CompleteLogout(b, s) ==
    /\ session[s] # NoSession /\ session[s].remember
    /\ DeleteSessions(session, {s})
    /\ cookie' = [cookie EXCEPT ![b] = NoFlow]
    /\ UNCHANGED <<tokens, loginCSRF, consentCSRF, row, codes, issuing>>

\* HandleHeadlessLogout
HeadlessLogout(s) ==
    /\ session[s] # NoSession /\ session[s].remember
    /\ DeleteSessions(session, {s})
    /\ UNCHANGED <<tokens, cookies, row, codes, issuing>>

RevokeSubjectLoginSession(u) ==
    LET gone == {s \in Flows : session[s] # NoSession /\ session[s].subject = u}
    IN /\ gone # {}
       /\ DeleteSessions(session, gone)
       /\ UNCHANGED <<tokens, cookies, row, codes, issuing>>

\* The session cookie reaches its Max-Age.
LoseCookie(b) ==
    /\ cookie[b] # NoFlow
    /\ cookie' = [cookie EXCEPT ![b] = NoFlow]
    /\ UNCHANGED <<tokens, loginCSRF, consentCSRF, tables>>

ExpireFlow(f) ==
    /\ Decodes(f)
    /\ Cardinality(expired) < MaxExpired
    /\ expired' = expired \cup {f}
    /\ UNCHANGED <<challenge, loginVerifiers, consentChallenges, consentVerifiers,
                   cookies, tables>>

Login ==
    \/ \E b \in Browsers, f \in Flows, p \in Prompts, h \in Hints :
          \/ RequestLogin(b, f, p, h)
          \/ \E s \in Flows : SkipLogin(b, f, p, h, s)
    \/ \E f \in Flows, s \in Subjects, remember, extend \in BOOLEAN :
          AcceptLogin(f, s, remember, extend)
    \/ \E b \in Browsers, v \in loginVerifiers :
          \/ RememberLogin(b, v)
          \/ ForgetLogin(b, v)
          \/ ForgetGoneSession(b, v)
          \/ LoginRequired(b, v)

Consent ==
    \/ \E x \in consentChallenges, remember \in BOOLEAN : AcceptConsent(x, remember)
    \/ \E b \in Browsers, v \in consentVerifiers : VerifyConsent(b, v)
    \/ \E x \in issuing : IssueAuthorizeCode(x) \/ AbandonIssue(x)
    \/ \E f \in Flows : RevokeConsentByID(f)
    \/ \E s \in Subjects : RevokeSubjectConsent(s)

Endings ==
    \/ \E b \in Browsers, s \in Flows : CompleteLogout(b, s)
    \/ \E s \in Flows : HeadlessLogout(s)
    \/ \E u \in Subjects : RevokeSubjectLoginSession(u)
    \/ \E b \in Browsers : LoseCookie(b)
    \/ \E f \in Flows : ExpireFlow(f)

Next == Login \/ Consent \/ Endings

Spec == Init /\ [][Next]_vars

(***************************************************************************)
(* Properties.                                                             *)
(***************************************************************************)
\* An authorization code reaches only the browser in which its flow began,
\* although verifiers can be submitted anywhere and several flows, in several
\* tabs, share the two CSRF cookies (verifyAuthentication, verifyConsent).
CodeToStarter ==
    \A x \in codes \cup issuing : challenge[x.flow].browser = x.browser

\* A browser's session cookie names a session of a flow that began in that
\* browser: nobody is signed in by a login that took place elsewhere.
CookieFromOwnLogin ==
    \A b \in Browsers : cookie[b] # NoFlow => /\ challenge[cookie[b]] # NoChallenge
                                             /\ challenge[cookie[b]].browser = b

\* A consent page is skipped only for a subject who once gave a remembered
\* consent without skipping it: skipped consents do not vouch for each other,
\* nor one subject for another (requestConsent).
SkipRootedInConsent ==
    \A x \in consentChallenges : x.skip =>
        \E v \in consentVerifiers : v.subject = x.subject /\ ~v.skip /\ v.remember

\* A stored code has the stored consent of its flow behind it, the same consent
\* request by the same subject, however often the flow's challenges were
\* answered and whatever was revoked in between.
CodeBacked ==
    \A x \in codes : /\ row[x.flow] # NoRow
                     /\ row[x.flow].cid = x.cid /\ row[x.flow].subject = x.subject

\* A code of a prompt=none request came about without any interaction; with
\* prompt=login the login, with prompt=consent the consent was not skipped.
PromptHonoured ==
    \A x \in codes :
        /\ challenge[x.flow].prompt = "none" => Skipped(x.flow) /\ row[x.flow].skip
        /\ challenge[x.flow].prompt = "login" => ~Skipped(x.flow)
        /\ challenge[x.flow].prompt = "consent" => ~row[x.flow].skip

\* Logins with credentials.
UnskippedLogins == {v \in loginVerifiers : ~Skipped(v.flow)}

\* What the properties above rest on.  Flows: a flow's session is of the same
\* browser; prompts are obeyed at each step.  Cookies: the CSRF cookies belong to
\* flows of their browser.  Copies: consent request ids are not shared, and each
\* later copy of a flow extends an earlier one.
FlowsSound ==
    \A f \in Flows : challenge[f] # NoChallenge =>
        /\ challenge[Sid(f)] # NoChallenge
        /\ challenge[Sid(f)].browser = challenge[f].browser
        /\ challenge[f].prompt = "login" => ~Skipped(f)
        /\ challenge[f].prompt = "none" => Skipped(f)

CookiesSound ==
    \A b \in Browsers :
        /\ loginCSRF[b] # NoFlow => /\ challenge[loginCSRF[b]] # NoChallenge
                                    /\ challenge[loginCSRF[b]].browser = b
        /\ consentCSRF[b] # NoCid =>
               \E x \in consentChallenges : /\ x.cid = consentCSRF[b]
                                            /\ challenge[x.flow].browser = b

CopiesSound ==
    /\ \A v \in loginVerifiers : challenge[v.flow] # NoChallenge
    /\ \A x \in consentChallenges :
          /\ challenge[x.flow] # NoChallenge
          /\ challenge[x.flow].prompt = "none" => x.skip
          /\ challenge[x.flow].prompt = "consent" => ~x.skip
          /\ \A y \in consentChallenges : x.cid = y.cid => x = y
    /\ \A v \in consentVerifiers : \E x \in consentChallenges :
          v.flow = x.flow /\ v.cid = x.cid /\ v.subject = x.subject /\ v.skip = x.skip

TablesSound ==
    /\ \A f \in Flows : row[f] # NoRow => row[f] \in consentVerifiers /\ row[f].flow = f
    /\ \A x \in codes \cup issuing : \E v \in consentVerifiers :
          v.flow = x.flow /\ v.cid = x.cid /\ v.subject = x.subject

FlowInv ==
    /\ TypeOK
    /\ FlowsSound /\ CookiesSound /\ CopiesSound /\ TablesSound
    /\ CodeToStarter /\ CookieFromOwnLogin /\ SkipRootedInConsent /\ CodeBacked

\* Every session, and every subject of a skipped login, goes back to a login with
\* credentials: of the flow that the session is named after, in the same browser.
LoginsRooted ==
    /\ \A f \in Flows : challenge[f] # NoChallenge =>
          IF Skipped(f)
          THEN \E v \in UnskippedLogins : /\ v.subject = challenge[f].subject
                                          /\ challenge[v.flow].browser = challenge[f].browser
          ELSE Sid(f) = f
    /\ \A s \in Flows : session[s] # NoSession =>
          \E v \in UnskippedLogins : v.flow = s /\ v.subject = session[s].subject
    /\ \A v \in loginVerifiers : Skipped(v.flow) => v.subject = challenge[v.flow].subject
    /\ \A x \in consentChallenges :
          \E v \in loginVerifiers : v.flow = x.flow /\ v.subject = x.subject

\* An inductive invariant: with these, a code goes where its flow began, cookies
\* name one's own logins, skipped consents are rooted, codes have their consent,
\* and whoever is granted a code has logged in.
IndInv == FlowInv /\ LoginsRooted

(***************************************************************************)
(* What login and consent promise: see Authorization.                      *)
(***************************************************************************)
Began == {<<f, challenge[f].browser>> : f \in {g \in Flows : challenge[g] # NoChallenge}}

CredentialLogins == {<<v.subject, challenge[v.flow].browser>> : v \in UnskippedLogins}

\* Consents that were asked for, whether or not they were sent on.
Answers == {v \in consentVerifiers : ~v.skip}

Approvals == {<<v.flow, v.subject>> : v \in Answers}

RememberedSubjects == {v.subject : v \in {w \in Answers : w.remember}}

Grants == {<<f, row[f].subject>> : f \in {g \in Flows : row[g] # NoRow}}

IssuedCodes == {<<x.flow, x.subject, x.browser>> : x \in codes}

Auth == INSTANCE Authorization WITH
    began <- Began, logins <- CredentialLogins,
    approvals <- Approvals, remembered <- RememberedSubjects,
    grants <- Grants, codes <- IssuedCodes

\* The flow implements Authorization: whatever is replayed, revoked or skipped, a
\* code goes to the browser in which its flow began, for a subject who has logged
\* in there with credentials and has approved it, or an earlier one for good, and
\* who is the only one the flow has a grant for.
ImplementsAuthorization == Auth!Spec
=============================================================================
