------------------------- MODULE LoginConsentProofs --------------------------
(***************************************************************************)
(* Proofs about LoginConsent, for every number of flows, browsers,         *)
(* subjects and answers.                                                   *)
(***************************************************************************)
EXTENDS LoginConsent, TLAPS

\* The fields of the records that the state holds.
LEMMA Fields ==
  ASSUME TypeOK
  PROVE  /\ \A f \in Flows : challenge[f] # NoChallenge =>
                /\ challenge[f] \in Challenge /\ challenge[f].sid \in Flows
                /\ challenge[f].browser \in Browsers
         /\ \A v \in loginVerifiers : v.flow \in Flows /\ v.subject \in Subjects
         /\ \A x \in consentChallenges : /\ x.flow \in Flows /\ x.cid \in Cids
                                          /\ x.subject \in Subjects
         /\ \A v \in consentVerifiers : /\ v.flow \in Flows /\ v.cid \in Cids
                                         /\ v.subject \in Subjects
         /\ \A x \in codes \cup issuing : /\ x.flow \in Flows /\ x.cid \in Cids
                                           /\ x.browser \in Browsers
         /\ \A b \in Browsers : /\ cookie[b] \in Flows \cup {NoFlow}
                                 /\ loginCSRF[b] \in Flows \cup {NoFlow}
                                 /\ consentCSRF[b] \in Cids \cup {NoCid}
  <1>1. \A f \in Flows : challenge[f] # NoChallenge => challenge[f] \in Challenge
    BY DEF TypeOK
  <1>2. \A r \in Challenge : r.sid \in Flows /\ r.browser \in Browsers
    BY DEF Challenge
  <1>3. \A v \in LoginVerifier : v.flow \in Flows /\ v.subject \in Subjects
    BY DEF LoginVerifier
  <1>4. \A x \in ConsentChallenge : x.flow \in Flows /\ x.cid \in Cids /\ x.subject \in Subjects
    BY DEF ConsentChallenge
  <1>5. \A v \in ConsentVerifier : v.flow \in Flows /\ v.cid \in Cids /\ v.subject \in Subjects
    BY DEF ConsentVerifier
  <1>6. \A x \in Code : x.flow \in Flows /\ x.cid \in Cids /\ x.browser \in Browsers
    BY DEF Code
  <1> QED  BY <1>1, <1>2, <1>3, <1>4, <1>5, <1>6 DEF TypeOK

LEMMA InitFlowInv == Init => FlowInv
  BY ValuesAssumption, NullsAssumption
     DEF Init, FlowInv, TypeOK, FlowsSound, CookiesSound, CopiesSound, TablesSound,
         CodeToStarter, CookieFromOwnLogin, SkipRootedInConsent, CodeBacked

\* Steps that delete sessions, consents, codes or session cookies, or end a
\* request, and leave all copies of flows alone.
LEMMA ShrinkStep ==
  ASSUME FlowInv, TypeOK',
         UNCHANGED <<challenge, loginVerifiers, consentChallenges, consentVerifiers,
                     loginCSRF, consentCSRF>>,
         \A b \in Browsers : cookie'[b] \in {cookie[b], NoFlow},
         \A f \in Flows : row'[f] \in {row[f], NoRow},
         codes' \subseteq codes, issuing' \subseteq issuing,
         \A x \in codes' : row'[x.flow] = row[x.flow]
  PROVE  FlowInv'
  <1>1. FlowsSound' /\ CookiesSound' /\ CopiesSound'
    BY DEF FlowInv, FlowsSound, CookiesSound, CopiesSound, Sid, Skipped
  <1>2. TablesSound'
    BY DEF FlowInv, TablesSound
  <1>3. CodeToStarter' /\ SkipRootedInConsent' /\ CodeBacked'
    BY DEF FlowInv, CodeToStarter, SkipRootedInConsent, CodeBacked
  <1>4. CookieFromOwnLogin'
    BY DEF FlowInv, CookieFromOwnLogin
  <1> QED  BY <1>1, <1>2, <1>3, <1>4 DEF FlowInv

\* A new login challenge, given what the flow's session is.
LEMMA ChallengeStep ==
  ASSUME FlowInv, TypeOK',
         NEW b \in Browsers, NEW f \in Flows, NEW new \in Challenge,
         challenge[f] = NoChallenge,
         challenge' = [challenge EXCEPT ![f] = new],
         loginCSRF' = [loginCSRF EXCEPT ![b] = f],
         new.browser = b,
         new.sid = f \/ (challenge[new.sid] # NoChallenge /\ challenge[new.sid].browser = b),
         new.prompt = "login" => new.subject = NoSubject,
         new.prompt = "none" => new.subject # NoSubject,
         UNCHANGED <<loginVerifiers, consentChallenges, consentVerifiers, expired,
                     cookie, consentCSRF, tables>>
  PROVE  FlowInv'
  <1> USE Fields DEF FlowInv
  <1>0. challenge'[f] = new /\ \A g \in Flows \ {f} : challenge'[g] = challenge[g]
    BY DEF TypeOK
  <1>a. new.sid \in Flows
    BY DEF Challenge
  <1>1. FlowsSound'
    <2> SUFFICES ASSUME NEW g \in Flows, challenge'[g] # NoChallenge
                 PROVE  /\ challenge'[challenge'[g].sid] # NoChallenge
                        /\ challenge'[challenge'[g].sid].browser = challenge'[g].browser
                        /\ challenge'[g].prompt = "login" => challenge'[g].subject = NoSubject
                        /\ challenge'[g].prompt = "none" => challenge'[g].subject # NoSubject
      BY DEF FlowsSound, Sid, Skipped
    <2>1. CASE g = f
      BY <1>0, <1>a, <2>1
    <2>2. CASE g # f
      <3>1. challenge[g].sid \in Flows
        BY <2>2, <1>0
      <3>2. challenge'[g] = challenge[g]
        BY <2>2, <1>0
      <3>3. /\ challenge[challenge[g].sid] # NoChallenge
            /\ challenge[challenge[g].sid].browser = challenge[g].browser
            /\ challenge[g].prompt = "login" => challenge[g].subject = NoSubject
            /\ challenge[g].prompt = "none" => challenge[g].subject # NoSubject
        BY <3>2 DEF FlowsSound, Sid, Skipped
      <3>4. challenge'[challenge[g].sid] = challenge[challenge[g].sid]
        BY <3>1, <3>3, <1>0
      <3> QED  BY <3>2, <3>3, <3>4
    <2> QED  BY <2>1, <2>2
  <1>2. CookiesSound'
    <2> SUFFICES ASSUME NEW d \in Browsers
                 PROVE  /\ loginCSRF'[d] # NoFlow =>
                               /\ challenge'[loginCSRF'[d]] # NoChallenge
                               /\ challenge'[loginCSRF'[d]].browser = d
                        /\ consentCSRF[d] # NoCid =>
                               \E x \in consentChallenges : /\ x.cid = consentCSRF[d]
                                                            /\ challenge'[x.flow].browser = d
      BY DEF CookiesSound
    <2>1. loginCSRF'[d] # NoFlow => /\ challenge'[loginCSRF'[d]] # NoChallenge
                                    /\ challenge'[loginCSRF'[d]].browser = d
      <3>1. CASE d = b
        <4>1. loginCSRF'[d] = f
          BY <3>1 DEF TypeOK
        <4> QED  BY <4>1, <3>1, <1>0, NullsAssumption
      <3>2. CASE d # b
        <4>1. loginCSRF'[d] = loginCSRF[d]
          BY <3>2 DEF TypeOK
        <4> QED  BY <4>1, <1>0 DEF CookiesSound
      <3> QED  BY <3>1, <3>2
    <2>2. \A x \in consentChallenges : challenge'[x.flow] = challenge[x.flow]
      BY <1>0 DEF CopiesSound
    <2> QED  BY <2>1, <2>2 DEF CookiesSound
  <1>3. CopiesSound'
    <2>1. \A x \in consentChallenges : challenge'[x.flow] = challenge[x.flow]
      BY <1>0 DEF CopiesSound
    <2>2. \A v \in loginVerifiers : challenge'[v.flow] = challenge[v.flow]
      BY <1>0 DEF CopiesSound
    <2> QED  BY <2>1, <2>2 DEF CopiesSound
  <1>4. TablesSound' /\ SkipRootedInConsent' /\ CodeBacked'
    BY DEF TablesSound, SkipRootedInConsent, CodeBacked, tables
  <1>5. CodeToStarter'
    <2> SUFFICES ASSUME NEW x \in codes \cup issuing
                 PROVE  challenge'[x.flow].browser = x.browser
      BY DEF CodeToStarter, tables
    <2>1. x.flow \in Flows /\ challenge[x.flow] # NoChallenge
      BY DEF TablesSound, CopiesSound
    <2>2. challenge'[x.flow] = challenge[x.flow]
      BY <2>1, <1>0
    <2> QED  BY <2>2 DEF CodeToStarter
  <1>6. CookieFromOwnLogin'
    BY <1>0 DEF CookieFromOwnLogin
  <1> QED  BY <1>1, <1>2, <1>3, <1>4, <1>5, <1>6

\* A new consent challenge c of flow v.flow, sent to browser b, which holds the
\* login CSRF cookie of that flow, and with it the session cookie ck.
LEMMA ConsentChallengeStep ==
  ASSUME FlowInv, TypeOK',
         NEW b \in Browsers, NEW v \in loginVerifiers,
         LoginAllowed(b, v), RequestConsent(b, v),
         \A d \in Browsers : \/ cookie'[d] \in {cookie[d], NoFlow}
                             \/ d = b /\ cookie'[d] = Sid(v.flow),
         UNCHANGED <<challenge, loginVerifiers, consentVerifiers, loginCSRF,
                     row, codes, issuing>>
  PROVE  FlowInv'
  <1> USE Fields DEF FlowInv
  <1>0. /\ v.flow \in Flows /\ challenge[v.flow] # NoChallenge
        /\ challenge[v.flow].browser = b
    <2>1. v.flow \in Flows /\ challenge[v.flow] # NoChallenge /\ loginCSRF[b] = v.flow
      BY DEF LoginAllowed, Decodes
    <2>2. NoFlow \notin Flows
      BY ValuesAssumption
    <2> QED  BY <2>1, <2>2 DEF CookiesSound
  <1>1. CookieFromOwnLogin'
    BY <1>0 DEF FlowsSound, CookieFromOwnLogin, Sid
  <1>2. FlowsSound' /\ TablesSound' /\ CodeToStarter' /\ CodeBacked'
    BY DEF FlowsSound, TablesSound, CodeToStarter, CodeBacked, Sid, Skipped
  <1>3. CASE ConsentRequired(v)
    <2>1. CookiesSound' /\ CopiesSound' /\ SkipRootedInConsent'
      BY <1>3 DEF ConsentRequired, CookiesSound, CopiesSound, SkipRootedInConsent
    <2> QED  BY <1>1, <1>2, <2>1
  <1>4. ASSUME NEW c \in Cids, NEW skip \in BOOLEAN, ForwardConsent(b, v, c, skip)
        PROVE  FlowInv'
    <2> DEFINE new == [flow |-> v.flow, cid |-> c, subject |-> v.subject, skip |-> skip]
    <2>1. /\ consentChallenges' = consentChallenges \cup {new}
          /\ consentCSRF' = [consentCSRF EXCEPT ![b] = c]
          /\ \A x \in consentChallenges : x.cid # c
      BY <1>4 DEF ForwardConsent
    <2>2. new.flow = v.flow /\ new.cid = c /\ new.subject = v.subject /\ new.skip = skip
      OBVIOUS
    <2>3. /\ challenge[v.flow].prompt = "none" => skip
          /\ challenge[v.flow].prompt = "consent" => ~skip
          /\ skip => PreviousConsent(v.subject) # {}
      BY <1>4 DEF ForwardConsent
    <2> HIDE DEF new
    <2>4. CopiesSound'
      <3>1. \A x \in consentChallenges' :
              /\ challenge[x.flow] # NoChallenge
              /\ challenge[x.flow].prompt = "none" => x.skip
              /\ challenge[x.flow].prompt = "consent" => ~x.skip
              /\ \A y \in consentChallenges' : x.cid = y.cid => x = y
        BY <1>0, <2>1, <2>2, <2>3 DEF CopiesSound
      <3> QED  BY <3>1, <2>1 DEF CopiesSound
    <2>5. CookiesSound'
      <3> SUFFICES ASSUME NEW d \in Browsers, consentCSRF'[d] # NoCid
                   PROVE  \E x \in consentChallenges' : /\ x.cid = consentCSRF'[d]
                                                        /\ challenge[x.flow].browser = d
        BY DEF CookiesSound
      <3>1. CASE d = b
        BY <3>1, <1>0, <2>1, <2>2 DEF TypeOK
      <3>2. CASE d # b
        <4>1. consentCSRF'[d] = consentCSRF[d]
          BY <3>2, <2>1 DEF TypeOK
        <4> QED  BY <4>1, <2>1 DEF CookiesSound
      <3> QED  BY <3>1, <3>2
    <2>6. SkipRootedInConsent'
      <3>1. skip => \E w \in consentVerifiers : /\ w.subject = v.subject
                                                /\ ~w.skip /\ w.remember
        BY <2>3 DEF PreviousConsent, TablesSound
      <3> QED  BY <3>1, <2>1, <2>2 DEF SkipRootedInConsent
    <2> QED  BY <1>1, <1>2, <2>4, <2>5, <2>6
  <1> QED  BY <1>3, <1>4 DEF RequestConsent

\* A consent verifier is a copy of a challenge.
LEMMA AcceptConsentStep ==
  ASSUME FlowInv, TypeOK',
         NEW x \in consentChallenges, NEW remember \in BOOLEAN, AcceptConsent(x, remember)
  PROVE  FlowInv'
  <1> USE Fields DEF FlowInv, AcceptConsent, cookies, tables
  <1>1. FlowsSound' /\ CookiesSound' /\ CodeToStarter' /\ CodeBacked' /\ CookieFromOwnLogin'
    BY DEF FlowsSound, CookiesSound, CodeToStarter, CodeBacked, CookieFromOwnLogin, Sid, Skipped
  <1>2. CopiesSound'
    BY DEF CopiesSound
  <1>3. TablesSound' /\ SkipRootedInConsent'
    BY DEF TablesSound, SkipRootedInConsent
  <1> QED  BY <1>1, <1>2, <1>3

\* A consent is stored; its code is on the way to b only if b has the CSRF cookie
\* of this consent request.
LEMMA VerifyConsentStep ==
  ASSUME FlowInv, TypeOK',
         NEW b \in Browsers, NEW v \in consentVerifiers, VerifyConsent(b, v)
  PROVE  FlowInv'
  <1> USE Fields DEF FlowInv
  <1>0. /\ row[v.flow] = NoRow /\ row' = [row EXCEPT ![v.flow] = v]
        /\ UNCHANGED <<challenge, loginVerifiers, consentChallenges, consentVerifiers,
                       cookie, loginCSRF, consentCSRF, codes>>
    BY DEF VerifyConsent, tokens, cookies
  <1> DEFINE new == [flow |-> v.flow, cid |-> v.cid, subject |-> v.subject, browser |-> b]
  <1>1. /\ new.flow = v.flow /\ new.cid = v.cid
        /\ new.subject = v.subject /\ new.browser = b
    OBVIOUS
  <1>2. issuing' = issuing \/ (issuing' = issuing \cup {new} /\ consentCSRF[b] = v.cid)
    BY DEF VerifyConsent, ConsentAllowed
  <1> HIDE DEF new
  <1>3. FlowsSound' /\ CookiesSound' /\ CopiesSound' /\ CookieFromOwnLogin'
        /\ SkipRootedInConsent'
    BY <1>0 DEF FlowsSound, CookiesSound, CopiesSound, CookieFromOwnLogin,
                SkipRootedInConsent, Sid, Skipped
  <1>4. TablesSound'
    <2>1. \A f \in Flows : row'[f] # NoRow => row'[f] \in consentVerifiers /\ row'[f].flow = f
      BY <1>0 DEF TypeOK, TablesSound
    <2>2. \A x \in codes \cup issuing' : \E w \in consentVerifiers :
            w.flow = x.flow /\ w.cid = x.cid /\ w.subject = x.subject
      BY <1>1, <1>2 DEF TablesSound
    <2> QED  BY <1>0, <2>1, <2>2 DEF TablesSound
  <1>5. CodeToStarter'
    <2>1. consentCSRF[b] = v.cid => challenge[v.flow].browser = b
      <3> SUFFICES ASSUME consentCSRF[b] = v.cid
                   PROVE  challenge[v.flow].browser = b
        OBVIOUS
      <3>1. PICK x \in consentChallenges : v.flow = x.flow /\ v.cid = x.cid
        BY DEF CopiesSound
      <3>2. PICK y \in consentChallenges : y.cid = v.cid /\ challenge[y.flow].browser = b
        <4>1. consentCSRF[b] # NoCid
          BY ValuesAssumption
        <4> QED  BY <4>1 DEF CookiesSound
      <3> QED  BY <3>1, <3>2 DEF CopiesSound
    <2> QED  BY <1>0, <1>1, <1>2, <2>1 DEF CodeToStarter
  <1>6. CodeBacked'
    <2>1. \A x \in codes : x.flow \in Flows /\ row'[x.flow] = row[x.flow]
      BY <1>0 DEF CodeBacked, TypeOK
    <2> QED  BY <1>0, <2>1 DEF CodeBacked
  <1> QED  BY <1>3, <1>4, <1>5, <1>6

\* A code is stored; its consent request id determines the subject.
LEMMA IssueStep ==
  ASSUME FlowInv, TypeOK', NEW x \in issuing, IssueAuthorizeCode(x)
  PROVE  FlowInv'
  <1> USE Fields DEF FlowInv
  <1>0. /\ row[x.flow] # NoRow /\ row[x.flow].cid = x.cid
        /\ codes' = codes \cup {x} /\ issuing' = issuing \ {x}
        /\ UNCHANGED <<challenge, loginVerifiers, consentChallenges, consentVerifiers,
                       cookie, loginCSRF, consentCSRF, row>>
    BY DEF IssueAuthorizeCode, tokens, cookies
  <1>1. FlowsSound' /\ CookiesSound' /\ CopiesSound' /\ CookieFromOwnLogin'
        /\ SkipRootedInConsent'
    BY <1>0 DEF FlowsSound, CookiesSound, CopiesSound, CookieFromOwnLogin,
                SkipRootedInConsent, Sid, Skipped
  <1>2. TablesSound' /\ CodeToStarter'
    BY <1>0 DEF TablesSound, CodeToStarter
  <1>3. row[x.flow].subject = x.subject
    <2>1. x.flow \in Flows /\ row[x.flow] \in consentVerifiers
      BY <1>0 DEF TablesSound
    <2>2. PICK w \in consentVerifiers : w.cid = x.cid /\ w.subject = x.subject
      BY DEF TablesSound
    <2>3. PICK y \in consentChallenges : y.cid = x.cid /\ y.subject = row[x.flow].subject
      BY <1>0, <2>1 DEF CopiesSound
    <2>4. PICK z \in consentChallenges : z.cid = x.cid /\ z.subject = x.subject
      BY <2>2 DEF CopiesSound
    <2> QED  BY <2>3, <2>4 DEF CopiesSound
  <1>4. CodeBacked'
    BY <1>0, <1>3 DEF CodeBacked
  <1> QED  BY <1>1, <1>2, <1>4

\* Every step keeps the state typed.
LEMMA TypeStep ==
  ASSUME TypeOK, Next
  PROVE  TypeOK'
  <1> USE Fields DEF TypeOK, tokens, cookies, tables
  <1>a. ASSUME NEW from \in [Flows -> Session \cup {NoSession}], NEW gone,
               DeleteSessions(from, gone)
        PROVE  /\ session' \in [Flows -> Session \cup {NoSession}]
               /\ linked' \subseteq Flows
    BY <1>a DEF DeleteSessions
  <1>b. \A v \in loginVerifiers : Decodes(v.flow) =>
          Confirmed(v) \in [Flows -> Session \cup {NoSession}]
    BY DEF Confirmed, Session, Sid, Decodes, LoginVerifier
  <1>c. ASSUME NEW b \in Browsers, NEW v \in loginVerifiers, RequestConsent(b, v)
        PROVE  /\ consentChallenges' \subseteq ConsentChallenge
               /\ consentCSRF' \in [Browsers -> Cids \cup {NoCid}]
    <2>1. CASE ConsentRequired(v)
      BY <2>1 DEF ConsentRequired
    <2>2. ASSUME NEW c \in Cids, NEW skip \in BOOLEAN, ForwardConsent(b, v, c, skip)
          PROVE  /\ consentChallenges' \subseteq ConsentChallenge
                 /\ consentCSRF' \in [Browsers -> Cids \cup {NoCid}]
      BY <2>2 DEF ForwardConsent, ConsentChallenge
    <2> QED  BY <1>c, <2>1, <2>2 DEF RequestConsent
  <1>1. ASSUME NEW b \in Browsers, NEW f \in Flows, NEW p \in Prompts, NEW h \in Hints,
               RequestLogin(b, f, p, h)
        PROVE  TypeOK'
    BY <1>1 DEF RequestLogin, Challenge
  <1>2. ASSUME NEW b \in Browsers, NEW f \in Flows, NEW p \in Prompts, NEW h \in Hints,
               NEW s \in Flows, SkipLogin(b, f, p, h, s)
        PROVE  TypeOK'
    BY <1>2 DEF SkipLogin, Challenge, Remembered, Session
  <1>3. ASSUME NEW f \in Flows, NEW s \in Subjects, NEW remember \in BOOLEAN,
               NEW extend \in BOOLEAN, AcceptLogin(f, s, remember, extend)
        PROVE  TypeOK'
    BY <1>3 DEF AcceptLogin, LoginVerifier
  <1>4. ASSUME NEW b \in Browsers, NEW v \in loginVerifiers, RememberLogin(b, v)
        PROVE  TypeOK'
    BY <1>4, <1>b, <1>c DEF RememberLogin, LoginAllowed, Decodes, Sid
  <1>5. ASSUME NEW b \in Browsers, NEW v \in loginVerifiers, ForgetLogin(b, v)
        PROVE  TypeOK'
    <2>1. /\ session' \in [Flows -> Session \cup {NoSession}]
          /\ linked' \subseteq Flows
      BY <1>5, <1>a, <1>b DEF ForgetLogin, LoginAllowed
    <2> QED  BY <1>5, <1>c, <2>1 DEF ForgetLogin
  <1>6. ASSUME NEW b \in Browsers, NEW v \in loginVerifiers, ForgetGoneSession(b, v)
        PROVE  TypeOK'
    BY <1>6, <1>b DEF ForgetGoneSession, LoginAllowed
  <1>7. ASSUME NEW b \in Browsers, NEW v \in loginVerifiers, LoginRequired(b, v)
        PROVE  TypeOK'
    BY <1>7, <1>a DEF LoginRequired
  <1>8. ASSUME NEW x \in consentChallenges, NEW remember \in BOOLEAN,
               AcceptConsent(x, remember)
        PROVE  TypeOK'
    BY <1>8 DEF AcceptConsent, ConsentVerifier, ConsentChallenge
  <1>9. ASSUME NEW b \in Browsers, NEW v \in consentVerifiers, VerifyConsent(b, v)
        PROVE  TypeOK'
    BY <1>9 DEF VerifyConsent, Code
  <1>10. ASSUME NEW x \in issuing, IssueAuthorizeCode(x) \/ AbandonIssue(x)
         PROVE  TypeOK'
    BY <1>10 DEF IssueAuthorizeCode, AbandonIssue
  <1>11. ASSUME NEW gone, DeleteConsents(gone)
         PROVE  TypeOK'
    BY <1>11 DEF DeleteConsents
  <1>12. ASSUME NEW b \in Browsers, NEW s \in Flows, CompleteLogout(b, s)
         PROVE  TypeOK'
    BY <1>12, <1>a DEF CompleteLogout
  <1>13. ASSUME NEW s \in Flows, HeadlessLogout(s)
         PROVE  TypeOK'
    BY <1>13, <1>a DEF HeadlessLogout
  <1>14. ASSUME NEW u \in Subjects, RevokeSubjectLoginSession(u)
         PROVE  TypeOK'
    BY <1>14, <1>a DEF RevokeSubjectLoginSession
  <1>15. ASSUME NEW b \in Browsers, LoseCookie(b)
         PROVE  TypeOK'
    BY <1>15 DEF LoseCookie
  <1>16. ASSUME NEW f \in Flows, ExpireFlow(f)
         PROVE  TypeOK'
    BY <1>16 DEF ExpireFlow
  <1>17. Login => TypeOK'
    BY <1>1, <1>2, <1>3, <1>4, <1>5, <1>6, <1>7 DEF Login
  <1>18. Consent => TypeOK'
    BY <1>8, <1>9, <1>10, <1>11 DEF Consent, RevokeConsentByID, RevokeSubjectConsent
  <1>19. Endings => TypeOK'
    BY <1>12, <1>13, <1>14, <1>15, <1>16 DEF Endings
  <1> QED  BY <1>17, <1>18, <1>19 DEF Next

\* Every step keeps the flow's part of the inductive invariant.
LEMMA FlowInvStep ==
  ASSUME FlowInv, Next
  PROVE  FlowInv'
  <1>0. TypeOK'
    BY TypeStep DEF FlowInv
  <1> USE DEF tokens, cookies, tables
  <1>1. ASSUME NEW b \in Browsers, NEW f \in Flows, NEW p \in Prompts, NEW h \in Hints,
               RequestLogin(b, f, p, h)
        PROVE  FlowInv'
    <2> DEFINE new == [browser |-> b, prompt |-> p, hint |-> h, sid |-> f,
                       subject |-> NoSubject]
    <2>1. /\ challenge[f] = NoChallenge /\ p # "none"
          /\ challenge' = [challenge EXCEPT ![f] = new]
          /\ loginCSRF' = [loginCSRF EXCEPT ![b] = f]
          /\ UNCHANGED <<loginVerifiers, consentChallenges, consentVerifiers, expired,
                         cookie, consentCSRF, tables>>
      BY <1>1 DEF RequestLogin
    <2>2. /\ new \in Challenge /\ new.browser = b /\ new.sid = f /\ new.prompt = p
          /\ new.subject = NoSubject
      BY DEF Challenge
    <2> HIDE DEF new
    <2> QED  BY <1>0, <2>1, <2>2, ChallengeStep
  <1>2. ASSUME NEW b \in Browsers, NEW f \in Flows, NEW p \in Prompts, NEW h \in Hints,
               NEW s \in Flows, SkipLogin(b, f, p, h, s)
        PROVE  FlowInv'
    <2> DEFINE new == [browser |-> b, prompt |-> p, hint |-> h, sid |-> s,
                       subject |-> session[s].subject]
    <2>1. /\ challenge[f] = NoChallenge /\ p # "login" /\ s \in Remembered(b)
          /\ challenge' = [challenge EXCEPT ![f] = new]
          /\ loginCSRF' = [loginCSRF EXCEPT ![b] = f]
          /\ UNCHANGED <<loginVerifiers, consentChallenges, consentVerifiers, expired,
                         cookie, consentCSRF, tables>>
      BY <1>2 DEF SkipLogin
    <2>2. cookie[b] = s /\ session[s].subject \in Subjects
      BY <2>1 DEF Remembered, FlowInv, TypeOK, Session
    <2>3. cookie[b] # NoFlow
      BY <2>2, ValuesAssumption
    <2>4. challenge[s] # NoChallenge /\ challenge[s].browser = b
      BY <2>2, <2>3 DEF FlowInv, CookieFromOwnLogin
    <2>5. /\ new \in Challenge /\ new.browser = b /\ new.sid = s /\ new.prompt = p
          /\ new.subject = session[s].subject
      BY <2>2 DEF Challenge
    <2>6. new.subject # NoSubject
      BY <2>2, <2>5, ValuesAssumption
    <2> HIDE DEF new
    <2> QED  BY <1>0, <2>1, <2>4, <2>5, <2>6, ChallengeStep
  <1>3. ASSUME NEW f \in Flows, NEW s \in Subjects, NEW remember \in BOOLEAN,
               NEW extend \in BOOLEAN, AcceptLogin(f, s, remember, extend)
        PROVE  FlowInv'
    <2>1. CopiesSound'
      BY <1>3 DEF AcceptLogin, Decodes, FlowInv, CopiesSound
    <2>2. /\ FlowsSound' /\ CookiesSound' /\ TablesSound'
          /\ CodeToStarter' /\ CookieFromOwnLogin' /\ SkipRootedInConsent' /\ CodeBacked'
      BY <1>3 DEF AcceptLogin, FlowInv, FlowsSound, CookiesSound, TablesSound, CodeToStarter,
                  CookieFromOwnLogin, SkipRootedInConsent, CodeBacked, Sid, Skipped
    <2> QED  BY <1>0, <2>1, <2>2 DEF FlowInv
  <1>4. ASSUME NEW b \in Browsers, NEW v \in loginVerifiers,
               RememberLogin(b, v) \/ ForgetLogin(b, v)
        PROVE  FlowInv'
    <2>1. \A d \in Browsers : \/ cookie'[d] \in {cookie[d], NoFlow}
                              \/ d = b /\ cookie'[d] = Sid(v.flow)
      BY <1>4 DEF RememberLogin, ForgetLogin, FlowInv, TypeOK
    <2>2. /\ LoginAllowed(b, v) /\ RequestConsent(b, v)
          /\ UNCHANGED <<challenge, loginVerifiers, consentVerifiers, loginCSRF,
                         row, codes, issuing>>
      BY <1>4 DEF RememberLogin, ForgetLogin
    <2> QED  BY <1>0, <2>1, <2>2, ConsentChallengeStep
  <1>5. ASSUME NEW b \in Browsers,
               \/ \E v \in loginVerifiers : ForgetGoneSession(b, v) \/ LoginRequired(b, v)
               \/ \E s \in Flows : CompleteLogout(b, s)
               \/ LoseCookie(b)
        PROVE  FlowInv'
    <2>1. /\ cookie' = [cookie EXCEPT ![b] = NoFlow]
          /\ UNCHANGED <<challenge, loginVerifiers, consentChallenges, consentVerifiers,
                         loginCSRF, consentCSRF, row, codes, issuing>>
      BY <1>5 DEF ForgetGoneSession, LoginRequired, CompleteLogout, LoseCookie
    <2>2. \A d \in Browsers : cookie'[d] \in {cookie[d], NoFlow}
      BY <2>1 DEF FlowInv, TypeOK
    <2> QED  BY <1>0, <2>1, <2>2, ShrinkStep
  <1>6. ASSUME NEW gone, DeleteConsents(gone)
        PROVE  FlowInv'
    <2>1. /\ row' = [f \in Flows |-> IF f \in gone THEN NoRow ELSE row[f]]
          /\ codes' = {x \in codes : x.flow \notin gone}
          /\ UNCHANGED <<challenge, loginVerifiers, consentChallenges, consentVerifiers,
                         cookie, loginCSRF, consentCSRF, issuing>>
      BY <1>6 DEF DeleteConsents
    <2>2. \A x \in codes' : row'[x.flow] = row[x.flow]
      BY <2>1, Fields DEF FlowInv
    <2> QED  BY <1>0, <2>1, <2>2, ShrinkStep
  <1>7. ASSUME \/ \E s \in Flows : HeadlessLogout(s)
               \/ \E u \in Subjects : RevokeSubjectLoginSession(u)
               \/ \E f \in Flows : ExpireFlow(f)
               \/ \E x \in issuing : AbandonIssue(x)
        PROVE  FlowInv'
    <2>1. /\ UNCHANGED <<challenge, loginVerifiers, consentChallenges, consentVerifiers,
                         cookie, loginCSRF, consentCSRF, row, codes>>
          /\ issuing' \subseteq issuing
      BY <1>7 DEF HeadlessLogout, RevokeSubjectLoginSession, ExpireFlow, AbandonIssue
    <2> QED  BY <1>0, <2>1, ShrinkStep
  <1>8. Login => FlowInv'
    BY <1>1, <1>2, <1>3, <1>4, <1>5 DEF Login
  <1>9. Consent => FlowInv'
    BY <1>0, <1>6, <1>7, AcceptConsentStep, VerifyConsentStep, IssueStep
       DEF Consent, RevokeConsentByID, RevokeSubjectConsent
  <1>10. Endings => FlowInv'
    BY <1>5, <1>7 DEF Endings
  <1> QED  BY <1>8, <1>9, <1>10 DEF Next

\* Logins with credentials stay such when a flow begins.
LEMMA UnskippedStable ==
  ASSUME FlowInv, NEW f \in Flows, NEW new,
         challenge[f] = NoChallenge,
         challenge' = [challenge EXCEPT ![f] = new],
         loginVerifiers' = loginVerifiers
  PROVE  /\ \A v \in loginVerifiers : challenge'[v.flow] = challenge[v.flow]
         /\ UnskippedLogins' = UnskippedLogins
  <1>1. \A v \in loginVerifiers : challenge'[v.flow] = challenge[v.flow]
    BY Fields DEF FlowInv, TypeOK, CopiesSound
  <1> QED  BY <1>1 DEF UnskippedLogins, Skipped

\* Steps that begin no flow, add no session, and take no login back: a consent
\* challenge that they add belongs to a login.
LEMMA RootedStep ==
  ASSUME LoginsRooted, UNCHANGED <<challenge, loginVerifiers>>,
         \A s \in Flows : session'[s] \in {session[s], NoSession},
         \A x \in consentChallenges' \ consentChallenges :
            \E v \in loginVerifiers : v.flow = x.flow /\ v.subject = x.subject
  PROVE  LoginsRooted'
  <1>1. UnskippedLogins' = UnskippedLogins
    BY DEF UnskippedLogins, Skipped
  <1> QED  BY <1>1 DEF LoginsRooted, Skipped, Sid

\* A new login challenge: without a session it is its own session's, otherwise the
\* session's subject has logged in in this browser.
LEMMA RootedChallenge ==
  ASSUME FlowInv, LoginsRooted, NEW f \in Flows, NEW new,
         challenge[f] = NoChallenge,
         challenge' = [challenge EXCEPT ![f] = new],
         IF new.subject = NoSubject
         THEN new.sid = f
         ELSE \E v \in UnskippedLogins : /\ v.subject = new.subject
                                         /\ challenge[v.flow].browser = new.browser,
         UNCHANGED <<loginVerifiers, consentChallenges, session>>
  PROVE  LoginsRooted'
  <1>1. /\ \A v \in loginVerifiers : challenge'[v.flow] = challenge[v.flow]
        /\ UnskippedLogins' = UnskippedLogins
    BY UnskippedStable
  <1>2. UnskippedLogins \subseteq loginVerifiers
    BY DEF UnskippedLogins
  <1>3. challenge'[f] = new /\ \A g \in Flows \ {f} : challenge'[g] = challenge[g]
    BY DEF FlowInv, TypeOK
  <1>4. ASSUME NEW g \in Flows, challenge'[g] # NoChallenge
        PROVE  IF challenge'[g].subject # NoSubject
               THEN \E v \in UnskippedLogins :
                       /\ v.subject = challenge'[g].subject
                       /\ challenge'[v.flow].browser = challenge'[g].browser
               ELSE challenge'[g].sid = g
    <2>1. CASE g = f
      BY <2>1, <1>1, <1>2, <1>3
    <2>2. CASE g # f
      BY <2>2, <1>1, <1>2, <1>3, <1>4 DEF LoginsRooted, Skipped, Sid
    <2> QED  BY <2>1, <2>2
  <1>5. /\ \A s \in Flows : session[s] # NoSession =>
              \E v \in UnskippedLogins : v.flow = s /\ v.subject = session[s].subject
        /\ \A v \in loginVerifiers :
              challenge'[v.flow].subject # NoSubject => v.subject = challenge'[v.flow].subject
        /\ \A x \in consentChallenges :
              \E v \in loginVerifiers : v.flow = x.flow /\ v.subject = x.subject
    BY <1>1 DEF LoginsRooted, Skipped
  <1> QED  BY <1>1, <1>4, <1>5 DEF LoginsRooted, Skipped, Sid

\* ConfirmLoginSession stores a session for a login with credentials, or none.
LEMMA ConfirmedRooted ==
  ASSUME FlowInv, LoginsRooted, NEW v \in loginVerifiers, Decodes(v.flow),
         NEW s \in Flows, Confirmed(v)[s] # NoSession
  PROVE  \E w \in UnskippedLogins : w.flow = s /\ w.subject = Confirmed(v)[s].subject
  <1>1. v.flow \in Flows /\ challenge[v.flow] # NoChallenge
    BY Fields DEF FlowInv, Decodes
  <1>2. CASE Skipped(v.flow)
    BY <1>2 DEF Confirmed, LoginsRooted
  <1>3. CASE ~Skipped(v.flow)
    <2>1. Sid(v.flow) = v.flow /\ v \in UnskippedLogins
      BY <1>1, <1>3 DEF LoginsRooted, UnskippedLogins
    <2>2. Confirmed(v) = [session EXCEPT ![v.flow] = [subject |-> v.subject,
                                                       remember |-> v.remember]]
      BY <1>3, <2>1 DEF Confirmed
    <2>3. CASE s = v.flow
      <3>1. Confirmed(v)[s] = [subject |-> v.subject, remember |-> v.remember]
        BY <2>2, <2>3 DEF FlowInv, TypeOK
      <3>2. Confirmed(v)[s].subject = v.subject
        BY <3>1
      <3> QED  BY <3>2, <2>1, <2>3
    <2>4. CASE s # v.flow
      BY <2>2, <2>4 DEF FlowInv, TypeOK, LoginsRooted
    <2> QED  BY <2>3, <2>4
  <1> QED  BY <1>2, <1>3

\* A login verifier is submitted: the session it confirms is rooted, and so is the
\* consent challenge that it brings about.
LEMMA RootedVerify ==
  ASSUME FlowInv, LoginsRooted, NEW b \in Browsers, NEW v \in loginVerifiers,
         Decodes(v.flow),
         \A s \in Flows : session'[s] \in {Confirmed(v)[s], NoSession},
         RequestConsent(b, v) \/ consentChallenges' = consentChallenges,
         UNCHANGED <<challenge, loginVerifiers>>
  PROVE  LoginsRooted'
  <1>1. UnskippedLogins' = UnskippedLogins
    BY DEF UnskippedLogins, Skipped
  <1>2. \A s \in Flows : session'[s] # NoSession =>
          \E w \in UnskippedLogins : w.flow = s /\ w.subject = session'[s].subject
    BY ConfirmedRooted
  <1>3. \A x \in consentChallenges' :
          \E w \in loginVerifiers : w.flow = x.flow /\ w.subject = x.subject
    <2>1. CASE consentChallenges' = consentChallenges
      BY <2>1 DEF LoginsRooted
    <2>2. ASSUME NEW c \in Cids, NEW skip \in BOOLEAN, ForwardConsent(b, v, c, skip),
                 NEW x \in consentChallenges'
          PROVE  \E w \in loginVerifiers : w.flow = x.flow /\ w.subject = x.subject
      <3> DEFINE new == [flow |-> v.flow, cid |-> c, subject |-> v.subject, skip |-> skip]
      <3>1. new.flow = v.flow /\ new.subject = v.subject
        OBVIOUS
      <3>2. consentChallenges' = consentChallenges \cup {new}
        BY <2>2 DEF ForwardConsent
      <3> HIDE DEF new
      <3> QED  BY <3>1, <3>2, <2>2 DEF LoginsRooted
    <2> QED  BY <2>1, <2>2 DEF RequestConsent, ConsentRequired
  <1> QED  BY <1>1, <1>2, <1>3 DEF LoginsRooted, Skipped, Sid

\* A login challenge is accepted, for its own subject when the login was skipped.
LEMMA RootedAccept ==
  ASSUME FlowInv, LoginsRooted, NEW f \in Flows, NEW s \in Subjects,
         NEW remember \in BOOLEAN, NEW extend \in BOOLEAN,
         AcceptLogin(f, s, remember, extend)
  PROVE  LoginsRooted'
  <1> DEFINE new == [flow |-> f, subject |-> s, remember |-> remember, extend |-> extend]
  <1>1. new.flow = f /\ new.subject = s
    OBVIOUS
  <1>2. /\ loginVerifiers' = loginVerifiers \cup {new}
        /\ Skipped(f) => s = challenge[f].subject
        /\ UNCHANGED <<challenge, session, consentChallenges>>
    BY DEF AcceptLogin, tables
  <1> HIDE DEF new
  <1>3. UnskippedLogins \subseteq UnskippedLogins'
    BY <1>2 DEF UnskippedLogins, Skipped
  <1>4. \A v \in loginVerifiers' : Skipped(v.flow) => v.subject = challenge[v.flow].subject
    BY <1>1, <1>2 DEF LoginsRooted
  <1> QED  BY <1>2, <1>3, <1>4 DEF LoginsRooted, Skipped, Sid

LEMMA RootedInvStep ==
  ASSUME FlowInv, LoginsRooted, Next
  PROVE  LoginsRooted'
  <1> USE DEF tokens, cookies, tables
  <1>1. ASSUME NEW b \in Browsers, NEW f \in Flows, NEW p \in Prompts, NEW h \in Hints,
               RequestLogin(b, f, p, h)
        PROVE  LoginsRooted'
    <2> DEFINE new == [browser |-> b, prompt |-> p, hint |-> h, sid |-> f,
                       subject |-> NoSubject]
    <2>1. /\ challenge[f] = NoChallenge
          /\ challenge' = [challenge EXCEPT ![f] = new]
          /\ UNCHANGED <<loginVerifiers, consentChallenges, session>>
      BY <1>1 DEF RequestLogin
    <2>2. new.sid = f /\ new.subject = NoSubject
      OBVIOUS
    <2> HIDE DEF new
    <2> QED  BY <2>1, <2>2, RootedChallenge
  <1>2. ASSUME NEW b \in Browsers, NEW f \in Flows, NEW p \in Prompts, NEW h \in Hints,
               NEW s \in Flows, SkipLogin(b, f, p, h, s)
        PROVE  LoginsRooted'
    <2> DEFINE new == [browser |-> b, prompt |-> p, hint |-> h, sid |-> s,
                       subject |-> session[s].subject]
    <2>1. /\ challenge[f] = NoChallenge /\ s \in Remembered(b)
          /\ challenge' = [challenge EXCEPT ![f] = new]
          /\ UNCHANGED <<loginVerifiers, consentChallenges, session>>
      BY <1>2 DEF SkipLogin
    <2>2. new.browser = b /\ new.subject = session[s].subject
      OBVIOUS
    <2>3. /\ cookie[b] = s /\ cookie[b] # NoFlow
          /\ session[s] # NoSession /\ session[s].subject # NoSubject
      BY <2>1, ValuesAssumption DEF Remembered, FlowInv, TypeOK, Session
    <2>4. challenge[s].browser = b
      BY <2>3 DEF FlowInv, CookieFromOwnLogin
    <2>5. PICK v \in UnskippedLogins : v.flow = s /\ v.subject = session[s].subject
      BY <2>3 DEF LoginsRooted
    <2> HIDE DEF new
    <2> QED  BY <2>1, <2>2, <2>3, <2>4, <2>5, RootedChallenge
  <1>3. ASSUME NEW b \in Browsers, NEW v \in loginVerifiers,
               RememberLogin(b, v) \/ ForgetLogin(b, v) \/ ForgetGoneSession(b, v)
        PROVE  LoginsRooted'
    <2>1. /\ Decodes(v.flow)
          /\ RequestConsent(b, v) \/ consentChallenges' = consentChallenges
          /\ UNCHANGED <<challenge, loginVerifiers>>
      BY <1>3 DEF RememberLogin, ForgetLogin, ForgetGoneSession, LoginAllowed
    <2>2. \A s \in Flows : session'[s] \in {Confirmed(v)[s], NoSession}
      BY <1>3 DEF RememberLogin, ForgetLogin, ForgetGoneSession, DeleteSessions
    <2> QED  BY <2>1, <2>2, RootedVerify
  <1>4. ASSUME \/ \E b \in Browsers, v \in loginVerifiers : LoginRequired(b, v)
               \/ \E b \in Browsers, s \in Flows : CompleteLogout(b, s)
               \/ \E b \in Browsers : LoseCookie(b)
               \/ \E s \in Flows : HeadlessLogout(s)
               \/ \E u \in Subjects : RevokeSubjectLoginSession(u)
               \/ \E f \in Flows : ExpireFlow(f)
        PROVE  LoginsRooted'
    <2>1. /\ UNCHANGED <<challenge, loginVerifiers, consentChallenges>>
          /\ \A s \in Flows : session'[s] \in {session[s], NoSession}
      BY <1>4 DEF LoginRequired, CompleteLogout, LoseCookie, HeadlessLogout,
                  RevokeSubjectLoginSession, ExpireFlow, DeleteSessions
    <2> QED  BY <2>1, RootedStep
  <1>5. ASSUME Consent
        PROVE  LoginsRooted'
    <2>1. UNCHANGED <<challenge, loginVerifiers, consentChallenges, session>>
      BY <1>5 DEF Consent, AcceptConsent, VerifyConsent, IssueAuthorizeCode, AbandonIssue,
                  RevokeConsentByID, RevokeSubjectConsent, DeleteConsents
    <2> QED  BY <2>1, RootedStep
  <1>6. Login => LoginsRooted'
    BY <1>1, <1>2, <1>3, <1>4, RootedAccept DEF Login
  <1>7. Endings => LoginsRooted'
    BY <1>4 DEF Endings
  <1> QED  BY <1>5, <1>6, <1>7 DEF Next

\* The inductive invariant of the login and consent flow holds for any number of
\* flows, browsers and subjects and any number of answers to a challenge.
THEOREM FlowInvariance == Spec => []IndInv
  <1>1. Init => IndInv
    <2>1. Init => LoginsRooted
      BY DEF Init, LoginsRooted
    <2> QED  BY <2>1, InitFlowInv DEF IndInv
  <1>2. IndInv /\ [Next]_vars => IndInv'
    <2>1. ASSUME IndInv, UNCHANGED vars
          PROVE  IndInv'
      <3> USE <2>1 DEF vars, tokens, cookies, tables, IndInv
      <3>1. TypeOK'
        BY DEF FlowInv, TypeOK
      <3>2. FlowInv'
        BY <3>1, ShrinkStep DEF FlowInv
      <3>3. LoginsRooted'
        BY RootedStep
      <3> QED  BY <3>2, <3>3
    <2>2. ASSUME IndInv, Next
          PROVE  IndInv'
      BY <2>2, FlowInvStep, RootedInvStep DEF IndInv
    <2> QED  BY <2>1, <2>2
  <1> QED  BY <1>1, <1>2, PTL DEF Spec

\* An authorization code is only ever on its way to, or received by, the browser
\* in which its flow began (the CSRF checks of verifyAuthentication and
\* verifyConsent).
THEOREM CodeToStarterHolds == Spec => []CodeToStarter
  <1>1. IndInv => CodeToStarter
    BY DEF IndInv, FlowInv
  <1> QED  BY <1>1, FlowInvariance, PTL

\* A browser's session cookie names a login of that browser.
THEOREM CookieHolds == Spec => []CookieFromOwnLogin
  <1>1. IndInv => CookieFromOwnLogin
    BY DEF IndInv, FlowInv
  <1> QED  BY <1>1, FlowInvariance, PTL

\* A consent page is skipped only for a subject with a remembered consent of
\* their own that was not itself skipped.
THEOREM SkipRootedHolds == Spec => []SkipRootedInConsent
  <1>1. IndInv => SkipRootedInConsent
    BY DEF IndInv, FlowInv
  <1> QED  BY <1>1, FlowInvariance, PTL

\* Every stored code has the consent it was issued for behind it.
THEOREM CodeBackedHolds == Spec => []CodeBacked
  <1>1. IndInv => CodeBacked
    BY DEF IndInv, FlowInv
  <1> QED  BY <1>1, FlowInvariance, PTL

\* Codes come about the way the prompt parameter asked for.
THEOREM PromptHolds == Spec => []PromptHonoured
  <1>1. IndInv => PromptHonoured
    <2> SUFFICES ASSUME IndInv, NEW x \in codes
                 PROVE  /\ challenge[x.flow].prompt = "none" =>
                              Skipped(x.flow) /\ row[x.flow].skip
                        /\ challenge[x.flow].prompt = "login" => ~Skipped(x.flow)
                        /\ challenge[x.flow].prompt = "consent" => ~row[x.flow].skip
      BY DEF PromptHonoured
    <2>1. x.flow \in Flows
      BY Fields DEF IndInv, FlowInv
    <2>2. row[x.flow] \in consentVerifiers /\ row[x.flow].flow = x.flow
      BY <2>1 DEF IndInv, FlowInv, CodeBacked, TablesSound
    <2>3. PICK y \in consentChallenges : y.flow = x.flow /\ y.skip = row[x.flow].skip
      BY <2>2 DEF IndInv, FlowInv, CopiesSound
    <2> QED  BY <2>1, <2>3 DEF IndInv, FlowInv, CopiesSound, FlowsSound
  <1> QED  BY <1>1, FlowInvariance, PTL

(***************************************************************************)
(* The flow implements Authorization.                                      *)
(***************************************************************************)
\* The subject of a consent challenge has logged in with credentials in the
\* browser in which the flow began.
LEMMA ChallengedHasLoggedIn ==
  ASSUME IndInv, NEW x \in consentChallenges
  PROVE  Auth!LoggedIn(x.flow, x.subject)
  <1> USE Fields DEF IndInv, FlowInv
  <1> DEFINE b == challenge[x.flow].browser
  <1>1. x.flow \in Flows /\ challenge[x.flow] # NoChallenge /\ b \in Browsers
    BY DEF CopiesSound
  <1>2. <<x.flow, b>> \in Began
    BY <1>1 DEF Began
  <1>3. PICK v \in loginVerifiers : v.flow = x.flow /\ v.subject = x.subject
    BY DEF LoginsRooted
  <1>4. \E w \in UnskippedLogins : w.subject = x.subject /\ challenge[w.flow].browser = b
    <2>1. CASE Skipped(x.flow)
      BY <1>1, <1>3, <2>1 DEF LoginsRooted
    <2>2. CASE ~Skipped(x.flow)
      BY <1>3, <2>2 DEF UnskippedLogins
    <2> QED  BY <2>1, <2>2
  <1>5. <<x.subject, b>> \in CredentialLogins
    BY <1>4 DEF CredentialLogins
  <1> QED  BY <1>1, <1>2, <1>5 DEF Auth!LoggedIn

\* Steps that touch nothing Authorization speaks of.
LEMMA AuthStutter ==
  ASSUME UNCHANGED <<challenge, loginVerifiers, consentVerifiers, row, codes>>
  PROVE  UNCHANGED Auth!authVars
  <1>1. UNCHANGED UnskippedLogins /\ UNCHANGED Answers
    BY DEF UnskippedLogins, Skipped, Answers
  <1> QED  BY <1>1 DEF Auth!authVars, Began, CredentialLogins, Approvals,
                       RememberedSubjects, Grants, IssuedCodes

\* A flow begins.
LEMMA AuthBegin ==
  ASSUME FlowInv, NEW f \in Flows, NEW b \in Browsers, NEW new,
         challenge[f] = NoChallenge, new # NoChallenge, new.browser = b,
         challenge' = [challenge EXCEPT ![f] = new],
         UNCHANGED <<loginVerifiers, consentVerifiers, row, codes>>
  PROVE  Auth!Next
  <1>1. /\ \A v \in loginVerifiers : challenge'[v.flow] = challenge[v.flow]
        /\ UnskippedLogins' = UnskippedLogins
    BY UnskippedStable
  <1>2. challenge'[f] = new /\ \A g \in Flows \ {f} : challenge'[g] = challenge[g]
    BY DEF FlowInv, TypeOK
  <1>3. CredentialLogins' = CredentialLogins
    BY <1>1 DEF CredentialLogins, UnskippedLogins
  <1>4. /\ Approvals' = Approvals /\ RememberedSubjects' = RememberedSubjects
        /\ Grants' = Grants /\ IssuedCodes' = IssuedCodes
    BY DEF Approvals, RememberedSubjects, Answers, Grants, IssuedCodes
  <1>5. \A d \in Browsers : <<f, d>> \notin Began
    BY DEF Began
  <1>6. Began' = Began \cup {<<f, b>>}
    BY <1>2 DEF Began
  <1>7. Auth!Begin(f, b)
    BY <1>3, <1>4, <1>5, <1>6 DEF Auth!Begin
  <1> QED  BY <1>7 DEF Auth!Next

\* A login is accepted: with credentials, or one that was skipped.
LEMMA AuthAcceptLogin ==
  ASSUME FlowInv, NEW f \in Flows, NEW s \in Subjects,
         NEW remember \in BOOLEAN, NEW extend \in BOOLEAN,
         AcceptLogin(f, s, remember, extend)
  PROVE  [Auth!Next]_Auth!authVars
  <1> DEFINE new == [flow |-> f, subject |-> s, remember |-> remember, extend |-> extend]
             b == challenge[f].browser
  <1>1. new.flow = f /\ new.subject = s
    OBVIOUS
  <1>2. /\ loginVerifiers' = loginVerifiers \cup {new}
        /\ challenge[f] # NoChallenge
        /\ UNCHANGED <<challenge, consentVerifiers, row, codes>>
    BY DEF AcceptLogin, Decodes, tables
  <1>3. b \in Browsers
    BY <1>2, Fields DEF FlowInv
  <1> HIDE DEF new
  <1>4. /\ Began' = Began
        /\ Approvals' = Approvals /\ RememberedSubjects' = RememberedSubjects
        /\ Grants' = Grants /\ IssuedCodes' = IssuedCodes
    BY <1>2 DEF Began, Approvals, RememberedSubjects, Answers, Grants, IssuedCodes
  <1>5. CASE Skipped(f)
    <2>1. UnskippedLogins' = UnskippedLogins
      BY <1>1, <1>2, <1>5 DEF UnskippedLogins, Skipped
    <2>2. CredentialLogins' = CredentialLogins
      BY <1>2, <2>1 DEF CredentialLogins
    <2> QED  BY <1>4, <2>2 DEF Auth!authVars
  <1>6. CASE ~Skipped(f)
    <2>1. UnskippedLogins' = UnskippedLogins \cup {new}
      BY <1>1, <1>2, <1>6 DEF UnskippedLogins, Skipped
    <2>2. CredentialLogins' = CredentialLogins \cup {<<s, b>>}
      BY <1>1, <1>2, <2>1 DEF CredentialLogins
    <2>3. <<f, b>> \in Began
      BY <1>2 DEF Began
    <2>4. Auth!LogIn(s, b)
      BY <1>4, <2>2, <2>3 DEF Auth!LogIn
    <2> QED  BY <1>3, <2>4 DEF Auth!Next
  <1> QED  BY <1>5, <1>6

\* A consent is accepted: one that was asked for, or one that was skipped.
LEMMA AuthAcceptConsent ==
  ASSUME IndInv, NEW x \in consentChallenges, NEW remember \in BOOLEAN,
         AcceptConsent(x, remember)
  PROVE  [Auth!Next]_Auth!authVars
  <1> DEFINE new == [flow |-> x.flow, cid |-> x.cid, subject |-> x.subject,
                     skip |-> x.skip, remember |-> remember]
  <1>1. /\ new.flow = x.flow /\ new.subject = x.subject
        /\ new.skip = x.skip /\ new.remember = remember
    OBVIOUS
  <1>2. /\ consentVerifiers' = consentVerifiers \cup {new}
        /\ UNCHANGED <<challenge, loginVerifiers, row, codes>>
    BY DEF AcceptConsent, tables
  <1>3. x.flow \in Flows /\ x.subject \in Subjects
    BY Fields DEF IndInv, FlowInv
  <1> HIDE DEF new
  <1>4. /\ Began' = Began /\ CredentialLogins' = CredentialLogins
        /\ Grants' = Grants /\ IssuedCodes' = IssuedCodes
    BY <1>2 DEF Began, CredentialLogins, UnskippedLogins, Skipped, Grants, IssuedCodes
  <1>5. CASE x.skip
    <2>1. Answers' = Answers
      BY <1>1, <1>2, <1>5 DEF Answers
    <2> QED  BY <1>4, <2>1 DEF Auth!authVars, Approvals, RememberedSubjects
  <1>6. CASE ~x.skip
    <2>1. Answers' = Answers \cup {new}
      BY <1>1, <1>2, <1>6 DEF Answers
    <2>2. Approvals' = Approvals \cup {<<x.flow, x.subject>>}
      BY <1>1, <2>1 DEF Approvals
    <2>3. RememberedSubjects' \in {RememberedSubjects, RememberedSubjects \cup {x.subject}}
      <3>1. CASE remember
        <4>1. RememberedSubjects' = RememberedSubjects \cup {x.subject}
          BY <1>1, <2>1, <3>1 DEF RememberedSubjects
        <4> QED  BY <4>1
      <3>2. CASE ~remember
        <4>1. RememberedSubjects' = RememberedSubjects
          BY <1>1, <2>1, <3>2 DEF RememberedSubjects
        <4> QED  BY <4>1
      <3> QED  BY <3>1, <3>2
    <2>4. Auth!Approve(x.flow, x.subject)
      BY <1>4, <2>2, <2>3, ChallengedHasLoggedIn DEF Auth!Approve
    <2> QED  BY <1>3, <2>4 DEF Auth!Next
  <1> QED  BY <1>5, <1>6

\* A consent is stored, of a subject who has logged in and approved, now or for
\* good; there is no other one of the flow.
LEMMA AuthVerifyConsent ==
  ASSUME IndInv, NEW b \in Browsers, NEW v \in consentVerifiers, VerifyConsent(b, v)
  PROVE  Auth!Next
  <1> USE Fields DEF IndInv, FlowInv
  <1>1. /\ row[v.flow] = NoRow /\ row' = [row EXCEPT ![v.flow] = v]
        /\ UNCHANGED <<challenge, loginVerifiers, consentVerifiers, codes>>
    BY DEF VerifyConsent, tokens
  <1>2. v.flow \in Flows /\ v.subject \in Subjects /\ v # NoRow
    BY NullsAssumption DEF TypeOK
  <1>3. PICK x \in consentChallenges : /\ x.flow = v.flow /\ x.subject = v.subject
                                       /\ x.skip = v.skip
    BY DEF CopiesSound
  <1>4. Auth!LoggedIn(v.flow, v.subject)
    BY <1>3, ChallengedHasLoggedIn
  <1>5. Auth!Approved(v.flow, v.subject)
    <2>1. CASE v.skip
      <3>1. PICK w \in consentVerifiers : w.subject = v.subject /\ ~w.skip /\ w.remember
        BY <1>3, <2>1 DEF SkipRootedInConsent
      <3> QED  BY <3>1 DEF RememberedSubjects, Answers, Auth!Approved
    <2>2. CASE ~v.skip
      BY <2>2 DEF Approvals, Answers, Auth!Approved
    <2> QED  BY <2>1, <2>2
  <1>6. \A u \in Subjects : <<v.flow, u>> \notin Grants
    BY <1>1 DEF Grants
  <1>7. Grants' = Grants \cup {<<v.flow, v.subject>>}
    <2>1. row'[v.flow] = v /\ \A g \in Flows \ {v.flow} : row'[g] = row[g]
      BY <1>1, <1>2 DEF TypeOK
    <2> QED  BY <1>1, <1>2, <2>1 DEF Grants
  <1>8. /\ Began' = Began /\ CredentialLogins' = CredentialLogins
        /\ Approvals' = Approvals /\ RememberedSubjects' = RememberedSubjects
        /\ IssuedCodes' = IssuedCodes
    BY <1>1 DEF Began, CredentialLogins, UnskippedLogins, Skipped, Approvals,
                RememberedSubjects, Answers, IssuedCodes
  <1>9. Auth!Grant(v.flow, v.subject)
    BY <1>4, <1>5, <1>6, <1>7, <1>8 DEF Auth!Grant
  <1> QED  BY <1>2, <1>9 DEF Auth!Next

\* A code is stored for the subject of the stored consent, in the flow's browser.
LEMMA AuthIssue ==
  ASSUME IndInv, IndInv', NEW x \in issuing, IssueAuthorizeCode(x)
  PROVE  Auth!Next
  <1> USE Fields DEF IndInv, FlowInv
  <1>1. /\ codes' = codes \cup {x} /\ row[x.flow] # NoRow
        /\ UNCHANGED <<challenge, loginVerifiers, consentVerifiers, row>>
    BY DEF IssueAuthorizeCode, tokens
  <1>2. x.flow \in Flows /\ x.browser \in Browsers /\ challenge[x.flow] # NoChallenge
    BY DEF TablesSound, CopiesSound
  <1>3. row[x.flow].subject = x.subject /\ x.subject \in Subjects
    <2>1. row'[x.flow].subject = x.subject
      BY <1>1 DEF CodeBacked
    <2>2. row[x.flow] \in consentVerifiers
      BY <1>1, <1>2 DEF TablesSound
    <2> QED  BY <1>1, <2>1, <2>2
  <1>4. <<x.flow, x.subject>> \in Grants
    BY <1>1, <1>2, <1>3 DEF Grants
  <1>5. <<x.flow, x.browser>> \in Began
    BY <1>2 DEF Began, CodeToStarter
  <1>6. IssuedCodes' = IssuedCodes \cup {<<x.flow, x.subject, x.browser>>}
    BY <1>1 DEF IssuedCodes
  <1>7. /\ Began' = Began /\ CredentialLogins' = CredentialLogins
        /\ Approvals' = Approvals /\ RememberedSubjects' = RememberedSubjects
        /\ Grants' = Grants
    BY <1>1 DEF Began, CredentialLogins, UnskippedLogins, Skipped, Approvals,
                RememberedSubjects, Answers, Grants
  <1>8. Auth!Issue(x.flow, x.subject, x.browser)
    BY <1>4, <1>5, <1>6, <1>7 DEF Auth!Issue
  <1> QED  BY <1>2, <1>3, <1>8 DEF Auth!Next

\* Consents are deleted, and their codes with them.
LEMMA AuthDelete ==
  ASSUME TypeOK, NEW gone \in SUBSET Flows, DeleteConsents(gone)
  PROVE  Auth!Next
  <1>1. /\ row' = [f \in Flows |-> IF f \in gone THEN NoRow ELSE row[f]]
        /\ codes' = {x \in codes : x.flow \notin gone}
        /\ UNCHANGED <<challenge, loginVerifiers, consentVerifiers>>
    BY DEF DeleteConsents, tokens
  <1>2. Grants' = {g \in Grants : g[1] \notin gone}
    BY <1>1 DEF Grants
  <1>3. IssuedCodes' = {c \in IssuedCodes : c[1] \notin gone}
    BY <1>1 DEF IssuedCodes
  <1>4. /\ Began' = Began /\ CredentialLogins' = CredentialLogins
        /\ Approvals' = Approvals /\ RememberedSubjects' = RememberedSubjects
    BY <1>1 DEF Began, CredentialLogins, UnskippedLogins, Skipped, Approvals,
                RememberedSubjects, Answers
  <1>5. Auth!Withdraw(gone)
    BY <1>2, <1>3, <1>4 DEF Auth!Withdraw
  <1> QED  BY <1>5 DEF Auth!Next

\* Every step of the flow is a step of Authorization, or none.
LEMMA AuthStep ==
  ASSUME IndInv, IndInv', Next
  PROVE  [Auth!Next]_Auth!authVars
  <1> USE DEF tokens, cookies, tables, IndInv
  <1>1. ASSUME NEW b \in Browsers, NEW f \in Flows, NEW p \in Prompts, NEW h \in Hints,
               RequestLogin(b, f, p, h)
        PROVE  Auth!Next
    <2> DEFINE new == [browser |-> b, prompt |-> p, hint |-> h, sid |-> f,
                       subject |-> NoSubject]
    <2>1. /\ challenge[f] = NoChallenge /\ challenge' = [challenge EXCEPT ![f] = new]
          /\ UNCHANGED <<loginVerifiers, consentVerifiers, row, codes>>
      BY <1>1 DEF RequestLogin
    <2>2. new.browser = b /\ new # NoChallenge
      BY NullsAssumption DEF Challenge
    <2> HIDE DEF new
    <2> QED  BY <2>1, <2>2, AuthBegin
  <1>2. ASSUME NEW b \in Browsers, NEW f \in Flows, NEW p \in Prompts, NEW h \in Hints,
               NEW s \in Flows, SkipLogin(b, f, p, h, s)
        PROVE  Auth!Next
    <2> DEFINE new == [browser |-> b, prompt |-> p, hint |-> h, sid |-> s,
                       subject |-> session[s].subject]
    <2>1. /\ challenge[f] = NoChallenge /\ challenge' = [challenge EXCEPT ![f] = new]
          /\ s \in Remembered(b)
          /\ UNCHANGED <<loginVerifiers, consentVerifiers, row, codes>>
      BY <1>2 DEF SkipLogin
    <2>2. session[s].subject \in Subjects
      BY <2>1 DEF Remembered, FlowInv, TypeOK, Session
    <2>3. new.browser = b /\ new # NoChallenge
      BY <2>2, NullsAssumption DEF Challenge
    <2> HIDE DEF new
    <2> QED  BY <2>1, <2>3, AuthBegin
  <1>3. ASSUME \/ \E b \in Browsers, v \in loginVerifiers :
                     \/ RememberLogin(b, v) \/ ForgetLogin(b, v)
                     \/ ForgetGoneSession(b, v) \/ LoginRequired(b, v)
               \/ \E x \in issuing : AbandonIssue(x)
               \/ Endings
        PROVE  UNCHANGED Auth!authVars
    <2>1. UNCHANGED <<challenge, loginVerifiers, consentVerifiers, row, codes>>
      BY <1>3 DEF RememberLogin, ForgetLogin, ForgetGoneSession, LoginRequired,
                  AbandonIssue, Endings, CompleteLogout, HeadlessLogout,
                  RevokeSubjectLoginSession, LoseCookie, ExpireFlow
    <2> QED  BY <2>1, AuthStutter
  <1>4. ASSUME NEW f \in Flows, RevokeConsentByID(f)
        PROVE  Auth!Next
    BY <1>4, AuthDelete DEF RevokeConsentByID, FlowInv
  <1>5. ASSUME NEW s \in Subjects, RevokeSubjectConsent(s)
        PROVE  Auth!Next
    BY <1>5, AuthDelete DEF RevokeSubjectConsent, FlowInv
  <1>6. Login => [Auth!Next]_Auth!authVars
    BY <1>1, <1>2, <1>3, AuthAcceptLogin DEF Login
  <1>7. Consent => [Auth!Next]_Auth!authVars
    BY <1>3, <1>4, <1>5, AuthAcceptConsent, AuthVerifyConsent, AuthIssue DEF Consent
  <1> QED  BY <1>3, <1>6, <1>7 DEF Next

\* Whatever is replayed, revoked or skipped, the flow implements Authorization.
THEOREM ImplementsAuthorizationTheorem == Spec => ImplementsAuthorization
  <1>1. Init => Auth!Init
    BY DEF Init, Auth!Init, Began, CredentialLogins, UnskippedLogins, Approvals,
           RememberedSubjects, Answers, Grants, IssuedCodes
  <1>2. IndInv /\ IndInv' /\ [Next]_vars => [Auth!Next]_Auth!authVars
    <2>1. UNCHANGED vars => UNCHANGED Auth!authVars
      BY AuthStutter DEF vars, tokens, tables
    <2> QED  BY <2>1, AuthStep
  <1> QED  BY FlowInvariance, <1>1, <1>2, PTL DEF Spec, ImplementsAuthorization, Auth!Spec

\* And so it inherits what Authorization guarantees, by an argument that sees no
\* challenge, verifier, cookie or session: a code's subject has logged in in the
\* browser that holds it and has approved, and a flow has no code for another
\* subject or in another browser.
THEOREM CodesAuthorizedTheorem == Spec => []Auth!CodesAuthorized
  <1> DEFINE Typed == /\ Began \subseteq Flows \X Browsers
                      /\ Grants \subseteq Flows \X Subjects
                      /\ IssuedCodes \subseteq Flows \X Subjects \X Browsers
             Single == /\ \A p, q \in Began : p[1] = q[1] => p = q
                       /\ \A g, h \in Grants : g[1] = h[1] => g = h
             Granted == \A g \in Grants : /\ Auth!LoggedIn(g[1], g[2])
                                          /\ Auth!Approved(g[1], g[2])
             Issued == \A c \in IssuedCodes : /\ <<c[1], c[2]>> \in Grants
                                              /\ <<c[1], c[3]>> \in Began
             AuthInv == Typed /\ Single /\ Granted /\ Issued
  <1>1. Auth!Init => AuthInv
    BY DEF Auth!Init
  <1>2. ASSUME AuthInv, [Auth!Next]_Auth!authVars
        PROVE  AuthInv'
    <2> USE <1>2
    <2>1. ASSUME NEW f \in Flows, NEW b \in Browsers, Auth!Begin(f, b)
          PROVE  AuthInv'
      <3> USE <2>1 DEF Auth!Begin
      <3>1. Typed'
        OBVIOUS
      <3>2. \A p \in Began : p[1] # f
        OBVIOUS
      <3>3. Single' /\ Issued'
        BY <3>2
      <3>4. Granted'
        BY DEF Auth!LoggedIn, Auth!Approved
      <3> QED  BY <3>1, <3>3, <3>4
    <2>2. ASSUME NEW s \in Subjects, NEW b \in Browsers, Auth!LogIn(s, b)
          PROVE  AuthInv'
      <3> USE <2>2 DEF Auth!LogIn
      <3>1. Typed' /\ Single' /\ Issued'
        OBVIOUS
      <3>2. Granted'
        BY DEF Auth!LoggedIn, Auth!Approved
      <3> QED  BY <3>1, <3>2
    <2>3. ASSUME NEW f \in Flows, NEW s \in Subjects, Auth!Approve(f, s)
          PROVE  AuthInv'
      <3> USE <2>3 DEF Auth!Approve
      <3>1. Typed' /\ Single' /\ Issued'
        OBVIOUS
      <3>2. Granted'
        BY DEF Auth!LoggedIn, Auth!Approved
      <3> QED  BY <3>1, <3>2
    <2>4. ASSUME NEW f \in Flows, NEW s \in Subjects, Auth!Grant(f, s)
          PROVE  AuthInv'
      <3> USE <2>4 DEF Auth!Grant
      <3>1. Typed' /\ Issued'
        OBVIOUS
      <3>2. \A g \in Grants : g[1] # f
        OBVIOUS
      <3>3. Single'
        BY <3>2
      <3>4. Granted'
        <4>1. \A g \in Grants' : Auth!LoggedIn(g[1], g[2]) /\ Auth!Approved(g[1], g[2])
          OBVIOUS
        <4>2. UNCHANGED <<Began, CredentialLogins, Approvals, RememberedSubjects>>
          OBVIOUS
        <4> QED  BY ONLY <4>1, <4>2 DEF Auth!LoggedIn, Auth!Approved
      <3> QED  BY <3>1, <3>3, <3>4
    <2>5. ASSUME NEW f \in Flows, NEW s \in Subjects, NEW b \in Browsers, Auth!Issue(f, s, b)
          PROVE  AuthInv'
      <3> USE <2>5 DEF Auth!Issue
      <3>1. Typed' /\ Single' /\ Issued'
        OBVIOUS
      <3>2. Granted'
        BY DEF Auth!LoggedIn, Auth!Approved
      <3> QED  BY <3>1, <3>2
    <2>6. ASSUME NEW gone \in SUBSET Flows, Auth!Withdraw(gone)
          PROVE  AuthInv'
      <3> USE <2>6 DEF Auth!Withdraw
      <3>1. Typed' /\ Single' /\ Issued'
        OBVIOUS
      <3>2. Granted'
        BY DEF Auth!LoggedIn, Auth!Approved
      <3> QED  BY <3>1, <3>2
    <2>7. ASSUME UNCHANGED Auth!authVars
          PROVE  AuthInv'
      BY <2>7 DEF Auth!authVars, Auth!LoggedIn, Auth!Approved
    <2> QED  BY <2>1, <2>2, <2>3, <2>4, <2>5, <2>6, <2>7 DEF Auth!Next
  <1>3. ASSUME AuthInv
        PROVE  Auth!CodesAuthorized
    <2>1. ASSUME NEW c \in IssuedCodes
          PROVE  /\ <<c[1], c[2]>> \in Grants /\ <<c[1], c[3]>> \in Began
                 /\ <<c[2], c[3]>> \in CredentialLogins /\ Auth!Approved(c[1], c[2])
      <3>1. <<c[1], c[2]>> \in Grants /\ <<c[1], c[3]>> \in Began
        BY <1>3, <2>1
      <3>2. Auth!LoggedIn(c[1], c[2]) /\ Auth!Approved(c[1], c[2])
        BY <1>3, <3>1
      <3>3. PICK b \in Browsers : <<c[1], b>> \in Began /\ <<c[2], b>> \in CredentialLogins
        BY <3>2 DEF Auth!LoggedIn
      <3>4. b = c[3]
        BY <1>3, <3>1, <3>3
      <3> QED  BY <3>1, <3>2, <3>3, <3>4
    <2>2. ASSUME NEW c \in IssuedCodes, NEW d \in IssuedCodes, c[1] = d[1]
          PROVE  c = d
      <3>1. /\ c \in Flows \X Subjects \X Browsers /\ d \in Flows \X Subjects \X Browsers
            /\ <<c[1], c[2]>> \in Grants /\ <<d[1], d[2]>> \in Grants
            /\ <<c[1], c[3]>> \in Began /\ <<d[1], d[3]>> \in Began
        BY <1>3, <2>2
      <3>2. c[2] = d[2] /\ c[3] = d[3]
        BY <1>3, <2>2, <3>1
      <3> QED  BY <2>2, <3>1, <3>2
    <2> QED  BY <2>1, <2>2 DEF Auth!CodesAuthorized
  <1> QED  BY ImplementsAuthorizationTheorem, <1>1, <1>2, <1>3, PTL
           DEF ImplementsAuthorization, Auth!Spec
=============================================================================
