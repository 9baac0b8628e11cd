------------------------------- MODULE Logout --------------------------------
(***************************************************************************)
(* Logout: GET /oauth2/sessions/logout, the admin endpoints that accept    *)
(* and reject logout requests, and the two admin ways to end login         *)
(* sessions (DELETE /admin/oauth2/auth/sessions/login).                    *)
(*                                                                         *)
(* A logout request is started by a browser that is signed in, or by a     *)
(* client with an ID token (id_token_hint); the logout app accepts or      *)
(* rejects it; and the browser that follows the verifier completes it:     *)
(* the clients that took part in the session are listed, logout tokens are *)
(* signed for them, goroutines that outlive the request call them over the *)
(* back channel, and then the session is deleted.  A verifier can be       *)
(* submitted any number of times, by any browser (was_used is written and  *)
(* never read).                                                            *)
(*                                                                         *)
(* Only remembered login sessions are seen here.  A login verifier that is *)
(* submitted again brings a session back, and a login of another subject   *)
(* takes the session over (LoginConsent), so SignIn can repeat; a session  *)
(* lives in the browser in which its login began                           *)
(* (LoginConsent!CookieFromOwnLogin).  Front-channel URLs come from the    *)
(* same query as the back-channel list, and are left out.                  *)
(***************************************************************************)
EXTENDS Naturals, FiniteSets

CONSTANTS
    Sids, Browsers, Subjects, Clients,
    Home,           \* the browser in which the login of a session began
    Logouts,        \* logout requests, by challenge
    Requests,       \* requests that end sessions
    MaxLogins,      \* bound on the pairs of session and subject
    NoSid, NoBrowser, NoSubject, NoLogout

ASSUME LogoutAssumption ==
    /\ NoSid \notin Sids /\ NoBrowser \notin Browsers /\ NoSubject \notin Subjects
    /\ Home \in [Sids -> Browsers] /\ MaxLogins \in Nat

LogoutRequest == [sid : Sids, subject : Subjects, rp : BOOLEAN,
                  state : {"requested", "accepted", "rejected", "expired"}]

ASSUME NoLogoutAssumption == NoLogout \notin LogoutRequest

VARIABLES
    \* the database
    session,    \* remembered login sessions: the subject of each
    linked,     \* rows of hydra_oauth2_flow: login_session_id, client_id, subject
    logout,     \* rows of hydra_oauth2_logout_request
    \* outside
    cookie,     \* the session cookie of each browser
    \* requests that end a session
    pc,
    lr,         \* the logout request, as it was read
    browser,
    sent,       \* the session cookie that came with the request
    tasks,      \* clients it has listed and not called yet
    call,       \* its goroutines: what became of the call to each client
    \* history
    logins,     \* who has signed in to which session
    late,       \* client and subject linked to its session since it listed the clients,
                \* and then since it ended the session
    before,     \* requests that had ended this session when it listed the clients
    confirmed   \* sessions whose logout was accepted, or ordered by an administrator

tables == <<session, linked, logout>>
locals == <<pc, lr, browser, sent, tasks>>
history == <<logins, late, before, confirmed>>
vars == <<tables, cookie, locals, call, history>>

Phases == {"idle", "verified", "listing", "listed", "deleting", "answering",
           "done", "failed"}
Ended == {"answering", "done"}

TypeOK ==
    /\ session \in [Sids -> Subjects \cup {NoSubject}]
    /\ linked \subseteq Sids \X Clients \X Subjects
    /\ logout \in [Logouts -> LogoutRequest \cup {NoLogout}]
    /\ cookie \in [Browsers -> Sids \cup {NoSid}]
    /\ pc \in [Requests -> Phases]
    /\ lr \in [Requests -> LogoutRequest \cup {NoLogout}]
    /\ browser \in [Requests -> Browsers \cup {NoBrowser}]
    /\ sent \in [Requests -> Sids \cup {NoSid}]
    /\ tasks \in [Requests -> SUBSET Clients]
    /\ call \in [Requests -> [Clients -> {"none", "started", "over"}]]
    /\ logins \subseteq Sids \X Subjects
    /\ late \in [Requests -> SUBSET (Clients \X Subjects)]
    /\ before \in [Requests -> SUBSET Requests]
    /\ confirmed \subseteq Sids

Init ==
    /\ session = [s \in Sids |-> NoSubject] /\ linked = {}
    /\ logout = [l \in Logouts |-> NoLogout]
    /\ cookie = [b \in Browsers |-> NoSid]
    /\ pc = [r \in Requests |-> "idle"]
    /\ lr = [r \in Requests |-> NoLogout]
    /\ browser = [r \in Requests |-> NoBrowser]
    /\ sent = [r \in Requests |-> NoSid]
    /\ tasks = [r \in Requests |-> {}]
    /\ call = [r \in Requests |-> [c \in Clients |-> "none"]]
    /\ logins = {} /\ confirmed = {}
    /\ late = [r \in Requests |-> {}] /\ before = [r \in Requests |-> {}]

(***************************************************************************)
(* Login sessions and the clients that take part in them.                  *)
(***************************************************************************)
\* verifyAuthentication: ConfirmLoginSession is an upsert that also replaces the
\* subject.
SignIn(s, u) ==
    /\ <<s, u>> \in logins \/ Cardinality(logins) < MaxLogins
    /\ session' = [session EXCEPT ![s] = u]
    /\ cookie' = [cookie EXCEPT ![Home[s]] = s]
    /\ logins' = logins \cup {<<s, u>>}
    /\ UNCHANGED <<linked, logout, locals, call, late, before, confirmed>>

\* verifyConsent of a flow that u signed in for: login_session_id refers to the
\* session's row, whoever it belongs to by now.
Link(s, c, u) ==
    /\ session[s] # NoSubject /\ <<s, u>> \in logins
    /\ linked' = linked \cup {<<s, c, u>>}
    /\ late' = [r \in Requests |->
                   IF pc[r] \in {"listed", "deleting"} \cup Ended /\ lr[r].sid = s
                   THEN late[r] \cup {<<c, u>>} ELSE late[r]]
    /\ UNCHANGED <<session, logout, cookie, locals, call, logins, before, confirmed>>

\* revokeConsentSession
Unlink(x) ==
    /\ linked' = linked \ {x}
    /\ UNCHANGED <<session, logout, cookie, locals, call, history>>

\* The session cookie reaches its Max-Age.
LoseCookie(b) ==
    /\ cookie[b] # NoSid
    /\ cookie' = [cookie EXCEPT ![b] = NoSid]
    /\ UNCHANGED <<tables, locals, call, history>>

\* Mutant: login_session_id has no ON DELETE SET NULL.
DeleteSessionsOnly(gone) ==
    /\ session' = [s \in Sids |-> IF s \in gone THEN NoSubject ELSE session[s]]
    /\ UNCHANGED linked

\* DELETE of login sessions; login_session_id is ON DELETE SET NULL
DeleteSessions(gone) ==
    /\ session' = [s \in Sids |-> IF s \in gone THEN NoSubject ELSE session[s]]
    /\ linked' = {x \in linked : x[1] \notin gone}

(***************************************************************************)
(* issueLogoutVerifier, and the logout app's answer.                       *)
(***************************************************************************)
CreateLogoutRequest(l, s, rp) ==
    /\ logout[l] = NoLogout
    /\ s \in Sids /\ session[s] # NoSubject
    /\ logout' = [logout EXCEPT ![l] = [sid |-> s, subject |-> session[s], rp |-> rp,
                                       state |-> "requested"]]
    /\ UNCHANGED <<session, linked, cookie, locals, call, history>>

\* initiated by the OpenID provider: the session is the one of the cookie
RequestLogout(l, b) == CreateLogoutRequest(l, cookie[b], FALSE)

\* initiated by a relying party: the session is the one of the id_token_hint
RequestLogoutWithHint(l, s) == CreateLogoutRequest(l, s, TRUE)

\* accepted, rejected: unconditional updates, also of an answered request.  They
\* do not help a request that has expired.
AnswerLogoutRequest(l, state) ==
    /\ logout[l] # NoLogout /\ logout[l].state # "expired"
    /\ logout' = [logout EXCEPT ![l].state = state]
    /\ confirmed' = IF state = "accepted" THEN confirmed \cup {logout[l].sid} ELSE confirmed
    /\ UNCHANGED <<session, linked, cookie, locals, call, logins, late, before>>

AcceptLogoutRequest(l) == AnswerLogoutRequest(l, "accepted")

RejectLogoutRequest(l) == AnswerLogoutRequest(l, "rejected")

\* Only requests of the OpenID provider carry an ExpiresAt.
ExpireLogoutRequest(l) ==
    /\ logout[l] # NoLogout /\ ~logout[l].rp
    /\ logout' = [logout EXCEPT ![l].state = "expired"]
    /\ UNCHANGED <<session, linked, cookie, locals, call, history>>

(***************************************************************************)
(* completeLogout.                                                         *)
(***************************************************************************)
Goto(r, at) == pc' = [pc EXCEPT ![r] = at]

\* The request is answered.
End(r, at) ==
    /\ Goto(r, at)
    /\ browser' = [browser EXCEPT ![r] = NoBrowser]
    /\ sent' = [sent EXCEPT ![r] = NoSid]
    /\ tasks' = [tasks EXCEPT ![r] = {}]
    /\ UNCHANGED <<tables, lr, call, history>>

\* Mutant: VerifyAndInvalidateLogoutRequest without "accepted = TRUE".
VerifiableUnlessRejected(l) == logout[l] # NoLogout /\ logout[l].state \in {"requested", "accepted"}

\* VerifyAndInvalidateLogoutRequest finds the request
Verifiable(l) == logout[l] # NoLogout /\ logout[l].state = "accepted"

VerifyLogout(r, b, l) ==
    /\ pc[r] = "idle" /\ Verifiable(l)
    /\ Goto(r, "verified")
    /\ lr' = [lr EXCEPT ![r] = logout[l]]
    /\ browser' = [browser EXCEPT ![r] = b]
    /\ sent' = [sent EXCEPT ![r] = cookie[b]]
    /\ UNCHANGED <<tables, cookie, tasks, call, history>>

\* A relying party's logout goes on as it is; the OpenID provider's own looks
\* for a session of the same subject (authenticationSession).
SameSubject(r) ==
    lr[r].rp \/ (sent[r] \in Sids /\ session[sent[r]] = lr[r].subject)

\* the last use of the cookie that came with the request
CheckSession(r) ==
    /\ pc[r] = "verified" /\ SameSubject(r)
    /\ Goto(r, "listing")
    /\ sent' = [sent EXCEPT ![r] = NoSid]
    /\ UNCHANGED <<tables, cookie, lr, browser, tasks, call, history>>

\* no session any more, or someone else's: nothing is done, and the verifier can
\* be submitted again
SkipLogout(r) ==
    /\ pc[r] = "verified" /\ ~SameSubject(r)
    /\ Goto(r, "idle")
    /\ lr' = [lr EXCEPT ![r] = NoLogout]
    /\ browser' = [browser EXCEPT ![r] = NoBrowser]
    /\ sent' = [sent EXCEPT ![r] = NoSid]
    /\ UNCHANGED <<tables, cookie, tasks, call, history>>

\* listUserAuthenticatedClients
ListClients(s, u) == {c \in Clients : <<s, c, u>> \in linked}

\* executeBackChannelLogout reads its list ...
ReadList(r, clients) ==
    /\ pc[r] = "listing"
    /\ Goto(r, "listed")
    /\ tasks' = [tasks EXCEPT ![r] = clients]
    /\ before' = [before EXCEPT ![r] = {q \in Requests : pc[q] \in Ended /\ lr[q].sid = lr[r].sid}]
    /\ UNCHANGED <<tables, cookie, lr, browser, sent, call, logins, late, confirmed>>

\* Mutant: the clients of the session that the browser is signed in to.
ListTasksOfCookie(r) ==
    ReadList(r, IF browser[r] = NoBrowser THEN {}
                ELSE ListClients(cookie[browser[r]], lr[r].subject))

ListTasks(r) == ReadList(r, ListClients(lr[r].sid, lr[r].subject))

\* ... then asks for the key and signs a logout token for each client, and only
\* then starts all calls.
StartCalls(r) ==
    /\ pc[r] = "listed"
    /\ Goto(r, "deleting")
    /\ call' = [call EXCEPT ![r] = [c \in Clients |-> IF c \in tasks[r] THEN "started" ELSE "none"]]
    /\ tasks' = [tasks EXCEPT ![r] = {}]
    /\ UNCHANGED <<tables, cookie, lr, browser, sent, history>>

\* DeleteLoginSession, by session and not by subject; a session that is gone
\* already is fine.
DeleteSession(r) ==
    /\ pc[r] = "deleting"
    /\ Goto(r, "answering")
    /\ DeleteSessions({lr[r].sid})
    /\ late' = [late EXCEPT ![r] = {}]
    /\ UNCHANGED <<logout, cookie, lr, browser, sent, tasks, call, logins, before, confirmed>>

\* revokeAuthenticationCookie reaches the browser with the response.
ClearCookie(r) ==
    cookie' = IF browser[r] = NoBrowser THEN cookie ELSE [cookie EXCEPT ![browser[r]] = NoSid]

Answer(r) ==
    /\ pc[r] = "answering"
    /\ End(r, "done")
    /\ ClearCookie(r)

\* A statement or a signature fails: the error response clears the cookie all
\* the same.
FailLogout(r) ==
    /\ pc[r] \in {"listing", "listed", "deleting"}
    /\ End(r, "failed")
    /\ ClearCookie(r)

\* One of the goroutines of executeBackChannelLogout ends: the client was told, or
\* the call failed, which is logged and no more, or the process went down first.
EndCall(r, c) ==
    /\ call[r][c] = "started"
    /\ call' = [call EXCEPT ![r][c] = "over"]
    /\ UNCHANGED <<tables, cookie, locals, history>>

(***************************************************************************)
(* DELETE /admin/oauth2/auth/sessions/login                                *)
(***************************************************************************)
\* HandleHeadlessLogout, up to performBackChannelLogoutAndDeleteSession
HeadlessLogout(r, s) ==
    /\ pc[r] = "idle" /\ session[s] # NoSubject
    /\ Goto(r, "listing")
    /\ lr' = [lr EXCEPT ![r] = [sid |-> s, subject |-> session[s], rp |-> FALSE,
                               state |-> "accepted"]]
    /\ confirmed' = confirmed \cup {s}
    /\ UNCHANGED <<tables, cookie, browser, sent, tasks, call, logins, late, before>>

\* tells no client
RevokeSubjectLoginSession(u) ==
    /\ DeleteSessions({s \in Sids : session[s] = u})
    /\ UNCHANGED <<logout, cookie, locals, call, history>>

Step(r) ==
    \/ CheckSession(r) \/ SkipLogout(r)
    \/ ListTasks(r) \/ StartCalls(r) \/ DeleteSession(r) \/ Answer(r) \/ FailLogout(r)

Sessions ==
    \/ \E s \in Sids, u \in Subjects : SignIn(s, u) \/ \E c \in Clients : Link(s, c, u)
    \/ \E x \in linked : Unlink(x)
    \/ \E b \in Browsers : LoseCookie(b)
    \/ \E u \in Subjects : RevokeSubjectLoginSession(u)

Asking ==
    \E l \in Logouts :
        \/ \E b \in Browsers : RequestLogout(l, b)
        \/ \E s \in Sids : RequestLogoutWithHint(l, s)
        \/ AcceptLogoutRequest(l) \/ RejectLogoutRequest(l) \/ ExpireLogoutRequest(l)

Completing ==
    \E r \in Requests :
        \/ \E b \in Browsers, l \in Logouts : VerifyLogout(r, b, l)
        \/ \E s \in Sids : HeadlessLogout(r, s)
        \/ Step(r)
        \/ \E c \in Clients : EndCall(r, c)

Next == Sessions \/ Asking \/ Completing

Spec == Init /\ [][Next]_vars

(***************************************************************************)
(* Properties.                                                             *)
(***************************************************************************)
\* "We delete the session after back channel log out has worked": when a logout
\* is about to delete a session, it has called every client that the subject of
\* the logout request uses in that session, whatever other logouts, logins and
\* revocations did meanwhile.  Only a client that joined after the list was read
\* is left out, and whom another subject of the same session brought along
\* (performBackChannelLogoutAndDeleteSession).
NotifiedBeforeGone ==
    \A r \in Requests, x \in linked :
        (pc[r] = "deleting" /\ x[1] = lr[r].sid /\ x[3] = lr[r].subject)
            => call[r][x[2]] # "none" \/ <<x[2], x[3]>> \in late[r]

\* A logout works on a session only if the logout app accepted a logout of that
\* very session, or an administrator asked for it: not on one that the browser
\* merely happens to be signed in to (VerifyAndInvalidateLogoutRequest).
ConfirmedLogout ==
    \A r \in Requests : pc[r] # "idle" => lr[r].sid \in confirmed

\* completeLogout calls no client again, "because that would mean we had called
\* them twice": a logout that lists the clients after another one has ended the
\* session calls only clients that joined the session since then.  Two calls for
\* one participation therefore come from logouts that overlap.
CalledTwiceOverlaps ==
    \A r, q \in Requests, c \in Clients :
        (call[r][c] # "none" /\ q \in before[r]) => <<c, lr[r].subject>> \in late[q]

\* What these rest on: links need their session; accepted requests were
\* confirmed, and a request under way has a logout request to work on; the list
\* is complete but for who came late; and once a request has ended its session
\* all links of the session are late ones.
LinksSound == \A x \in linked : session[x[1]] # NoSubject

RequestsSound ==
    /\ \A l \in Logouts : (logout[l] # NoLogout /\ logout[l].state = "accepted")
                              => logout[l].sid \in confirmed
    /\ \A r \in Requests : pc[r] # "idle" => lr[r] # NoLogout

ListsSound ==
    /\ \A r \in Requests, x \in linked :
          (pc[r] = "listed" /\ x[1] = lr[r].sid /\ x[3] = lr[r].subject)
              => x[2] \in tasks[r] \/ <<x[2], x[3]>> \in late[r]
    /\ \A r \in Requests, c \in Clients :
          /\ c \in tasks[r] => pc[r] = "listed"
          /\ call[r][c] # "none" => pc[r] \in {"deleting", "failed"} \cup Ended
    /\ \A r, q \in Requests, c \in Clients :
          (c \in tasks[r] /\ q \in before[r]) => <<c, lr[r].subject>> \in late[q]

EndedSound ==
    /\ \A q \in Requests, x \in linked :
          (pc[q] \in Ended /\ x[1] = lr[q].sid) => <<x[2], x[3]>> \in late[q]
    /\ \A r, q \in Requests :
          q \in before[r] => pc[q] \in Ended /\ pc[r] \notin {"idle", "verified", "listing"}

\* An inductive invariant.
IndInv ==
    /\ TypeOK
    /\ LinksSound /\ RequestsSound /\ ListsSound /\ EndedSound
    /\ NotifiedBeforeGone /\ ConfirmedLogout /\ CalledTwiceOverlaps
=============================================================================
