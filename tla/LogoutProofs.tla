---------------------------- MODULE LogoutProofs -----------------------------
(***************************************************************************)
(* Proofs about Logout, for every number of sessions, browsers, clients,   *)
(* subjects and requests.                                                  *)
(***************************************************************************)
EXTENDS Logout, TLAPS

USE DEF Ended

LEMMA InitIndInv == Init => IndInv
  <1> SUFFICES ASSUME Init PROVE IndInv
    OBVIOUS
  <1>1. TypeOK
    BY LogoutAssumption DEF Init, TypeOK, Phases
  <1>2. \A r \in Requests, c \in Clients : call[r][c] = "none"
    BY DEF Init
  <1> QED  BY <1>1, <1>2 DEF Init, IndInv, LinksSound, RequestsSound, ListsSound, EndedSound,
                             NotifiedBeforeGone, ConfirmedLogout, CalledTwiceOverlaps

LEMMA LinkParts ==
  ASSUME NEW x \in Sids \X Clients \X Subjects
  PROVE  x[1] \in Sids /\ x[2] \in Clients /\ x[3] \in Subjects /\ x = <<x[1], x[2], x[3]>>
  OBVIOUS

LEMMA RequestParts ==
  ASSUME NEW q \in LogoutRequest
  PROVE  q.sid \in Sids /\ q.subject \in Subjects /\ q # NoLogout
  BY NoLogoutAssumption DEF LogoutRequest

(***************************************************************************)
(* Sessions and links.                                                     *)
(***************************************************************************)
\* Steps that leave requests and calls alone.
LEMMA SessionStep ==
  ASSUME IndInv, UNCHANGED <<logout, pc, lr, browser, sent, tasks, call, late, before, confirmed>>,
         session' \in [Sids -> Subjects \cup {NoSubject}], linked' \subseteq linked, LinksSound',
         cookie' \in [Browsers -> Sids \cup {NoSid}], logins' \subseteq Sids \X Subjects
  PROVE  IndInv'
  <1>1. TypeOK'
    BY DEF IndInv, TypeOK
  <1>2. ListsSound'
    BY DEF IndInv, ListsSound
  <1>3. EndedSound' /\ NotifiedBeforeGone'
    BY DEF IndInv, EndedSound, NotifiedBeforeGone
  <1>4. RequestsSound' /\ ConfirmedLogout' /\ CalledTwiceOverlaps'
    BY DEF IndInv, RequestsSound, ConfirmedLogout, CalledTwiceOverlaps
  <1> QED  BY <1>1, <1>2, <1>3, <1>4 DEF IndInv

LEMMA SignInStep ==
  ASSUME IndInv, NEW s \in Sids, NEW u \in Subjects, SignIn(s, u)
  PROVE  IndInv'
  <1>1. /\ session' = [session EXCEPT ![s] = u] /\ cookie' = [cookie EXCEPT ![Home[s]] = s]
        /\ UNCHANGED <<logout, pc, lr, browser, sent, tasks, call, late, before, confirmed>>
        /\ UNCHANGED linked /\ logins' = logins \cup {<<s, u>>}
    BY DEF SignIn, locals
  <1>2. /\ session' \in [Sids -> Subjects \cup {NoSubject}] /\ logins' \subseteq Sids \X Subjects
        /\ cookie' \in [Browsers -> Sids \cup {NoSid}]
    <2>1. <<s, u>> \in Sids \X Subjects
      OBVIOUS
    <2>2. logins' \subseteq Sids \X Subjects
      BY <1>1, <2>1 DEF IndInv, TypeOK
    <2>3. /\ session' \in [Sids -> Subjects \cup {NoSubject}]
          /\ cookie' \in [Browsers -> Sids \cup {NoSid}]
      BY <1>1 DEF IndInv, TypeOK
    <2> QED  BY <2>2, <2>3
  <1>3. LinksSound'
    <2>1. \A t \in Sids : session[t] # NoSubject => session'[t] # NoSubject
      BY <1>1, LogoutAssumption DEF IndInv, TypeOK
    <2>2. \A x \in linked : x[1] \in Sids
      BY LinkParts DEF IndInv, TypeOK
    <2> QED  BY <1>1, <2>1, <2>2 DEF IndInv, LinksSound
  <1> QED  BY <1>1, <1>2, <1>3, SessionStep

\* Link: who has read the list already counts the client as late.
LEMMA LinkStep ==
  ASSUME IndInv, NEW s \in Sids, NEW c \in Clients, NEW u \in Subjects, Link(s, c, u)
  PROVE  IndInv'
  <1> DEFINE n == <<s, c, u>>
  <1> DEFINE Past(r) == pc[r] \in {"listed", "deleting", "answering", "done"} /\ lr[r].sid = s
  <1>1. /\ session[s] # NoSubject /\ linked' = linked \cup {n}
        /\ late' = [r \in Requests |-> IF Past(r) THEN late[r] \cup {<<c, u>>} ELSE late[r]]
        /\ UNCHANGED <<session, logout, cookie, pc, lr, browser, sent, tasks, call, logins, before,
                       confirmed>>
    BY DEF Link, locals
  <1>2. n \in Sids \X Clients \X Subjects /\ n[1] = s /\ n[2] = c /\ n[3] = u
    OBVIOUS
  <1>3. <<c, u>> \in Clients \X Subjects
    OBVIOUS
  <1>4. \A r \in Requests : /\ late[r] \subseteq late'[r]
                            /\ Past(r) => <<c, u>> \in late'[r]
    BY <1>1
  <1>5. TypeOK'
    <2>1. late' \in [Requests -> SUBSET (Clients \X Subjects)]
      BY <1>1, <1>3 DEF IndInv, TypeOK
    <2>2. linked' \subseteq Sids \X Clients \X Subjects
      BY <1>1, <1>2 DEF IndInv, TypeOK
    <2> QED  BY <1>1, <2>1, <2>2 DEF IndInv, TypeOK
  <1> HIDE DEF n
  <1>6. LinksSound'
    BY <1>1, <1>2 DEF IndInv, LinksSound
  <1>7. ListsSound'
    <2>1. \A r \in Requests, x \in linked' :
             (pc[r] = "listed" /\ x[1] = lr[r].sid /\ x[3] = lr[r].subject)
                 => x[2] \in tasks[r] \/ <<x[2], x[3]>> \in late'[r]
      BY <1>1, <1>2, <1>4 DEF IndInv, ListsSound
    <2>2. \A r, q \in Requests, d \in Clients :
             (d \in tasks[r] /\ q \in before[r]) => <<d, lr[r].subject>> \in late'[q]
      BY <1>4 DEF IndInv, ListsSound
    <2> QED  BY <1>1, <2>1, <2>2 DEF IndInv, ListsSound
  <1>8. EndedSound'
    BY <1>1, <1>2, <1>4 DEF IndInv, EndedSound
  <1>9. NotifiedBeforeGone'
    BY <1>1, <1>2, <1>4 DEF IndInv, NotifiedBeforeGone
  <1>10. CalledTwiceOverlaps'
    BY <1>1, <1>4 DEF IndInv, CalledTwiceOverlaps
  <1> QED  BY <1>1, <1>5, <1>6, <1>7, <1>8, <1>9, <1>10 DEF IndInv, RequestsSound, ConfirmedLogout

LEMMA DeletesSound ==
  ASSUME IndInv, NEW gone, DeleteSessions(gone)
  PROVE  /\ session' \in [Sids -> Subjects \cup {NoSubject}]
         /\ linked' \subseteq linked /\ LinksSound'
         /\ \A x \in linked' : x[1] \notin gone
  <1>1. \A x \in linked : x[1] \in Sids
    BY LinkParts DEF IndInv, TypeOK
  <1> QED  BY <1>1 DEF DeleteSessions, IndInv, TypeOK, LinksSound

LEMMA SessionsStep ==
  ASSUME IndInv, Sessions
  PROVE  IndInv'
  <1>1. ASSUME NEW x \in linked, Unlink(x) PROVE IndInv'
    <2>1. /\ linked' = linked \ {x} /\ UNCHANGED <<session, cookie, logins>>
          /\ UNCHANGED <<logout, pc, lr, browser, sent, tasks, call, late, before, confirmed>>
      BY <1>1 DEF Unlink, locals, history
    <2>2. LinksSound'
      BY <2>1 DEF IndInv, LinksSound
    <2>3. /\ session' \in [Sids -> Subjects \cup {NoSubject}] /\ logins' \subseteq Sids \X Subjects
          /\ cookie' \in [Browsers -> Sids \cup {NoSid}]
      BY <2>1 DEF IndInv, TypeOK
    <2> QED  BY <2>1, <2>2, <2>3, SessionStep
  <1>2. ASSUME NEW b \in Browsers, LoseCookie(b) PROVE IndInv'
    <2>1. /\ cookie' = [cookie EXCEPT ![b] = NoSid] /\ UNCHANGED <<session, linked, logins>>
          /\ UNCHANGED <<logout, pc, lr, browser, sent, tasks, call, late, before, confirmed>>
      BY <1>2 DEF LoseCookie, tables, locals, history
    <2>2. LinksSound'
      BY <2>1 DEF IndInv, LinksSound
    <2>3. /\ session' \in [Sids -> Subjects \cup {NoSubject}] /\ logins' \subseteq Sids \X Subjects
          /\ cookie' \in [Browsers -> Sids \cup {NoSid}]
      BY <2>1 DEF IndInv, TypeOK
    <2> QED  BY <2>1, <2>2, <2>3, SessionStep
  <1>3. ASSUME NEW u \in Subjects, RevokeSubjectLoginSession(u) PROVE IndInv'
    <2>1. /\ DeleteSessions({s \in Sids : session[s] = u}) /\ UNCHANGED <<cookie, logins>>
          /\ UNCHANGED <<logout, pc, lr, browser, sent, tasks, call, late, before, confirmed>>
      BY <1>3 DEF RevokeSubjectLoginSession, locals, history
    <2>2. /\ session' \in [Sids -> Subjects \cup {NoSubject}]
          /\ linked' \subseteq linked /\ LinksSound'
      BY <2>1, DeletesSound
    <2>3. cookie' \in [Browsers -> Sids \cup {NoSid}] /\ logins' \subseteq Sids \X Subjects
      BY <2>1 DEF IndInv, TypeOK
    <2> QED  BY <2>1, <2>2, <2>3, SessionStep
  <1> QED  BY <1>1, <1>2, <1>3, SignInStep, LinkStep DEF Sessions

(***************************************************************************)
(* Logout requests.                                                        *)
(***************************************************************************)
\* A row of hydra_oauth2_logout_request changes; an accepted one is confirmed.
LEMMA RequestStep ==
  ASSUME IndInv, NEW l \in Logouts, NEW q \in LogoutRequest, logout' = [logout EXCEPT ![l] = q],
         UNCHANGED <<session, linked, cookie, pc, lr, browser, sent, tasks, call, logins, late,
                     before>>,
         confirmed \subseteq confirmed', confirmed' \subseteq Sids,
         q.state = "accepted" => q.sid \in confirmed'
  PROVE  IndInv'
  <1>1. TypeOK'
    BY DEF IndInv, TypeOK
  <1>2. \A m \in Logouts : logout'[m] = logout[m] \/ logout'[m] = q
    BY DEF IndInv, TypeOK
  <1>3. RequestsSound' /\ ConfirmedLogout'
    BY <1>2 DEF IndInv, RequestsSound, ConfirmedLogout
  <1>4. LinksSound' /\ ListsSound' /\ EndedSound' /\ NotifiedBeforeGone' /\ CalledTwiceOverlaps'
    BY DEF IndInv, LinksSound, ListsSound, EndedSound, NotifiedBeforeGone, CalledTwiceOverlaps
  <1> QED  BY <1>1, <1>3, <1>4 DEF IndInv

LEMMA CreateStep ==
  ASSUME IndInv, NEW l \in Logouts, NEW s, NEW rp \in BOOLEAN, CreateLogoutRequest(l, s, rp)
  PROVE  IndInv'
  <1> DEFINE q == [sid |-> s, subject |-> session[s], rp |-> rp, state |-> "requested"]
  <1>1. /\ s \in Sids /\ session[s] # NoSubject /\ logout' = [logout EXCEPT ![l] = q]
        /\ UNCHANGED <<session, linked, cookie, pc, lr, browser, sent, tasks, call, logins, late,
                       before>>
        /\ UNCHANGED confirmed
    BY DEF CreateLogoutRequest, locals, history
  <1>2. session[s] \in Subjects
    BY <1>1 DEF IndInv, TypeOK
  <1>3. q \in LogoutRequest /\ q.state = "requested" /\ confirmed \subseteq Sids
    BY <1>1, <1>2 DEF LogoutRequest, IndInv, TypeOK
  <1> HIDE DEF q
  <1> QED  BY <1>1, <1>3, RequestStep

LEMMA AskingStep ==
  ASSUME IndInv, Asking
  PROVE  IndInv'
  <1>1. PICK l \in Logouts :
            \/ \E b \in Browsers : RequestLogout(l, b)
            \/ \E s \in Sids : RequestLogoutWithHint(l, s)
            \/ AcceptLogoutRequest(l) \/ RejectLogoutRequest(l) \/ ExpireLogoutRequest(l)
    BY DEF Asking
  <1>2. logout[l] # NoLogout => logout[l] \in LogoutRequest /\ logout[l].sid \in Sids
    BY RequestParts DEF IndInv, TypeOK
  <1>3. ASSUME NEW state \in {"accepted", "rejected"}, AnswerLogoutRequest(l, state) PROVE IndInv'
    <2> DEFINE q == [logout[l] EXCEPT !.state = state]
    <2>1. /\ logout[l] # NoLogout /\ logout' = [logout EXCEPT ![l] = q]
          /\ UNCHANGED <<session, linked, cookie, pc, lr, browser, sent, tasks, call, logins, late,
                         before>>
          /\ confirmed' = IF state = "accepted" THEN confirmed \cup {logout[l].sid} ELSE confirmed
      BY <1>3 DEF AnswerLogoutRequest, locals
    <2>2. q \in LogoutRequest /\ q.sid = logout[l].sid /\ q.state = state
      BY <1>2, <2>1 DEF LogoutRequest
    <2>3. /\ confirmed \subseteq confirmed' /\ confirmed' \subseteq Sids
          /\ state = "accepted" => logout[l].sid \in confirmed'
      BY <1>2, <2>1 DEF IndInv, TypeOK
    <2> HIDE DEF q
    <2> QED  BY <2>1, <2>2, <2>3, RequestStep
  <1>4. CASE ExpireLogoutRequest(l)
    <2> DEFINE q == [logout[l] EXCEPT !.state = "expired"]
    <2>1. /\ logout[l] # NoLogout /\ logout' = [logout EXCEPT ![l] = q]
          /\ UNCHANGED <<session, linked, cookie, pc, lr, browser, sent, tasks, call, logins, late,
                         before>>
          /\ UNCHANGED confirmed
      BY <1>4 DEF ExpireLogoutRequest, locals, history
    <2>2. q \in LogoutRequest /\ q.state = "expired" /\ confirmed \subseteq Sids
      BY <1>2, <2>1 DEF LogoutRequest, IndInv, TypeOK
    <2> HIDE DEF q
    <2> QED  BY <2>1, <2>2, RequestStep
  <1> QED  BY <1>1, <1>3, <1>4, CreateStep
           DEF RequestLogout, RequestLogoutWithHint, AcceptLogoutRequest, RejectLogoutRequest

(***************************************************************************)
(* Requests that end sessions.                                             *)
(***************************************************************************)
\* What request r has to have in the next state.
Fit(r) ==
    /\ pc[r] # "idle" => lr[r] # NoLogout /\ lr[r].sid \in confirmed
    /\ \A x \in linked :
          /\ (pc[r] = "listed" /\ x[1] = lr[r].sid /\ x[3] = lr[r].subject)
                 => x[2] \in tasks[r] \/ <<x[2], x[3]>> \in late[r]
          /\ (pc[r] = "deleting" /\ x[1] = lr[r].sid /\ x[3] = lr[r].subject)
                 => call[r][x[2]] # "none" \/ <<x[2], x[3]>> \in late[r]
          /\ (pc[r] \in Ended /\ x[1] = lr[r].sid) => <<x[2], x[3]>> \in late[r]
    /\ \A c \in Clients :
          /\ c \in tasks[r] => pc[r] = "listed"
          /\ call[r][c] # "none" => pc[r] \in {"deleting", "failed"} \cup Ended
    /\ \A q \in Requests :
          q \in before[r] => pc[q] \in Ended /\ pc[r] \notin {"idle", "verified", "listing"}
    /\ \A q \in Requests, c \in Clients :
          (q \in before[r] /\ (c \in tasks[r] \/ call[r][c] # "none"))
              => <<c, lr[r].subject>> \in late[q]

\* The invariant is that everyone is fit, and the tables are sound.
LEMMA FitForAll ==
  IndInv <=> /\ TypeOK /\ LinksSound
             /\ \A l \in Logouts : (logout[l] # NoLogout /\ logout[l].state = "accepted")
                                       => logout[l].sid \in confirmed
             /\ \A r \in Requests : Fit(r)
  <1> DEFINE All == \A r \in Requests : Fit(r)
  <1>1. IndInv => All
    BY DEF IndInv, RequestsSound, ListsSound, EndedSound, NotifiedBeforeGone, ConfirmedLogout,
           CalledTwiceOverlaps, Fit
  <1>2. All => ListsSound
    BY DEF Fit, ListsSound
  <1>3. All => EndedSound /\ NotifiedBeforeGone /\ ConfirmedLogout /\ CalledTwiceOverlaps
    BY DEF Fit, EndedSound, NotifiedBeforeGone, ConfirmedLogout, CalledTwiceOverlaps
  <1>4. All => \A r \in Requests : pc[r] # "idle" => lr[r] # NoLogout
    BY DEF Fit
  <1>5. RequestsSound <=>
             /\ \A l \in Logouts : (logout[l] # NoLogout /\ logout[l].state = "accepted")
                                       => logout[l].sid \in confirmed
             /\ \A r \in Requests : pc[r] # "idle" => lr[r] # NoLogout
    BY DEF RequestsSound
  <1> HIDE DEF All
  <1>6. IndInv <=> /\ TypeOK /\ LinksSound /\ RequestsSound /\ ListsSound /\ EndedSound
                   /\ NotifiedBeforeGone /\ ConfirmedLogout /\ CalledTwiceOverlaps
    BY DEF IndInv
  <1>7. IndInv <=> /\ TypeOK /\ LinksSound
                   /\ \A l \in Logouts : (logout[l] # NoLogout /\ logout[l].state = "accepted")
                                             => logout[l].sid \in confirmed
                   /\ All
    BY <1>1, <1>2, <1>3, <1>4, <1>5, <1>6
  <1> QED  BY <1>7 DEF All

\* A step of request r: the others stay fit if it takes no link away that they
\* count on, and keeps what it has counted as late once it has ended its session.
LEMMA MoveStep ==
  ASSUME IndInv, NEW r \in Requests, TypeOK', LinksSound', Fit(r)',
         linked' \subseteq linked, UNCHANGED logout, confirmed \subseteq confirmed',
         \A q \in Requests \ {r} :
             /\ pc'[q] = pc[q] /\ lr'[q] = lr[q] /\ tasks'[q] = tasks[q] /\ call'[q] = call[q]
             /\ late'[q] = late[q] /\ before'[q] = before[q],
         pc[r] \in Ended => pc'[r] \in Ended /\ late'[r] = late[r]
  PROVE  IndInv'
  <1>1. \A q \in Requests : Fit(q)
    BY FitForAll
  <1>2. ASSUME NEW q \in Requests \ {r} PROVE Fit(q)'
    <2>1. /\ Fit(q) /\ q \in Requests
          /\ pc'[q] = pc[q] /\ lr'[q] = lr[q] /\ tasks'[q] = tasks[q] /\ call'[q] = call[q]
          /\ late'[q] = late[q] /\ before'[q] = before[q]
      BY <1>1, <1>2
    <2>2. \A p \in Requests : pc[p] \in Ended => pc'[p] \in Ended /\ late'[p] = late[p]
      OBVIOUS
    <2>3. \A p \in Requests : p \in before'[q] => pc'[p] \in Ended /\ late'[p] = late[p]
      BY <2>1, <2>2 DEF Fit
    <2> QED  BY <2>1, <2>3 DEF Fit
  <1>3. \A q \in Requests : Fit(q)'
    BY <1>2
  <1>4. \A l \in Logouts : (logout'[l] # NoLogout /\ logout'[l].state = "accepted")
                               => logout'[l].sid \in confirmed'
    BY FitForAll
  <1>5. ListsSound'
    BY <1>3 DEF Fit, ListsSound
  <1>6. EndedSound' /\ NotifiedBeforeGone'
    BY <1>3 DEF Fit, EndedSound, NotifiedBeforeGone
  <1>7. RequestsSound' /\ ConfirmedLogout' /\ CalledTwiceOverlaps'
    BY <1>3, <1>4 DEF Fit, RequestsSound, ConfirmedLogout, CalledTwiceOverlaps
  <1> QED  BY <1>5, <1>6, <1>7 DEF IndInv

\* A new logout takes the request it has read, which was confirmed.
LEMMA VerifyStep ==
  ASSUME IndInv, NEW r \in Requests, NEW b \in Browsers, NEW l \in Logouts, VerifyLogout(r, b, l)
  PROVE  IndInv'
  <1>1. /\ pc[r] = "idle" /\ pc' = [pc EXCEPT ![r] = "verified"] /\ lr' = [lr EXCEPT ![r] = logout[l]]
        /\ browser' = [browser EXCEPT ![r] = b] /\ sent' = [sent EXCEPT ![r] = cookie[b]]
        /\ UNCHANGED <<session, linked, logout, cookie, tasks, call, logins, late, before, confirmed>>
    BY DEF VerifyLogout, Goto, tables, history
  <1>2. logout[l] \in LogoutRequest /\ logout[l] # NoLogout /\ logout[l].sid \in confirmed
    BY DEF VerifyLogout, Verifiable, IndInv, TypeOK, RequestsSound
  <1>3. TypeOK'
    BY <1>1, <1>2 DEF IndInv, TypeOK, Phases
  <1>4. LinksSound'
    BY <1>1 DEF IndInv, LinksSound
  <1>5. pc'[r] = "verified" /\ lr'[r] = logout[l]
    BY <1>1 DEF IndInv, TypeOK
  <1>6. Fit(r)
    BY FitForAll
  <1>7. Fit(r)'
    BY <1>1, <1>2, <1>5, <1>6 DEF Fit
  <1>8. \A q \in Requests \ {r} : pc'[q] = pc[q] /\ lr'[q] = lr[q]
    BY <1>1 DEF IndInv, TypeOK
  <1> QED  BY <1>1, <1>3, <1>4, <1>7, <1>8, MoveStep

LEMMA HeadlessStep ==
  ASSUME IndInv, NEW r \in Requests, NEW s \in Sids, HeadlessLogout(r, s)
  PROVE  IndInv'
  <1> DEFINE q0 == [sid |-> s, subject |-> session[s], rp |-> FALSE, state |-> "accepted"]
  <1>1. /\ pc[r] = "idle" /\ pc' = [pc EXCEPT ![r] = "listing"] /\ lr' = [lr EXCEPT ![r] = q0]
        /\ session[s] # NoSubject /\ confirmed' = confirmed \cup {s}
        /\ UNCHANGED <<session, linked, logout, cookie, browser, sent, tasks, call, logins, late, before>>
    BY DEF HeadlessLogout, Goto, tables
  <1>2. session[s] \in Subjects
    BY <1>1 DEF IndInv, TypeOK
  <1>3. q0 \in LogoutRequest /\ q0.sid = s
    BY <1>2 DEF LogoutRequest
  <1> HIDE DEF q0
  <1>4. q0 # NoLogout
    BY <1>3, RequestParts
  <1>5. TypeOK'
    BY <1>1, <1>3 DEF IndInv, TypeOK, Phases
  <1>6. LinksSound'
    BY <1>1 DEF IndInv, LinksSound
  <1>7. pc'[r] = "listing" /\ lr'[r] = q0
    BY <1>1 DEF IndInv, TypeOK
  <1>8. Fit(r)
    BY FitForAll
  <1>9. Fit(r)'
    BY <1>1, <1>3, <1>4, <1>7, <1>8 DEF Fit
  <1>10. \A q \in Requests \ {r} : pc'[q] = pc[q] /\ lr'[q] = lr[q]
    BY <1>1 DEF IndInv, TypeOK
  <1> QED  BY <1>1, <1>5, <1>6, <1>9, <1>10, MoveStep

LEMMA CheckSessionStep ==
  ASSUME IndInv, NEW r \in Requests, CheckSession(r)
  PROVE  IndInv'
  <1>1. /\ pc[r] = "verified" /\ pc' = [pc EXCEPT ![r] = "listing"] /\ sent' = [sent EXCEPT ![r] = NoSid]
        /\ UNCHANGED <<session, linked, logout, cookie, lr, browser, tasks, call, logins, late, before,
                       confirmed>>
    BY DEF CheckSession, Goto, tables, history
  <1>2. TypeOK'
    BY <1>1 DEF IndInv, TypeOK, Phases
  <1>3. LinksSound'
    BY <1>1 DEF IndInv, LinksSound
  <1>4. pc'[r] = "listing" /\ Fit(r)
    BY <1>1, FitForAll DEF IndInv, TypeOK
  <1>5. Fit(r)'
    BY <1>1, <1>4 DEF Fit
  <1>6. \A q \in Requests \ {r} : pc'[q] = pc[q]
    BY <1>1 DEF IndInv, TypeOK
  <1> QED  BY <1>1, <1>2, <1>3, <1>5, <1>6, MoveStep

LEMMA SkipStep ==
  ASSUME IndInv, NEW r \in Requests, SkipLogout(r)
  PROVE  IndInv'
  <1>1. /\ pc[r] = "verified" /\ pc' = [pc EXCEPT ![r] = "idle"] /\ lr' = [lr EXCEPT ![r] = NoLogout]
        /\ browser' = [browser EXCEPT ![r] = NoBrowser] /\ sent' = [sent EXCEPT ![r] = NoSid]
        /\ UNCHANGED <<session, linked, logout, cookie, tasks, call, logins, late, before, confirmed>>
    BY DEF SkipLogout, Goto, tables, history
  <1>2. TypeOK'
    BY <1>1 DEF IndInv, TypeOK, Phases
  <1>3. LinksSound'
    BY <1>1 DEF IndInv, LinksSound
  <1>4. pc'[r] = "idle" /\ Fit(r)
    BY <1>1, FitForAll DEF IndInv, TypeOK
  <1>5. Fit(r)'
    BY <1>1, <1>4 DEF Fit
  <1>6. \A q \in Requests \ {r} : pc'[q] = pc[q] /\ lr'[q] = lr[q]
    BY <1>1 DEF IndInv, TypeOK
  <1> QED  BY <1>1, <1>2, <1>3, <1>5, <1>6, MoveStep

\* The list is complete, and who is on it although the session had been ended
\* before has joined since.
LEMMA ListStep ==
  ASSUME IndInv, NEW r \in Requests, ListTasks(r)
  PROVE  IndInv'
  <1> DEFINE L == ListClients(lr[r].sid, lr[r].subject)
             B == {q \in Requests : pc[q] \in Ended /\ lr[q].sid = lr[r].sid}
  <1>1. /\ pc[r] = "listing" /\ pc' = [pc EXCEPT ![r] = "listed"] /\ tasks' = [tasks EXCEPT ![r] = L]
        /\ before' = [before EXCEPT ![r] = B]
        /\ UNCHANGED <<session, linked, logout, cookie, lr, browser, sent, call, logins, late, confirmed>>
    BY DEF ListTasks, ReadList, Goto, tables
  <1>2. L \subseteq Clients /\ B \subseteq Requests
    BY DEF ListClients
  <1>3. Fit(r) /\ \A q \in Requests : Fit(q)
    BY FitForAll
  <1>4. \A x \in linked : (x[1] = lr[r].sid /\ x[3] = lr[r].subject) => x[2] \in L
    <2>1. \A x \in linked : x[2] \in Clients /\ x = <<x[1], x[2], x[3]>>
      BY LinkParts DEF IndInv, TypeOK
    <2> QED  BY <2>1 DEF ListClients
  <1>5. \A q \in B, c \in L : <<c, lr[r].subject>> \in late[q]
    <2>1. SUFFICES ASSUME NEW q \in B, NEW c \in L PROVE <<c, lr[r].subject>> \in late[q]
      OBVIOUS
    <2> DEFINE x == <<lr[r].sid, c, lr[r].subject>>
    <2>2. x \in linked /\ x[1] = lr[r].sid /\ x[2] = c /\ x[3] = lr[r].subject
      BY <2>1 DEF ListClients
    <2>3. q \in Requests /\ pc[q] \in Ended /\ lr[q].sid = lr[r].sid /\ Fit(q)
      BY <1>3, <2>1
    <2> HIDE DEF x
    <2> QED  BY <2>2, <2>3 DEF Fit
  <1> HIDE DEF L, B
  <1>6. TypeOK'
    BY <1>1, <1>2 DEF IndInv, TypeOK, Phases
  <1>7. LinksSound'
    BY <1>1 DEF IndInv, LinksSound
  <1>8. pc'[r] = "listed" /\ tasks'[r] = L /\ before'[r] = B
    BY <1>1 DEF IndInv, TypeOK
  <1>9. \A q \in Requests \ {r} : pc'[q] = pc[q] /\ tasks'[q] = tasks[q] /\ before'[q] = before[q]
    BY <1>1 DEF IndInv, TypeOK
  <1>10. \A q \in B : pc'[q] \in Ended
    BY <1>1, <1>9 DEF B
  <1>11. Fit(r)'
    BY <1>1, <1>3, <1>4, <1>5, <1>8, <1>10 DEF Fit
  <1> QED  BY <1>1, <1>6, <1>7, <1>9, <1>11, MoveStep

LEMMA StartCallsStep ==
  ASSUME IndInv, NEW r \in Requests, StartCalls(r)
  PROVE  IndInv'
  <1> DEFINE C == [c \in Clients |-> IF c \in tasks[r] THEN "started" ELSE "none"]
  <1>1. /\ pc[r] = "listed" /\ pc' = [pc EXCEPT ![r] = "deleting"] /\ tasks' = [tasks EXCEPT ![r] = {}]
        /\ call' = [call EXCEPT ![r] = C]
        /\ UNCHANGED <<session, linked, logout, cookie, lr, browser, sent, logins, late, before, confirmed>>
    BY DEF StartCalls, Goto, tables, history
  <1>2. /\ C \in [Clients -> {"none", "started", "over"}]
        /\ \A c \in Clients : C[c] # "none" <=> c \in tasks[r]
    OBVIOUS
  <1> HIDE DEF C
  <1>3. TypeOK'
    BY <1>1, <1>2 DEF IndInv, TypeOK, Phases
  <1>4. LinksSound'
    BY <1>1 DEF IndInv, LinksSound
  <1>5. pc'[r] = "deleting" /\ tasks'[r] = {} /\ call'[r] = C
    BY <1>1 DEF IndInv, TypeOK
  <1>6. \A q \in Requests \ {r} : pc'[q] = pc[q] /\ tasks'[q] = tasks[q] /\ call'[q] = call[q]
    BY <1>1 DEF IndInv, TypeOK
  <1>7. Fit(r) /\ \A x \in linked : x[2] \in Clients
    BY FitForAll, LinkParts DEF IndInv, TypeOK
  <1>8. \A q \in Requests : q \in before[r] => pc'[q] \in Ended
    BY <1>1, <1>6, <1>7 DEF Fit
  <1>9. Fit(r)'
    BY <1>1, <1>2, <1>5, <1>7, <1>8 DEF Fit
  <1> QED  BY <1>1, <1>3, <1>4, <1>6, <1>9, MoveStep

\* No link of the session is left, so whatever is linked from now on is late.
LEMMA DeleteStep ==
  ASSUME IndInv, NEW r \in Requests, DeleteSession(r)
  PROVE  IndInv'
  <1>1. /\ pc[r] = "deleting" /\ pc' = [pc EXCEPT ![r] = "answering"] /\ late' = [late EXCEPT ![r] = {}]
        /\ DeleteSessions({lr[r].sid})
        /\ UNCHANGED <<logout, cookie, lr, browser, sent, tasks, call, logins, before, confirmed>>
    BY DEF DeleteSession, Goto
  <1>2. /\ session' \in [Sids -> Subjects \cup {NoSubject}] /\ linked' \subseteq linked /\ LinksSound'
        /\ \A x \in linked' : x[1] # lr[r].sid
    BY <1>1, DeletesSound
  <1>3. TypeOK'
    BY <1>1, <1>2 DEF IndInv, TypeOK, Phases
  <1>4. pc'[r] = "answering" /\ Fit(r)
    BY <1>1, FitForAll DEF IndInv, TypeOK
  <1>5. \A q \in Requests \ {r} : pc'[q] = pc[q] /\ late'[q] = late[q]
    BY <1>1 DEF IndInv, TypeOK
  <1>6. \A q \in Requests : q \in before[r] => q # r /\ pc'[q] \in Ended /\ late'[q] = late[q]
    BY <1>1, <1>4, <1>5 DEF Fit
  <1>7. Fit(r)'
    BY <1>1, <1>2, <1>4, <1>6 DEF Fit
  <1> QED  BY <1>1, <1>2, <1>3, <1>5, <1>7, MoveStep

\* Answer and FailLogout
LEMMA EndStep ==
  ASSUME IndInv, NEW r \in Requests, NEW at \in {"done", "failed"}, End(r, at), ClearCookie(r),
         \/ at = "done" /\ pc[r] = "answering"
         \/ at = "failed" /\ pc[r] \in {"listing", "listed", "deleting"}
  PROVE  IndInv'
  <1>1. /\ pc' = [pc EXCEPT ![r] = at] /\ browser' = [browser EXCEPT ![r] = NoBrowser]
        /\ sent' = [sent EXCEPT ![r] = NoSid] /\ tasks' = [tasks EXCEPT ![r] = {}]
        /\ UNCHANGED <<session, linked, logout, lr, call, logins, late, before, confirmed>>
    BY DEF End, Goto, tables, history
  <1>2. cookie' \in [Browsers -> Sids \cup {NoSid}]
    BY DEF ClearCookie, IndInv, TypeOK
  <1>3. TypeOK'
    BY <1>1, <1>2 DEF IndInv, TypeOK, Phases
  <1>4. LinksSound'
    BY <1>1 DEF IndInv, LinksSound
  <1>5. pc'[r] = at /\ tasks'[r] = {} /\ Fit(r)
    BY <1>1, FitForAll DEF IndInv, TypeOK
  <1>6. \A q \in Requests \ {r} : pc'[q] = pc[q] /\ tasks'[q] = tasks[q]
    BY <1>1 DEF IndInv, TypeOK
  <1>7. \A q \in Requests : pc[q] \in Ended => pc'[q] \in Ended
    BY <1>5, <1>6
  <1>8. Fit(r)'
    BY <1>1, <1>5, <1>7 DEF Fit
  <1> QED  BY <1>1, <1>3, <1>4, <1>6, <1>7, <1>8, MoveStep

LEMMA EndCallStep ==
  ASSUME IndInv, NEW r \in Requests, NEW c \in Clients, EndCall(r, c)
  PROVE  IndInv'
  <1>1. /\ call[r][c] = "started" /\ call' = [call EXCEPT ![r][c] = "over"]
        /\ UNCHANGED <<session, linked, logout, cookie, pc, lr, browser, sent, tasks, logins, late, before,
                       confirmed>>
    BY DEF EndCall, tables, locals, history
  <1>2. TypeOK'
    BY <1>1 DEF IndInv, TypeOK
  <1>3. LinksSound'
    BY <1>1 DEF IndInv, LinksSound
  <1>4. /\ \A d \in Clients : call'[r][d] # "none" <=> call[r][d] # "none"
        /\ \A q \in Requests \ {r} : call'[q] = call[q]
    BY <1>1 DEF IndInv, TypeOK
  <1>5. Fit(r) /\ \A x \in linked : x[2] \in Clients
    BY FitForAll, LinkParts DEF IndInv, TypeOK
  <1>6. Fit(r)'
    BY <1>1, <1>4, <1>5 DEF Fit
  <1> QED  BY <1>1, <1>2, <1>3, <1>4, <1>6, MoveStep

LEMMA CompletingStep ==
  ASSUME IndInv, Completing
  PROVE  IndInv'
  <1>1. PICK r \in Requests : \/ \E b \in Browsers, l \in Logouts : VerifyLogout(r, b, l)
                              \/ \E s \in Sids : HeadlessLogout(r, s)
                              \/ Step(r)
                              \/ \E c \in Clients : EndCall(r, c)
    BY DEF Completing
  <1>2. CASE Answer(r)
    BY <1>2, EndStep DEF Answer
  <1>3. CASE FailLogout(r)
    BY <1>3, EndStep DEF FailLogout
  <1> QED  BY <1>1, <1>2, <1>3, VerifyStep, HeadlessStep, CheckSessionStep, SkipStep, ListStep,
              StartCallsStep, DeleteStep, EndCallStep DEF Step

LEMMA NextIndInv == IndInv /\ [Next]_vars => IndInv'
  <1> SUFFICES ASSUME IndInv, [Next]_vars PROVE IndInv'
    OBVIOUS
  <1>1. CASE UNCHANGED vars
    BY <1>1 DEF vars, tables, locals, history, IndInv, TypeOK, LinksSound, RequestsSound, ListsSound,
                EndedSound, NotifiedBeforeGone, ConfirmedLogout, CalledTwiceOverlaps
  <1> QED  BY <1>1, SessionsStep, AskingStep, CompletingStep DEF Next

(***************************************************************************)
(* The theorems.                                                           *)
(***************************************************************************)
\* Everything a logout and the rows it reads rely on holds in every reachable
\* state of logout, login and administration (consent/strategy_default.go,
\* persistence/sql/persister_consent.go).
THEOREM Invariance == Spec => []IndInv
  BY InitIndInv, NextIndInv, PTL DEF Spec

\* performBackChannelLogoutAndDeleteSession deletes a session only after it has
\* called every client that the subject of the logout uses in it, but for those
\* who came after the list was read; clients that another subject brought to the
\* same session are not called.
THEOREM NotifiedBeforeGoneTheorem == Spec => []NotifiedBeforeGone
  <1>1. IndInv => NotifiedBeforeGone
    BY DEF IndInv
  <1> QED  BY <1>1, Invariance, PTL

\* completeLogout and HandleHeadlessLogout work on a session only after its
\* logout was accepted or ordered.
THEOREM ConfirmedLogoutTheorem == Spec => []ConfirmedLogout
  <1>1. IndInv => ConfirmedLogout
    BY DEF IndInv
  <1> QED  BY <1>1, Invariance, PTL

\* executeBackChannelLogout calls a client twice for one participation only from
\* requests that overlap: one that lists the clients after another has deleted
\* the session calls only who has joined since.
THEOREM CalledTwiceOverlapsTheorem == Spec => []CalledTwiceOverlaps
  <1>1. IndInv => CalledTwiceOverlaps
    BY DEF IndInv
  <1> QED  BY <1>1, Invariance, PTL
=============================================================================
