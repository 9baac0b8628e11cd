---------------------------- MODULE Authorization ----------------------------
(***************************************************************************)
(* What the login and consent flow promises about the codes it hands out,  *)
(* without challenges, verifiers, cookies and sessions:                    *)
(*   - a flow begins in one browser, and its codes go there;               *)
(*   - the subject of a code has logged in in that browser;                *)
(*   - and has approved the flow, or an earlier one for good;              *)
(*   - a flow holds one grant at a time, and a code falls with it.         *)
(***************************************************************************)
CONSTANTS Flows, Browsers, Subjects

VARIABLES
    began,      \* <<flow, browser>>
    logins,     \* <<subject, browser>>: logins with credentials
    approvals,  \* <<flow, subject>>: consents that the subject was asked for
    remembered, \* subjects who have given one of them for good
    grants,     \* <<flow, subject>>: consents that are stored
    codes       \* <<flow, subject, browser>>

authVars == <<began, logins, approvals, remembered, grants, codes>>

Init ==
    /\ began = {} /\ logins = {}
    /\ approvals = {} /\ remembered = {}
    /\ grants = {} /\ codes = {}

Begin(f, b) ==
    /\ \A d \in Browsers : <<f, d>> \notin began
    /\ began' = began \cup {<<f, b>>}
    /\ UNCHANGED <<logins, approvals, remembered, grants, codes>>

\* in a flow of that browser
LogIn(s, b) ==
    /\ \E f \in Flows : <<f, b>> \in began
    /\ logins' = logins \cup {<<s, b>>}
    /\ UNCHANGED <<began, approvals, remembered, grants, codes>>

LoggedIn(f, s) == \E b \in Browsers : <<f, b>> \in began /\ <<s, b>> \in logins

Approve(f, s) ==
    /\ LoggedIn(f, s)
    /\ approvals' = approvals \cup {<<f, s>>}
    /\ remembered' \in {remembered, remembered \cup {s}}
    /\ UNCHANGED <<began, logins, grants, codes>>

Approved(f, s) == <<f, s>> \in approvals \/ s \in remembered

Grant(f, s) ==
    /\ LoggedIn(f, s) /\ Approved(f, s)
    /\ \A u \in Subjects : <<f, u>> \notin grants
    /\ grants' = grants \cup {<<f, s>>}
    /\ UNCHANGED <<began, logins, approvals, remembered, codes>>

Issue(f, s, b) ==
    /\ <<f, s>> \in grants /\ <<f, b>> \in began
    /\ codes' = codes \cup {<<f, s, b>>}
    /\ UNCHANGED <<began, logins, approvals, remembered, grants>>

\* Grants are withdrawn, with their codes.
Withdraw(gone) ==
    /\ grants' = {g \in grants : g[1] \notin gone}
    /\ codes' = {c \in codes : c[1] \notin gone}
    /\ UNCHANGED <<began, logins, approvals, remembered>>

Next ==
    \/ \E gone \in SUBSET Flows : Withdraw(gone)
    \/ \E f \in Flows, b \in Browsers : Begin(f, b)
    \/ \E s \in Subjects, b \in Browsers : LogIn(s, b)
    \/ \E f \in Flows, s \in Subjects :
          Approve(f, s) \/ Grant(f, s) \/ \E b \in Browsers : Issue(f, s, b)

Spec == Init /\ [][Next]_authVars

\* What this comes to for a code: whoever it speaks for has logged in in the
\* browser that holds it, and has approved; and no flow has codes for two subjects
\* or in two browsers.
CodesAuthorized ==
    /\ \A c \in codes :
          /\ <<c[1], c[2]>> \in grants /\ <<c[1], c[3]>> \in began
          /\ <<c[2], c[3]>> \in logins /\ Approved(c[1], c[2])
    /\ \A c, d \in codes : c[1] = d[1] => c = d
=============================================================================
