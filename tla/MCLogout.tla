------------------------------ MODULE MCLogout -------------------------------
(***************************************************************************)
(* Logout for TLC.                                                         *)
(***************************************************************************)
EXTENDS Logout, TLC

CONSTANT b1

\* All logins began in the browser b1; the others only follow verifiers.
OneHome == [s \in Sids |-> b1]

\* Sessions, subjects, clients and requests are interchangeable.
Symmetry == Permutations(Sids) \cup Permutations(Subjects)
                \cup Permutations(Clients) \cup Permutations(Requests)
=============================================================================
