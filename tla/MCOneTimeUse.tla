---------------------------- MODULE MCOneTimeUse -----------------------------
(***************************************************************************)
(* OneTimeUse for TLC.                                                     *)
(***************************************************************************)
EXTENDS OneTimeUse, TLC

\* Requests are interchangeable.
Symmetry == Permutations(Requests)
=============================================================================
