-------------------------- MODULE MCClientRegistry ---------------------------
(***************************************************************************)
(* ClientRegistry for TLC.                                                 *)
(***************************************************************************)
EXTENDS ClientRegistry, TLC

\* Requests are interchangeable.
Symmetry == Permutations(Requests)
=============================================================================
