--------------------------- MODULE MCTokenEndpoint ---------------------------
(***************************************************************************)
(* Instances of TokenEndpoint for TLC.                                     *)
(***************************************************************************)
EXTENDS TokenEndpoint, TLC

\* Requests are interchangeable, and so are codes granted alike.
Symmetry == Permutations(Requests)
=============================================================================
