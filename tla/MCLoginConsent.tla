--------------------------- MODULE MCLoginConsent ----------------------------
(***************************************************************************)
(* LoginConsent for TLC.                                                   *)
(***************************************************************************)
EXTENDS LoginConsent, TLC

\* Flows, browsers and consent request ids are interchangeable; subjects are not,
\* since only some of them are hinted at.
Symmetry == Permutations(Flows) \cup Permutations(Browsers) \cup Permutations(Cids)
=============================================================================
