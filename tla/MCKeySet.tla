------------------------------ MODULE MCKeySet -------------------------------
(***************************************************************************)
(* KeySet for TLC: two processes, one of which signs two JWTs.             *)
(***************************************************************************)
EXTENDS KeySet, TLC

CONSTANTS s1, s2, s3, i1, i2

TwoAndOne == s1 :> i1 @@ s2 :> i1 @@ s3 :> i2
=============================================================================
