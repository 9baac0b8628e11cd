----------------------------- MODULE TokenFamily -----------------------------
(***************************************************************************)
(* What the token endpoint promises about the tokens that descend from one *)
(* authorization code, without saying how requests, transactions and       *)
(* tables bring it about:                                                  *)
(*   - a family is opened at most once, by its first token pair;           *)
(*   - a further pair is only issued while the family has a refresh token; *)
(*   - so a family that has lost its refresh tokens never gets another     *)
(*     token.                                                              *)
(***************************************************************************)
CONSTANTS Families, Tokens

VARIABLES
    opened,     \* families whose code has been exchanged or withdrawn
    rows,       \* refresh tokens stored for a family
    valid       \* access tokens valid for a family

famVars == <<opened, rows, valid>>

Init ==
    /\ opened = {}
    /\ rows = [f \in Families |-> {}]
    /\ valid = [f \in Families |-> {}]

\* The code is exchanged for the first pair; the refresh token is optional.
Open(f, t) ==
    /\ f \notin opened
    /\ opened' = opened \cup {f}
    /\ \E S \in {{}, {t}} : rows' = [rows EXCEPT ![f] = S]
    /\ valid' = [valid EXCEPT ![f] = {t}]

\* A refresh token is exchanged for a new pair.
Extend(f, t) ==
    /\ f \in opened /\ rows[f] # {} /\ t \notin rows[f] \cup valid[f]
    /\ rows' = [rows EXCEPT ![f] = @ \cup {t}]
    /\ \E S \in SUBSET valid[f] : valid' = [valid EXCEPT ![f] = S \cup {t}]
    /\ UNCHANGED opened

\* Tokens are revoked, pruned or deleted; a consent may be withdrawn before
\* the code was exchanged.
Shrink ==
    /\ \A f \in Families : rows'[f] \subseteq rows[f] /\ valid'[f] \subseteq valid[f]
    /\ DOMAIN rows' = Families /\ DOMAIN valid' = Families
    /\ opened \subseteq opened'

Next == Shrink \/ \E f \in Families, t \in Tokens : Open(f, t) \/ Extend(f, t)

Spec == Init /\ [][Next]_famVars

\* What this comes to for a family that was opened or withdrawn and has no token
\* left: there is nothing that could give it one.
Dead(f) == f \in opened /\ rows[f] = {} /\ valid[f] = {}
=============================================================================
