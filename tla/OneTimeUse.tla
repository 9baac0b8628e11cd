------------------------------ MODULE OneTimeUse -----------------------------
(***************************************************************************)
(* What a token request may present once: the JWT that authenticates its   *)
(* client (client_assertion) or is itself the grant (assertion of the JWT  *)
(* bearer grant), its DPoP proof, and its pre-authorized code.             *)
(*                                                                         *)
(* A request goes through the client's authentication and then the grant   *)
(* handlers in the order in which they are registered: JWT bearer, DPoP,   *)
(* pre-authorized code.  Each keeps a table of what was used, which it     *)
(* reads and writes in statements of their own; only the access token is   *)
(* stored in a transaction.  Signatures, audiences and the like only       *)
(* refuse a request, which it may do to any (Refuse).                      *)
(*                                                                         *)
(* Time is counted in half seconds: the exp of a JWT is a whole second.    *)
(***************************************************************************)
EXTENDS Naturals, FiniteSets

CONSTANTS
    Requests,
    Assertions,     \* JWTs, by jti: client assertions and JWT bearer grants
    Bearer,         \* the ones that are grants
    Proofs,         \* DPoP proofs, by jti
    Codes,          \* pre-authorized codes
    Anonymous,      \* oidc4vci: anonymous access with pre-authorized codes
    Exp,            \* the expiry of the JWTs
    Start,          \* when the requests begin
    MaxTime,        \* bound: how long time is watched
    None

ASSUME OneTimeAssumption ==
    /\ None \notin Assertions \cup Proofs \cup Codes
    /\ Bearer \subseteq Assertions /\ Anonymous \in BOOLEAN
    /\ Exp \in Nat /\ Exp % 2 = 0 /\ MaxTime \in Nat /\ Start \in 0 .. MaxTime

Token == [request : Requests, code : Codes \cup {None}, bound : BOOLEAN]

VARIABLES
    now,
    \* the database
    blacklist,      \* rows of hydra_oauth2_jti_blacklist; all expire at Exp
    jtis,           \* rows of hydra_oauth2_dpop_jti
    redeemed,       \* pre-authorized codes that are redeemed
    tokens,         \* access tokens: cnf is set if bound
    \* requests
    pc, assertion, proof, code,
    client,         \* the ones whose client is authenticated
    cnf,            \* the ones whose session has a cnf claim
    \* history
    accepted,       \* <<assertion, request, time>>
    before          \* the requests that were over when a request began

tables == <<blacklist, jtis, redeemed, tokens>>
presented == <<assertion, proof, code, before>>
vars == <<now, tables, pc, presented, client, cnf, accepted>>

Labels == {"idle", "check_jti", "purge", "insert_jti", "check_proof", "mark_proof",
           "read_code", "redeem", "details", "issue", "issued", "refused"}

TypeOK ==
    /\ now \in 0 .. MaxTime
    /\ blacklist \subseteq Assertions /\ jtis \subseteq Proofs /\ redeemed \subseteq Codes
    /\ tokens \subseteq Token
    /\ pc \in [Requests -> Labels]
    /\ assertion \in [Requests -> Assertions \cup {None}]
    /\ proof \in [Requests -> Proofs \cup {None}]
    /\ code \in [Requests -> Codes \cup {None}]
    /\ client \subseteq Requests /\ cnf \subseteq Requests
    /\ accepted \subseteq Assertions \X Requests \X (0 .. MaxTime)
    /\ before \in [Requests -> SUBSET Requests]

Init ==
    /\ now = Start
    /\ blacklist = {} /\ jtis = {} /\ redeemed = {} /\ tokens = {}
    /\ pc = [r \in Requests |-> "idle"]
    /\ assertion = [r \in Requests |-> None]
    /\ proof = [r \in Requests |-> None]
    /\ code = [r \in Requests |-> None]
    /\ client = {} /\ cnf = {}
    /\ accepted = {}
    /\ before = [r \in Requests |-> {}]

Tick ==
    /\ now < MaxTime
    /\ now' = now + 1
    /\ UNCHANGED <<tables, pc, presented, client, cnf, accepted>>

Goto(r, at) == pc' = [pc EXCEPT ![r] = at]

\* A request and what it presents: a JWT bearer grant comes without a code, any
\* other request with a code.
Begin(r, a, j, c) ==
    /\ pc[r] = "idle"
    /\ (a \in Bearer) <=> (c = None)
    /\ Goto(r, IF a = None THEN "check_proof" ELSE "check_jti")
    /\ assertion' = [assertion EXCEPT ![r] = a]
    /\ proof' = [proof EXCEPT ![r] = j]
    /\ code' = [code EXCEPT ![r] = c]
    /\ before' = [before EXCEPT ![r] = {q \in Requests : pc[q] \in {"issued", "refused"}}]
    /\ UNCHANGED <<now, tables, client, cnf, accepted>>

\* An error of any kind, or the end of the process.
Refuse(r) ==
    /\ pc[r] \notin {"idle", "issued", "refused"}
    /\ Goto(r, "refused")
    /\ UNCHANGED <<now, tables, presented, client, cnf, accepted>>

(***************************************************************************)
(* AuthenticateClient, and HandleTokenEndpointRequest of the JWT bearer    *)
(* grant.                                                                  *)
(***************************************************************************)
\* MapClaims.Valid compares whole seconds, validateTokenClaims instants.
Unexpired(a) == IF a \in Bearer THEN now <= Exp ELSE (now \div 2) * 2 <= Exp

\* ClientAssertionJWTValid, IsJWTUsed
CheckJTI(r) ==
    /\ pc[r] = "check_jti"
    /\ Unexpired(assertion[r])
    /\ assertion[r] \in blacklist => Exp <= now
    /\ Goto(r, "purge")
    /\ UNCHANGED <<now, tables, presented, client, cnf, accepted>>

\* SetClientAssertionJWT, MarkJWTUsedForTime: first the expired rows go,
PurgeJTIs(r) ==
    /\ pc[r] = "purge"
    /\ Goto(r, "insert_jti")
    /\ blacklist' = IF Exp < now THEN {} ELSE blacklist
    /\ UNCHANGED <<now, jtis, redeemed, tokens, presented, client, cnf, accepted>>

AcceptAssertion(r) ==
    /\ blacklist' = blacklist \cup {assertion[r]}
    /\ client' = client \cup {r}
    /\ accepted' = accepted \cup {<<assertion[r], r, now>>}
    /\ Goto(r, "check_proof")
    /\ UNCHANGED <<now, jtis, redeemed, tokens, presented, cnf>>

\* Mutant: a conflict is ignored, as MarkJTIUsed does.
InsertJTIAnyway(r) == pc[r] = "insert_jti" /\ AcceptAssertion(r)

\* then the new one is inserted under the primary key.
InsertJTI(r) == pc[r] = "insert_jti" /\ assertion[r] \notin blacklist /\ AcceptAssertion(r)

\* Where anonymous access is allowed, a client that is not authenticated is no
\* client, and the pre-authorized code is looked at all the same.
GoOnAnonymously(r) ==
    /\ pc[r] \in {"check_jti", "purge", "insert_jti"}
    /\ Anonymous /\ code[r] # None
    /\ Goto(r, "check_proof")
    /\ UNCHANGED <<now, tables, presented, client, cnf, accepted>>

(***************************************************************************)
(* validateDPoPProof: IsJTIUsed, and MarkJTIUsed, which ignores conflicts. *)
(***************************************************************************)
\* what follows the DPoP handler
Granting(r) == IF code[r] = None THEN "issue" ELSE "read_code"

SkipProof(r) ==
    /\ pc[r] = "check_proof" /\ proof[r] = None
    /\ Goto(r, Granting(r))
    /\ UNCHANGED <<now, tables, presented, client, cnf, accepted>>

\* Mutant: rows are not looked for.
ProofUnseen(r) == TRUE

\* IsJTIUsed; rows are never deleted, whatever their expires_at.
ProofUnused(r) == proof[r] \notin jtis

CheckProof(r) ==
    /\ pc[r] = "check_proof" /\ proof[r] # None /\ ProofUnused(r)
    /\ Goto(r, "mark_proof")
    /\ UNCHANGED <<now, tables, presented, client, cnf, accepted>>

\* and then the cnf claim goes into the session.
MarkProof(r) ==
    /\ pc[r] = "mark_proof"
    /\ Goto(r, Granting(r))
    /\ jtis' = jtis \cup {proof[r]}
    /\ cnf' = cnf \cup {r}
    /\ UNCHANGED <<now, blacklist, redeemed, tokens, presented, client, accepted>>

(***************************************************************************)
(* HandleTokenEndpointRequest of the pre-authorized code grant.            *)
(***************************************************************************)
ReadCode(r) ==
    /\ pc[r] = "read_code" /\ code[r] \notin redeemed
    /\ Goto(r, "redeem")
    /\ UNCHANGED <<now, tables, presented, client, cnf, accepted>>

\* Mutant: the UPDATE of InvalidatePreAuthorizedCode without "redeemed = false".
RedeemableAlways(r) == TRUE

\* the WHERE clause of InvalidatePreAuthorizedCode
Redeemable(r) == code[r] \notin redeemed

InvalidateCode(r) ==
    /\ pc[r] = "redeem" /\ Redeemable(r)
    /\ Goto(r, "details")
    /\ redeemed' = redeemed \cup {code[r]}
    /\ UNCHANGED <<now, blacklist, jtis, tokens, presented, client, cnf, accepted>>

\* Mutant: the stored session replaces the one with the cnf claim.
ReplaceSession(r) ==
    /\ pc[r] = "details"
    /\ Goto(r, "issue")
    /\ cnf' = cnf \ {r}
    /\ UNCHANGED <<now, tables, presented, client, accepted>>

\* authorization_details are resolved, and the stored session takes over the cnf
\* claim.
ResolveDetails(r) ==
    /\ pc[r] = "details"
    /\ Goto(r, "issue")
    /\ UNCHANGED <<now, tables, presented, client, cnf, accepted>>

\* PopulateTokenEndpointResponse
Issue(r) ==
    /\ pc[r] = "issue"
    /\ Goto(r, "issued")
    /\ tokens' = tokens \cup {[request |-> r, code |-> code[r], bound |-> r \in cnf]}
    /\ UNCHANGED <<now, blacklist, jtis, redeemed, presented, client, cnf, accepted>>

Next ==
    \/ Tick
    \/ \E r \in Requests :
          \/ \E a \in Assertions \cup {None}, j \in Proofs \cup {None}, c \in Codes \cup {None} :
                Begin(r, a, j, c)
          \/ CheckJTI(r) \/ PurgeJTIs(r) \/ InsertJTI(r) \/ GoOnAnonymously(r)
          \/ SkipProof(r) \/ CheckProof(r) \/ MarkProof(r)
          \/ ReadCode(r) \/ InvalidateCode(r) \/ ResolveDetails(r)
          \/ Issue(r) \/ Refuse(r)

Spec == Init /\ [][Next]_vars

(***************************************************************************)
(* Properties.                                                             *)
(***************************************************************************)
\* Until it expires, a JWT is accepted once, however requests interleave with each
\* other and with the removal of expired rows (SetClientAssertionJWT).
AcceptedOnceInTime ==
    \A x, y \in accepted : (x[1] = y[1] /\ x[3] <= Exp /\ y[3] <= Exp) => x = y

\* A DPoP proof serves two requests only if they overlap: once a request that
\* used it has been answered, the proof is refused (validateDPoPProof).
ProofReplayOverlaps ==
    \A q, r \in Requests :
        (q \in cnf /\ r \in cnf /\ proof[q] = proof[r]) => q \notin before[r]

\* A pre-authorized code yields one access token, even when it is presented by
\* several requests at once (InvalidatePreAuthorizedCode).
CodeYieldsOneToken ==
    \A t, u \in tokens : (t.code = u.code /\ t.code # None) => t = u

\* Every token was earned by its request: it carries the DPoP binding if there
\* was a proof ("We must carry it over into the deserialized session to avoid
\* losing the DPoP binding"), the code is redeemed, and a JWT bearer grant was
\* accepted.
TokenEarned ==
    \A t \in tokens :
        /\ t.bound <=> (proof[t.request] # None)
        /\ t.code # None => t.code \in redeemed
        /\ t.code = None => \E x \in accepted : x[1] = assertion[t.request] /\ x[2] = t.request

\* What these rest on.  Blacklist: it holds what was accepted in time.  Proofs: a
\* request that was bound has marked its proof, and one that passed the check
\* began before any request that used the proof was over.  Codes: a request past
\* the redemption has the code for itself.
Redeemed(r) == pc[r] \in {"details", "issue", "issued"} /\ code[r] # None

BlacklistSound ==
    /\ \A x \in accepted : /\ x[2] \in client /\ assertion[x[2]] = x[1]
                           /\ x[3] <= now
                           /\ now <= Exp => x[1] \in blacklist
    /\ \A r \in Requests :
          /\ pc[r] \in {"idle", "check_jti", "purge", "insert_jti"} => \A x \in accepted : x[2] # r
          /\ pc[r] \in {"check_jti", "purge", "insert_jti"} => assertion[r] # None
          /\ r \in client => \E x \in accepted : x[2] = r

ProofsSound ==
    \A r \in Requests :
        /\ r \in cnf => proof[r] \in jtis
        /\ r \in cnf => pc[r] \notin {"idle", "check_jti", "purge", "insert_jti", "check_proof", "mark_proof"}
        /\ pc[r] = "mark_proof" => proof[r] # None
        /\ pc[r] \in {"read_code", "redeem", "details", "issue"} => ((r \in cnf) <=> (proof[r] # None))
        /\ pc[r] = "mark_proof" =>
               \A q \in Requests : (q \in cnf /\ proof[q] = proof[r]) => q \notin before[r]
        /\ \A q \in Requests : q \in before[r] => pc[q] \in {"issued", "refused"}

CodesSound ==
    /\ \A r \in Requests :
          /\ Redeemed(r) => code[r] \in redeemed
          /\ pc[r] \in {"read_code", "redeem", "details"} => code[r] # None
          /\ (pc[r] = "issue" /\ code[r] = None) => r \in client
          /\ pc[r] # "idle" => (assertion[r] \in Bearer <=> code[r] = None)
          /\ (pc[r] = "check_proof" \/ pc[r] = "mark_proof") => (code[r] = None => r \in client)
          /\ \A q \in Requests : (Redeemed(q) /\ Redeemed(r) /\ code[q] = code[r]) => q = r
    /\ \A t \in tokens : pc[t.request] = "issued" /\ t.code = code[t.request]

\* An inductive invariant.
IndInv ==
    /\ TypeOK
    /\ BlacklistSound /\ ProofsSound /\ CodesSound
    /\ AcceptedOnceInTime /\ ProofReplayOverlaps /\ CodeYieldsOneToken /\ TokenEarned

(***************************************************************************)
(* The tokens of a pre-authorized code are a family: see TokenFamily.      *)
(***************************************************************************)
\* Redeemed, and the request that did it is over.
Spent(c) ==
    c \in redeemed /\ \A r \in Requests : code[r] = c => pc[r] \notin {"details", "issue"}

TokensOf(c) == {t.request : t \in {u \in tokens : u.code = c}}

\* There are no refresh tokens.
Family == INSTANCE TokenFamily WITH
    Families <- Codes, Tokens <- Requests,
    opened <- {c \in Codes : Spent(c)},
    rows <- [c \in Codes |-> {}],
    valid <- [c \in Codes |-> TokensOf(c)]

\* The grant implements TokenFamily: a code yields one access token, and none if
\* the request that has redeemed it fails before the token is stored, however
\* often it is presented at the same time or afterwards.
ImplementsCodeFamily == Family!Spec
=============================================================================
