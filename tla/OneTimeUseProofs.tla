-------------------------- MODULE OneTimeUseProofs ---------------------------
(***************************************************************************)
(* Proofs about OneTimeUse, for every number of requests, JWTs, proofs and *)
(* codes, every expiry, with and without anonymous access.                 *)
(***************************************************************************)
EXTENDS OneTimeUse, TLAPS

LEMMA InitIndInv == Init => IndInv
  BY OneTimeAssumption
     DEF Init, IndInv, TypeOK, Labels, BlacklistSound, ProofsSound, CodesSound, Redeemed,
         AcceptedOnceInTime, ProofReplayOverlaps, CodeYieldsOneToken, TokenEarned

\* What the steps of a request after Begin leave alone.
Step(r) ==
    \/ CheckJTI(r) \/ PurgeJTIs(r) \/ InsertJTI(r) \/ GoOnAnonymously(r)
    \/ SkipProof(r) \/ CheckProof(r) \/ MarkProof(r)
    \/ ReadCode(r) \/ InvalidateCode(r) \/ ResolveDetails(r)
    \/ Issue(r) \/ Refuse(r)

LEMMA StepFrame ==
  ASSUME TypeOK, NEW r \in Requests, Step(r)
  PROVE  /\ UNCHANGED <<now, assertion, proof, code, before>>
         /\ \A q \in Requests \ {r} : pc'[q] = pc[q] /\ (q \in cnf' <=> q \in cnf) /\ (q \in client' <=> q \in client)
         /\ pc[r] \notin {"idle", "issued", "refused"} /\ pc'[r] # "idle"
         /\ pc' \in [Requests -> Labels]
  <1>1. CASE CheckJTI(r)
    BY <1>1 DEF CheckJTI, Goto, tables, presented, TypeOK, Labels
  <1>2. CASE PurgeJTIs(r)
    BY <1>2 DEF PurgeJTIs, Goto, tables, presented, TypeOK, Labels
  <1>3. CASE InsertJTI(r)
    BY <1>3 DEF InsertJTI, AcceptAssertion, Goto, tables, presented, TypeOK, Labels
  <1>4. CASE GoOnAnonymously(r)
    BY <1>4 DEF GoOnAnonymously, Goto, tables, presented, TypeOK, Labels
  <1>5. CASE SkipProof(r)
    BY <1>5 DEF SkipProof, Granting, Goto, tables, presented, TypeOK, Labels
  <1>6. CASE CheckProof(r)
    BY <1>6 DEF CheckProof, ProofUnused, Goto, tables, presented, TypeOK, Labels
  <1>7. CASE MarkProof(r)
    BY <1>7 DEF MarkProof, Granting, Goto, tables, presented, TypeOK, Labels
  <1>8. CASE ReadCode(r)
    BY <1>8 DEF ReadCode, Goto, tables, presented, TypeOK, Labels
  <1>9. CASE InvalidateCode(r)
    BY <1>9 DEF InvalidateCode, Redeemable, Goto, tables, presented, TypeOK, Labels
  <1>10. CASE ResolveDetails(r)
    BY <1>10 DEF ResolveDetails, Goto, tables, presented, TypeOK, Labels
  <1>11. CASE Issue(r)
    BY <1>11 DEF Issue, Goto, tables, presented, TypeOK, Labels
  <1>12. CASE Refuse(r)
    BY <1>12 DEF Refuse, Goto, tables, presented, TypeOK, Labels
  <1> QED  BY <1>1, <1>2, <1>3, <1>4, <1>5, <1>6, <1>7, <1>8, <1>9, <1>10, <1>11, <1>12 DEF Step

LEMMA TypeStep ==
  ASSUME IndInv, NEW r \in Requests, Step(r)
  PROVE  TypeOK'
  <1>1. /\ UNCHANGED <<now, assertion, proof, code, before>>
        /\ \A q \in Requests \ {r} : pc'[q] = pc[q] /\ (q \in cnf' <=> q \in cnf) /\ (q \in client' <=> q \in client)
        /\ pc[r] \notin {"idle", "issued", "refused"} /\ pc'[r] # "idle"
        /\ pc' \in [Requests -> Labels]
    BY StepFrame DEF IndInv
  <1>2. CASE InsertJTI(r)
    <2>1. assertion[r] \in Assertions /\ now \in 0 .. MaxTime
      BY <1>2 DEF InsertJTI, IndInv, TypeOK, BlacklistSound
    <2>2. /\ blacklist' = blacklist \cup {assertion[r]} /\ client' = client \cup {r}
          /\ accepted' = accepted \cup {<<assertion[r], r, now>>}
          /\ UNCHANGED <<jtis, redeemed, tokens, cnf>>
      BY <1>2 DEF InsertJTI, AcceptAssertion
    <2>3. accepted' \subseteq Assertions \X Requests \X (0 .. MaxTime)
      BY <2>1, <2>2 DEF IndInv, TypeOK
    <2> QED  BY <1>1, <2>1, <2>2, <2>3 DEF IndInv, TypeOK
  <1>3. CASE MarkProof(r)
    <2>1. proof[r] \in Proofs
      BY <1>3 DEF MarkProof, IndInv, TypeOK, ProofsSound
    <2> QED  BY <1>1, <1>3, <2>1 DEF MarkProof, IndInv, TypeOK
  <1>4. CASE InvalidateCode(r)
    <2>1. code[r] \in Codes
      BY <1>4 DEF InvalidateCode, IndInv, TypeOK, CodesSound
    <2> QED  BY <1>1, <1>4, <2>1 DEF InvalidateCode, IndInv, TypeOK
  <1>5. CASE Issue(r)
    <2> DEFINE t == [request |-> r, code |-> code[r], bound |-> r \in cnf]
    <2>1. t \in Token
      BY DEF Token, IndInv, TypeOK
    <2> HIDE DEF t
    <2> QED  BY <1>1, <1>5, <2>1 DEF Issue, t, IndInv, TypeOK
  <1>6. CASE PurgeJTIs(r)
    BY <1>1, <1>6 DEF PurgeJTIs, IndInv, TypeOK
  <1>7. CASE CheckJTI(r) \/ GoOnAnonymously(r) \/ SkipProof(r) \/ CheckProof(r) \/ ReadCode(r)
                \/ ResolveDetails(r) \/ Refuse(r)
    BY <1>1, <1>7 DEF CheckJTI, GoOnAnonymously, SkipProof, CheckProof, ReadCode, ResolveDetails,
                      Refuse, tables, IndInv, TypeOK
  <1> QED  BY <1>2, <1>3, <1>4, <1>5, <1>6, <1>7 DEF Step

\* InsertJTI: a row that is there keeps the JWT from being accepted, until it expires.
LEMMA BlacklistStep ==
  ASSUME IndInv, NEW r \in Requests, Step(r)
  PROVE  BlacklistSound' /\ AcceptedOnceInTime'
  <1>1. /\ UNCHANGED <<now, assertion, proof, code, before>>
        /\ \A q \in Requests \ {r} : pc'[q] = pc[q] /\ (q \in cnf' <=> q \in cnf) /\ (q \in client' <=> q \in client)
        /\ pc[r] \notin {"idle", "issued", "refused"} /\ pc'[r] # "idle"
        /\ pc' \in [Requests -> Labels]
    BY StepFrame DEF IndInv
  <1>2. now \in Nat /\ Exp \in Nat
    BY OneTimeAssumption DEF IndInv, TypeOK
  <1>20. \A x \in accepted : x[1] \in Assertions /\ x[2] \in Requests /\ x[3] \in Nat
    BY OneTimeAssumption DEF IndInv, TypeOK
  <1>3. CASE InsertJTI(r)
    <2> DEFINE n == <<assertion[r], r, now>>
    <2>1. /\ pc[r] = "insert_jti" /\ assertion[r] \notin blacklist
          /\ blacklist' = blacklist \cup {assertion[r]} /\ r \in client' /\ pc'[r] = "check_proof"
          /\ accepted' = accepted \cup {n}
      BY <1>3 DEF InsertJTI, AcceptAssertion, Goto, IndInv, TypeOK
    <2>2. n[1] = assertion[r] /\ n[2] = r /\ n[3] = now
      OBVIOUS
    <2> HIDE DEF n
    <2>3. \A x \in accepted : x[2] # r
      BY <2>1 DEF IndInv, BlacklistSound
    <2>4. BlacklistSound'
      <3>1. \A x \in accepted' : x[2] \in client' /\ assertion'[x[2]] = x[1]
        BY <1>1, <1>2, <1>20, <2>1, <2>2 DEF IndInv, BlacklistSound
      <3>2. \A x \in accepted' : x[3] <= now' /\ (now' <= Exp => x[1] \in blacklist')
        BY <1>1, <1>2, <1>20, <2>1, <2>2 DEF IndInv, BlacklistSound
      <3>3. ASSUME NEW q \in Requests
            PROVE  /\ pc'[q] \in {"idle", "check_jti", "purge", "insert_jti"} => \A x \in accepted' : x[2] # q
                   /\ pc'[q] \in {"check_jti", "purge", "insert_jti"} => assertion'[q] # None
                   /\ q \in client' => \E x \in accepted' : x[2] = q
        BY <1>1, <2>1, <2>2 DEF IndInv, BlacklistSound
      <3> QED  BY <3>1, <3>2, <3>3 DEF BlacklistSound
    <2>5. \A x \in accepted : now <= Exp => x[1] # assertion[r]
      BY <2>1 DEF IndInv, BlacklistSound
    <2>6. AcceptedOnceInTime'
      BY <1>2, <1>20, <2>1, <2>2, <2>5 DEF IndInv, AcceptedOnceInTime
    <2> QED  BY <2>4, <2>6
  <1>4. CASE PurgeJTIs(r)
    <2>1. /\ pc[r] = "purge" /\ pc'[r] = "insert_jti" /\ UNCHANGED <<client, accepted>>
          /\ now <= Exp => blacklist' = blacklist
      <3>1. UNCHANGED <<client, accepted>> /\ blacklist' = IF Exp < now THEN {} ELSE blacklist
        BY <1>4 DEF PurgeJTIs
      <3>2. pc[r] = "purge" /\ pc'[r] = "insert_jti"
        BY <1>4 DEF PurgeJTIs, Goto, IndInv, TypeOK
      <3> QED  BY <1>2, <3>1, <3>2
    <2> QED  BY <1>1, <1>2, <2>1 DEF IndInv, BlacklistSound, AcceptedOnceInTime
  <1>5. CASE CheckJTI(r)
    <2>1. pc[r] = "check_jti" /\ pc'[r] = "purge" /\ UNCHANGED <<client, accepted, blacklist>>
      BY <1>5 DEF CheckJTI, Goto, tables, IndInv, TypeOK
    <2> QED  BY <1>1, <2>1 DEF IndInv, BlacklistSound, AcceptedOnceInTime
  <1>6. CASE GoOnAnonymously(r) \/ SkipProof(r) \/ CheckProof(r) \/ MarkProof(r) \/ ReadCode(r)
                \/ InvalidateCode(r) \/ ResolveDetails(r) \/ Issue(r) \/ Refuse(r)
    <2>1. /\ pc'[r] \notin {"idle", "check_jti", "purge", "insert_jti"}
          /\ UNCHANGED <<client, accepted, blacklist>>
      BY <1>6 DEF GoOnAnonymously, SkipProof, CheckProof, MarkProof, ReadCode, InvalidateCode,
                  ResolveDetails, Issue, Refuse, Goto, Granting, tables, IndInv, TypeOK
    <2> QED  BY <1>1, <2>1 DEF IndInv, BlacklistSound, AcceptedOnceInTime
  <1> QED  BY <1>3, <1>4, <1>5, <1>6 DEF Step

\* MarkProof: the proof was not in the table when it was looked for, after the request began.
LEMMA ProofsStep ==
  ASSUME IndInv, NEW r \in Requests, Step(r)
  PROVE  ProofsSound' /\ ProofReplayOverlaps'
  <1>1. /\ UNCHANGED <<now, assertion, proof, code, before>>
        /\ \A q \in Requests \ {r} : pc'[q] = pc[q] /\ (q \in cnf' <=> q \in cnf) /\ (q \in client' <=> q \in client)
        /\ pc[r] \notin {"idle", "issued", "refused"} /\ pc'[r] # "idle"
        /\ pc' \in [Requests -> Labels]
    BY StepFrame DEF IndInv
  <1>2. CASE MarkProof(r)
    <2>1. /\ pc[r] = "mark_proof" /\ pc'[r] \in {"issue", "read_code"}
          /\ jtis' = jtis \cup {proof[r]} /\ r \in cnf'
      BY <1>2 DEF MarkProof, Goto, Granting, IndInv, TypeOK
    <2>2. \A q \in Requests : r \notin before[q]
      BY <2>1 DEF IndInv, ProofsSound
    <2>3. \A q \in Requests : (q \in cnf' /\ proof[q] = proof[r]) => q \notin before[r]
      BY <1>1, <2>1, <2>2 DEF IndInv, ProofsSound
    <2>4. ProofsSound'
      BY <1>1, <2>1, <2>2, <2>3 DEF IndInv, ProofsSound
    <2>5. ProofReplayOverlaps'
      BY <1>1, <2>1, <2>2, <2>3 DEF IndInv, ProofReplayOverlaps
    <2> QED  BY <2>4, <2>5
  <1>3. CASE CheckProof(r)
    <2>1. /\ pc[r] = "check_proof" /\ pc'[r] = "mark_proof" /\ UNCHANGED <<jtis, cnf>>
          /\ proof[r] # None /\ proof[r] \notin jtis
      BY <1>3 DEF CheckProof, ProofUnused, Goto, tables, IndInv, TypeOK
    <2>2. ProofsSound'
      BY <1>1, <2>1 DEF IndInv, ProofsSound
    <2>3. ProofReplayOverlaps'
      BY <1>1, <2>1 DEF IndInv, ProofReplayOverlaps
    <2> QED  BY <2>2, <2>3
  <1>4. CASE CheckJTI(r) \/ PurgeJTIs(r) \/ InsertJTI(r) \/ GoOnAnonymously(r)
    <2>1. /\ pc[r] \in {"check_jti", "purge", "insert_jti"}
          /\ pc'[r] \in {"purge", "insert_jti", "check_proof"} /\ UNCHANGED <<jtis, cnf>>
      BY <1>4 DEF CheckJTI, PurgeJTIs, InsertJTI, AcceptAssertion, GoOnAnonymously, Goto, tables,
                  IndInv, TypeOK
    <2> QED  BY <1>1, <2>1 DEF IndInv, ProofsSound, ProofReplayOverlaps
  <1>5. CASE SkipProof(r)
    <2>1. /\ pc[r] = "check_proof" /\ proof[r] = None
          /\ pc'[r] \in {"issue", "read_code"} /\ UNCHANGED <<jtis, cnf>>
      BY <1>5 DEF SkipProof, Granting, Goto, tables, IndInv, TypeOK
    <2> QED  BY <1>1, <2>1 DEF IndInv, ProofsSound, ProofReplayOverlaps
  <1>6. CASE ReadCode(r) \/ InvalidateCode(r) \/ ResolveDetails(r) \/ Issue(r)
    <2>1. /\ pc[r] \in {"read_code", "redeem", "details", "issue"}
          /\ pc'[r] \in {"redeem", "details", "issue", "issued"} /\ UNCHANGED <<jtis, cnf>>
      BY <1>6 DEF ReadCode, InvalidateCode, ResolveDetails, Issue, Goto, tables, IndInv, TypeOK
    <2> QED  BY <1>1, <2>1 DEF IndInv, ProofsSound, ProofReplayOverlaps
  <1>7. CASE Refuse(r)
    <2>1. pc'[r] = "refused" /\ UNCHANGED <<jtis, cnf>>
      BY <1>7 DEF Refuse, Goto, tables, IndInv, TypeOK
    <2> QED  BY <1>1, <2>1 DEF IndInv, ProofsSound, ProofReplayOverlaps
  <1> QED  BY <1>2, <1>3, <1>4, <1>5, <1>6, <1>7 DEF Step

\* What CodesSound says of a request.
CodeSound(r) ==
    /\ Redeemed(r) => code[r] \in redeemed
    /\ pc[r] \in {"read_code", "redeem", "details"} => code[r] # None
    /\ (pc[r] = "issue" /\ code[r] = None) => r \in client
    /\ pc[r] # "idle" => (assertion[r] \in Bearer <=> code[r] = None)
    /\ (pc[r] = "check_proof" \/ pc[r] = "mark_proof") => (code[r] = None => r \in client)

\* InvalidateCode: whoever redeems the code is the only one.
LEMMA CodesStep ==
  ASSUME IndInv, NEW r \in Requests, Step(r)
  PROVE  CodesSound'
  <1>1. /\ UNCHANGED <<now, assertion, proof, code, before>>
        /\ \A q \in Requests \ {r} : pc'[q] = pc[q] /\ (q \in cnf' <=> q \in cnf) /\ (q \in client' <=> q \in client)
        /\ pc[r] \notin {"idle", "issued", "refused"} /\ pc'[r] # "idle"
        /\ pc' \in [Requests -> Labels]
    BY StepFrame DEF IndInv
  <1>2. CodeSound(r) /\ \A q \in Requests : CodeSound(q)
    BY DEF IndInv, CodesSound, CodeSound
  <1>3. CASE InvalidateCode(r)
    <2>1. /\ pc[r] = "redeem" /\ pc'[r] = "details" /\ code[r] \notin redeemed
          /\ redeemed' = redeemed \cup {code[r]} /\ UNCHANGED <<tokens, client>>
      BY <1>3 DEF InvalidateCode, Redeemable, Goto, IndInv, TypeOK
    <2>2. \A q \in Requests : Redeemed(q) => code[q] # code[r]
      BY <2>1 DEF IndInv, CodesSound
    <2>3. \A q \in Requests \ {r} : Redeemed(q)' <=> Redeemed(q)
      BY <1>1 DEF Redeemed
    <2>4. \A q, s \in Requests : (Redeemed(q)' /\ Redeemed(s)' /\ code'[q] = code'[s]) => q = s
      BY <1>1, <2>2, <2>3 DEF IndInv, CodesSound
    <2>5. CodeSound(r)' /\ \A q \in Requests \ {r} : CodeSound(q)'
      BY <1>1, <1>2, <2>1, <2>3 DEF CodeSound
    <2>6. \A t \in tokens : t.request \in Requests /\ t.request # r
      BY <2>1 DEF IndInv, TypeOK, Token, CodesSound
    <2>7. \A t \in tokens' : pc'[t.request] = "issued" /\ t.code = code'[t.request]
      BY <1>1, <2>1, <2>6 DEF IndInv, CodesSound
    <2> QED  BY <2>4, <2>5, <2>7 DEF CodesSound, CodeSound
  <1>4. CASE ~InvalidateCode(r)
    <2>1. UNCHANGED redeemed /\ client \subseteq client'
      BY <1>4 DEF Step, CheckJTI, PurgeJTIs, InsertJTI, AcceptAssertion, GoOnAnonymously, SkipProof,
                  CheckProof, MarkProof, ReadCode, ResolveDetails, Issue, Refuse, tables
    <2>2. Redeemed(r)' => Redeemed(r)
      BY <1>1, <1>2, <1>4 DEF Step, CheckJTI, PurgeJTIs, InsertJTI, AcceptAssertion, GoOnAnonymously, SkipProof,
                  CheckProof, MarkProof, ReadCode, ResolveDetails, Issue, Refuse, Goto, Granting,
                  Redeemed, IndInv, TypeOK
    <2>3. \A q \in Requests : Redeemed(q)' => Redeemed(q)
      BY <1>1, <2>2 DEF Redeemed
    <2>4. \A q, s \in Requests : (Redeemed(q)' /\ Redeemed(s)' /\ code'[q] = code'[s]) => q = s
      BY <1>1, <2>3 DEF IndInv, CodesSound
    <2>5. \A q \in Requests \ {r} : CodeSound(q)'
      BY <1>1, <1>2, <2>1, <2>3 DEF CodeSound
    <2>6. CodeSound(r)'
      <3>1. /\ pc'[r] \in {"read_code", "redeem", "details"} => code[r] # None
            /\ (pc'[r] = "issue" /\ code[r] = None) => r \in client'
            /\ (pc'[r] = "check_proof" \/ pc'[r] = "mark_proof") => (code[r] = None => r \in client')
        <4>1. CASE InsertJTI(r) \/ PurgeJTIs(r) \/ CheckJTI(r) \/ GoOnAnonymously(r)
          BY <4>1 DEF InsertJTI, AcceptAssertion, PurgeJTIs, CheckJTI, GoOnAnonymously, Goto, IndInv, TypeOK
        <4>2. CASE SkipProof(r) \/ CheckProof(r) \/ MarkProof(r)
          BY <1>2, <2>1, <4>2 DEF SkipProof, CheckProof, MarkProof, Goto, Granting, CodeSound, IndInv, TypeOK
        <4>3. CASE ReadCode(r) \/ ResolveDetails(r) \/ Issue(r) \/ Refuse(r)
          BY <1>2, <2>1, <4>3 DEF ReadCode, ResolveDetails, Issue, Refuse, Goto, CodeSound, IndInv, TypeOK
        <4> QED  BY <1>4, <4>1, <4>2, <4>3 DEF Step
      <3> QED  BY <1>1, <1>2, <2>1, <2>3, <3>1 DEF CodeSound
    <2>7. \A t \in tokens : t.request \in Requests /\ t.request # r
      BY <1>1 DEF IndInv, TypeOK, Token, CodesSound
    <2>8. \A t \in tokens' : pc'[t.request] = "issued" /\ t.code = code'[t.request]
      <3>1. CASE Issue(r)
        <4> DEFINE n == [request |-> r, code |-> code[r], bound |-> r \in cnf]
        <4>1. pc'[r] = "issued" /\ tokens' = tokens \cup {n}
          BY <3>1 DEF Issue, Goto, IndInv, TypeOK
        <4>2. n.request = r /\ n.code = code[r]
          OBVIOUS
        <4> HIDE DEF n
        <4> QED  BY <1>1, <2>7, <4>1, <4>2 DEF IndInv, CodesSound
      <3>2. CASE ~Issue(r)
        <4>1. UNCHANGED tokens
          BY <1>4, <3>2 DEF Step, CheckJTI, PurgeJTIs, InsertJTI, AcceptAssertion, GoOnAnonymously,
                      SkipProof, CheckProof, MarkProof, ReadCode, ResolveDetails, Refuse, tables
        <4> QED  BY <1>1, <2>7, <4>1 DEF IndInv, CodesSound
      <3> QED  BY <3>1, <3>2
    <2> QED  BY <2>4, <2>5, <2>6, <2>8 DEF CodesSound, CodeSound
  <1> QED  BY <1>3, <1>4

\* Issue: what the request has been through.
LEMMA EarnedStep ==
  ASSUME IndInv, NEW r \in Requests, Step(r)
  PROVE  TokenEarned'
  <1>1. /\ UNCHANGED <<now, assertion, proof, code, before>>
        /\ \A q \in Requests \ {r} : pc'[q] = pc[q] /\ (q \in cnf' <=> q \in cnf) /\ (q \in client' <=> q \in client)
        /\ pc[r] \notin {"idle", "issued", "refused"} /\ pc'[r] # "idle"
        /\ pc' \in [Requests -> Labels]
    BY StepFrame DEF IndInv
  <1>2. redeemed \subseteq redeemed' /\ accepted \subseteq accepted'
    BY DEF Step, CheckJTI, PurgeJTIs, InsertJTI, AcceptAssertion, GoOnAnonymously, SkipProof, CheckProof,
           MarkProof, ReadCode, InvalidateCode, ResolveDetails, Issue, Refuse, tables
  <1>3. ASSUME NEW t \in tokens
        PROVE  /\ t.bound <=> (proof'[t.request] # None)
               /\ t.code # None => t.code \in redeemed'
               /\ t.code = None => \E x \in accepted' : x[1] = assertion'[t.request] /\ x[2] = t.request
    BY <1>1, <1>2 DEF IndInv, TokenEarned
  <1>4. CASE Issue(r)
    <2> DEFINE n == [request |-> r, code |-> code[r], bound |-> r \in cnf]
    <2>1. pc[r] = "issue" /\ tokens' = tokens \cup {n}
      BY <1>4 DEF Issue
    <2>2. n.request = r /\ n.code = code[r] /\ (n.bound <=> r \in cnf)
      OBVIOUS
    <2> HIDE DEF n
    <2>3. n.bound <=> (proof'[n.request] # None)
      BY <1>1, <2>1, <2>2 DEF IndInv, ProofsSound
    <2>4. n.code # None => n.code \in redeemed'
      BY <1>2, <2>1, <2>2 DEF IndInv, CodesSound, Redeemed
    <2>5. n.code = None => \E x \in accepted' : x[1] = assertion'[n.request] /\ x[2] = n.request
      <3>1. n.code = None => r \in client
        BY <2>1, <2>2 DEF IndInv, CodesSound
      <3>2. r \in client => \E x \in accepted : x[2] = r /\ assertion[x[2]] = x[1]
        BY DEF IndInv, BlacklistSound
      <3> QED  BY <1>1, <1>2, <2>2, <3>1, <3>2
    <2> QED  BY <1>3, <2>1, <2>3, <2>4, <2>5 DEF TokenEarned
  <1>5. CASE ~Issue(r)
    <2>1. UNCHANGED tokens
      BY <1>5 DEF Step, CheckJTI, PurgeJTIs, InsertJTI, AcceptAssertion, GoOnAnonymously, SkipProof,
                  CheckProof, MarkProof, ReadCode, InvalidateCode, ResolveDetails, Refuse, tables
    <2> QED  BY <1>3, <2>1 DEF TokenEarned
  <1> QED  BY <1>4, <1>5

\* One request has one token, and one code is redeemed by one request.
LEMMA OneToken ==
  ASSUME TypeOK, CodesSound, TokenEarned
  PROVE  CodeYieldsOneToken
  <1> SUFFICES ASSUME NEW t \in tokens, NEW u \in tokens, t.code = u.code, t.code # None
               PROVE  t = u
    BY DEF CodeYieldsOneToken
  <1>1. t \in Token /\ u \in Token
    BY DEF TypeOK
  <1>2. t.request \in Requests /\ u.request \in Requests
    BY <1>1 DEF Token
  <1>3. Redeemed(t.request) /\ Redeemed(u.request) /\ code[t.request] = code[u.request]
    BY <1>2 DEF CodesSound, Redeemed
  <1>4. t.request = u.request
    BY <1>2, <1>3 DEF CodesSound
  <1>5. t.bound <=> u.bound
    BY <1>4 DEF TokenEarned
  <1> QED  BY <1>1, <1>4, <1>5 DEF Token

\* Begin: a request that has done nothing yet.
LEMMA BeginStep ==
  ASSUME IndInv, NEW r \in Requests, NEW a \in Assertions \cup {None}, NEW j \in Proofs \cup {None},
         NEW c \in Codes \cup {None}, Begin(r, a, j, c)
  PROVE  IndInv'
  <1>1. /\ pc[r] = "idle" /\ pc'[r] = IF a = None THEN "check_proof" ELSE "check_jti"
        /\ ((a \in Bearer) <=> (c = None))
        /\ assertion'[r] = a /\ proof'[r] = j /\ code'[r] = c
        /\ before'[r] = {q \in Requests : pc[q] \in {"issued", "refused"}}
        /\ UNCHANGED <<now, blacklist, jtis, redeemed, tokens, client, cnf, accepted>>
    BY DEF Begin, Goto, tables, IndInv, TypeOK
  <1>2. \A q \in Requests \ {r} :
            /\ pc'[q] = pc[q] /\ assertion'[q] = assertion[q] /\ proof'[q] = proof[q]
            /\ code'[q] = code[q] /\ before'[q] = before[q]
    BY DEF Begin, Goto, IndInv, TypeOK
  <1>3. TypeOK'
    <2>1. pc' \in [Requests -> Labels] /\ before' \in [Requests -> SUBSET Requests]
      BY DEF Begin, Goto, Labels, IndInv, TypeOK
    <2>2. /\ assertion' \in [Requests -> Assertions \cup {None}]
          /\ proof' \in [Requests -> Proofs \cup {None}] /\ code' \in [Requests -> Codes \cup {None}]
      BY DEF Begin, IndInv, TypeOK
    <2> QED  BY <1>1, <2>1, <2>2 DEF IndInv, TypeOK
  <1>4. \A x \in accepted : x[2] \in Requests /\ x[2] # r
    BY <1>1 DEF IndInv, TypeOK, BlacklistSound
  <1>5. r \notin cnf /\ r \notin client
    BY <1>1, <1>4 DEF IndInv, ProofsSound, BlacklistSound
  <1>6. \A t \in tokens : t.request \in Requests /\ t.request # r
    BY <1>1 DEF IndInv, TypeOK, Token, CodesSound
  <1>7. BlacklistSound' /\ AcceptedOnceInTime'
    BY <1>1, <1>2, <1>4, <1>5 DEF IndInv, BlacklistSound, AcceptedOnceInTime
  <1>8. ProofsSound'
    BY <1>1, <1>2, <1>5 DEF IndInv, ProofsSound
  <1>9. ProofReplayOverlaps'
    BY <1>1, <1>2, <1>5 DEF IndInv, ProofReplayOverlaps
  <1>10. CodesSound'
    <2>1. ~Redeemed(r)' /\ \A q \in Requests \ {r} : Redeemed(q)' <=> Redeemed(q)
      BY <1>1, <1>2 DEF Redeemed
    <2>2. a = None => c # None
      BY <1>1, OneTimeAssumption
    <2> QED  BY <1>1, <1>2, <1>6, <2>1, <2>2 DEF IndInv, CodesSound
  <1>11. TokenEarned'
    BY <1>1, <1>2, <1>6 DEF IndInv, TokenEarned
  <1> QED  BY <1>3, <1>7, <1>8, <1>9, <1>10, <1>11, OneToken, PTL DEF IndInv

LEMMA TickStep ==
  ASSUME IndInv, Tick
  PROVE  IndInv'
  <1>1. /\ now < MaxTime /\ now' = now + 1
        /\ UNCHANGED <<blacklist, jtis, redeemed, tokens, pc, assertion, proof, code, before, client,
                       cnf, accepted>>
    BY DEF Tick, tables, presented
  <1>2. now \in Nat /\ Exp \in Nat /\ MaxTime \in Nat /\ now \in 0 .. MaxTime
    BY OneTimeAssumption DEF IndInv, TypeOK
  <1>3. \A x \in accepted : x[3] \in Nat
    BY <1>2 DEF IndInv, TypeOK
  <1>4. TypeOK'
    BY <1>1, <1>2 DEF IndInv, TypeOK
  <1>5. BlacklistSound'
    BY <1>1, <1>2, <1>3 DEF IndInv, BlacklistSound
  <1> QED  BY <1>1, <1>4, <1>5
           DEF IndInv, ProofsSound, CodesSound, Redeemed, AcceptedOnceInTime, ProofReplayOverlaps,
               CodeYieldsOneToken, TokenEarned

LEMMA NextIndInv == IndInv /\ [Next]_vars => IndInv'
  <1> SUFFICES ASSUME IndInv, [Next]_vars PROVE IndInv'
    OBVIOUS
  <1>1. ASSUME NEW r \in Requests, Step(r) PROVE IndInv'
    <2>1. TypeOK' /\ CodesSound' /\ TokenEarned'
      BY <1>1, TypeStep, CodesStep, EarnedStep
    <2>2. CodeYieldsOneToken'
      BY <2>1, OneToken, PTL
    <2> QED  BY <1>1, <2>1, <2>2, BlacklistStep, ProofsStep DEF IndInv
  <1>2. CASE UNCHANGED vars
    BY <1>2 DEF vars, tables, presented, IndInv, TypeOK, BlacklistSound, ProofsSound, CodesSound,
                Redeemed, AcceptedOnceInTime, ProofReplayOverlaps, CodeYieldsOneToken, TokenEarned
  <1> QED  BY <1>1, <1>2, BeginStep, TickStep DEF Next, Step

\* The invariant of what is presented once: the blacklist, the DPoP table and the
\* redeemed codes against what requests have been given for them.
THEOREM Invariance == Spec => []IndInv
  BY InitIndInv, NextIndInv, PTL DEF Spec

\* Until it expires a JWT is accepted once, for any interleaving of requests and
\* of the removal of expired rows (SetClientAssertionJWT).
THEOREM AcceptedOnceInTimeTheorem == Spec => []AcceptedOnceInTime
  <1>1. IndInv => AcceptedOnceInTime
    BY DEF IndInv
  <1> QED  BY <1>1, Invariance, PTL

\* A DPoP proof serves two requests only if they overlap (IsJTIUsed, MarkJTIUsed).
THEOREM ProofReplayOverlapsTheorem == Spec => []ProofReplayOverlaps
  <1>1. IndInv => ProofReplayOverlaps
    BY DEF IndInv
  <1> QED  BY <1>1, Invariance, PTL

\* A pre-authorized code yields one access token (InvalidatePreAuthorizedCode).
THEOREM CodeYieldsOneTokenTheorem == Spec => []CodeYieldsOneToken
  <1>1. IndInv => CodeYieldsOneToken
    BY DEF IndInv
  <1> QED  BY <1>1, Invariance, PTL

\* A token carries the binding its request proved, and rests on a redeemed code or
\* an accepted grant (the handlers of the token endpoint, in their order).
THEOREM TokenEarnedTheorem == Spec => []TokenEarned
  <1>1. IndInv => TokenEarned
    BY DEF IndInv
  <1> QED  BY <1>1, Invariance, PTL

(***************************************************************************)
(* The pre-authorized code grant implements TokenFamily.                   *)
(***************************************************************************)
\* A step that stores no token for a code, and makes no code redeemable again.
LEMMA FamilyShrink ==
  ASSUME \A t \in tokens' : t.code \in Codes => t \in tokens,
         \A c \in Codes : Spent(c) => Spent(c)'
  PROVE  Family!Next
  <1>1. \A c \in Codes : TokensOf(c)' \subseteq TokensOf(c)
    BY DEF TokensOf
  <1> QED  BY <1>1 DEF Family!Next, Family!Shrink

\* A request leaves a code that is spent as it is.
LEMMA SpentStays ==
  ASSUME IndInv, NEW r \in Requests, Step(r), NEW c \in Codes, Spent(c)
  PROVE  Spent(c)'
  <1>1. /\ code' = code /\ \A q \in Requests \ {r} : pc'[q] = pc[q]
    BY StepFrame DEF IndInv
  <1>2. redeemed \subseteq redeemed'
    BY DEF Step, CheckJTI, PurgeJTIs, InsertJTI, AcceptAssertion, GoOnAnonymously, SkipProof, CheckProof,
           MarkProof, ReadCode, InvalidateCode, ResolveDetails, Issue, Refuse, tables
  <1>3. code[r] = c => pc'[r] \notin {"details", "issue"}
    <2> SUFFICES ASSUME code[r] = c PROVE pc'[r] \notin {"details", "issue"}
      OBVIOUS
    <2>1. c \in redeemed /\ pc[r] \notin {"details", "issue"} /\ c # None
      BY OneTimeAssumption DEF Spent
    <2> QED  BY <2>1
             DEF Step, CheckJTI, PurgeJTIs, InsertJTI, AcceptAssertion, GoOnAnonymously, SkipProof,
                 CheckProof, MarkProof, ReadCode, InvalidateCode, Redeemable, ResolveDetails, Issue,
                 Refuse, Goto, Granting, IndInv, TypeOK
  <1> QED  BY <1>1, <1>2, <1>3 DEF Spent

\* Issue: the request that has redeemed the code is the only one, so no token is there
\* yet and nobody else is between the redemption and the token.
LEMMA FamilyOpen ==
  ASSUME IndInv, NEW r \in Requests, Issue(r), code[r] \in Codes
  PROVE  Family!Next
  <1>0. PICK c \in Codes : c = code[r]
    OBVIOUS
  <1> DEFINE n == [request |-> r, code |-> code[r], bound |-> r \in cnf]
  <1>1. /\ pc[r] = "issue" /\ pc'[r] = "issued" /\ code' = code /\ redeemed' = redeemed
        /\ \A q \in Requests \ {r} : pc'[q] = pc[q]
        /\ tokens' = tokens \cup {n}
    BY DEF Issue, Goto, presented, IndInv, TypeOK
  <1>2. n.request = r /\ n.code = c
    BY <1>0
  <1> HIDE DEF n
  <1>3. c # None
    BY OneTimeAssumption
  <1>4. Redeemed(r) /\ c \in redeemed
    BY <1>0, <1>1, <1>3 DEF Redeemed, IndInv, CodesSound
  <1>5. \A q \in Requests : Redeemed(q) /\ code[q] = c => q = r
    BY <1>0, <1>4 DEF IndInv, CodesSound
  <1>6. ~Spent(c) /\ Spent(c)'
    <2>1. \A q \in Requests : code'[q] = c => pc'[q] \notin {"details", "issue"}
      BY <1>1, <1>3, <1>5 DEF Redeemed
    <2> QED  BY <1>0, <1>1, <1>4, <2>1 DEF Spent
  <1>7. \A d \in Codes : d # c => (Spent(d)' <=> Spent(d))
    BY <1>0, <1>1 DEF Spent
  <1>8. TokensOf(c) = {}
    <2> SUFFICES ASSUME NEW t \in tokens, t.code = c PROVE FALSE
      BY DEF TokensOf
    <2>1. t.request \in Requests /\ pc[t.request] = "issued" /\ t.code = code[t.request]
      BY DEF IndInv, TypeOK, Token, CodesSound
    <2>2. t.request = r
      BY <1>3, <1>5, <2>1 DEF Redeemed
    <2> QED  BY <1>1, <2>1, <2>2
  <1>9. \A d \in Codes : TokensOf(d)' = IF d = c THEN {r} ELSE TokensOf(d)
    <2>1. ASSUME NEW d \in Codes, d # c PROVE TokensOf(d)' = TokensOf(d)
      BY <1>1, <1>2, <2>1 DEF TokensOf
    <2> QED  BY <1>1, <1>2, <1>8, <2>1 DEF TokensOf
  <1>10. {d \in Codes : Spent(d)}' = {d \in Codes : Spent(d)} \cup {c}
    BY <1>6, <1>7
  <1>11. Family!Open(c, r)
    BY <1>6, <1>9, <1>10 DEF Family!Open
  <1> QED  BY <1>11 DEF Family!Next

LEMMA FamilyStep ==
  ASSUME IndInv, Next
  PROVE  Family!Next
  <1>1. ASSUME NEW r \in Requests, Step(r) PROVE Family!Next
    <2>1. \A c \in Codes : Spent(c) => Spent(c)'
      BY <1>1, SpentStays
    <2>2. CASE Issue(r)
      <3>1. CASE code[r] \in Codes
        BY <2>2, <3>1, FamilyOpen
      <3>2. CASE code[r] \notin Codes
        <4>1. \A t \in tokens' : t.code \in Codes => t \in tokens
          BY <2>2, <3>2 DEF Issue
        <4> QED  BY <2>1, <4>1, FamilyShrink
      <3> QED  BY <3>1, <3>2
    <2>3. CASE ~Issue(r)
      <3>1. UNCHANGED tokens
        BY <1>1, <2>3 DEF Step, CheckJTI, PurgeJTIs, InsertJTI, AcceptAssertion, GoOnAnonymously,
                  SkipProof, CheckProof, MarkProof, ReadCode, InvalidateCode, ResolveDetails, Refuse, tables
      <3> QED  BY <2>1, <3>1, FamilyShrink
    <2> QED  BY <2>2, <2>3
  <1>2. ASSUME NEW r \in Requests, NEW a \in Assertions \cup {None}, NEW j \in Proofs \cup {None},
               NEW c \in Codes \cup {None}, Begin(r, a, j, c)
        PROVE  Family!Next
    <2>1. /\ UNCHANGED <<tokens, redeemed>> /\ pc'[r] \notin {"details", "issue"}
          /\ \A q \in Requests \ {r} : pc'[q] = pc[q] /\ code'[q] = code[q]
      BY <1>2 DEF Begin, Goto, tables, IndInv, TypeOK
    <2>2. \A d \in Codes : Spent(d) => Spent(d)'
      BY <2>1 DEF Spent
    <2> QED  BY <2>1, <2>2, FamilyShrink
  <1>3. CASE Tick
    <2>1. UNCHANGED <<tokens, redeemed, pc, code>>
      BY <1>3 DEF Tick, tables, presented
    <2> QED  BY <2>1, FamilyShrink DEF Spent
  <1> QED  BY <1>1, <1>2, <1>3 DEF Next, Step

\* The pre-authorized code grant implements TokenFamily, whatever the isolation level:
\* only the UPDATE of InvalidatePreAuthorizedCode decides, and a request that fails
\* after it leaves a code that yields nothing any more.
THEOREM CodeFamilyTheorem == Spec => ImplementsCodeFamily
  <1>1. Init => Family!Init
    BY DEF Init, Family!Init, Spent, TokensOf
  <1>2. IndInv /\ [Next]_vars => [Family!Next]_(Family!famVars)
    <2>1. UNCHANGED vars => UNCHANGED Family!famVars
      BY DEF vars, tables, presented, Family!famVars, Spent, TokensOf
    <2> QED  BY <2>1, FamilyStep
  <1> QED  BY Invariance, <1>1, <1>2, PTL DEF Spec, ImplementsCodeFamily, Family!Spec

\* And so a code that was redeemed by a request that failed yields no token, for good
\* (HandleTokenEndpointRequest redeems before authorization_details are resolved).
THEOREM SpentCodeYieldsNothing ==
  ASSUME NEW c \in Codes
  PROVE  Spec => [](Family!Dead(c) => []Family!Dead(c))
  <1>1. Family!Dead(c) /\ [Family!Next]_(Family!famVars) => Family!Dead(c)'
    <2> SUFFICES ASSUME Family!Dead(c), [Family!Next]_(Family!famVars) PROVE Family!Dead(c)'
      OBVIOUS
    <2>1. CASE Family!Shrink
      BY <2>1 DEF Family!Dead, Family!Shrink
    <2>2. ASSUME NEW e \in Codes, NEW t \in Requests, Family!Open(e, t) \/ Family!Extend(e, t)
          PROVE  Family!Dead(c)'
      <3>1. e # c
        BY <2>2 DEF Family!Dead, Family!Open, Family!Extend
      <3> QED  BY <2>2, <3>1 DEF Family!Dead, Family!Open, Family!Extend
    <2>3. CASE UNCHANGED Family!famVars
      BY <2>3 DEF Family!Dead, Family!famVars
    <2> QED  BY <2>1, <2>2, <2>3 DEF Family!Next
  <1> QED  BY CodeFamilyTheorem, <1>1, PTL DEF ImplementsCodeFamily, Family!Spec
=============================================================================
