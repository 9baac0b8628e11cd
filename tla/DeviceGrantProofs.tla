-------------------------- MODULE DeviceGrantProofs --------------------------
(***************************************************************************)
(* Proofs about DeviceGrant, for every number of devices, user codes,      *)
(* flows and polls, and both isolation levels.                             *)
(***************************************************************************)
EXTENDS DeviceGrant, TLAPS

LEMMA InitIndInv == Init => IndInv
  BY DEF Init, IndInv, TypeOK, RowsSound, VerificationsSound, PollsSound, SingleExchange,
         DeviceTokensBacked, AcceptedForTyped

\* What a device code's row holds.
LEMMA RowParts ==
  ASSUME NEW x \in DeviceRow
  PROVE  /\ x.userCode \in UserCodes /\ x.state \in {"unused", "accepted"}
         /\ x.flow \in Flows \cup {NoFlow} /\ x.granted \subseteq Scopes /\ x # NoRow
  BY NoRowAssumption DEF DeviceRow

LEMMA TokenParts ==
  ASSUME NEW t \in Token
  PROVE  t.poll \in Polls /\ t.device \in Devices /\ t.flow \in Flows /\ t.idToken \in Flows \cup {NoFlow}
  BY DEF Token

LEMMA ExchangedParts ==
  ASSUME TypeOK, NEW x \in exchanged
  PROVE  x[1] \in Polls /\ x[2] \in Devices
  BY DEF TypeOK

\* Steps that leave the challenges alone.
LEMMA Typed ==
  ASSUME UNCHANGED challenge, NEW f, NEW d
  PROVE  TypedFor(f, d)' <=> TypedFor(f, d)
  BY DEF TypedFor

LEMMA CreateStep ==
  ASSUME IndInv, NEW d \in Devices, NEW k \in UserCodes, CreateDeviceAuthSession(d, k)
  PROVE  IndInv'
  <1> DEFINE n == [userCode |-> k, state |-> "unused", flow |-> NoFlow, granted |-> {}]
  <1>1. n \in DeviceRow /\ n.state = "unused"
    BY DEF DeviceRow
  <1>2. /\ d \notin issued /\ issued' = issued \cup {d} /\ device' = [device EXCEPT ![d] = n]
        /\ UNCHANGED <<consent, openid, tokens, isolation, expired, challenge, vpc, vflow, vdevice,
                       vgranted, pc, code, seen, exchanged>>
    BY DEF CreateDeviceAuthSession, verifying, polling
  <1> HIDE DEF n
  <1>3. TypeOK'
    BY <1>1, <1>2 DEF IndInv, TypeOK
  <1>4. device'[d] = n /\ \A e \in Devices \ {d} : device'[e] = device[e]
    BY <1>2 DEF IndInv, TypeOK
  <1>5. \A e \in Devices : (device'[e] # NoRow /\ device'[e].state = "accepted") =>
                              e # d /\ device[e] # NoRow /\ device[e].state = "accepted"
    BY <1>1, <1>4
  <1>6. \A f, e : TypedFor(f, e)' <=> TypedFor(f, e)
    BY <1>2, Typed
  <1>7. RowsSound' /\ AcceptedForTyped'
    BY <1>2, <1>4, <1>5, <1>6 DEF IndInv, RowsSound, AcceptedForTyped
  <1>8. \A x \in exchanged : x[2] \in issued /\ x[2] \in Devices
    <2> TAKE x \in exchanged
    <2>1. x[1] \in Polls /\ x[2] \in Devices
      BY ExchangedParts DEF IndInv
    <2>2. pc[x[1]] = "answered" /\ code[x[1]] = x[2]
      BY DEF IndInv, PollsSound
    <2>3. pc[x[1]] # "idle"
      BY <2>2
    <2> QED  BY <2>1, <2>2, <2>3 DEF IndInv, PollsSound
  <1>9. PollsSound'
    BY <1>2, <1>4, <1>6, <1>8 DEF IndInv, PollsSound
  <1> QED  BY <1>2, <1>3, <1>6, <1>7, <1>9
           DEF IndInv, VerificationsSound, SingleExchange, DeviceTokensBacked

\* AcceptUserCode: a flow that was started is never started again.
LEMMA AcceptUserCodeStep ==
  ASSUME IndInv, NEW f \in Flows, NEW d \in Devices, AcceptUserCode(f, d)
  PROVE  IndInv'
  <1> DEFINE c == [device |-> d, userCode |-> device[d].userCode]
  <1>1. c \in Challenge /\ c # NoRow
    BY RowParts, NoRowAssumption DEF AcceptUserCode, Challenge, IndInv, TypeOK
  <1>2. /\ challenge[f] = NoRow /\ challenge' = [challenge EXCEPT ![f] = c]
        /\ UNCHANGED <<device, consent, openid, tokens, isolation, issued, expired, vpc, vflow,
                       vdevice, vgranted, pc, code, seen, exchanged>>
    BY DEF AcceptUserCode, tables, verifying, polling
  <1> HIDE DEF c
  <1>3. TypeOK'
    BY <1>1, <1>2 DEF IndInv, TypeOK
  <1>4. \A g \in Flows : challenge[g] # NoRow => challenge'[g] = challenge[g]
    BY <1>2 DEF IndInv, TypeOK
  <1>5. \A g \in Flows \cup {NoFlow} : \A e : TypedFor(g, e) => TypedFor(g, e)'
    BY <1>4 DEF TypedFor
  <1>6. RowsSound' /\ AcceptedForTyped'
    <2>1. \A e \in Devices : /\ openid[e] \in Flows \cup {NoFlow}
                             /\ device[e] # NoRow => device[e].flow \in Flows \cup {NoFlow}
      BY RowParts DEF IndInv, TypeOK
    <2> QED  BY <1>2, <1>5, <2>1 DEF IndInv, RowsSound, AcceptedForTyped
  <1>7. VerificationsSound'
    BY <1>2, <1>4, <1>5 DEF IndInv, TypeOK, VerificationsSound
  <1>8. PollsSound'
    <2>1. \A p \in Polls : seen[p] # NoRow => seen[p].flow \in Flows \cup {NoFlow}
      BY RowParts DEF IndInv, TypeOK
    <2> QED  BY <1>2, <1>5, <2>1 DEF IndInv, PollsSound
  <1>9. DeviceTokensBacked'
    BY <1>2, <1>5, TokenParts DEF IndInv, TypeOK, DeviceTokensBacked
  <1> QED  BY <1>2, <1>3, <1>6, <1>7, <1>8, <1>9 DEF IndInv, SingleExchange

LEMMA ExpireStep ==
  ASSUME IndInv, NEW d \in Devices, ExpireCodes(d)
  PROVE  IndInv'
  BY DEF ExpireCodes, tables, verifying, polling, IndInv, TypeOK, RowsSound, VerificationsSound,
         PollsSound, SingleExchange, DeviceTokensBacked, AcceptedForTyped, TypedFor

\* Steps of a verification that leave the rows alone, but for a consent that is added.
LEMMA VerifierStep ==
  ASSUME IndInv, UNCHANGED <<device, openid, tokens, isolation, issued, expired, challenge>>,
         UNCHANGED <<pc, code, seen, exchanged>>,
         consent \subseteq consent', TypeOK', VerificationsSound'
  PROVE  IndInv'
  <1>1. \A f, e : TypedFor(f, e)' <=> TypedFor(f, e)
    BY Typed
  <1> QED  BY <1>1 DEF IndInv, RowsSound, PollsSound, SingleExchange, DeviceTokensBacked,
                       AcceptedForTyped

LEMMA VerifyConsentStep ==
  ASSUME IndInv, NEW v \in Verifiers, NEW f \in Flows, NEW granted \in SUBSET Scopes,
         VerifyConsent(v, f, granted)
  PROVE  IndInv'
  <1>1. /\ UNCHANGED <<device, openid, tokens, isolation, issued, expired, challenge>>
        /\ UNCHANGED <<pc, code, seen, exchanged>> /\ UNCHANGED vdevice
        /\ challenge[f] # NoRow /\ consent' = consent \cup {f}
        /\ vpc' = [vpc EXCEPT ![v] = "stored"] /\ vflow' = [vflow EXCEPT ![v] = f]
        /\ vgranted' = [vgranted EXCEPT ![v] = granted]
    BY DEF VerifyConsent, outside, polling
  <1>2. TypeOK'
    BY <1>1 DEF IndInv, TypeOK
  <1>3. \A g, e : TypedFor(g, e)' <=> TypedFor(g, e)
    BY <1>1, Typed
  <1>4. f # NoFlow /\ vpc'[v] = "stored" /\ vflow'[v] = f
    BY <1>1, DeviceAssumption DEF IndInv, TypeOK
  <1>5. \A w \in Verifiers \ {v} : vpc'[w] = vpc[w] /\ vflow'[w] = vflow[w] /\ vdevice'[w] = vdevice[w]
    BY <1>1 DEF IndInv, TypeOK
  <1>6. VerificationsSound'
    BY <1>1, <1>3, <1>4, <1>5 DEF IndInv, VerificationsSound
  <1> QED  BY <1>1, <1>2, <1>6, VerifierStep

LEMMA ReadDeviceStep ==
  ASSUME IndInv, NEW v \in Verifiers, ReadDevice(v)
  PROVE  IndInv'
  <1>1. PICK d \in DevicesOfFlow(vflow[v]) :
            /\ vdevice' = [vdevice EXCEPT ![v] = d]
            /\ vgranted' = [vgranted EXCEPT ![v] = @ \cup device[d].granted]
    BY DEF ReadDevice
  <1>2. d \in Devices /\ device[d] # NoRow /\ d = challenge[vflow[v]].device
    BY DEF DevicesOfFlow
  <1>3. /\ UNCHANGED <<device, openid, tokens, isolation, issued, expired, challenge>>
        /\ UNCHANGED <<pc, code, seen, exchanged>> /\ UNCHANGED vflow /\ UNCHANGED consent
        /\ vpc[v] = "stored" /\ vpc' = [vpc EXCEPT ![v] = "read"]
    BY DEF ReadDevice, tables, outside, polling
  <1>4. device[d].granted \subseteq Scopes
    BY <1>2, RowParts DEF IndInv, TypeOK
  <1>5. TypeOK'
    BY <1>1, <1>2, <1>3, <1>4 DEF IndInv, TypeOK
  <1>6. vdevice'[v] = d /\ vpc'[v] = "read"
    BY <1>1, <1>3 DEF IndInv, TypeOK
  <1>7. \A w \in Verifiers \ {v} : vpc'[w] = vpc[w] /\ vdevice'[w] = vdevice[w]
    BY <1>1, <1>3 DEF IndInv, TypeOK
  <1>8. \A g, e : TypedFor(g, e)' <=> TypedFor(g, e)
    BY <1>3, Typed
  <1>9. TypedFor(vflow[v], d)
    BY <1>2, <1>3 DEF TypedFor, IndInv, VerificationsSound
  <1>10. VerificationsSound'
    BY <1>3, <1>6, <1>7, <1>8, <1>9 DEF IndInv, VerificationsSound
  <1> QED  BY <1>3, <1>5, <1>10, VerifierStep

\* EndVerification: nothing is left of it.
LEMMA EndSound ==
  ASSUME IndInv, NEW v \in Verifiers, EndVerification(v), UNCHANGED challenge
  PROVE  /\ VerificationsSound'
         /\ vpc' \in [Verifiers -> {"idle", "stored", "read"}]
         /\ vflow' \in [Verifiers -> Flows \cup {NoFlow}]
         /\ vdevice' \in [Verifiers -> Devices \cup {NoDevice}]
         /\ vgranted' \in [Verifiers -> SUBSET Scopes]
  <1>1. /\ vpc' \in [Verifiers -> {"idle", "stored", "read"}]
        /\ vflow' \in [Verifiers -> Flows \cup {NoFlow}]
        /\ vdevice' \in [Verifiers -> Devices \cup {NoDevice}]
        /\ vgranted' \in [Verifiers -> SUBSET Scopes]
    BY DEF EndVerification, IndInv, TypeOK
  <1>2. vpc'[v] = "idle" /\ \A w \in Verifiers \ {v} :
            vpc'[w] = vpc[w] /\ vflow'[w] = vflow[w] /\ vdevice'[w] = vdevice[w]
    BY DEF EndVerification, IndInv, TypeOK
  <1>3. \A g, e : TypedFor(g, e)' <=> TypedFor(g, e)
    BY Typed
  <1> QED  BY <1>1, <1>2, <1>3 DEF IndInv, VerificationsSound

LEMMA AbandonVerificationStep ==
  ASSUME IndInv, NEW v \in Verifiers, AbandonVerification(v)
  PROVE  IndInv'
  <1>1. /\ UNCHANGED <<device, openid, tokens, isolation, issued, expired, challenge>>
        /\ UNCHANGED <<pc, code, seen, exchanged>> /\ UNCHANGED consent /\ EndVerification(v)
    BY DEF AbandonVerification, tables, outside, polling
  <1>2. TypeOK' /\ VerificationsSound'
    BY <1>1, EndSound DEF IndInv, TypeOK
  <1> QED  BY <1>1, <1>2, VerifierStep

\* CommitVerification: the device of the flow, if it still has a row.
LEMMA CommitVerificationStep ==
  ASSUME IndInv, NEW v \in Verifiers, CommitVerification(v)
  PROVE  IndInv'
  <1> DEFINE f == vflow[v]  d == vdevice[v]
             n == [userCode |-> device[d].userCode, state |-> "accepted", flow |-> f,
                   granted |-> vgranted[v]]
  <1>1. /\ vpc[v] = "read" /\ f \in consent /\ EndVerification(v)
        /\ UNCHANGED <<consent, tokens, isolation, issued, expired, challenge>>
        /\ UNCHANGED <<pc, code, seen, exchanged>>
    BY DEF CommitVerification, outside, polling
  <1>2. f \in Flows /\ TypedFor(f, d) /\ vgranted[v] \subseteq Scopes
    BY <1>1 DEF IndInv, TypeOK, VerificationsSound
  <1>3. d \in Devices
    <2>1. challenge[f] \in Challenge
      BY <1>2 DEF TypedFor, IndInv, TypeOK
    <2> QED  BY <1>2, <2>1 DEF TypedFor, Challenge
  <1>4. n.state = "accepted" /\ n.flow = f /\ (device[d] # NoRow => n \in DeviceRow)
    BY <1>2, <1>3, RowParts DEF IndInv, TypeOK, DeviceRow
  <1>5. \/ UNCHANGED device
        \/ device[d] # NoRow /\ device' = [device EXCEPT ![d] = n]
    BY DEF CommitVerification, Accept
  <1>6. UNCHANGED openid \/ openid' = [openid EXCEPT ![d] = f]
    BY DEF CommitVerification
  <1> HIDE DEF f, d, n
  <1>7. device' \in [Devices -> DeviceRow \cup {NoRow}] /\ openid' \in [Devices -> Flows \cup {NoFlow}]
    BY <1>2, <1>3, <1>4, <1>5, <1>6 DEF IndInv, TypeOK
  <1>8. TypeOK' /\ VerificationsSound'
    BY <1>1, <1>7, EndSound DEF IndInv, TypeOK
  <1>9. \A g, e : TypedFor(g, e)' <=> TypedFor(g, e)
    BY <1>1, Typed
  <1>10. ASSUME NEW e \in Devices
         PROVE  /\ device'[e] # NoRow => device[e] # NoRow
                /\ device'[e] = device[e] \/ (e = d /\ device'[e] = n)
                /\ openid'[e] = openid[e] \/ (e = d /\ openid'[e] = f)
    BY <1>3, <1>5, <1>6 DEF IndInv, TypeOK
  <1>11. RowsSound' /\ AcceptedForTyped'
    BY <1>1, <1>2, <1>4, <1>9, <1>10 DEF IndInv, RowsSound, AcceptedForTyped, f
  <1>12. PollsSound'
    <2>1. \A x \in exchanged : x[2] \in Devices
      BY ExchangedParts DEF IndInv
    <2> QED  BY <1>1, <1>9, <1>10, <2>1 DEF IndInv, PollsSound
  <1> QED  BY <1>1, <1>8, <1>9, <1>11, <1>12 DEF IndInv, SingleExchange, DeviceTokensBacked

\* RevokeConsent: what stands on the consent goes with it.
LEMMA RevokeConsentStep ==
  ASSUME IndInv, NEW f \in Flows, RevokeConsent(f)
  PROVE  IndInv'
  <1>1. /\ consent' = consent \ {f} /\ tokens' = {t \in tokens : t.flow # f}
        /\ device' = [d \in Devices |-> IF device[d] # NoRow /\ device[d].flow = f
                                        THEN NoRow ELSE device[d]]
        /\ openid' = [d \in Devices |-> IF openid[d] = f THEN NoFlow ELSE openid[d]]
        /\ UNCHANGED <<isolation, issued, expired, challenge, vpc, vflow, vdevice, vgranted>>
        /\ UNCHANGED <<pc, code, seen, exchanged>>
    BY DEF RevokeConsent, outside, verifying, polling
  <1>2. TypeOK'
    BY <1>1 DEF IndInv, TypeOK
  <1>3. \A g, e : TypedFor(g, e)' <=> TypedFor(g, e)
    BY <1>1, Typed
  <1>4. \A d \in Devices :
            /\ device'[d] # NoRow => device'[d] = device[d] /\ device[d].flow # f
            /\ openid'[d] # NoFlow => openid'[d] = openid[d]
    BY <1>1
  <1>5. RowsSound' /\ AcceptedForTyped'
    BY <1>1, <1>3, <1>4 DEF IndInv, RowsSound, AcceptedForTyped
  <1>6. PollsSound'
    <2>1. \A x \in exchanged : x[2] \in Devices
      BY ExchangedParts DEF IndInv
    <2> QED  BY <1>1, <1>3, <1>4, <2>1 DEF IndInv, PollsSound
  <1>7. DeviceTokensBacked'
    BY <1>1, <1>3 DEF IndInv, DeviceTokensBacked
  <1> QED  BY <1>1, <1>2, <1>3, <1>5, <1>6, <1>7 DEF IndInv, VerificationsSound, SingleExchange

\* Steps of a poll that leave the database alone.
LEMMA PollStep ==
  ASSUME IndInv, UNCHANGED <<device, consent, openid, tokens, isolation, issued, expired, challenge>>,
         UNCHANGED <<vpc, vflow, vdevice, vgranted, exchanged>>, TypeOK', PollsSound'
  PROVE  IndInv'
  <1>1. \A f, e : TypedFor(f, e)' <=> TypedFor(f, e)
    BY Typed
  <1> QED  BY <1>1 DEF IndInv, RowsSound, VerificationsSound, SingleExchange, DeviceTokensBacked,
                       AcceptedForTyped

\* A poll that looks at the row, the first or the second time.
LEMMA LookStep ==
  ASSUME IndInv, NEW p \in Polls, NEW d \in Devices, Exchangeable(d),
         UNCHANGED <<device, consent, openid, tokens, isolation, issued, expired, challenge>>,
         UNCHANGED <<vpc, vflow, vdevice, vgranted, exchanged>>,
         NEW at \in {"handled", "read"}, at = "read" => isolation = "read_committed",
         pc[p] # "answered",
         pc' = [pc EXCEPT ![p] = at], code' \in [Polls -> Devices \cup {NoDevice}], code'[p] = d,
         \A q \in Polls \ {p} : code'[q] = code[q],
         seen' = [seen EXCEPT ![p] = device[d]]
  PROVE  IndInv'
  <1>1. device[d] # NoRow /\ device[d] \in DeviceRow /\ d \in issued /\ TypedFor(device[d].flow, d)
    BY DEF Exchangeable, IndInv, TypeOK, RowsSound, AcceptedForTyped
  <1>2. TypeOK'
    BY <1>1 DEF IndInv, TypeOK
  <1>3. \A f, e : TypedFor(f, e)' <=> TypedFor(f, e)
    BY Typed
  <1>4. pc'[p] = at /\ seen'[p] = device[d] /\ \A q \in Polls \ {p} : pc'[q] = pc[q] /\ seen'[q] = seen[q]
    BY DEF IndInv, TypeOK
  <1>5. \A x \in exchanged : x[1] \in Polls /\ x[1] # p
    BY ExchangedParts DEF IndInv, PollsSound
  <1>6. PollsSound'
    BY <1>1, <1>3, <1>4, <1>5 DEF IndInv, PollsSound
  <1> QED  BY <1>2, <1>6, PollStep

LEMMA LooksStep ==
  ASSUME IndInv, NEW p \in Polls,
         PopulateRead(p) \/ \E d \in Devices : HandleTokenEndpointRequest(p, d)
  PROVE  IndInv'
  <1>1. CASE PopulateRead(p)
    <2>1. code[p] \in Devices /\ code \in [Polls -> Devices \cup {NoDevice}]
      BY <1>1 DEF PopulateRead, IndInv, TypeOK, PollsSound
    <2> QED  BY <1>1, <2>1, LookStep DEF PopulateRead, tables, outside, verifying
  <1>2. ASSUME NEW d \in Devices, HandleTokenEndpointRequest(p, d) PROVE IndInv'
    <2>1. /\ code' \in [Polls -> Devices \cup {NoDevice}] /\ code'[p] = d
          /\ \A q \in Polls \ {p} : code'[q] = code[q]
      BY <1>2 DEF HandleTokenEndpointRequest, IndInv, TypeOK
    <2> QED  BY <1>2, <2>1, LookStep DEF HandleTokenEndpointRequest, tables, outside, verifying
  <1> QED  BY <1>1, <1>2

LEMMA AbandonPollStep ==
  ASSUME IndInv, NEW p \in Polls, AbandonPoll(p)
  PROVE  IndInv'
  <1>1. /\ UNCHANGED <<device, consent, openid, tokens, isolation, issued, expired, challenge>>
        /\ UNCHANGED <<vpc, vflow, vdevice, vgranted, exchanged>> /\ UNCHANGED <<code, seen>>
        /\ pc[p] \in {"handled", "read"} /\ pc' = [pc EXCEPT ![p] = "answered"]
    BY DEF AbandonPoll, tables, outside, verifying
  <1>2. TypeOK'
    BY <1>1 DEF IndInv, TypeOK
  <1>3. \A f, e : TypedFor(f, e)' <=> TypedFor(f, e)
    BY <1>1, Typed
  <1>4. pc'[p] = "answered" /\ \A q \in Polls \ {p} : pc'[q] = pc[q]
    BY <1>1 DEF IndInv, TypeOK
  <1>5. \A x \in exchanged : x[1] \in Polls
    BY ExchangedParts DEF IndInv
  <1>6. PollsSound'
    BY <1>1, <1>3, <1>4, <1>5 DEF IndInv, PollsSound
  <1> QED  BY <1>1, <1>2, <1>6, PollStep

\* Exchange, of a row that was one of the device code: where transactions are
\* serializable it still is.
LEMMA ExchangeStep ==
  ASSUME IndInv, NEW p \in Polls, NEW x \in DeviceRow, Exchange(p, x),
         pc[p] \in {"handled", "read"}, TypedFor(x.flow, code[p]),
         isolation = "serializable" => device[code[p]] # NoRow
  PROVE  IndInv'
  <1> DEFINE d == code[p]
             n == [poll |-> p, device |-> d, flow |-> x.flow, granted |-> x.granted,
                   idToken |-> openid[d]]
             y == <<p, d>>
  <1>1. /\ x.flow \in consent /\ device' = [device EXCEPT ![d] = NoRow] /\ tokens' = tokens \cup {n}
        /\ exchanged' = exchanged \cup {y} /\ pc' = [pc EXCEPT ![p] = "answered"]
        /\ UNCHANGED <<consent, openid, isolation, issued, expired, challenge>>
        /\ UNCHANGED <<vpc, vflow, vdevice, vgranted>> /\ UNCHANGED <<code, seen>>
    BY DEF Exchange, outside, verifying
  <1>2. x.flow \in Flows /\ x.granted \subseteq Scopes
    BY <1>1, RowParts DEF IndInv, TypeOK
  <1>3. d \in Devices
    <2>1. challenge[x.flow] \in Challenge
      BY <1>2 DEF TypedFor, IndInv, TypeOK
    <2> QED  BY <2>1 DEF TypedFor, Challenge
  <1>4. n \in Token
    BY <1>2, <1>3 DEF Token, IndInv, TypeOK
  <1>5. /\ n.flow = x.flow /\ n.device = d /\ n.idToken = openid[d]
        /\ <<n.poll, n.device>> = y
    OBVIOUS
  <1>6. y \in Polls \X Devices /\ y[1] = p /\ y[2] = d
    BY <1>3
  <1> HIDE DEF n, y
  <1>7. TypeOK'
    BY <1>1, <1>3, <1>4, <1>6 DEF IndInv, TypeOK
  <1>8. \A f, e : TypedFor(f, e)' <=> TypedFor(f, e)
    BY <1>1, Typed
  <1>9. \A e \in Devices : device'[e] # NoRow => e # d /\ device'[e] = device[e]
    BY <1>1 DEF IndInv, TypeOK
  <1>10. device'[d] = NoRow /\ \A e \in Devices : device[e] = NoRow => device'[e] = NoRow
    BY <1>1, <1>3 DEF IndInv, TypeOK
  <1>11. pc'[p] = "answered" /\ \A q \in Polls \ {p} : pc'[q] = pc[q]
    BY <1>1 DEF IndInv, TypeOK
  <1>12. \A z \in exchanged : z[1] \in Polls /\ z[2] \in Devices
    BY ExchangedParts DEF IndInv
  <1>13. RowsSound' /\ AcceptedForTyped'
    BY <1>1, <1>8, <1>9 DEF IndInv, RowsSound, AcceptedForTyped
  <1>14. PollsSound'
    <2>1. \A q \in Polls :
              /\ pc'[q] # "idle" => /\ code'[q] \in issued'
                                    /\ seen'[q] # NoRow /\ TypedFor(seen[q].flow, code[q])
              /\ pc'[q] = "read" => isolation' = "read_committed"
      BY <1>1, <1>11 DEF IndInv, PollsSound
    <2>2. \A z \in exchanged' : /\ pc'[z[1]] = "answered" /\ code'[z[1]] = z[2]
                                /\ isolation' = "serializable" => device'[z[2]] = NoRow
      BY <1>1, <1>6, <1>10, <1>11, <1>12 DEF IndInv, PollsSound
    <2>3. \A t \in tokens' : <<t.poll, t.device>> \in exchanged'
      BY <1>1, <1>5 DEF IndInv, PollsSound
    <2> QED  BY <1>1, <1>8, <2>1, <2>2, <2>3 DEF PollsSound
  <1>15. SingleExchange'
    <2>1. isolation = "serializable" => \A z \in exchanged : z[2] # d
      BY DEF IndInv, PollsSound
    <2> QED  BY <1>1, <1>6, <2>1 DEF IndInv, SingleExchange
  <1>16. DeviceTokensBacked'
    <2>1. openid[d] # NoFlow => TypedFor(openid[d], d)
      BY <1>3 DEF IndInv, RowsSound
    <2> QED  BY <1>1, <1>5, <1>8, <2>1 DEF IndInv, DeviceTokensBacked
  <1>17. VerificationsSound'
    BY <1>1, <1>8 DEF IndInv, VerificationsSound
  <1> QED  BY <1>7, <1>13, <1>14, <1>15, <1>16, <1>17 DEF IndInv

LEMMA PopulateStep ==
  ASSUME IndInv, NEW p \in Polls, Populate(p) \/ PopulateWrite(p)
  PROVE  IndInv'
  <1>1. CASE Populate(p)
    <2>1. /\ pc[p] = "handled" /\ device[code[p]] # NoRow /\ device[code[p]].state = "accepted"
          /\ Exchange(p, device[code[p]])
      BY <1>1 DEF Populate, Exchangeable
    <2>2. code[p] \in Devices
      BY <2>1 DEF IndInv, TypeOK, PollsSound
    <2>3. device[code[p]] \in DeviceRow /\ TypedFor(device[code[p]].flow, code[p])
      BY <2>1, <2>2 DEF IndInv, TypeOK, AcceptedForTyped
    <2> QED  BY <2>1, <2>3, ExchangeStep
  <1>2. CASE PopulateWrite(p)
    <2>1. pc[p] = "read" /\ Exchange(p, seen[p]) /\ isolation = "read_committed"
      BY <1>2 DEF PopulateWrite, IndInv, PollsSound
    <2>2. seen[p] \in DeviceRow /\ TypedFor(seen[p].flow, code[p])
      BY <2>1 DEF IndInv, TypeOK, PollsSound
    <2> QED  BY <2>1, <2>2, ExchangeStep
  <1> QED  BY <1>1, <1>2

LEMMA NextIndInv == IndInv /\ [Next]_vars => IndInv'
  <1> SUFFICES ASSUME IndInv, [Next]_vars PROVE IndInv'
    OBVIOUS
  <1>1. CASE Codes
    BY <1>1, CreateStep, ExpireStep, AcceptUserCodeStep DEF Codes
  <1>2. CASE Verification
    BY <1>2, VerifyConsentStep, ReadDeviceStep, CommitVerificationStep, AbandonVerificationStep,
       RevokeConsentStep DEF Verification
  <1>3. CASE Polling
    BY <1>3, LooksStep, PopulateStep, AbandonPollStep DEF Polling
  <1>4. CASE UNCHANGED vars
    BY <1>4 DEF vars, tables, outside, verifying, polling, IndInv, TypeOK, RowsSound,
                VerificationsSound, PollsSound, SingleExchange, DeviceTokensBacked, AcceptedForTyped,
                TypedFor
  <1> QED  BY <1>1, <1>2, <1>3, <1>4 DEF Next

\* The invariant of the device grant: accepted rows, OpenID Connect sessions and
\* what polls have read all belong to a flow that was started for that device.
THEOREM Invariance == Spec => []IndInv
  BY InitIndInv, NextIndInv, PTL DEF Spec

\* Where transactions are serializable a device code is exchanged once, however the
\* device polls (PopulateTokenEndpointResponse).
THEOREM SingleExchangeTheorem == Spec => []SingleExchange
  <1>1. IndInv => SingleExchange
    BY DEF IndInv
  <1> QED  BY <1>1, Invariance, PTL

\* Tokens stand only on a stored consent, given by someone who typed in the code of
\* that device (the foreign keys on challenge_id).
THEOREM DeviceTokensBackedTheorem == Spec => []DeviceTokensBacked
  <1>1. IndInv => DeviceTokensBacked
    BY DEF IndInv
  <1> QED  BY <1>1, Invariance, PTL

\* A device is accepted only by a user who typed in its own code, whatever became
\* of user codes in between (performOAuth2DeviceVerificationFlow).
THEOREM AcceptedForTypedTheorem == Spec => []AcceptedForTyped
  <1>1. IndInv => AcceptedForTyped
    BY DEF IndInv
  <1> QED  BY <1>1, Invariance, PTL

(***************************************************************************)
(* Where transactions are serializable the grant implements TokenFamily.   *)
(***************************************************************************)
Withdrawn == {d \in issued : device[d] = NoRow}

\* A step after which no device code has a row again, and no token is new.
LEMMA FamilyShrink ==
  ASSUME Withdrawn \subseteq Withdrawn', tokens' \subseteq tokens
  PROVE  Family!Next
  <1>1. \A d \in Devices : AccessOf(d)' \subseteq AccessOf(d) /\ RefreshOf(d)' \subseteq RefreshOf(d)
    BY DEF AccessOf, RefreshOf, TokensOf
  <1> QED  BY <1>1 DEF Family!Next, Family!Shrink, Withdrawn

\* The exchange of a device code that has a row, and so never was exchanged.
LEMMA FamilyOpen ==
  ASSUME IndInv, isolation = "serializable", NEW p \in Polls, Populate(p)
  PROVE  Family!Next
  <1> DEFINE d == code[p]
             x == device[d]
             n == [poll |-> p, device |-> d, flow |-> x.flow, granted |-> x.granted,
                   idToken |-> openid[d]]
  <1>1. /\ pc[p] = "handled" /\ x # NoRow /\ issued' = issued
        /\ device' = [device EXCEPT ![d] = NoRow] /\ tokens' = tokens \cup {n}
    BY DEF Populate, Exchangeable, Exchange, outside
  <1>2. d \in Devices /\ d \in issued
    BY <1>1 DEF IndInv, TypeOK, PollsSound
  <1>3. TokensOf(d) = {}
    <2> SUFFICES ASSUME NEW t \in tokens, t.device = d
                 PROVE  FALSE
      BY DEF TokensOf
    <2>1. <<t.poll, d>> \in exchanged
      BY DEF IndInv, PollsSound
    <2>2. device[<<t.poll, d>>[2]] = NoRow
      BY <2>1 DEF IndInv, PollsSound
    <2> QED  BY <1>1, <2>2
  <1>4. n.poll = p /\ n.device = d
    OBVIOUS
  <1>5. Withdrawn' = Withdrawn \cup {d} /\ d \notin Withdrawn
    BY <1>1, <1>2 DEF Withdrawn, IndInv, TypeOK
  <1> HIDE DEF n
  <1>6. \A e \in Devices : TokensOf(e)' = IF e = d THEN {n} ELSE TokensOf(e)
    BY <1>1, <1>3, <1>4 DEF TokensOf
  <1>7. \A e \in Devices : AccessOf(e)' = IF e = d THEN {p} ELSE AccessOf(e)
    BY <1>4, <1>6 DEF AccessOf
  <1>8. \E S \in {{}, {p}} : \A e \in Devices : RefreshOf(e)' = IF e = d THEN S ELSE RefreshOf(e)
    <2>1. CASE "offline_access" \in n.granted
      <3>1. \A e \in Devices : RefreshOf(e)' = IF e = d THEN {p} ELSE RefreshOf(e)
        BY <1>4, <1>6, <2>1 DEF RefreshOf
      <3> QED  BY <3>1
    <2>2. CASE "offline_access" \notin n.granted
      <3>1. \A e \in Devices : RefreshOf(e)' = IF e = d THEN {} ELSE RefreshOf(e)
        BY <1>4, <1>6, <2>2 DEF RefreshOf
      <3> QED  BY <3>1
    <2> QED  BY <2>1, <2>2
  <1> HIDE DEF d
  <1>9. Family!Open(d, p)
    BY <1>2, <1>5, <1>7, <1>8 DEF Family!Open, Withdrawn
  <1> QED  BY <1>2, <1>9 DEF Family!Next

LEMMA FamilyStep ==
  ASSUME IndInv, Next, isolation = "serializable"
  PROVE  Family!Next
  <1> USE DEF tables, outside, polling, verifying
  <1>1. CASE Codes
    <2>1. tokens' = tokens /\ Withdrawn \subseteq Withdrawn'
      BY <1>1 DEF Codes, CreateDeviceAuthSession, ExpireCodes, AcceptUserCode, Withdrawn,
                  IndInv, TypeOK
    <2> QED  BY <2>1, FamilyShrink
  <1>2. CASE Verification
    <2>1. tokens' \subseteq tokens /\ issued' = issued
      BY <1>2 DEF Verification, VerifyConsent, ReadDevice, CommitVerification,
                  AbandonVerification, RevokeConsent
    <2>2. \A d \in Devices : device[d] = NoRow => device'[d] = NoRow
      BY <1>2 DEF Verification, VerifyConsent, ReadDevice, CommitVerification, Accept,
                  AbandonVerification, RevokeConsent, IndInv, TypeOK
    <2>3. Withdrawn \subseteq Withdrawn'
      BY <2>1, <2>2 DEF Withdrawn, IndInv, TypeOK
    <2> QED  BY <2>1, <2>3, FamilyShrink
  <1>3. ASSUME NEW p \in Polls,
               \/ \E d \in Devices : HandleTokenEndpointRequest(p, d)
               \/ PopulateRead(p) \/ AbandonPoll(p)
        PROVE  Family!Next
    <2>1. UNCHANGED <<tokens, device, issued>>
      BY <1>3 DEF HandleTokenEndpointRequest, PopulateRead, AbandonPoll
    <2> QED  BY <2>1, FamilyShrink DEF Withdrawn
  <1>4. \A p \in Polls : ~PopulateWrite(p)
    BY DEF PopulateWrite, IndInv, PollsSound
  <1>5. CASE Polling
    BY <1>3, <1>4, <1>5, FamilyOpen DEF Polling
  <1> QED  BY <1>1, <1>2, <1>5 DEF Next

\* Where transactions are serializable the device grant implements TokenFamily: a
\* device code that was exchanged or withdrawn yields no token any more
\* (PopulateTokenEndpointResponse, RevokeConsent).
THEOREM DeviceFamilyTheorem == Spec => ImplementsDeviceFamily
  <1>1. Init => Family!Init
    BY DEF Init, Family!Init, AccessOf, RefreshOf, TokensOf
  <1>2. IndInv /\ [Next]_vars => [isolation = "serializable" => Family!Next]_(Family!famVars)
    <2>1. UNCHANGED vars => UNCHANGED Family!famVars
      BY DEF vars, tables, outside, Family!famVars, AccessOf, RefreshOf, TokensOf
    <2> QED  BY <2>1, FamilyStep
  <1> QED  BY Invariance, <1>1, <1>2, PTL DEF Spec, ImplementsDeviceFamily

\* And so, where transactions are serializable, a device code without tokens that
\* was exchanged or whose consent was withdrawn stays without, for good.
THEOREM DeadDeviceStaysDead ==
  ASSUME NEW d \in Devices
  PROVE  Spec => []((isolation = "serializable" /\ Family!Dead(d)) => []Family!Dead(d))
  <1> DEFINE Dead == isolation = "serializable" /\ Family!Dead(d)
  <1>1. Dead /\ [Next]_vars /\ [isolation = "serializable" => Family!Next]_(Family!famVars) => Dead'
    <2> SUFFICES ASSUME Dead, [Next]_vars,
                        [isolation = "serializable" => Family!Next]_(Family!famVars)
                 PROVE  Dead'
      OBVIOUS
    <2>1. isolation' = isolation
      BY DEF vars, tables, outside, verifying, polling, Next, Codes, CreateDeviceAuthSession,
             ExpireCodes, AcceptUserCode, Verification, VerifyConsent, ReadDevice,
             CommitVerification, AbandonVerification, RevokeConsent, Polling,
             HandleTokenEndpointRequest, Populate, PopulateRead, PopulateWrite, Exchange, AbandonPoll
    <2>2. CASE Family!Shrink
      BY <2>1, <2>2 DEF Family!Dead, Family!Shrink
    <2>3. ASSUME NEW e \in Devices, NEW p \in Polls, Family!Open(e, p) \/ Family!Extend(e, p)
          PROVE  Dead'
      <3>1. e # d
        BY <2>3 DEF Family!Dead, Family!Open, Family!Extend
      <3> QED  BY <2>1, <2>3, <3>1 DEF Family!Dead, Family!Open, Family!Extend
    <2>4. CASE UNCHANGED Family!famVars
      BY <2>1, <2>4 DEF Family!Dead, Family!famVars
    <2> QED  BY <2>2, <2>3, <2>4 DEF Family!Next
  <1> QED  BY DeviceFamilyTheorem, <1>1, PTL DEF Spec, ImplementsDeviceFamily
=============================================================================
