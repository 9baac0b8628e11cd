---------------------------- MODULE KeySetProofs -----------------------------
(***************************************************************************)
(* Proofs about KeySet, for every number of signers, processes, requests   *)
(* for the set and changes to it.                                          *)
(***************************************************************************)
EXTENDS KeySet, TLAPS

LEMMA InitIndInv == Init => IndInv
  BY KeySetAssumption
     DEF Init, IndInv, TypeOK, LocksSound, MadeSound, RowsSound, Generating, SignerLabels,
         ReaderLabels, OneKeyPerInstance, SignedIsPublished, KidsDistinct, Keys

\* A row that is generated or brought.
LEMMA NewRowType ==
  ASSUME TypeOK, NEW at \in Times
  PROVE  /\ NewRow(at) \in Row
         /\ NewRow(at).kid = last + 1 /\ NewRow(at).key = last + 1 /\ NewRow(at).private
  BY KeySetAssumption DEF TypeOK, NewRow, Row

\* Return: what a signer is given is in the set, and it is done generating.
LEMMA ReturnStep ==
  ASSUME IndInv, NEW s \in Signers, NEW r \in Row, Return(s, r),
         rows \subseteq rows', r \in rows', UNCHANGED removed
  PROVE  /\ SignedIsPublished'
         /\ pc' \in [Signers -> SignerLabels]
         /\ kid' \in [Signers -> Nat \cup {None}] /\ key' \in [Signers -> Nat \cup {None}]
         /\ pc'[s] \notin Generating
         /\ \A t \in Signers \ {s} : pc'[t] = pc[t]
  <1>1. r.kid \in Nat /\ r.key \in Nat
    BY DEF Row
  <1>2. pc' \in [Signers -> SignerLabels]
    BY DEF Return, IndInv, TypeOK, SignerLabels
  <1>3. kid' \in [Signers -> Nat \cup {None}] /\ key' \in [Signers -> Nat \cup {None}]
    BY <1>1 DEF Return, IndInv, TypeOK
  <1>4. \A t \in Signers : key'[t] \in {key[t], r.key} /\ kid'[t] \in {kid[t], r.kid}
    BY DEF Return, IndInv, TypeOK
  <1>5. Keys(rows) \subseteq Keys(rows') /\ r.key \in Keys(rows')
    BY DEF Keys
  <1>6. SignedIsPublished'
    BY <1>4, <1>5 DEF SignedIsPublished, IndInv
  <1>7. pc'[s] \notin Generating /\ \A t \in Signers \ {s} : pc'[t] = pc[t]
    BY DEF Return, Generating, IndInv, TypeOK
  <1> QED  BY <1>2, <1>3, <1>6, <1>7

\* A key that was drawn now joins the set.
LEMMA AddRow ==
  ASSUME IndInv, NEW r \in Row, r.kid = last + 1, r.key = last + 1,
         rows' = rows \cup {r}, last' = last + 1, UNCHANGED removed
  PROVE  rows' \subseteq Row /\ last' \in Nat /\ RowsSound' /\ KidsDistinct'
  BY DEF IndInv, TypeOK, RowsSound, KidsDistinct

\* Steps of signers that leave the set alone, and move s alone.
LEMMA SignerStep ==
  ASSUME IndInv, NEW s \in Signers, UNCHANGED <<rows, last, kid, key, reader, removed, changes, made>>,
         pc' \in [Signers -> SignerLabels], \A t \in Signers \ {s} : pc'[t] = pc[t],
         lock' \in [Instances -> Signers \cup {None}],
         LocksSound', pc'[s] \in Generating => made[Instance[s]] = {}
  PROVE  IndInv'
  <1>1. TypeOK'
    BY DEF IndInv, TypeOK
  <1>2. MadeSound'
    BY DEF IndInv, MadeSound
  <1> QED  BY <1>1, <1>2
           DEF IndInv, RowsSound, OneKeyPerInstance, SignedIsPublished, KidsDistinct, Keys

LEMMA FindKeyStep ==
  ASSUME IndInv, NEW s \in Signers, FindKey(s)
  PROVE  IndInv'
  <1>1. PICK r \in Newest : Return(s, r)
    BY DEF FindKey
  <1>2. r \in rows /\ r \in Row /\ UNCHANGED <<rows, last, lock, reader, removed, changes, made>>
    BY <1>1 DEF FindKey, Newest, IndInv, TypeOK, admin
  <1>3. /\ SignedIsPublished' /\ pc' \in [Signers -> SignerLabels]
        /\ kid' \in [Signers -> Nat \cup {None}] /\ key' \in [Signers -> Nat \cup {None}]
        /\ pc'[s] \notin Generating /\ \A t \in Signers \ {s} : pc'[t] = pc[t]
    BY <1>1, <1>2, ReturnStep
  <1>4. pc[s] \notin Generating
    BY DEF FindKey, Generating
  <1>5. TypeOK'
    BY <1>2, <1>3 DEF IndInv, TypeOK
  <1>6. LocksSound'
    BY <1>2, <1>3, <1>4 DEF IndInv, TypeOK, LocksSound
  <1>7. MadeSound'
    BY <1>2, <1>3, <1>4 DEF IndInv, MadeSound
  <1> QED  BY <1>2, <1>3, <1>5, <1>6, <1>7 DEF IndInv, RowsSound, OneKeyPerInstance, KidsDistinct

LEMMA MissKeyStep ==
  ASSUME IndInv, NEW s \in Signers, MissKey(s)
  PROVE  IndInv'
  <1> DEFINE i == Instance[s]
  <1>1. i \in Instances /\ s # None
    BY KeySetAssumption
  <1>2. UNCHANGED <<rows, last, kid, key, reader, removed, changes, made>>
    BY DEF MissKey, LockAndMiss, admin
  <1>3. lock[i] = None /\ lock' = [lock EXCEPT ![i] = s]
    BY DEF MissKey, LockAndMiss
  <1>4. pc' \in [Signers -> SignerLabels] /\ pc'[s] \in Generating
           /\ \A t \in Signers \ {s} : pc'[t] = pc[t]
    BY DEF MissKey, LockAndMiss, IndInv, TypeOK, SignerLabels, Generating
  <1>5. lock' \in [Instances -> Signers \cup {None}]
    BY <1>1, <1>3 DEF IndInv, TypeOK
  <1>6. \A t \in Signers : pc'[t] \in Generating => lock'[Instance[t]] = t
    BY <1>1, <1>3, <1>4, KeySetAssumption DEF IndInv, TypeOK, LocksSound
  <1>7. \A j \in Instances : lock'[j] # None => Instance[lock'[j]] = j /\ pc'[lock'[j]] \in Generating
    BY <1>1, <1>3, <1>4, KeySetAssumption DEF IndInv, TypeOK, LocksSound
  <1>8. made[i] = {}
    BY <1>1 DEF MissKey, IndInv, MadeSound
  <1>9. LocksSound'
    BY <1>6, <1>7 DEF LocksSound
  <1> QED  BY <1>2, <1>4, <1>5, <1>8, <1>9, SignerStep

\* Whoever generates has the lock alone; letting go of it, it stops.
LEMMA UnlockSound ==
  ASSUME IndInv, NEW s \in Signers, pc[s] \in Generating,
         lock' = [lock EXCEPT ![Instance[s]] = None],
         pc'[s] \notin Generating, \A t \in Signers \ {s} : pc'[t] = pc[t]
  PROVE  /\ lock' \in [Instances -> Signers \cup {None}]
         /\ LocksSound'
         /\ \A t \in Signers \ {s} : pc[t] \in Generating => Instance[t] # Instance[s]
  <1>1. Instance[s] \in Instances /\ lock[Instance[s]] = s
    BY KeySetAssumption DEF IndInv, LocksSound
  <1>2. \A t \in Signers \ {s} : pc[t] \in Generating => Instance[t] # Instance[s]
    BY <1>1 DEF IndInv, LocksSound
  <1>3. lock' \in [Instances -> Signers \cup {None}]
    BY <1>1 DEF IndInv, TypeOK
  <1>4. \A t \in Signers : pc'[t] \in Generating => lock'[Instance[t]] = t
    BY <1>1, <1>2, KeySetAssumption DEF IndInv, TypeOK, LocksSound
  <1>5. \A j \in Instances : lock'[j] # None => Instance[lock'[j]] = j /\ pc'[lock'[j]] \in Generating
    BY <1>1, KeySetAssumption DEF IndInv, TypeOK, LocksSound
  <1> QED  BY <1>2, <1>3, <1>4, <1>5 DEF LocksSound

LEMMA GenerateKeyStep ==
  ASSUME IndInv, NEW s \in Signers, NEW at \in Times, GenerateKey(s, at)
  PROVE  IndInv'
  <1> DEFINE r == NewRow(at)  i == Instance[s]
  <1>1. r \in Row /\ r.kid = last + 1 /\ r.key = last + 1 /\ r.private /\ i \in Instances
    BY NewRowType, KeySetAssumption DEF IndInv
  <1>2. /\ rows' = rows \cup {r} /\ last' = last + 1 /\ UNCHANGED <<reader, removed, changes>>
        /\ lock' = [lock EXCEPT ![i] = None] /\ made' = [made EXCEPT ![i] = @ \cup {last + 1}]
        /\ Return(s, r) /\ pc[s] \in Generating
    BY DEF GenerateKey, admin, Generating
  <1> HIDE DEF r
  <1>3. /\ SignedIsPublished' /\ pc' \in [Signers -> SignerLabels]
        /\ kid' \in [Signers -> Nat \cup {None}] /\ key' \in [Signers -> Nat \cup {None}]
        /\ pc'[s] \notin Generating /\ \A t \in Signers \ {s} : pc'[t] = pc[t]
    BY <1>1, <1>2, ReturnStep
  <1>4. rows' \subseteq Row /\ last' \in Nat /\ RowsSound' /\ KidsDistinct'
    BY <1>1, <1>2, AddRow
  <1>5. /\ lock' \in [Instances -> Signers \cup {None}] /\ LocksSound'
        /\ \A t \in Signers \ {s} : pc[t] \in Generating => Instance[t] # i
    BY <1>2, <1>3, UnlockSound
  <1>6. TypeOK'
    BY <1>1, <1>2, <1>3, <1>4, <1>5 DEF IndInv, TypeOK
  <1>7. made[i] = {}
    BY <1>2 DEF IndInv, MadeSound
  <1>8. MadeSound'
    <2>1. \A t \in Signers : pc'[t] \in Generating => made'[Instance[t]] = {}
      BY <1>2, <1>3, <1>5, KeySetAssumption DEF IndInv, TypeOK, MadeSound
    <2>2. \E q \in rows' : q.private
      BY <1>1, <1>2
    <2> QED  BY <2>1, <2>2 DEF MadeSound
  <1>9. OneKeyPerInstance'
    BY <1>1, <1>2, <1>7 DEF IndInv, TypeOK, OneKeyPerInstance
  <1> QED  BY <1>3, <1>4, <1>5, <1>6, <1>8, <1>9 DEF IndInv

LEMMA GenerateFailsStep ==
  ASSUME IndInv, NEW s \in Signers, GenerateFails(s)
  PROVE  IndInv'
  <1>1. /\ UNCHANGED <<rows, last, kid, key, reader, removed, changes, made>>
        /\ lock' = [lock EXCEPT ![Instance[s]] = None] /\ pc[s] \in Generating
    BY DEF GenerateFails, admin, Generating
  <1>2. pc' \in [Signers -> SignerLabels] /\ pc'[s] \notin Generating
           /\ \A t \in Signers \ {s} : pc'[t] = pc[t]
    BY DEF GenerateFails, IndInv, TypeOK, SignerLabels, Generating
  <1>3. lock' \in [Instances -> Signers \cup {None}] /\ LocksSound'
    BY <1>1, <1>2, UnlockSound
  <1> QED  BY <1>1, <1>2, <1>3, SignerStep

LEMMA CrashStep ==
  ASSUME IndInv, NEW i \in Instances, Crash(i)
  PROVE  IndInv'
  <1>1. /\ UNCHANGED <<rows, last, kid, key, reader, removed, changes, made>>
        /\ lock' = [lock EXCEPT ![i] = None]
        /\ pc' = [s \in Signers |-> IF Instance[s] = i /\ pc[s] # "signed" THEN "failed" ELSE pc[s]]
    BY DEF Crash, admin
  <1>2. \A s \in Signers : pc'[s] \in Generating => pc[s] \in Generating /\ Instance[s] # i
    BY <1>1 DEF Generating
  <1>3. TypeOK'
    BY <1>1 DEF IndInv, TypeOK, SignerLabels
  <1>4. \A s \in Signers : pc'[s] \in Generating => lock'[Instance[s]] = s
    BY <1>1, <1>2, KeySetAssumption DEF IndInv, TypeOK, LocksSound
  <1>5. \A j \in Instances : lock'[j] # None => Instance[lock'[j]] = j /\ pc'[lock'[j]] \in Generating
    <2> SUFFICES ASSUME NEW j \in Instances, lock'[j] # None
                 PROVE  Instance[lock'[j]] = j /\ pc'[lock'[j]] \in Generating
      OBVIOUS
    <2>1. j # i /\ lock'[j] = lock[j] /\ lock[j] \in Signers
      BY <1>1 DEF IndInv, TypeOK
    <2>2. Instance[lock[j]] = j /\ pc[lock[j]] \in Generating
      BY <2>1 DEF IndInv, LocksSound
    <2> QED  BY <2>1, <2>2, <1>1
  <1>6. LocksSound' /\ MadeSound'
    BY <1>1, <1>2, <1>4, <1>5 DEF IndInv, LocksSound, MadeSound
  <1> QED  BY <1>1, <1>3, <1>6
           DEF IndInv, RowsSound, OneKeyPerInstance, SignedIsPublished, KidsDistinct, Keys

LEMMA DiscoverStep ==
  ASSUME IndInv, NEW d \in Readers, Discover(d)
  PROVE  IndInv'
  <1>1. CASE ReadSet(d) \/ GenerateSetFails(d)
    <2>1. UNCHANGED <<rows, last, lock, pc, kid, key, removed, changes, made>>
      BY <1>1 DEF ReadSet, GenerateSetFails, admin
    <2>2. reader' \in [Readers -> ReaderLabels]
      BY <1>1 DEF ReadSet, GenerateSetFails, IndInv, TypeOK, ReaderLabels
    <2>3. TypeOK'
      BY <2>1, <2>2 DEF IndInv, TypeOK
    <2>4. LocksSound' /\ MadeSound' /\ OneKeyPerInstance'
      BY <2>1 DEF IndInv, LocksSound, MadeSound, OneKeyPerInstance
    <2>5. RowsSound' /\ SignedIsPublished' /\ KidsDistinct'
      BY <2>1 DEF IndInv, RowsSound, SignedIsPublished, KidsDistinct, Keys
    <2> QED  BY <2>3, <2>4, <2>5 DEF IndInv
  <1>2. ASSUME NEW at \in Times, GenerateSet(d, at) PROVE IndInv'
    <2> DEFINE r == NewRow(at)
    <2>1. r \in Row /\ r.kid = last + 1 /\ r.key = last + 1
      BY NewRowType DEF IndInv
    <2>2. /\ rows' = rows \cup {r} /\ last' = last + 1
          /\ UNCHANGED <<lock, pc, kid, key, removed, changes, made>>
      BY <1>2 DEF GenerateSet, admin
    <2> HIDE DEF r
    <2>3. rows' \subseteq Row /\ last' \in Nat /\ RowsSound' /\ KidsDistinct'
      BY <2>1, <2>2, AddRow
    <2>4. reader' \in [Readers -> ReaderLabels]
      BY <1>2, <2>2, <2>3 DEF GenerateSet, IndInv, TypeOK, ReaderLabels
    <2>5. TypeOK'
      BY <2>2, <2>3, <2>4 DEF IndInv, TypeOK
    <2>6. LocksSound' /\ MadeSound' /\ OneKeyPerInstance'
      BY <2>2 DEF IndInv, LocksSound, MadeSound, OneKeyPerInstance
    <2>7. Keys(rows) \subseteq Keys(rows')
      BY <2>2 DEF Keys
    <2>8. SignedIsPublished'
      BY <2>2, <2>7 DEF IndInv, SignedIsPublished
    <2> QED  BY <2>3, <2>5, <2>6, <2>8 DEF IndInv
  <1> QED  BY <1>1, <1>2 DEF Discover

\* Change: what goes is remembered, and what comes has a kid of its own.
LEMMA ChangeStep ==
  ASSUME IndInv, NEW gone \in SUBSET rows, NEW new \in SUBSET Row, Change(gone, new),
         last' \in Nat, last <= last',
         \A r \in new : r.kid \in 1 .. last' /\ r.key \in 1 .. last',
         \A r \in new : r.kid = r.key \/ r.kid \in removed',
         \A r \in new : \A q \in rows' : q.kid = r.kid => q = r
  PROVE  IndInv'
  <1>1. /\ changes < MaxChanges /\ changes' = changes + 1
        /\ rows' = (rows \ gone) \cup new /\ removed' = removed \cup Keys(gone)
        /\ made' = IF gone = {} THEN made ELSE [i \in Instances |-> {}]
        /\ UNCHANGED <<lock, pc, kid, key, reader>>
    BY DEF Change
  <1>2. Keys(gone) \subseteq Nat /\ \A k \in Keys(gone) : k \in 1 .. last
    BY DEF IndInv, TypeOK, RowsSound, Keys, Row
  <1>3. changes' \in 0 .. MaxChanges
    BY <1>1, KeySetAssumption DEF IndInv, TypeOK
  <1>4. made' \in [Instances -> SUBSET Nat]
    BY <1>1 DEF IndInv, TypeOK
  <1>5. TypeOK'
    BY <1>1, <1>2, <1>3, <1>4 DEF IndInv, TypeOK
  <1>6. LocksSound'
    BY <1>1 DEF IndInv, LocksSound
  <1>7. MadeSound' /\ OneKeyPerInstance'
    <2>1. CASE gone = {}
      BY <1>1, <2>1 DEF IndInv, MadeSound, OneKeyPerInstance
    <2>2. CASE gone # {}
      BY <1>1, <2>2, KeySetAssumption DEF MadeSound, OneKeyPerInstance
    <2> QED  BY <2>1, <2>2
  <1>8. RowsSound'
    <2>1. \A k \in 1 .. last : k \in 1 .. last'
      BY DEF IndInv, TypeOK
    <2> QED  BY <1>1, <1>2, <2>1 DEF IndInv, RowsSound
  <1>9. KidsDistinct'
    BY <1>1 DEF IndInv, KidsDistinct
  <1>10. SignedIsPublished'
    <2>1. Keys(rows) \subseteq Keys(rows') \cup removed'
      BY <1>1 DEF Keys
    <2>2. \A r \in rows : r.kid \in {q.kid : q \in rows'} \cup removed'
      BY <1>1 DEF IndInv, RowsSound, Keys
    <2> QED  BY <1>1, <2>1, <2>2 DEF IndInv, SignedIsPublished
  <1> QED  BY <1>5, <1>6, <1>7, <1>8, <1>9, <1>10 DEF IndInv

LEMMA AdministerStep ==
  ASSUME IndInv, Administer
  PROVE  IndInv'
  <1>1. last \in Nat /\ rows \subseteq Row
    BY DEF IndInv, TypeOK
  <1>2. \A r \in rows : r.kid # last + 1
    BY <1>1 DEF IndInv, RowsSound
  <1>3. ASSUME NEW at \in Times, CreateKeySet(at) PROVE IndInv'
    <2> DEFINE r == NewRow(at)
    <2>1. r \in Row /\ r.kid = last + 1 /\ r.key = last + 1
      BY NewRowType DEF IndInv
    <2>2. last' = last + 1 /\ Change({}, {r})
      BY <1>3 DEF CreateKeySet
    <2> HIDE DEF r
    <2>3. rows' = rows \cup {r}
      BY <2>2 DEF Change
    <2>4. \A q \in rows' : q.kid = r.kid => q = r
      BY <1>2, <2>1, <2>3
    <2>5. last + 1 \in 1 .. last' /\ last' \in Nat /\ last <= last'
      BY <1>1, <2>2
    <2> DEFINE gone == {}  new == {r}
    <2>6. gone \in SUBSET rows /\ new \in SUBSET Row /\ Change(gone, new)
      BY <2>1, <2>2
    <2>7. \A q \in new : q.kid = last + 1 /\ q.key = last + 1
      BY <2>1
    <2>8. \A q \in new : \A p \in rows' : p.kid = q.kid => p = q
      BY <2>4
    <2> HIDE DEF gone, new
    <2> QED  BY <2>5, <2>6, <2>7, <2>8, ChangeStep
  <1>4. ASSUME NEW private \in BOOLEAN, NEW at \in Times, SetKeySet(private, at) PROVE IndInv'
    <2> DEFINE r == [NewRow(at) EXCEPT !.private = private]
    <2>1. r \in Row /\ r.kid = last + 1 /\ r.key = last + 1
      BY <1>1, KeySetAssumption DEF NewRow, Row
    <2>2. last' = last + 1 /\ Change(rows, {r})
      BY <1>4 DEF SetKeySet
    <2> HIDE DEF r
    <2>3. rows' = {r}
      BY <2>2 DEF Change
    <2> QED  BY <1>1, <2>1, <2>2, <2>3, ChangeStep
  <1>5. ASSUME NEW p \in rows, NEW private \in BOOLEAN, NEW at \in Times,
               UpdateKey(p.kid, private, at)
        PROVE  IndInv'
    <2> DEFINE r == [kid |-> p.kid, key |-> last + 1, private |-> private, at |-> at]
               gone == {q \in rows : q.kid = p.kid}
    <2>0. p.kid \in Nat
      BY <1>1 DEF Row
    <2>1. r \in Row /\ r.kid = p.kid /\ r.key = last + 1
      BY <1>1, <2>0, KeySetAssumption DEF Row
    <2>2. last' = last + 1 /\ Change(gone, {r})
      BY <1>5 DEF UpdateKey
    <2> HIDE DEF r
    <2>3. rows' = (rows \ gone) \cup {r} /\ removed' = removed \cup Keys(gone) /\ p \in gone
      BY <2>2 DEF Change
    <2>4. p.kid \in 1 .. last /\ p.kid \in removed'
      BY <2>3 DEF IndInv, RowsSound, Keys
    <2>5. \A q \in rows' : q.kid = r.kid => q = r
      BY <2>1, <2>3
    <2>6. r.kid \in 1 .. last' /\ r.key \in 1 .. last' /\ last' \in Nat /\ last <= last'
      BY <1>1, <2>1, <2>2, <2>4
    <2> HIDE DEF gone
    <2> QED  BY <1>1, <2>1, <2>2, <2>4, <2>5, <2>6, ChangeStep DEF gone
  <1>6. ASSUME NEW p \in rows, DeleteKey(p.kid) PROVE IndInv'
    BY <1>1, <1>6, ChangeStep DEF DeleteKey
  <1>7. CASE DeleteKeySet
    BY <1>1, <1>7, ChangeStep DEF DeleteKeySet
  <1> QED  BY <1>3, <1>4, <1>5, <1>6, <1>7 DEF Administer

LEMMA NextIndInv == IndInv /\ [Next]_vars => IndInv'
  <1> SUFFICES ASSUME IndInv, [Next]_vars PROVE IndInv'
    OBVIOUS
  <1>1. ASSUME NEW s \in Signers, Sign(s) PROVE IndInv'
    BY <1>1, FindKeyStep, MissKeyStep, GenerateKeyStep, GenerateFailsStep DEF Sign
  <1>2. CASE UNCHANGED vars
    BY <1>2 DEF vars, IndInv, TypeOK, LocksSound, MadeSound, RowsSound, OneKeyPerInstance,
                SignedIsPublished, KidsDistinct, Keys
  <1> QED  BY <1>1, <1>2, DiscoverStep, CrashStep, AdministerStep DEF Next

\* The invariant of the key set: whoever generates a key holds the lock of its
\* process, and a process that has generated one finds a private key in the set
\* (GetOrGenerateKeys).
THEOREM Invariance == Spec => []IndInv
  BY InitIndInv, NextIndInv, PTL DEF Spec

\* The goroutines of one process generate one key between them, until an
\* administrator removes one (the lock of GetOrGenerateKeys).
THEOREM OneKeyPerInstanceTheorem == Spec => []OneKeyPerInstance
  <1>1. IndInv => OneKeyPerInstance
    BY DEF IndInv
  <1> QED  BY <1>1, Invariance, PTL

\* The key of every JWT, and the kid in its header, is in the published set
\* unless an administrator has taken it out: a key is stored before it is used
\* (GenerateAndPersistKeySet).
THEOREM SignedIsPublishedTheorem == Spec => []SignedIsPublished
  <1>1. IndInv => SignedIsPublished
    BY DEF IndInv
  <1> QED  BY <1>1, Invariance, PTL
=============================================================================
