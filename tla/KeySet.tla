------------------------------- MODULE KeySet --------------------------------
(***************************************************************************)
(* One JSON Web Key set: the keys that sign ID tokens, access tokens in    *)
(* the JWT format and logout tokens, and that /.well-known/jwks.json       *)
(* publishes.                                                              *)
(*                                                                         *)
(* Whoever signs a JWT asks for the key twice, once for the kid of the     *)
(* header and once to sign; for an ID token the first is asked at the      *)
(* authorization endpoint and the second at the token endpoint, and again  *)
(* at every refresh.  The set is generated when it is first needed, under  *)
(* a lock of the process (GetOrGenerateKeys), or by the discovery          *)
(* endpoint, without the lock; administrators change it at any time.       *)
(*                                                                         *)
(* A key is known by a number, drawn when it is generated or received.     *)
(***************************************************************************)
EXTENDS Naturals

CONSTANTS
    Signers,        \* JWTs to be signed
    Instances,      \* processes of the server
    Instance,       \* the one that signs a JWT
    Readers,        \* requests for /.well-known/jwks.json
    MaxChanges,     \* bound: how many changes administrators make
    Times,          \* values of created_at
    None

ASSUME KeySetAssumption ==
    /\ Instance \in [Signers -> Instances]
    /\ MaxChanges \in Nat /\ Times \subseteq Nat /\ Times # {}
    /\ None \notin Signers \cup Nat

\* A row of hydra_jwk.  created_at is read from the clock of the instance that
\* inserts it, in the precision of the database, so any two rows may be in any
\* order, or in none.
Row == [kid : Nat, key : Nat, private : BOOLEAN, at : Times]

VARIABLES
    rows,           \* the rows of the set
    last,           \* the last key drawn
    lock,           \* the lock of each instance: who holds it
    pc,
    kid,            \* what GetPublicKeyID returned
    key,            \* what the JWT is signed with
    reader,         \* how far a request for the discovery endpoint is
    \* history
    removed,        \* keys that an administrator has removed or replaced
    made,           \* keys the signers of an instance generated since any was removed
    changes         \* how many changes administrators have made

admin == <<removed, changes>>
vars == <<rows, last, lock, pc, kid, key, reader, removed, made, changes>>

\* "kid" and "sign": about to ask for the key; "new kid" and "new key": about to
\* generate it.
SignerLabels == {"kid", "new kid", "sign", "new key", "signed", "failed"}
ReaderLabels == {"read", "new set", "served", "failed"}

TypeOK ==
    /\ rows \subseteq Row /\ last \in Nat
    /\ lock \in [Instances -> Signers \cup {None}]
    /\ pc \in [Signers -> SignerLabels]
    /\ kid \in [Signers -> Nat \cup {None}] /\ key \in [Signers -> Nat \cup {None}]
    /\ reader \in [Readers -> ReaderLabels]
    /\ removed \subseteq Nat /\ made \in [Instances -> SUBSET Nat]
    /\ changes \in 0 .. MaxChanges

Init ==
    /\ rows = {} /\ last = 0
    /\ lock = [i \in Instances |-> None]
    /\ pc = [s \in Signers |-> "kid"]
    /\ kid = [s \in Signers |-> None] /\ key = [s \in Signers |-> None]
    /\ reader = [d \in Readers |-> "read"]
    /\ removed = {} /\ made = [i \in Instances |-> {}] /\ changes = 0

Keys(R) == {r.key : r \in R}

(***************************************************************************)
(* GetOrGenerateKeys, called by GetPublicKeyID and by Generate.            *)
(***************************************************************************)
\* The rows FindPrivateKey may return: GetKeySet orders by created_at, descending.
Newest == {r \in rows : r.private /\ \A q \in rows : q.private => q.at <= r.at}

\* What a signer does with the key it is given.
Return(s, r) ==
    \/ /\ pc[s] \in {"kid", "new kid"}
       /\ pc' = [pc EXCEPT ![s] = "sign"]
       /\ kid' = [kid EXCEPT ![s] = r.kid]
       /\ UNCHANGED key
    \/ /\ pc[s] \in {"sign", "new key"}
       /\ pc' = [pc EXCEPT ![s] = "signed"]
       /\ key' = [key EXCEPT ![s] = r.key]
       /\ UNCHANGED kid

\* The set has a private key.
FindKey(s) ==
    /\ pc[s] \in {"kid", "sign"} /\ lock[Instance[s]] = None
    /\ \E r \in Newest : Return(s, r)
    /\ UNCHANGED <<rows, last, lock, reader, admin, made>>

LockAndMiss(s) ==
    /\ pc' = [pc EXCEPT ![s] = IF @ = "kid" THEN "new kid" ELSE "new key"]
    /\ lock' = [lock EXCEPT ![Instance[s]] = s]
    /\ UNCHANGED <<rows, last, kid, key, reader, admin, made>>

\* Mutant: another goroutine's lock is no obstacle.
MissKeyUnlocked(s) == pc[s] \in {"kid", "sign"} /\ (\A r \in rows : ~r.private) /\ LockAndMiss(s)

\* It does not exist, or has no private key: the lock is kept.
MissKey(s) ==
    /\ pc[s] \in {"kid", "sign"} /\ lock[Instance[s]] = None
    /\ \A r \in rows : ~r.private
    /\ LockAndMiss(s)

\* GenerateAndPersistKeySet: the key is inserted before it is returned.
NewRow(at) == [kid |-> last + 1, key |-> last + 1, private |-> TRUE, at |-> at]

GenerateKey(s, at) ==
    /\ pc[s] \in {"new kid", "new key"}
    /\ rows' = rows \cup {NewRow(at)}
    /\ last' = last + 1
    /\ lock' = [lock EXCEPT ![Instance[s]] = None]
    /\ made' = [made EXCEPT ![Instance[s]] = @ \cup {last + 1}]
    /\ Return(s, NewRow(at))
    /\ UNCHANGED <<reader, admin>>

\* Mutant: the error of AddKeySet is lost, and the key is used all the same.
ReturnUnsaved(s) ==
    /\ pc[s] \in {"new kid", "new key"}
    /\ \E at \in Times : Return(s, NewRow(at))
    /\ last' = last + 1
    /\ lock' = [lock EXCEPT ![Instance[s]] = None]
    /\ UNCHANGED <<rows, reader, admin, made>>

\* Mutant: the lock is not released on this path.
FailLocked(s) ==
    /\ pc[s] \in {"new kid", "new key"}
    /\ pc' = [pc EXCEPT ![s] = "failed"]
    /\ UNCHANGED <<rows, last, lock, kid, key, reader, admin, made>>

\* The database refuses; the deferred Unlock runs.
GenerateFails(s) ==
    /\ pc[s] \in {"new kid", "new key"}
    /\ pc' = [pc EXCEPT ![s] = "failed"]
    /\ lock' = [lock EXCEPT ![Instance[s]] = None]
    /\ UNCHANGED <<rows, last, kid, key, reader, admin, made>>

\* A process ends, and with it its goroutines and locks.
Crash(i) ==
    /\ \E s \in Signers : Instance[s] = i /\ pc[s] \notin {"signed", "failed"}
    /\ pc' = [s \in Signers |-> IF Instance[s] = i /\ pc[s] # "signed" THEN "failed" ELSE pc[s]]
    /\ lock' = [lock EXCEPT ![i] = None]
    /\ UNCHANGED <<rows, last, kid, key, reader, admin, made>>

(***************************************************************************)
(* discoverJsonWebKeys.                                                    *)
(***************************************************************************)
ReadSet(d) ==
    /\ reader[d] = "read"
    /\ reader' = [reader EXCEPT ![d] = IF rows = {} THEN "new set" ELSE "served"]
    /\ UNCHANGED <<rows, last, lock, pc, kid, key, admin, made>>

GenerateSet(d, at) ==
    /\ reader[d] = "new set"
    /\ rows' = rows \cup {NewRow(at)}
    /\ last' = last + 1
    /\ reader' = [reader EXCEPT ![d] = "served"]
    /\ UNCHANGED <<lock, pc, kid, key, admin, made>>

GenerateSetFails(d) ==
    /\ reader[d] = "new set"
    /\ reader' = [reader EXCEPT ![d] = "failed"]
    /\ UNCHANGED <<rows, last, lock, pc, kid, key, admin, made>>

(***************************************************************************)
(* Administrators.                                                         *)
(***************************************************************************)
\* Rows go, new ones come, in a transaction.
Change(gone, new) ==
    /\ changes < MaxChanges /\ changes' = changes + 1
    /\ rows' = (rows \ gone) \cup new
    /\ removed' = removed \cup Keys(gone)
    /\ made' = IF gone = {} THEN made ELSE [i \in Instances |-> {}]
    /\ UNCHANGED <<lock, pc, kid, key, reader>>

\* createJsonWebKeySet adds to the set, whatever is there.
CreateKeySet(at) == last' = last + 1 /\ Change({}, {NewRow(at)})

\* setJsonWebKeySet, UpdateKeySet: the key may be a public one.
SetKeySet(private, at) ==
    /\ last' = last + 1
    /\ Change(rows, {[NewRow(at) EXCEPT !.private = private]})

\* adminUpdateJsonWebKey, UpdateKey: in the place of the row with that kid, if any.
UpdateKey(k, private, at) ==
    /\ last' = last + 1
    /\ Change({r \in rows : r.kid = k},
              {[kid |-> k, key |-> last + 1, private |-> private, at |-> at]})

\* deleteJsonWebKey
DeleteKey(k) ==
    /\ \E r \in rows : r.kid = k
    /\ Change({r \in rows : r.kid = k}, {})
    /\ UNCHANGED last

\* adminDeleteJsonWebKeySet
DeleteKeySet == rows # {} /\ Change(rows, {}) /\ UNCHANGED last

Sign(s) == FindKey(s) \/ MissKey(s) \/ (\E at \in Times : GenerateKey(s, at)) \/ GenerateFails(s)

Discover(d) == ReadSet(d) \/ (\E at \in Times : GenerateSet(d, at)) \/ GenerateSetFails(d)

Administer ==
    \/ \E at \in Times : CreateKeySet(at)
    \/ \E private \in BOOLEAN, at \in Times : SetKeySet(private, at)
    \/ \E r \in rows, private \in BOOLEAN, at \in Times : UpdateKey(r.kid, private, at)
    \/ \E r \in rows : DeleteKey(r.kid)
    \/ DeleteKeySet

Next ==
    \/ \E s \in Signers : Sign(s)
    \/ \E d \in Readers : Discover(d)
    \/ \E i \in Instances : Crash(i)
    \/ Administer

Spec == Init /\ [][Next]_vars

\* Goroutines go on, and sync.RWMutex lets every waiting one in.
FairSpec == Spec /\ \A s \in Signers : WF_vars(Sign(s))

(***************************************************************************)
(* Properties.                                                             *)
(***************************************************************************)
\* The signers of one process generate one key between them, until an
\* administrator removes one: the lock covers looking and generating
\* (GetOrGenerateKeys).
OneKeyPerInstance == \A i \in Instances : \A k, l \in made[i] : k = l

\* What a JWT was signed with, and what its kid names, is published, unless an
\* administrator has taken it out (GenerateAndPersistKeySet before Generate).
SignedIsPublished ==
    \A s \in Signers :
        /\ key[s] # None => key[s] \in Keys(rows) \cup removed
        /\ kid[s] # None => kid[s] \in {r.kid : r \in rows} \cup removed

\* No two rows have the same kid (the unique index on sid, kid and nid, and
\* UpdateKey).
KidsDistinct == \A q, r \in rows : q.kid = r.kid => q = r

\* Every request for a key is answered, whoever fails while holding the lock.
EverySignerAnswered == \A s \in Signers : <>(pc[s] \in {"signed", "failed"})

\* "required for lookup on jwk endpoint": when a JWT is
\* signed, its kid is that of the key that signs it (GetPublicKeyID, Generate).
KidNamesKey ==
    [][\A s \in Signers : key'[s] # key[s] =>
          \E r \in rows' : r.kid = kid[s] /\ r.key = key'[s]]_vars

\* An inductive invariant.  Whoever generates a key holds the lock of its process,
\* which has generated none; a key once generated leaves a private key in the set.
Generating == {"new kid", "new key"}

LocksSound ==
    /\ \A s \in Signers : pc[s] \in Generating => lock[Instance[s]] = s
    /\ \A i \in Instances : lock[i] # None => Instance[lock[i]] = i /\ pc[lock[i]] \in Generating

MadeSound ==
    /\ \A s \in Signers : pc[s] \in Generating => made[Instance[s]] = {}
    /\ \A i \in Instances : made[i] # {} => \E r \in rows : r.private

RowsSound ==
    /\ \A r \in rows : r.kid \in 1 .. last /\ r.key \in 1 .. last
    /\ \A r \in rows : r.kid = r.key \/ r.kid \in removed
    /\ \A k \in removed : k \in 1 .. last

IndInv ==
    /\ TypeOK
    /\ LocksSound /\ MadeSound /\ RowsSound
    /\ OneKeyPerInstance /\ SignedIsPublished /\ KidsDistinct
=============================================================================
