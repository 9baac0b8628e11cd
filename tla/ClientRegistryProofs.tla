------------------------ MODULE ClientRegistryProofs -------------------------
(***************************************************************************)
(* Proofs about ClientRegistry, for every number of requests.              *)
(***************************************************************************)
EXTENDS ClientRegistry, TLAPS

LEMMA InitIndInv == Init => IndInv
  BY RegistryAssumption
     DEF Init, IndInv, TypeOK, Labels, Kinds, RequestSound, Fresh, SecretOf, TokenOf, ParSound,
         NoRetrySound, SecretReturnsStale, SecretSpoiltByRetry, TokenReturnsWithLifespans

\* What is in a client that a request has read or brought.
LEMMA Parts ==
  ASSUME NEW c \in Client \cup {None}
  PROVE  /\ SecretOf(c) \subseteq Secret /\ TokenOf(c) \subseteq Requests
         /\ c # None => /\ c \in Client /\ c.secret \in Secret \cup {None}
                        /\ c.token \in Requests \cup {None} /\ c.uris \in Requests
                        /\ c.secret # None => c.secret \in Secret /\ SecretOf(c) = {c.secret}
         /\ c = None => SecretOf(c) = {} /\ TokenOf(c) = {}
         /\ \A x \in Requests : x \in TokenOf(c) <=> c # None /\ c.token = x
  BY RegistryAssumption DEF Client, SecretOf, TokenOf

LEMMA HashParts ==
  ASSUME NEW x \in Secret
  PROVE  /\ Hash(x) \in Secret /\ Hash(x).of = x.of /\ Hash(x) # None
         /\ Hash(x).form = IF x.form = "plain" THEN "hash" ELSE "garbled"
  BY RegistryAssumption DEF Hash, Secret

LEMMA PlainParts ==
  ASSUME NEW u \in Requests
  PROVE  Plain(u) \in Secret /\ Plain(u).of = u /\ Plain(u).form = "plain" /\ Plain(u) # None
  BY RegistryAssumption DEF Plain, Secret

\* Begin: a request brings what is its own, or what is in the row.
LEMMA BeginStep ==
  ASSUME IndInv, NEW u \in Requests, NEW k \in Kinds, NEW c \in Client \cup {None},
         NEW at \in {"update", "delete", "push"},
         Begin(u, k, c, at), UNCHANGED <<isolation, now, tables, seen, retried>>,
         \A x \in SecretOf(c) : x.of = u \/ x \in SecretOf(row),
         TokenOf(c) \subseteq {u} \cup TokenOf(row),
         at = "update" =>
            c # None /\ c.secret \in {Plain(u), None} /\ (k # "lifespans" => c.token \in {u, None}),
         at = "push" => c # None
  PROVE  IndInv'
  <1>1. /\ pc[u] = "idle" /\ pc' = [pc EXCEPT ![u] = at]
        /\ kind' = [kind EXCEPT ![u] = k] /\ update' = [update EXCEPT ![u] = c]
        /\ UNCHANGED <<isolation, now, seen, row, par, oldSecrets, oldTokens, pushed, retried>>
    BY DEF Begin, tables
  <1>2. TypeOK'
    BY <1>1 DEF IndInv, TypeOK, Labels
  <1>3. pc'[u] = at /\ kind'[u] = k /\ update'[u] = c
    BY <1>1 DEF IndInv, TypeOK
  <1>4. \A v \in Requests \ {u} : pc'[v] = pc[v] /\ kind'[v] = kind[v] /\ update'[v] = update[v]
    BY <1>1 DEF IndInv, TypeOK
  <1>5. Fresh(u) /\ kind[u] = "none" /\ u \notin retried
    BY <1>1 DEF IndInv, RequestSound
  <1>6. Fresh(u)'
    BY <1>1, <1>4, <1>5 DEF Fresh, SecretOf, TokenOf
  <1>7. RequestSound(u)'
    BY <1>1, <1>3, <1>5, <1>6 DEF RequestSound, SecretSound, Plain
  <1>8. ASSUME NEW v \in Requests \ {u} PROVE RequestSound(v)'
    <2>1. RequestSound(v) /\ v # None
      BY RegistryAssumption DEF IndInv
    <2>2. ASSUME Fresh(v) PROVE Fresh(v)'
      <3>1. v \notin TokenOf(c) /\ \A x \in SecretOf(c) : x.of # v
        BY <2>1, <2>2 DEF Fresh
      <3>2. \A w \in Requests \ {v} :
               v \notin TokenOf(update'[w]) /\ \A x \in SecretOf(update'[w]) : x.of # v
        BY <1>3, <1>4, <2>2, <3>1 DEF Fresh
      <3> QED  BY <1>1, <2>2, <3>2 DEF Fresh, SecretOf, TokenOf
    <2> QED  BY <1>1, <1>4, <2>1, <2>2 DEF RequestSound, SecretSound, Plain
  <1>9. TokenReturnsWithLifespans' /\ SecretReturnsStale' /\ SecretSpoiltByRetry'
    <2>1. \A v \in Requests : pc[v] = "done" =>
            pc'[v] = "done" /\ kind'[v] = kind[v] /\ update'[v] = update[v]
      BY <1>1, <1>4
    <2>2. retried \subseteq Requests
      BY DEF IndInv, TypeOK
    <2>3. TokenReturnsWithLifespans' /\ SecretReturnsStale'
      BY <1>1, <2>1 DEF IndInv, TokenReturnsWithLifespans, SecretReturnsStale
    <2>4. SecretSpoiltByRetry'
      <3> SUFFICES ASSUME row # None, row.secret.form # "hash"
                   PROVE  \E v \in retried : /\ pc'[v] = "done" /\ update'[v] # None
                                             /\ row.secret = Hash(update'[v].secret)
        BY <1>1 DEF SecretSpoiltByRetry, Hash
      <3>1. PICK v \in retried : pc[v] = "done" /\ update[v] # None /\ row.secret = Hash(update[v].secret)
        BY DEF IndInv, SecretSpoiltByRetry
      <3> QED  BY <2>1, <2>2, <3>1
    <2> QED  BY <2>3, <2>4
  <1>10. NoRetrySound'
    BY <1>1 DEF IndInv, NoRetrySound
  <1> QED  BY <1>1, <1>2, <1>7, <1>8, <1>9, <1>10 DEF IndInv, ParSound

\* A request goes on by itself, and may read the row.
LEMMA MoveStep ==
  ASSUME IndInv, NEW u \in Requests, UNCHANGED <<isolation, now, row, oldSecrets, oldTokens, kind, update, retried>>,
         UNCHANGED <<par, pushed>>, NEW at \in {"write", "done"}, pc' = [pc EXCEPT ![u] = at],
         pc[u] # "done", at = "write" => pc[u] = "update",
         \/ UNCHANGED seen /\ at = "done"
         \/ row # None /\ seen' = [seen EXCEPT ![u] = row]
  PROVE  IndInv'
  <1>1. TypeOK'
    BY DEF IndInv, TypeOK, Labels
  <1>2. \A v \in Requests : seen'[v] \in {seen[v], row} /\ (v # u => seen'[v] = seen[v])
    BY DEF IndInv, TypeOK
  <1>3. ASSUME NEW v \in Requests, Fresh(v) PROVE Fresh(v)'
    BY <1>2, <1>3 DEF Fresh, SecretOf, TokenOf
  <1>4. pc'[u] = at /\ \A v \in Requests \ {u} : pc'[v] = pc[v]
    BY DEF IndInv, TypeOK
  <1>5. at = "write" => seen'[u] = row /\ row # None /\ row.secret # None /\ row.secret.form # "plain"
    BY DEF IndInv, TypeOK
  <1>6. RequestSound(u)'
    BY <1>3, <1>4, <1>5 DEF IndInv, RequestSound, SecretSound, Plain
  <1>7. ASSUME NEW v \in Requests \ {u} PROVE RequestSound(v)'
    BY <1>2, <1>3, <1>4 DEF IndInv, RequestSound, SecretSound, Plain
  <1>8. \A v \in Requests : pc[v] = "done" => pc'[v] = "done" /\ seen'[v] = seen[v]
    BY <1>2, <1>4
  <1>9. TokenReturnsWithLifespans' /\ SecretReturnsStale'
    BY <1>8 DEF IndInv, TokenReturnsWithLifespans, SecretReturnsStale
  <1>10. SecretSpoiltByRetry'
    BY <1>8 DEF IndInv, TypeOK, SecretSpoiltByRetry, Hash
  <1>11. NoRetrySound'
    BY <1>2 DEF IndInv, NoRetrySound
  <1> QED  BY <1>1, <1>6, <1>7, <1>9, <1>10, <1>11 DEF IndInv, ParSound

\* SetRow: a request ends with a row that holds nothing of the others.
LEMMA SetRowStep ==
  ASSUME IndInv, NEW u \in Requests, NEW r \in Client \cup {None}, SetRow(r),
         UNCHANGED <<isolation, now, seen, retried>>, pc' = [pc EXCEPT ![u] = "done"],
         kind' \in [Requests -> Kinds], update' \in [Requests -> Client \cup {None}],
         \A v \in Requests \ {u} : kind'[v] = kind[v] /\ update'[v] = update[v],
         update'[u] \in {update[u], None},
         pc[u] # "done",
         r # None => r.secret # None /\ r.secret.form # "plain",
         \A v \in Requests \ {u} :
            pc[v] \in {"idle", "update", "write"} =>
                v \notin TokenOf(r) /\ \A x \in SecretOf(r) : x.of # v,
         (r # None /\ r.secret.form = "hash" /\ r.secret \in oldSecrets) =>
            /\ isolation = "read_committed"
            /\ update'[u] # None /\ update'[u].secret = None
            /\ seen[u] # None /\ seen[u].secret = r.secret,
         (r # None /\ r.secret.form # "hash") =>
            /\ isolation = "serializable"
            /\ \/ row # None /\ row.secret = r.secret
               \/ u \in retried /\ update'[u] # None /\ r.secret = Hash(update'[u].secret),
         TokenOf(r) \cap oldTokens # {} =>
            kind'[u] = "lifespans" /\ update'[u] # None /\ update'[u].token = r.token
  PROVE  IndInv'
  <1>1. /\ row' = r /\ UNCHANGED <<par, pushed>>
        /\ oldSecrets' = oldSecrets \cup (SecretOf(row) \ SecretOf(r))
        /\ oldTokens' = oldTokens \cup (TokenOf(row) \ TokenOf(r))
    BY DEF SetRow
  <1>2. TypeOK'
    BY <1>1, Parts DEF IndInv, TypeOK, Labels
  <1>3. pc'[u] = "done" /\ \A v \in Requests \ {u} : pc'[v] = pc[v]
    BY DEF IndInv, TypeOK
  <1>4. RequestSound(u)'
    BY <1>3 DEF RequestSound
  <1>5. ASSUME NEW v \in Requests \ {u}, pc[v] \in {"idle", "update", "write"} PROVE Fresh(v)'
    <2>1. Fresh(v)
      BY <1>5 DEF IndInv, RequestSound
    <2>2. /\ v \notin TokenOf(row') \cup oldTokens'
          /\ \A x \in SecretOf(row') \cup oldSecrets' : x.of # v
      BY <1>1, <1>5, <2>1 DEF Fresh
    <2>3. \A w \in Requests \ {v} :
             v \notin TokenOf(update'[w]) /\ \A x \in SecretOf(update'[w]) : x.of # v
      <3>1. SecretOf(None) = {} /\ TokenOf(None) = {}
        BY DEF SecretOf, TokenOf
      <3> QED  BY <2>1, <3>1 DEF Fresh
    <2> QED  BY <2>1, <2>2, <2>3 DEF Fresh, SecretOf, TokenOf
  <1>6. ASSUME NEW v \in Requests \ {u} PROVE RequestSound(v)'
    BY <1>3, <1>5 DEF IndInv, RequestSound, SecretSound, Plain
  <1>7. SecretReturnsStale'
    <2> SUFFICES ASSUME r # None, r.secret.form = "hash", r.secret \in oldSecrets'
                 PROVE  /\ isolation = "read_committed"
                        /\ update'[u] # None /\ update'[u].secret = None
                        /\ seen[u] # None /\ seen[u].secret = r.secret
      BY <1>1, <1>3 DEF SecretReturnsStale
    <2>1. r.secret \in SecretOf(r)
      BY DEF SecretOf
    <2>2. r.secret \in oldSecrets
      BY <1>1, <2>1
    <2> QED  BY <2>2
  <1>8. SecretSpoiltByRetry'
    <2> SUFFICES ASSUME r # None, r.secret.form # "hash"
                 PROVE  \E v \in retried : /\ pc'[v] = "done" /\ update'[v] # None
                                           /\ r.secret = Hash(update'[v].secret)
      BY <1>1 DEF SecretSpoiltByRetry, Hash
    <2>1. CASE u \in retried /\ update'[u] # None /\ r.secret = Hash(update'[u].secret)
      BY <1>3, <2>1
    <2>2. CASE row # None /\ row.secret = r.secret
      <3>1. PICK v \in retried : pc[v] = "done" /\ update[v] # None /\ row.secret = Hash(update[v].secret)
        BY <2>2 DEF IndInv, SecretSpoiltByRetry
      <3>2. v \in Requests \ {u}
        BY <3>1 DEF IndInv, TypeOK
      <3> QED  BY <1>3, <2>2, <3>1, <3>2
    <2> QED  BY <2>1, <2>2
  <1>9. NoRetrySound'
    BY <1>1, RegistryAssumption DEF IndInv, NoRetrySound
  <1>10. TokenReturnsWithLifespans'
    <2> SUFFICES ASSUME r # None, r.token \in oldTokens'
                 PROVE  /\ kind'[u] = "lifespans"
                        /\ update'[u] # None /\ update'[u].token = r.token
      BY <1>1, <1>3 DEF TokenReturnsWithLifespans
    <2>1. r.token \in TokenOf(r)
      BY <1>2, RegistryAssumption DEF TokenOf, TypeOK
    <2>2. r.token \in oldTokens
      BY <1>1, <2>1
    <2> QED  BY <2>1, <2>2
  <1> QED  BY <1>1, <1>2, <1>4, <1>6, <1>7, <1>8, <1>9, <1>10 DEF IndInv, ParSound

\* The handlers that read the client, and have not written yet.
LEMMA HandlerStep ==
  ASSUME IndInv, NEW u \in Requests,
         \/ \E secret \in {Plain(u), None} : Set(u, secret)
         \/ \E secret \in {Plain(u), None}, own \in BOOLEAN : Patch(u, secret, own)
         \/ SetLifespans(u) \/ SetDynamic(u) \/ Delete(u) \/ Push(u)
  PROVE  IndInv'
  <1>1. row \in Client \cup {None}
    BY DEF IndInv, TypeOK
  <1>2. ASSUME NEW secret \in {Plain(u), None}, NEW token \in {u, None}, NEW uris \in Requests,
               NEW k \in Kinds \ {"lifespans"},
               Begin(u, k, [secret |-> secret, token |-> token, uris |-> uris], "update"),
               UNCHANGED <<isolation, now, tables, seen, retried>>
        PROVE  IndInv'
    <2> DEFINE c == [secret |-> secret, token |-> token, uris |-> uris]
    <2>1. c \in Client /\ c # None
      BY RegistryAssumption, PlainParts DEF Client
    <2>2. c.secret \in {Plain(u), None} /\ c.token \in {u, None}
      OBVIOUS
    <2>3. (\A x \in SecretOf(c) : x.of = u) /\ TokenOf(c) \subseteq {u}
      BY PlainParts DEF SecretOf, TokenOf
    <2> QED  BY <1>2, <2>1, <2>2, <2>3, BeginStep
  <1>3. ASSUME NEW secret \in {Plain(u), None}, Set(u, secret) PROVE IndInv'
    BY <1>2, <1>3 DEF Set, Kinds
  <1>4. ASSUME NEW secret \in {Plain(u), None}, NEW own \in BOOLEAN, Patch(u, secret, own) PROVE IndInv'
    <2>1. (IF own THEN u ELSE row.uris) \in Requests
      BY <1>1, <1>4 DEF Patch, Client
    <2> QED  BY <1>2, <1>4, <2>1 DEF Patch, Kinds
  <1>5. CASE SetDynamic(u)
    BY <1>2, <1>5 DEF SetDynamic, Kinds
  <1>6. CASE SetLifespans(u)
    <2> DEFINE c == [row EXCEPT !.secret = None]
    <2>1. row # None /\ Begin(u, "lifespans", c, "update") /\ UNCHANGED <<isolation, now, tables, seen, retried>>
      BY <1>6 DEF SetLifespans
    <2>2. c \in Client /\ c.secret = None /\ c.token = row.token
      BY <1>1, <2>1 DEF Client
    <2> HIDE DEF c
    <2>3. SecretOf(c) = {} /\ TokenOf(c) \subseteq TokenOf(row)
      BY <2>1, <2>2 DEF SecretOf, TokenOf
    <2> QED  BY <2>1, <2>2, <2>3, BeginStep, RegistryAssumption DEF Kinds
  <1>7. CASE Delete(u)
    <2>1. SecretOf(None) = {} /\ TokenOf(None) = {}
      BY DEF SecretOf, TokenOf
    <2> QED  BY <1>7, <2>1, BeginStep DEF Delete, Kinds
  <1>8. CASE Push(u)
    BY <1>1, <1>8, BeginStep DEF Push, Kinds
  <1> QED  BY <1>3, <1>4, <1>5, <1>6, <1>7, <1>8

LEMMA CreateStep ==
  ASSUME IndInv, NEW u \in Requests, Create(u)
  PROVE  IndInv'
  <1> DEFINE h == Hash(Plain(u))
             r == [secret |-> h, token |-> u, uris |-> u]
  <1>1. h \in Secret /\ h.of = u /\ h.form = "hash" /\ h # None
    BY PlainParts, HashParts
  <1> HIDE DEF h
  <1>2. r \in Client /\ SecretOf(r) = {h} /\ TokenOf(r) = {u} /\ r.secret = h /\ u # None
    BY <1>1, RegistryAssumption DEF Client, SecretOf, TokenOf
  <1>3. /\ SetRow(r) /\ UNCHANGED <<isolation, now, seen, retried>>
        /\ pc[u] = "idle" /\ pc' = [pc EXCEPT ![u] = "done"]
        /\ kind' = [kind EXCEPT ![u] = "create"] /\ update' = [update EXCEPT ![u] = None]
    BY DEF Create, Begin, h
  <1> HIDE DEF r
  <1>4. Fresh(u) /\ kind[u] = "none"
    BY <1>3 DEF IndInv, RequestSound
  <1>5. /\ kind' \in [Requests -> Kinds] /\ update' \in [Requests -> Client \cup {None}]
        /\ \A v \in Requests \ {u} : kind'[v] = kind[v] /\ update'[v] = update[v]
        /\ update'[u] = None
    BY <1>3 DEF IndInv, TypeOK, Kinds
  <1>6. h \notin oldSecrets /\ u \notin oldTokens
    BY <1>1, <1>4 DEF Fresh
  <1>7. /\ r.secret \notin oldSecrets /\ TokenOf(r) \cap oldTokens = {}
        /\ \A v \in Requests \ {u} : v \notin TokenOf(r) /\ \A x \in SecretOf(r) : x.of # v
    BY <1>1, <1>2, <1>6
  <1>8. r \in Client \cup {None} /\ r.secret # None /\ r.secret.form = "hash"
    BY <1>1, <1>2
  <1> QED  BY <1>3, <1>5, <1>7, <1>8, SetRowStep

LEMMA DeleteClientStep ==
  ASSUME IndInv, NEW u \in Requests, DeleteClient(u)
  PROVE  IndInv'
  <1>1. SecretOf(None) = {} /\ TokenOf(None) = {}
    BY DEF SecretOf, TokenOf
  <1>2. kind \in [Requests -> Kinds] /\ update \in [Requests -> Client \cup {None}]
    BY DEF IndInv, TypeOK
  <1>3. /\ SetRow(None) /\ UNCHANGED <<isolation, now, seen, retried>> /\ UNCHANGED kind /\ UNCHANGED update
        /\ pc[u] = "delete" /\ pc' = [pc EXCEPT ![u] = "done"]
    BY DEF DeleteClient
  <1>4. \E r \in {None} : r \in Client \cup {None} /\ SetRow(r) /\ r = None
    BY <1>3
  <1>5. PICK r \in Client \cup {None} : SetRow(r) /\ r = None
    BY <1>4
  <1>6. SecretOf(r) = {} /\ TokenOf(r) = {}
    BY <1>1, <1>5
  <1> QED  BY <1>2, <1>3, <1>5, <1>6, SetRowStep

\* What an attempt of UpdateClient makes of the client: the secret is the hash of
\* what came with the request, that of the row that was read, or the hash of a hash.
LEMMA WrittenParts ==
  ASSUME IndInv, NEW u \in Requests, pc[u] = "write"
  PROVE  /\ Fresh(u) /\ update[u] \in Client /\ seen[u] \in Client
         /\ kind[u] # "lifespans" => update[u].token \in {u, None}
         /\ Written(u) \in Client /\ Written(u) # None /\ Written(u).token = update[u].token
         /\ Written(u).secret \in Secret /\ Written(u).secret.form # "plain"
         /\ SecretOf(Written(u)) = {Written(u).secret} /\ TokenOf(Written(u)) = TokenOf(update[u])
         /\ \/ /\ update[u].secret = None /\ Written(u).secret = seen[u].secret
               /\ SecretOf(seen[u]) = {seen[u].secret}
            \/ /\ u \notin retried /\ Written(u).secret.of = u /\ Written(u).secret.form = "hash"
            \/ /\ u \in retried /\ update[u].secret \in Secret /\ SecretOf(update[u]) = {update[u].secret}
               /\ Written(u).secret = Hash(update[u].secret) /\ Written(u).secret.of = update[u].secret.of
               /\ Written(u).secret.form = "garbled"
  <1>1. RequestSound(u)
    BY DEF IndInv
  <1>2. /\ Fresh(u) /\ update[u] \in Client /\ seen[u] \in Client
        /\ kind[u] # "lifespans" => update[u].token \in {u, None}
        /\ seen[u].secret \in Secret /\ seen[u].secret.form # "plain" /\ SecretOf(seen[u]) = {seen[u].secret}
        /\ update[u].secret \in Secret \cup {None}
        /\ update[u].secret # None => SecretOf(update[u]) = {update[u].secret}
    BY <1>1, Parts DEF IndInv, TypeOK, RequestSound
  <1> DEFINE f == Filled(u)
  <1>3. Written(u) = [update[u] EXCEPT !.secret = f]
    BY DEF Written
  <1>4. \/ update[u].secret = None /\ f = seen[u].secret
        \/ u \notin retried /\ f = Hash(Plain(u))
        \/ u \in retried /\ update[u].secret # None /\ update[u].secret.form # "plain" /\ f = Hash(update[u].secret)
    BY <1>1, PlainParts DEF RequestSound, SecretSound, Filled
  <1> HIDE DEF f
  <1>5. f \in Secret /\ f.form # "plain"
    BY <1>2, <1>4, HashParts, PlainParts
  <1>6. /\ Written(u) \in Client /\ Written(u).secret = f /\ Written(u).token = update[u].token
    BY <1>2, <1>3, <1>5 DEF Client
  <1>7. Written(u) # None /\ f # None /\ update[u] # None
    BY <1>2, <1>5, <1>6, RegistryAssumption
  <1>8. SecretOf(Written(u)) = {f} /\ TokenOf(Written(u)) = TokenOf(update[u])
    BY <1>6, <1>7 DEF SecretOf, TokenOf
  <1>9. CASE u \notin retried /\ f = Hash(Plain(u))
    BY <1>2, <1>5, <1>6, <1>7, <1>8, <1>9, HashParts, PlainParts
  <1>10. CASE u \in retried /\ update[u].secret # None /\ update[u].secret.form # "plain" /\ f = Hash(update[u].secret)
    BY <1>2, <1>5, <1>6, <1>7, <1>8, <1>10, HashParts
  <1>11. CASE update[u].secret = None /\ f = seen[u].secret
    BY <1>2, <1>5, <1>6, <1>7, <1>8, <1>11
  <1> QED  BY <1>4, <1>9, <1>10, <1>11

\* Nothing in it belongs to another request that is under way.
LEMMA WrittenForeign ==
  ASSUME IndInv, NEW u \in Requests, pc[u] = "write", NEW v \in Requests \ {u}, Fresh(v)
  PROVE  v \notin TokenOf(Written(u)) /\ \A x \in SecretOf(Written(u)) : x.of # v
  <1>1. v \notin TokenOf(Written(u))
    BY WrittenParts DEF Fresh
  <1>2. Written(u).secret.of # v
    BY WrittenParts DEF Fresh
  <1> QED  BY <1>1, <1>2, WrittenParts

\* WriteClient: among serializable transactions a working secret is new or that of
\* the row; the token is new, unless the lifespans are set.
LEMMA WriteClientStep ==
  ASSUME IndInv, NEW u \in Requests, WriteClient(u)
  PROVE  IndInv'
  <1> DEFINE r == Written(u)
  <1>1. /\ pc[u] = "write" /\ row # None /\ (isolation = "serializable" => row = seen[u])
        /\ pc' = [pc EXCEPT ![u] = "done"] /\ SetRow(r)
        /\ UNCHANGED <<isolation, now, seen, retried>> /\ UNCHANGED <<kind, update>>
    BY DEF WriteClient, WriteRow
  <1>2. /\ r \in Client /\ r # None /\ r.secret \in Secret /\ r.secret # None /\ r.secret.form # "plain"
        /\ Fresh(u) /\ update[u] # None /\ seen[u] # None
    BY <1>1, WrittenParts, RegistryAssumption
  <1>3. ASSUME NEW v \in Requests \ {u}, pc[v] \in {"idle", "update", "write"}
        PROVE  v \notin TokenOf(r) /\ \A x \in SecretOf(r) : x.of # v
    <2>1. Fresh(v)
      BY <1>3 DEF IndInv, RequestSound
    <2> QED  BY <1>1, <2>1, WrittenForeign
  <1>4. ASSUME r.secret.form = "hash", r.secret \in oldSecrets
        PROVE  /\ isolation = "read_committed" /\ update[u].secret = None /\ seen[u].secret = r.secret
    <2>1. r.secret.of # u
      BY <1>2, <1>4 DEF Fresh
    <2>2. update[u].secret = None /\ r.secret = seen[u].secret
      BY <1>1, <1>4, <2>1, WrittenParts
    <2>3. isolation # "serializable"
      BY <1>1, <1>4, <2>2 DEF IndInv, SecretReturnsStale
    <2>4. isolation = "read_committed"
      BY <2>3, RegistryAssumption DEF IndInv, TypeOK
    <2> QED  BY <2>2, <2>4
  <1>5. ASSUME r.secret.form # "hash"
        PROVE  /\ isolation = "serializable"
               /\ \/ row # None /\ row.secret = r.secret
                  \/ u \in retried /\ update[u] # None /\ r.secret = Hash(update[u].secret)
    <2>1. \/ r.secret = seen[u].secret
          \/ u \in retried /\ r.secret = Hash(update[u].secret)
      BY <1>1, <1>5, WrittenParts
    <2>2. isolation # "read_committed"
      BY <1>2, <1>5, <2>1 DEF IndInv, NoRetrySound
    <2>3. isolation = "serializable"
      BY <2>2, RegistryAssumption DEF IndInv, TypeOK
    <2> QED  BY <1>1, <1>2, <2>1, <2>3
  <1>6. ASSUME TokenOf(r) \cap oldTokens # {}
        PROVE  kind[u] = "lifespans" /\ update[u] # None /\ update[u].token = r.token
    <2>1. kind[u] # "lifespans" => TokenOf(r) \subseteq {u}
      BY <1>1, <1>2, WrittenParts DEF TokenOf
    <2>2. u \notin oldTokens
      BY <1>2 DEF Fresh
    <2> QED  BY <1>1, <1>2, <1>6, <2>1, <2>2, WrittenParts
  <1>7. kind \in [Requests -> Kinds] /\ update \in [Requests -> Client \cup {None}]
    BY DEF IndInv, TypeOK
  <1> HIDE DEF r
  <1> QED  BY <1>1, <1>2, <1>3, <1>4, <1>5, <1>6, <1>7, SetRowStep

\* Retry: the database is as it was, the payload holds a hash now.
LEMMA RetryStep ==
  ASSUME IndInv, NEW u \in Requests, Retry(u)
  PROVE  IndInv'
  <1>1. /\ pc[u] = "write" /\ isolation = "serializable" /\ pc' = [pc EXCEPT ![u] = "update"]
        /\ update' = [update EXCEPT ![u] = Written(u)] /\ seen' = [seen EXCEPT ![u] = None]
        /\ retried' = retried \cup {u}
        /\ UNCHANGED <<isolation, now, row, par, oldSecrets, oldTokens, pushed, kind>>
    BY DEF Retry, tables
  <1>2. /\ Written(u) \in Client /\ Written(u) # None /\ Written(u).secret # None
        /\ Written(u).secret.form # "plain" /\ Written(u).token = update[u].token
        /\ kind[u] # "lifespans" => update[u].token \in {u, None}
    BY <1>1, WrittenParts, RegistryAssumption
  <1>3. TypeOK'
    BY <1>1, <1>2 DEF IndInv, TypeOK, Labels
  <1>4. pc'[u] = "update" /\ update'[u] = Written(u) /\ seen'[u] = None
    BY <1>1 DEF IndInv, TypeOK
  <1>5. \A v \in Requests \ {u} : pc'[v] = pc[v] /\ update'[v] = update[v] /\ seen'[v] = seen[v]
    BY <1>1 DEF IndInv, TypeOK
  <1>6. ASSUME NEW v \in Requests, Fresh(v) PROVE Fresh(v)'
    <2>1. \A w \in Requests \ {v} :
             v \notin TokenOf(update'[w]) /\ \A x \in SecretOf(update'[w]) : x.of # v
      BY <1>1, <1>4, <1>5, <1>6, WrittenForeign DEF Fresh
    <2>2. SecretOf(None) = {}
      BY DEF SecretOf
    <2>3. \A w \in Requests : \A x \in SecretOf(seen'[w]) : x.of # v
      BY <1>4, <1>5, <1>6, <2>2 DEF Fresh
    <2> QED  BY <1>1, <1>6, <2>1, <2>3 DEF Fresh, SecretOf, TokenOf
  <1>7. RequestSound(u)'
    BY <1>1, <1>2, <1>4, <1>6 DEF IndInv, RequestSound, SecretSound
  <1>8. ASSUME NEW v \in Requests \ {u} PROVE RequestSound(v)'
    BY <1>1, <1>5, <1>6 DEF IndInv, RequestSound, SecretSound, Plain
  <1>9. \A v \in Requests : pc[v] = "done" => pc'[v] = "done" /\ update'[v] = update[v] /\ seen'[v] = seen[v]
    BY <1>1, <1>5
  <1>10. TokenReturnsWithLifespans' /\ SecretReturnsStale'
    BY <1>1, <1>9 DEF IndInv, TokenReturnsWithLifespans, SecretReturnsStale
  <1>11. SecretSpoiltByRetry'
    BY <1>1, <1>9 DEF IndInv, TypeOK, SecretSpoiltByRetry, Hash
  <1>12. NoRetrySound'
    BY <1>1 DEF NoRetrySound
  <1> QED  BY <1>1, <1>3, <1>7, <1>8, <1>10, <1>11, <1>12 DEF IndInv, ParSound

LEMMA ReadRefuseStep ==
  ASSUME IndInv, NEW u \in Requests, ReadClient(u) \/ Refuse(u)
  PROVE  IndInv'
  <1>1. CASE ReadClient(u)
    BY <1>1, MoveStep DEF ReadClient, tables
  <1>2. CASE Refuse(u)
    BY <1>2, MoveStep DEF Refuse, tables
  <1> QED  BY <1>1, <1>2

\* Pushed requests, their expiry and the janitor touch no client.
LEMMA ParStep ==
  ASSUME IndInv,
         UNCHANGED <<isolation, row, oldSecrets, oldTokens, kind, update, seen, retried>>,
         TypeOK', ParSound',
         \/ UNCHANGED pc
         \/ \E u \in Requests : pc' = [pc EXCEPT ![u] = "done"]
  PROVE  IndInv'
  <1>1. \A v \in Requests : pc'[v] \in {pc[v], "done"}
    BY DEF IndInv, TypeOK
  <1>2. ASSUME NEW v \in Requests PROVE RequestSound(v)'
    <2>1. RequestSound(v)
      BY DEF IndInv
    <2>2. Fresh(v) => Fresh(v)'
      BY DEF Fresh, SecretOf, TokenOf
    <2> QED  BY <1>1, <2>1, <2>2 DEF RequestSound, SecretSound, Plain
  <1>3. TokenReturnsWithLifespans' /\ SecretReturnsStale'
    BY <1>1 DEF IndInv, TokenReturnsWithLifespans, SecretReturnsStale
  <1>4. SecretSpoiltByRetry' /\ NoRetrySound'
    BY <1>1 DEF IndInv, TypeOK, SecretSpoiltByRetry, NoRetrySound, Hash
  <1> QED  BY <1>2, <1>3, <1>4 DEF IndInv

LEMMA CreatePARStep ==
  ASSUME IndInv, NEW u \in Requests, CreatePARSession(u)
  PROVE  IndInv'
  <1> DEFINE s == [by |-> u, uris |-> update[u].uris, exp |-> now + Lifespan]
  <1>1. /\ pc[u] = "push" /\ pc' = [pc EXCEPT ![u] = "done"]
        /\ par' = par \cup {s} /\ pushed' = pushed \cup {s}
        /\ UNCHANGED <<isolation, now, row, oldSecrets, oldTokens, kind, update, seen, retried>>
    BY DEF CreatePARSession
  <1>2. update[u] \in Client /\ now \in Nat
    BY <1>1, RegistryAssumption DEF IndInv, TypeOK, RequestSound
  <1>3. s \in Pushed
    BY <1>2, RegistryAssumption DEF Pushed, Client
  <1> HIDE DEF s
  <1>4. TypeOK'
    BY <1>1, <1>3 DEF IndInv, TypeOK, Labels
  <1>5. ParSound'
    BY <1>1 DEF IndInv, ParSound
  <1> QED  BY <1>1, <1>4, <1>5, ParStep

LEMMA TimeStep ==
  ASSUME IndInv, Tick \/ \E notAfter \in 0 .. MaxTime + Lifespan + 1 : FlushPAR(notAfter)
  PROVE  IndInv'
  <1>1. now \in 0 .. MaxTime /\ now \in Nat /\ \A s \in pushed : s.exp \in Nat
    BY RegistryAssumption DEF IndInv, TypeOK, Pushed
  <1>2. CASE Tick
    <2>1. TypeOK'
      BY <1>1, <1>2, RegistryAssumption DEF Tick, tables, IndInv, TypeOK
    <2>2. ParSound'
      BY <1>1, <1>2 DEF Tick, tables, IndInv, ParSound
    <2> QED  BY <1>2, <2>1, <2>2, ParStep DEF Tick, tables
  <1>3. ASSUME NEW notAfter \in 0 .. MaxTime + Lifespan + 1, FlushPAR(notAfter) PROVE IndInv'
    <2>1. notAfter \in Nat
      BY RegistryAssumption
    <2>2. TypeOK'
      BY <1>3 DEF FlushPAR, IndInv, TypeOK
    <2>3. ParSound'
      BY <1>1, <1>3, <2>1 DEF FlushPAR, IndInv, ParSound
    <2> QED  BY <1>3, <2>2, <2>3, ParStep DEF FlushPAR
  <1> QED  BY <1>2, <1>3

LEMMA NextIndInv == IndInv /\ [Next]_vars => IndInv'
  <1> SUFFICES ASSUME IndInv, [Next]_vars PROVE IndInv'
    OBVIOUS
  <1>1. CASE UNCHANGED vars
    BY <1>1 DEF vars, tables, IndInv, TypeOK, RequestSound, Fresh, SecretOf, TokenOf, SecretSound, Plain,
                ParSound, NoRetrySound, SecretReturnsStale, SecretSpoiltByRetry, Hash,
                TokenReturnsWithLifespans
  <1> QED  BY <1>1, HandlerStep, CreateStep, DeleteClientStep, WriteClientStep, RetryStep,
              ReadRefuseStep, CreatePARStep, TimeStep DEF Next

\* The invariant of the registry: what a request brings, a secret or a registration
\* access token, is new until it is written, and an update that runs again works on
\* the hash that its earlier attempt has left (the handlers of client/handler.go,
\* UpdateClient).
THEOREM Invariance == Spec => []IndInv
  BY InitIndInv, NextIndInv, PTL DEF Spec

\* Among serializable transactions a secret that was replaced never works again,
\* although they are retried, and among others only by an update without a secret that had read it before it
\* was replaced (UpdateClient).
THEOREM SecretReturnsStaleTheorem == Spec => []SecretReturnsStale
  <1>1. IndInv => SecretReturnsStale
    BY DEF IndInv
  <1> QED  BY <1>1, Invariance, PTL

\* A client gets a secret that nobody knows only from an update that was retried, as
\* the hash of the hash which the earlier attempt has left (UpdateClient,
\* popx.Transaction).
THEOREM SecretSpoiltByRetryTheorem == Spec => []SecretSpoiltByRetry
  <1>1. IndInv => SecretSpoiltByRetry
    BY DEF IndInv
  <1> QED  BY <1>1, Invariance, PTL

\* A registration access token that was replaced comes back only with an update of
\* the lifespans that had read it (setOAuth2ClientLifespans).
THEOREM TokenReturnsWithLifespansTheorem == Spec => []TokenReturnsWithLifespans
  <1>1. IndInv => TokenReturnsWithLifespans
    BY DEF IndInv
  <1> QED  BY <1>1, Invariance, PTL

\* A pushed request resolves until it expires, as long as there is the client,
\* whatever the janitor is told (FlushInactivePARSessions).
THEOREM LiveRequestResolvesTheorem == Spec => []LiveRequestResolves
  <1>1. IndInv => LiveRequestResolves
    BY DEF IndInv, ParSound, LiveRequestResolves, Resolves
  <1> QED  BY <1>1, Invariance, PTL

\* An update under way does not bring a deleted client back (UpdateClient).
THEOREM DeletedStaysDeletedTheorem == Spec => DeletedStaysDeleted
  <1> DEFINE A == (row = None /\ row' # None) =>
                      \E u \in Requests : pc[u] = "idle" /\ kind'[u] = "create"
  <1>1. IndInv /\ [Next]_vars => A
    <2> SUFFICES ASSUME IndInv, [Next]_vars, row = None, row' # None
                 PROVE  \E u \in Requests : pc[u] = "idle" /\ kind'[u] = "create"
      OBVIOUS
    <2>1. \A u \in Requests : ~WriteClient(u) /\ ~DeleteClient(u)
      BY DEF WriteClient, WriteRow, DeleteClient, SetRow
    <2>2. PICK u \in Requests : Create(u)
      BY <2>1 DEF Next, vars, tables, Tick, FlushPAR, Set, Patch, SetLifespans, SetDynamic, Delete,
                  ReadClient, Retry, Refuse, Push, CreatePARSession
    <2>3. pc[u] = "idle" /\ kind' = [kind EXCEPT ![u] = "create"]
      BY <2>2 DEF Create, Begin
    <2> QED  BY <2>3 DEF IndInv, TypeOK
  <1> QED  BY <1>1, Invariance, PTL DEF Spec, DeletedStaysDeleted
=============================================================================
