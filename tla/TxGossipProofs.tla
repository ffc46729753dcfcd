--------------------------- MODULE TxGossipProofs ---------------------------
(***************************************************************************)
(* What comes of signed transactions, for any number of calls, clients,    *)
(* keys and attempts, any sizes of the tables and any losses: the messages *)
(* of a call are executed once at most, and what a call is told is so as   *)
(* long as the processor remembers what failed, which it does where its    *)
(* table has room for all that calls may sign.                             *)
(***************************************************************************)
EXTENDS TxGossip, FiniteSetTheorems, SequenceTheorems, TLAPS

USE TxGossipAssumption

-----------------------------------------------------------------------------
\* The mempool's table.

Entry == [tx : Tx, gossiped : BOOLEAN]

\* A transaction is in the table once.
Unique(q) == \A i, j \in DOMAIN q : q[i].tx = q[j].tx => i = j

LEMMA RemoveAtIs ==
  ASSUME NEW S, NEW q \in Seq(S), NEW i \in 1..Len(q)
  PROVE  /\ RemoveAt(q, i) \in Seq(S) /\ Len(RemoveAt(q, i)) = Len(q) - 1
         /\ \A k \in 1..(Len(q) - 1) : RemoveAt(q, i)[k] = q[IF k < i THEN k ELSE k + 1]
<1>1. Len(q) \in Nat /\ i \in Nat /\ 1 <= i /\ i <= Len(q)
  OBVIOUS
<1>2. PICK a, b : a = SubSeq(q, 1, i - 1) /\ b = SubSeq(q, i + 1, Len(q))
  OBVIOUS
<1>3. \A k \in 1..Len(q) : q[k] \in S
  BY ElementOfSeq
<1>4. /\ a \in Seq(S) /\ Len(a) = i - 1
      /\ \A k \in 1..(i - 1) : a[k] = q[k]
  <2>1. CASE 1 <= i - 1
    <3>1. \A k \in 1..(i - 1) : q[k] \in S
      BY <1>1, <1>3
    <3>2. /\ SubSeq(q, 1, i - 1) \in Seq(S) /\ Len(SubSeq(q, 1, i - 1)) = i - 1 - 1 + 1
          /\ \A k \in 1..(i - 1 - 1 + 1) : SubSeq(q, 1, i - 1)[k] = q[1 + k - 1]
      BY <1>1, <2>1, <3>1, SubSeqProperties
    <3> QED
      BY <1>1, <1>2, <3>2
  <2>2. CASE ~(1 <= i - 1)
    <3>1. i - 1 = 0 /\ a = << >>
      BY <1>1, <1>2, <2>2
    <3> QED
      BY <3>1
  <2> QED
    BY <2>1, <2>2
<1>5. /\ b \in Seq(S) /\ Len(b) = Len(q) - i
      /\ \A k \in 1..(Len(q) - i) : b[k] = q[i + k]
  <2>1. CASE i + 1 <= Len(q)
    <3>1. \A k \in (i + 1)..Len(q) : q[k] \in S
      BY <1>1, <1>3
    <3>2. /\ SubSeq(q, i + 1, Len(q)) \in Seq(S)
          /\ Len(SubSeq(q, i + 1, Len(q))) = Len(q) - (i + 1) + 1
          /\ \A k \in 1..(Len(q) - (i + 1) + 1) : SubSeq(q, i + 1, Len(q))[k] = q[i + 1 + k - 1]
      BY <1>1, <2>1, <3>1, SubSeqProperties
    <3>3. ASSUME NEW k \in 1..(Len(q) - i) PROVE b[k] = q[i + k]
      <4>1. k \in 1..(Len(q) - (i + 1) + 1) /\ i + 1 + k - 1 = i + k
        BY <1>1
      <4> QED
        BY <1>2, <3>2, <4>1
    <3> QED
      BY <1>1, <1>2, <3>2, <3>3
  <2>2. CASE ~(i + 1 <= Len(q))
    <3>1. i = Len(q) /\ b = << >>
      BY <1>1, <1>2, <2>2
    <3> QED
      BY <3>1
  <2> QED
    BY <2>1, <2>2
<1>6. /\ a \o b \in Seq(S) /\ Len(a \o b) = Len(a) + Len(b)
      /\ \A k \in 1..(Len(a) + Len(b)) :
           (a \o b)[k] = IF k <= Len(a) THEN a[k] ELSE b[k - Len(a)]
  <2>1. a \in Seq(S) /\ b \in Seq(S)
    BY <1>4, <1>5
  <2> QED
    BY <2>1, ConcatProperties
<1>7. RemoveAt(q, i) = a \o b
  BY <1>2 DEF RemoveAt
<1>8. ASSUME NEW k \in 1..(Len(q) - 1)
      PROVE  (a \o b)[k] = q[IF k < i THEN k ELSE k + 1]
  <2>1. CASE k < i
    BY <1>1, <1>4, <1>5, <1>6, <2>1
  <2>2. CASE ~(k < i)
    <3>1. PICK p \in Int : p = k - Len(a)
      BY <1>1, <1>4
    <3>2. p \in 1..(Len(q) - i) /\ i + p = k + 1
      BY <1>1, <1>4, <2>2, <3>1
    <3>3. b[p] = q[k + 1]
      BY <1>5, <3>2
    <3> QED
      BY <1>1, <1>4, <1>5, <1>6, <2>2, <3>1, <3>3
  <2> QED
    BY <2>1, <2>2
<1>9. Len(a) + Len(b) = Len(q) - 1
  BY <1>1, <1>4, <1>5
<1> QED
  BY <1>6, <1>7, <1>8, <1>9

LEMMA WithoutIs ==
  ASSUME NEW q \in Seq(Entry), Unique(q), NEW t
  PROVE  /\ Without(q, t) \in Seq(Entry) /\ Unique(Without(q, t))
         /\ Txs(Without(q, t)) = Txs(q) \ {t}
<1>1. CASE t \notin Txs(q)
  BY <1>1 DEF Without
<1>2. CASE t \in Txs(q)
  <2>1. DOMAIN q = 1..Len(q) /\ Len(q) \in Nat
    OBVIOUS
  <2>2. PICK i \in 1..Len(q) : q[i].tx = t /\ Without(q, t) = RemoveAt(q, i)
    BY <1>2, <2>1 DEF Without, Txs
  <2>3. PICK r : r = RemoveAt(q, i)
    OBVIOUS
  <2>4. /\ r \in Seq(Entry) /\ Len(r) = Len(q) - 1 /\ DOMAIN r = 1..(Len(q) - 1)
        /\ \A k \in 1..(Len(q) - 1) : r[k] = q[IF k < i THEN k ELSE k + 1]
    BY <2>3, RemoveAtIs
  <2>5. \A k \in 1..(Len(q) - 1) : (IF k < i THEN k ELSE k + 1) \in 1..Len(q)
    BY <2>1
  <2>6. ASSUME NEW j \in 1..(Len(q) - 1), NEW l \in 1..(Len(q) - 1), r[j].tx = r[l].tx
        PROVE  j = l
    <3>1. PICK m \in 1..Len(q) : m = (IF j < i THEN j ELSE j + 1) /\ r[j] = q[m]
      BY <2>4, <2>5
    <3>2. PICK n \in 1..Len(q) : n = (IF l < i THEN l ELSE l + 1) /\ r[l] = q[n]
      BY <2>4, <2>5
    <3>3. m = n
      BY <2>1, <2>6, <3>1, <3>2 DEF Unique
    <3> QED
      BY <2>1, <3>1, <3>2, <3>3
  <2>7. \A k \in 1..(Len(q) - 1) : r[k].tx \in Txs(q) \ {t}
    <3>1. ASSUME NEW k \in 1..(Len(q) - 1) PROVE r[k].tx \in Txs(q) \ {t}
      <4>1. PICK p \in 1..Len(q) : p = (IF k < i THEN k ELSE k + 1)
        BY <2>5
      <4>2. p # i
        BY <2>1, <4>1
      <4>3. r[k] = q[p]
        BY <2>4, <4>1
      <4>4. q[p].tx # q[i].tx
        BY <2>1, <4>2 DEF Unique
      <4> QED
        BY <2>1, <2>2, <4>3, <4>4 DEF Txs
    <3> QED
      BY <3>1
  <2>8. \A j \in 1..Len(q) : q[j].tx # t => q[j].tx \in Txs(r)
    <3>1. ASSUME NEW j \in 1..Len(q), q[j].tx # t PROVE q[j].tx \in Txs(r)
      <4>1. j # i
        BY <2>2, <3>1
      <4>2. PICK k \in 1..(Len(q) - 1) : j = IF k < i THEN k ELSE k + 1
        <5>1. CASE j < i
          <6>1. j \in 1..(Len(q) - 1)
            BY <2>1, <5>1
          <6> QED
            BY <5>1, <6>1
        <5>2. CASE ~(j < i)
          <6>1. PICK p \in Int : p = j - 1
            BY <2>1
          <6>2. p \in 1..(Len(q) - 1) /\ ~(p < i) /\ j = p + 1
            BY <2>1, <4>1, <5>2, <6>1
          <6> QED
            BY <6>2
        <5> QED
          BY <5>1, <5>2
      <4> QED
        BY <2>4, <4>2 DEF Txs
    <3> QED
      BY <3>1
  <2>9. Txs(r) = Txs(q) \ {t}
    <3>1. \A x : x \in Txs(r) <=> \E k \in 1..(Len(q) - 1) : x = r[k].tx
      BY <2>4 DEF Txs
    <3>2. \A x : x \in Txs(q) <=> \E k \in 1..Len(q) : x = q[k].tx
      BY <2>1 DEF Txs
    <3>3. ASSUME NEW x, x \in Txs(r) PROVE x \in Txs(q) \ {t}
      BY <2>7, <3>1, <3>3
    <3>4. ASSUME NEW x, x \in Txs(q), x # t PROVE x \in Txs(r)
      BY <2>8, <3>2, <3>4
    <3> QED
      BY <2>7, <3>1, <3>3, <3>4
  <2> QED
    BY <2>2, <2>3, <2>4, <2>6, <2>9 DEF Unique
<1> QED
  BY <1>1, <1>2

LEMMA PutIs ==
  ASSUME NEW q \in Seq(Entry), Unique(q), NEW e \in Entry, e.tx \notin Txs(q)
  PROVE  /\ Put(q, e) \in Seq(Entry) /\ Unique(Put(q, e))
         /\ Txs(Put(q, e)) \subseteq Txs(q) \cup {e.tx}
<1>1. PICK r : r = Append(q, e)
  OBVIOUS
<1>2. /\ r \in Seq(Entry) /\ Len(r) = Len(q) + 1 /\ Len(q) \in Nat
      /\ \A i \in 1..Len(q) : r[i] = q[i]
      /\ r[Len(q) + 1] = e /\ DOMAIN r = 1..(Len(q) + 1) /\ DOMAIN q = 1..Len(q)
  BY <1>1, AppendProperties
<1>3. \A i \in 1..(Len(q) + 1) : i \in 1..Len(q) \/ i = Len(q) + 1
  BY <1>2
<1>4. Unique(r) /\ Txs(r) \subseteq Txs(q) \cup {e.tx}
  BY <1>2, <1>3 DEF Unique, Txs
<1>5. CASE Len(r) > PoolCap
  <2>1. PICK s : s = Tail(r)
    OBVIOUS
  <2>2. s \in Seq(Entry) /\ DOMAIN s = 1..Len(q) /\ \A i \in 1..Len(q) : s[i] = r[i + 1]
    <3>1. r # << >>
      BY <1>2
    <3>2. Len(r) - 1 = Len(q)
      BY <1>2
    <3> QED
      BY <1>2, <2>1, <3>1, <3>2, HeadTailProperties
  <2>3. \A i \in 1..Len(q) : i + 1 \in DOMAIN r
    BY <1>2
  <2>4. ASSUME NEW i \in 1..Len(q), NEW j \in 1..Len(q), s[i].tx = s[j].tx
        PROVE  i = j
    <3>1. i + 1 \in DOMAIN r /\ j + 1 \in DOMAIN r /\ r[i + 1].tx = r[j + 1].tx
      BY <2>2, <2>3, <2>4
    <3>2. i + 1 = j + 1
      BY <1>4, <3>1 DEF Unique
    <3> QED
      BY <3>2
  <2>5. ASSUME NEW i \in 1..Len(q) PROVE s[i].tx \in Txs(r)
    BY <2>2, <2>3 DEF Txs
  <2>6. Unique(s)
    BY <2>2, <2>4 DEF Unique
  <2>7. Txs(s) \subseteq Txs(r)
    BY <2>2, <2>5 DEF Txs
  <2> QED
    BY <1>1, <1>4, <1>5, <2>1, <2>2, <2>6, <2>7 DEF Put
<1>6. CASE ~(Len(r) > PoolCap)
  BY <1>1, <1>2, <1>4, <1>6 DEF Put
<1> QED
  BY <1>5, <1>6

\* What marking makes of a table: the same transactions in another order.
Reorders(q, T, was, r) ==
  /\ was \in [DOMAIN q -> DOMAIN q]
  /\ \A i, j \in DOMAIN q : i < j => Ahead(q, T, was[i], was[j])
  /\ r \in [DOMAIN q -> Entry] /\ \A i \in DOMAIN q : r[i].tx = q[was[i]].tx

LEMMA MarkedIs ==
  ASSUME NEW q \in Seq(Entry), Unique(q), NEW T, NEW was, NEW r, Reorders(q, T, was, r)
  PROVE  r \in Seq(Entry) /\ Unique(r) /\ Txs(r) \subseteq Txs(q)
<1>0. /\ was \in [DOMAIN q -> DOMAIN q]
      /\ \A i, j \in DOMAIN q : i < j => Ahead(q, T, was[i], was[j])
      /\ r \in [DOMAIN q -> Entry] /\ \A i \in DOMAIN q : r[i].tx = q[was[i]].tx
  BY DEF Reorders
<1>1. DOMAIN q = 1..Len(q) /\ Len(q) \in Nat
  OBVIOUS
<1>2. \A i \in 1..Len(q) : was[i] \in 1..Len(q) /\ q[was[i]] \in Entry
  BY <1>0, <1>1, ElementOfSeq
<1>3. DOMAIN r = 1..Len(q) /\ \A i \in 1..Len(q) : r[i].tx = q[was[i]].tx
  BY <1>0, <1>1
<1>4. \A i \in 1..Len(q) : r[i] \in Entry
  BY <1>0, <1>1
<1>5. r \in Seq(Entry)
  <2>1. r = [i \in 1..Len(q) |-> r[i]]
    BY <1>0, <1>1
  <2> QED
    BY <1>0, <1>1, <1>4, <2>1, IsASeq
<1>6. ASSUME NEW i \in 1..Len(q), NEW j \in 1..Len(q), i < j PROVE r[i].tx # r[j].tx
  <2>1. Ahead(q, T, was[i], was[j])
    BY <1>0, <1>1, <1>6
  <2>2. was[i] # was[j]
    BY <1>2, <2>1 DEF Ahead
  <2>3. PICK k \in 1..Len(q), l \in 1..Len(q) : k = was[i] /\ l = was[j]
    BY <1>2
  <2>4. q[k].tx # q[l].tx
    BY <1>1, <2>2, <2>3 DEF Unique
  <2> QED
    BY <1>3, <2>3, <2>4
<1>7. Unique(r)
  BY <1>0, <1>1, <1>3, <1>6 DEF Unique
<1>8. Txs(r) \subseteq Txs(q)
  BY <1>0, <1>1, <1>2, <1>3 DEF Txs
<1> QED
  BY <1>5, <1>7, <1>8

-----------------------------------------------------------------------------
\* The invariant.

Reason == Landed \cup Failed
Rumour == [tx : Tx, reason : Reason]
Body == [kind : {"tx"}, tx : Tx] \cup [kind : {"news"}, tx : Tx, reason : Reason]

CallRecord ==
  [pc : {"new", "proposes", "waits", "landed", "failed"}, attempt : Nat, nonce : Nat]

TypeOK ==
  /\ chain \in Seq(Tx) /\ nonces \in [Key -> Nat]
  /\ height \in [Node -> Nat] /\ seen \in [Node -> [Key -> Nat]] /\ adding \subseteq Node
  /\ up \subseteq Client
  /\ call \in [Call -> CallRecord]

TablesTypeOK ==
  /\ pool \in [Node -> Seq(Entry)]
  /\ blocked \in [Node -> SUBSET Rumour]
  /\ net \subseteq [from : Node, to : Node, body : Body]

\* A transaction is in a mempool once, and not when it is known to be settled.
TablesClean ==
  \A n \in Node : Unique(pool[n]) /\ Known(n) \cap Txs(pool[n]) = {}

\* What is in a mempool or on its way to one, and what is said of transactions.
Offered(t) ==
  \/ \E n \in Node : t \in Txs(pool[n])
  \/ \E m \in net : t = m.body.tx
Rumoured(r) ==
  \/ \E n \in Node : r \in blocked[n]
  \/ \E m \in net : m.body.kind = "news" /\ r = [tx |-> m.body.tx, reason |-> m.body.reason]

\* A call has signed it, and has not gone back to a lower nonce since.
Signed(t) ==
  /\ t \in Tx
  /\ call[t.call].pc # "new" /\ t.nonce <= call[t.call].nonce

\* What is said was so: it has landed, or has not while a higher nonce was expected,
\* from which on it never can.
Told(r) ==
  \/ r.reason = IsLanded /\ r.tx \in Range(chain)
  \/ /\ r.reason \in Failed /\ r.reason.expected <= nonces[KeyFor(r.tx)]
     /\ r.tx.nonce < r.reason.expected => r.tx \notin Range(chain)

RumoursTrue ==
  /\ \A t : Offered(t) => Signed(t)
  /\ \A r : Rumoured(r) => Signed(r.tx) /\ Told(r)

\* What has landed is what its call signed last, and nonces are beyond it.  Nodes have
\* states of this chain.
ChainOK ==
  /\ \A j \in DOMAIN chain :
       /\ call[chain[j].call].pc # "new" /\ chain[j].nonce = call[chain[j].call].nonce
       /\ chain[j].nonce < nonces[KeyFor(chain[j])]
  /\ \A j, l \in DOMAIN chain : chain[j] = chain[l] => j = l
  /\ \A n \in Node :
       /\ height[n] <= Len(chain) /\ (n \in adding => height[n] < Len(chain))
       /\ \A k \in Key : seen[n][k] <= nonces[k]

CallsOK ==
  \A i \in Call :
    /\ call[i].pc # "new" => call[i].nonce <= nonces[KeyOf[i]]
    /\ call[i].pc = "landed" => Pending(i) \in Range(chain)

GossipInv == TypeOK /\ TablesTypeOK /\ TablesClean /\ RumoursTrue /\ ChainOK /\ CallsOK

\* As long as the processor remembers failures: it remembers all that are spoken of.
IsAFailure(r) == r.reason.why = "failed"
Remembered(t) == \E e \in blocked[Processor] : e.tx = t /\ IsAFailure(e)
Final(t) == t \notin Range(chain) /\ Remembered(t)

FailuresFinal ==
  /\ \A r : Rumoured(r) /\ IsAFailure(r) => Final(r.tx)
  /\ \A i \in Call : call[i].pc = "failed" => Final(Pending(i))

Envelope == [from : Node, to : Node, body : Body]

\* A step that offers and says nothing new but this.
Spreads(ts, rs) ==
  /\ TablesTypeOK' /\ TablesClean'
  /\ \A t : Offered(t)' => Offered(t) \/ t \in ts
  /\ \A r : Rumoured(r)' => Rumoured(r) \/ r \in rs

LEMMA SpreadsIf ==
  ASSUME NEW ts, NEW rs, TablesTypeOK', TablesClean',
         \A n \in Node : Txs(pool'[n]) \subseteq Txs(pool[n]) \cup ts,
         \A n \in Node : blocked'[n] \subseteq blocked[n] \cup rs,
         \A m \in net' :
           \/ m \in net
           \/ /\ m.body.tx \in ts
              /\ m.body.kind = "news" => [tx |-> m.body.tx, reason |-> m.body.reason] \in rs
  PROVE  Spreads(ts, rs)
<1>1. ASSUME NEW t, Offered(t)' PROVE Offered(t) \/ t \in ts
  <2>1. CASE \E n \in Node : t \in Txs(pool'[n])
    BY <2>1 DEF Offered
  <2>2. CASE \E m \in net' : t = m.body.tx
    BY <2>2 DEF Offered
  <2> QED
    BY <1>1, <2>1, <2>2 DEF Offered
<1>2. ASSUME NEW r, Rumoured(r)' PROVE Rumoured(r) \/ r \in rs
  <2>1. CASE \E n \in Node : r \in blocked'[n]
    BY <2>1 DEF Rumoured
  <2>2. CASE \E m \in net' : m.body.kind = "news" /\ r = [tx |-> m.body.tx, reason |-> m.body.reason]
    BY <2>2 DEF Rumoured
  <2> QED
    BY <1>2, <2>1, <2>2 DEF Rumoured
<1> QED
  BY <1>1, <1>2 DEF Spreads

LEMMA BlocksSpreads ==
  ASSUME TablesTypeOK, TablesClean,
         NEW n \in Node, NEW t \in Tx, NEW reason \in Reason, Blocks(n, t, reason),
         \A m \in net' : m \in net \/ (m \in Envelope /\ m.body = NewsBody(t, reason))
  PROVE  /\ Spreads({t}, {[tx |-> t, reason |-> reason]})
         /\ \A e \in blocked'[n] : e \in blocked[n] \/ e = [tx |-> t, reason |-> reason]
         /\ t \notin Known(n) => [tx |-> t, reason |-> reason] \in blocked'[n]
<1> DEFINE r == [tx |-> t, reason |-> reason]
<1>1. r \in Rumour
  BY DEF Rumour
<1>2. net' \subseteq Envelope
  BY DEF TablesTypeOK, Envelope
<1>3. \A m \in net' :
        \/ m \in net
        \/ /\ m.body.tx \in {t}
           /\ m.body.kind = "news" => [tx |-> m.body.tx, reason |-> m.body.reason] \in {r}
  BY DEF NewsBody
<1>4. CASE t \in Known(n)
  <2>1. UNCHANGED <<pool, blocked>>
    BY <1>4 DEF Blocks, tableVars
  <2>2. TablesTypeOK' /\ TablesClean'
    BY <1>2, <2>1 DEF TablesTypeOK, TablesClean, Known, Envelope
  <2>3. /\ \A m \in Node : Txs(pool'[m]) \subseteq Txs(pool[m]) \cup {t}
        /\ \A m \in Node : blocked'[m] \subseteq blocked[m] \cup {r}
    BY <2>1
  <2> HIDE DEF r
  <2>4. Spreads({t}, {r})
    BY <1>3, <2>2, <2>3, SpreadsIf
  <2> QED
    BY <1>4, <2>1, <2>4 DEF r
<1>5. CASE t \notin Known(n)
  <2>1. PICK forgotten \in SUBSET blocked[n] :
          blocked' = [blocked EXCEPT ![n] = (@ \ forgotten) \cup {r}]
    BY <1>5 DEF Blocks
  <2>2. pool' = [pool EXCEPT ![n] = Without(@, t)]
    BY <1>5 DEF Blocks
  <2>3. pool[n] \in Seq(Entry) /\ Unique(pool[n])
    BY DEF TablesTypeOK, TablesClean
  <2>4. PICK w : w = Without(pool[n], t)
    OBVIOUS
  <2>5. w \in Seq(Entry) /\ Unique(w) /\ Txs(w) = Txs(pool[n]) \ {t}
    BY <2>3, <2>4, WithoutIs
  <2>6. pool' = [pool EXCEPT ![n] = w]
    BY <2>2, <2>4
  <2> HIDE DEF r
  <2>7. /\ pool' \in [Node -> Seq(Entry)]
        /\ pool'[n] = w /\ \A m \in Node \ {n} : pool'[m] = pool[m]
    BY <2>5, <2>6 DEF TablesTypeOK
  <2>8. /\ blocked' \in [Node -> SUBSET Rumour]
        /\ blocked'[n] = (blocked[n] \ forgotten) \cup {r}
        /\ \A m \in Node \ {n} : blocked'[m] = blocked[m]
    BY <1>1, <2>1 DEF TablesTypeOK
  <2>9. TablesTypeOK'
    BY <1>2, <2>7, <2>8 DEF TablesTypeOK, Envelope
  <2>10. ASSUME NEW m \in Node PROVE Unique(pool'[m]) /\ Known(m)' \cap Txs(pool'[m]) = {}
    <3>1. CASE m = n
      <4>1. Known(n)' \subseteq Known(n) \cup {t}
        BY <2>8 DEF Known, r
      <4>2. Known(n) \cap Txs(pool[n]) = {}
        BY DEF TablesClean
      <4> QED
        BY <2>5, <2>7, <3>1, <4>1, <4>2
    <3>2. CASE m # n
      BY <2>7, <2>8, <3>2 DEF TablesClean, Known
    <3> QED
      BY <3>1, <3>2
  <2>11. TablesClean'
    BY <2>10 DEF TablesClean
  <2>12. \A m \in Node : Txs(pool'[m]) \subseteq Txs(pool[m]) \cup {t}
    BY <2>5, <2>7
  <2>13. \A m \in Node : blocked'[m] \subseteq blocked[m] \cup {r}
    BY <2>8
  <2>14. Spreads({t}, {r})
    BY <1>3, <2>9, <2>11, <2>12, <2>13, SpreadsIf
  <2> QED
    BY <2>8, <2>14 DEF r
<1> QED
  BY <1>4, <1>5

\* The other ways to write to the tables.
LEMMA PutSpreads ==
  ASSUME TablesTypeOK, TablesClean,
         NEW n \in Node, NEW t \in Tx, t \notin Known(n), NEW gossiped \in BOOLEAN,
         pool' = IF t \in Txs(pool[n]) THEN pool
                 ELSE [pool EXCEPT ![n] = Put(@, [tx |-> t, gossiped |-> gossiped])],
         UNCHANGED blocked, net' \subseteq net
  PROVE  Spreads({t}, {})
<1>1. TablesTypeOK' /\ TablesClean' /\ \A m \in Node : Txs(pool'[m]) \subseteq Txs(pool[m]) \cup {t}
  <2>1. CASE t \in Txs(pool[n])
    BY <2>1 DEF TablesTypeOK, TablesClean, Known
  <2>2. CASE t \notin Txs(pool[n])
    <3>1. PICK e \in Entry : e = [tx |-> t, gossiped |-> gossiped] /\ e.tx = t
      BY DEF Entry
    <3>2. pool[n] \in Seq(Entry) /\ Unique(pool[n])
      BY DEF TablesTypeOK, TablesClean
    <3>3. PICK w : w = Put(pool[n], e)
      OBVIOUS
    <3>4. w \in Seq(Entry) /\ Unique(w) /\ Txs(w) \subseteq Txs(pool[n]) \cup {t}
      BY <2>2, <3>1, <3>2, <3>3, PutIs
    <3>5. pool' = [pool EXCEPT ![n] = w]
      BY <2>2, <3>1, <3>3
    <3>6. /\ pool' \in [Node -> Seq(Entry)]
          /\ pool'[n] = w /\ \A m \in Node \ {n} : pool'[m] = pool[m]
      BY <3>4, <3>5 DEF TablesTypeOK
    <3>7. TablesTypeOK'
      BY <3>6 DEF TablesTypeOK
    <3>8. ASSUME NEW m \in Node PROVE Unique(pool'[m]) /\ Known(m)' \cap Txs(pool'[m]) = {}
      <4>1. CASE m = n
        <5>1. Known(n)' = Known(n) /\ Known(n) \cap Txs(pool[n]) = {}
          BY DEF TablesClean, Known
        <5> QED
          BY <3>4, <3>6, <4>1, <5>1
      <4>2. CASE m # n
        BY <3>6, <4>2 DEF TablesClean, Known
      <4> QED
        BY <4>1, <4>2
    <3>9. TablesClean'
      BY <3>8 DEF TablesClean
    <3> QED
      BY <3>4, <3>6, <3>7, <3>9
  <2> QED
    BY <2>1, <2>2
<1> QED
  BY <1>1, SpreadsIf

LEMMA SendsSpreads ==
  ASSUME TablesTypeOK, TablesClean, NEW ts, NEW rs, UNCHANGED tableVars,
         \A m \in net' :
           \/ m \in net
           \/ /\ m \in Envelope /\ m.body.tx \in ts
              /\ m.body.kind = "news" => [tx |-> m.body.tx, reason |-> m.body.reason] \in rs
  PROVE  Spreads(ts, rs)
<1>1. TablesTypeOK' /\ TablesClean'
  BY DEF TablesTypeOK, TablesClean, Known, tableVars, Envelope
<1> QED
  BY <1>1, SpreadsIf DEF tableVars

LEMMA MarkingSpreads ==
  ASSUME TablesTypeOK, TablesClean, NEW n \in Node, NEW T, T \subseteq Txs(pool[n]),
         MarksGossiped(n, T), UNCHANGED blocked,
         \A m \in net' : m \in net \/ (m \in Envelope /\ \E t \in T : m.body = TxBody(t))
  PROVE  Spreads(T, {})
<1> DEFINE q == pool[n]
           Mark(was) == [i \in DOMAIN q |->
                           [tx |-> q[was[i]].tx,
                            gossiped |-> q[was[i]].gossiped \/ q[was[i]].tx \in T]]
<1>1. PICK was \in [DOMAIN q -> DOMAIN q] :
        /\ \A i, j \in DOMAIN q : i < j => Ahead(q, T, was[i], was[j])
        /\ pool' = [pool EXCEPT ![n] = Mark(was)]
  BY Zenon DEF MarksGossiped
<1>2. q \in Seq(Entry) /\ Unique(q)
  BY DEF TablesTypeOK, TablesClean
<1>3. PICK w : w = Mark(was)
  OBVIOUS
<1>4. w \in [DOMAIN q -> Entry] /\ \A i \in DOMAIN q : w[i].tx = q[was[i]].tx
  <2>1. \A i \in DOMAIN q : q[was[i]] \in Entry
    BY <1>1, <1>2, ElementOfSeq
  <2>2. ASSUME NEW i \in DOMAIN q
        PROVE  [tx |-> q[was[i]].tx, gossiped |-> q[was[i]].gossiped \/ q[was[i]].tx \in T] \in Entry
    <3>1. q[was[i]].tx \in Tx /\ (q[was[i]].gossiped \/ q[was[i]].tx \in T) \in BOOLEAN
      BY <2>1 DEF Entry
    <3> HIDE DEF q
    <3> QED
      BY <3>1 DEF Entry
  <2> QED
    BY <1>3, <2>2
<1>5. w \in Seq(Entry) /\ Unique(w) /\ Txs(w) \subseteq Txs(q)
  <2>1. \A i, j \in DOMAIN q : i < j => Ahead(q, T, was[i], was[j])
    BY <1>1
  <2>2. was \in [DOMAIN q -> DOMAIN q]
    BY <1>1
  <2> HIDE DEF q, Mark
  <2>3. Reorders(q, T, was, w)
    BY <1>4, <2>1, <2>2 DEF Reorders
  <2> QED
    BY <1>2, <2>3, MarkedIs
<1>6. pool' = [pool EXCEPT ![n] = w]
  BY <1>1, <1>3
<1>7. /\ pool' \in [Node -> Seq(Entry)]
      /\ pool'[n] = w /\ \A m \in Node \ {n} : pool'[m] = pool[m]
  BY <1>5, <1>6 DEF TablesTypeOK
<1>8. TablesTypeOK'
  BY <1>7 DEF TablesTypeOK, Envelope
<1>9. ASSUME NEW m \in Node PROVE Unique(pool'[m]) /\ Known(m)' \cap Txs(pool'[m]) = {}
  BY <1>5, <1>7 DEF TablesClean, Known
<1>10. TablesClean'
  BY <1>9 DEF TablesClean
<1>11. \A m \in Node : Txs(pool'[m]) \subseteq Txs(pool[m]) \cup T
  BY <1>5, <1>7
<1>12. \A m \in net' :
         \/ m \in net
         \/ /\ m.body.tx \in T
            /\ m.body.kind = "news" => [tx |-> m.body.tx, reason |-> m.body.reason] \in {}
  <2>1. ASSUME NEW m \in net', m \notin net
        PROVE  m.body.tx \in T /\ m.body.kind = "tx"
    <3>1. PICK t \in T : m.body = TxBody(t)
      BY <2>1
    <3> QED
      BY <3>1 DEF TxBody
  <2> QED
    BY <2>1
<1> QED
  BY <1>8, <1>10, <1>11, <1>12, SpreadsIf

-----------------------------------------------------------------------------
\* What steps leave true.

LEMMA KeyForIsKey == \A t \in Tx : t.call \in Call /\ t.nonce \in Nat /\ KeyFor(t) \in Key
BY DEF Tx, KeyFor

LEMMA InRange == \A s, x : x \in Range(s) <=> \E j \in DOMAIN s : s[j] = x
BY DEF Range

LEMMA ChainWith ==
  ASSUME NEW s \in Seq(Tx), NEW t \in Tx, NEW r, r = Append(s, t)
  PROVE  \A x : x \in Range(r) <=> x \in Range(s) \/ x = t
<1>1. /\ Len(s) \in Nat /\ DOMAIN s = 1..Len(s) /\ DOMAIN r = 1..(Len(s) + 1)
      /\ \A j \in 1..Len(s) : r[j] = s[j]
      /\ r[Len(s) + 1] = t
  BY AppendProperties
<1>2. \A j \in 1..(Len(s) + 1) : j \in 1..Len(s) \/ j = Len(s) + 1
  BY <1>1
<1>3. \A x : x \in Range(s) <=> \E j \in 1..Len(s) : s[j] = x
  <2>1. \A x : x \in Range(s) <=> \E j \in DOMAIN s : s[j] = x
    BY InRange
  <2> QED
    BY <1>1, <2>1
<1>4. \A x : x \in Range(r) <=> \E j \in 1..(Len(s) + 1) : r[j] = x
  <2>1. \A x : x \in Range(r) <=> \E j \in DOMAIN r : r[j] = x
    BY InRange
  <2> QED
    BY <1>1, <2>1
<1>5. ASSUME NEW x, x \in Range(r) PROVE x \in Range(s) \/ x = t
  BY <1>1, <1>2, <1>3, <1>4, <1>5
<1>6. ASSUME NEW x, x \in Range(s) PROVE x \in Range(r)
  <2>1. PICK j \in 1..Len(s) : s[j] = x
    BY <1>3, <1>6
  <2>2. j \in 1..(Len(s) + 1) /\ r[j] = x
    BY <1>1, <2>1
  <2> QED
    BY <1>4, <2>2
<1>7. Len(s) + 1 \in 1..(Len(s) + 1)
  BY <1>1
<1>8. t \in Range(r)
  BY <1>1, <1>4, <1>7
<1> QED
  BY <1>5, <1>6, <1>8

\* Failures are not made up: what is said that was not said before comes from the
\* processor, which remembers it.
Judged ==
  \A r : Rumoured(r)' /\ IsAFailure(r) =>
    \/ Rumoured(r)
    \/ r \in blocked'[Processor] /\ r.tx \notin Range(chain) /\ UNCHANGED chain

LEMMA RepeatsJudged ==
  ASSUME NEW ts, NEW rs, Spreads(ts, rs), \A r \in rs : IsAFailure(r) => Rumoured(r)
  PROVE  Judged
BY DEF Spreads, Judged

LEMMA StillTrue ==
  ASSUME RumoursTrue, NEW ts, NEW rs, Spreads(ts, rs),
         \A t \in ts : Signed(t),
         \A r \in rs : Signed(r.tx) /\ Told(r),
         \A t : Signed(t) => Signed(t)',
         \A r : Signed(r.tx) /\ Told(r) => Told(r)'
  PROVE  RumoursTrue'
<1>1. ASSUME NEW t, Offered(t)' PROVE Signed(t)'
  <2>1. Offered(t) \/ t \in ts
    BY <1>1 DEF Spreads
  <2>2. Signed(t)
    BY <2>1 DEF RumoursTrue
  <2> QED
    BY <2>2
<1>2. ASSUME NEW r, Rumoured(r)' PROVE Signed(r.tx)' /\ Told(r)'
  <2>1. Rumoured(r) \/ r \in rs
    BY <1>2 DEF Spreads
  <2>2. Signed(r.tx) /\ Told(r)
    BY <2>1 DEF RumoursTrue
  <2> QED
    BY <2>2
<1> QED
  BY <1>1, <1>2 DEF RumoursTrue

LEMMA QuietCalls ==
  UNCHANGED call => \A t : Signed(t) => Signed(t)'
BY DEF Signed

LEMMA QuietChain ==
  UNCHANGED <<chain, nonces>> => \A r : Told(r) => Told(r)'
BY DEF Told

LEMMA AnnounceIs ==
  ASSUME TypeOK, NEW n \in Node, NEW t \in Tx, NEW reason \in Reason,
         NEW m \in Announce(n, t, reason)
  PROVE  m \in Envelope /\ m.body = NewsBody(t, reason)
<1>1. NewsBody(t, reason) \in Body
  BY DEF NewsBody, Body
<1>2. Peers(n) \subseteq Node
  BY DEF Peers, TypeOK, Node
<1>3. PICK p \in Peers(n) : m = Message(n, p, NewsBody(t, reason))
  BY DEF Announce, Publish
<1> QED
  BY <1>1, <1>2, <1>3 DEF Message, Envelope

LEMMA ReasonIs ==
  ASSUME TablesTypeOK, NEW n \in Node, NEW t \in Known(n)
  PROVE  /\ t \in Tx /\ ReasonOf(n, t) \in Reason
         /\ [tx |-> t, reason |-> ReasonOf(n, t)] \in blocked[n]
         /\ Rumoured([tx |-> t, reason |-> ReasonOf(n, t)])
<1>1. \E e \in blocked[n] : e.tx = t
  BY DEF Known
<1>2. PICK e \in blocked[n] : e.tx = t /\ ReasonOf(n, t) = e.reason
  BY <1>1 DEF ReasonOf
<1>3. e \in Rumour
  BY DEF TablesTypeOK
<1>4. e = [tx |-> t, reason |-> ReasonOf(n, t)]
  BY <1>2, <1>3 DEF Rumour
<1> QED
  BY <1>2, <1>3, <1>4 DEF Rumoured, Rumour

\* A step that says and offers only what is true, and concerns nobody's state.
LEMMA TellingStep ==
  ASSUME GossipInv, NEW ts, NEW rs, Spreads(ts, rs),
         \A t \in ts : Signed(t),
         \A r \in rs : Signed(r.tx) /\ Told(r),
         UNCHANGED <<chain, nonces, nodeVars, call>>, up' \subseteq Client
  PROVE  GossipInv'
<1>1. RumoursTrue'
  BY QuietCalls, QuietChain, StillTrue DEF GossipInv
<1>2. TypeOK' /\ ChainOK' /\ CallsOK'
  BY DEF GossipInv, TypeOK, ChainOK, CallsOK, Pending, nodeVars
<1> QED
  BY <1>1, <1>2 DEF GossipInv, Spreads

LEMMA HeadIsOffered ==
  ASSUME GossipInv, pool[Processor] # << >>
  PROVE  /\ Head(pool[Processor]).tx \in Txs(pool[Processor])
         /\ Head(pool[Processor]).tx \notin Known(Processor)
         /\ Signed(Head(pool[Processor]).tx)
<1>1. Processor \in Node
  BY DEF Node
<1>2. pool[Processor] \in Seq(Entry)
  BY <1>1 DEF GossipInv, TablesTypeOK
<1>3. 1 \in DOMAIN pool[Processor] /\ Head(pool[Processor]) = pool[Processor][1]
  BY <1>2
<1>4. Head(pool[Processor]).tx \in Txs(pool[Processor])
  BY <1>3 DEF Txs
<1> QED
  BY <1>1, <1>4 DEF GossipInv, RumoursTrue, Offered, TablesClean

-----------------------------------------------------------------------------
\* The processor's step: the transaction lands, is refused, or is dropped.

\* It lands: it is the one its call signed last.
LEMMA ExecutesIsSound ==
  ASSUME GossipInv, NEW t, Signed(t), t \notin Range(chain),
         t.nonce = nonces[KeyFor(t)], Processor \notin adding,
         chain' = Append(chain, t),
         nonces' = [nonces EXCEPT ![KeyFor(t)] = t.nonce + 1],
         adding' = adding \cup {Processor},
         UNCHANGED <<tableVars, net, height, seen, up, call>>
  PROVE  GossipInv' /\ Judged
<1>1. /\ t \in Tx /\ t.call \in Call /\ t.nonce \in Nat /\ KeyFor(t) \in Key
      /\ KeyFor(t) = KeyOf[t.call] /\ Processor \in Node
  BY KeyForIsKey DEF Signed, KeyFor, Node
<1>2. call[t.call].pc # "new" /\ t.nonce = call[t.call].nonce
  <2>1. call[t.call].pc # "new" /\ t.nonce <= call[t.call].nonce /\ call[t.call].nonce \in Nat
    BY <1>1 DEF Signed, GossipInv, TypeOK, CallRecord
  <2>2. call[t.call].nonce <= nonces[KeyFor(t)]
    BY <1>1, <2>1 DEF GossipInv, CallsOK
  <2> QED
    BY <1>1, <2>1, <2>2
<1>3. /\ nonces' \in [Key -> Nat] /\ nonces'[KeyFor(t)] = t.nonce + 1
      /\ \A k \in Key : nonces[k] \in Nat /\ nonces[k] <= nonces'[k]
  BY <1>1 DEF GossipInv, TypeOK
<1>4. /\ chain' \in Seq(Tx) /\ Len(chain') = Len(chain) + 1 /\ Len(chain) \in Nat
      /\ DOMAIN chain = 1..Len(chain) /\ DOMAIN chain' = 1..(Len(chain) + 1)
      /\ \A j \in 1..Len(chain) : chain'[j] = chain[j]
      /\ chain'[Len(chain) + 1] = t
  BY <1>1, AppendProperties DEF GossipInv, TypeOK
<1>5. \A x : x \in Range(chain') <=> x \in Range(chain) \/ x = t
  BY <1>1, ChainWith DEF GossipInv, TypeOK
<1>6. TypeOK'
  BY <1>1, <1>3, <1>4 DEF GossipInv, TypeOK
<1>7. TablesTypeOK' /\ TablesClean'
  BY DEF GossipInv, TablesTypeOK, TablesClean, tableVars, Known
<1>8. \A r : Signed(r.tx) /\ Told(r) => Told(r)'
  <2>1. ASSUME NEW r, Signed(r.tx), Told(r) PROVE Told(r)'
    <3>1. r.tx \in Tx /\ KeyFor(r.tx) \in Key /\ r.tx.nonce \in Nat
      BY <2>1, KeyForIsKey DEF Signed
    <3>2. CASE r.reason = IsLanded /\ r.tx \in Range(chain)
      BY <1>5, <3>2 DEF Told
    <3>3. CASE /\ r.reason \in Failed /\ r.reason.expected <= nonces[KeyFor(r.tx)]
               /\ r.tx.nonce < r.reason.expected => r.tx \notin Range(chain)
      <4>1. r.reason.expected \in Nat
        BY <3>3 DEF Failed
      <4>2. r.reason.expected <= nonces'[KeyFor(r.tx)]
        BY <1>3, <3>1, <3>3, <4>1
      <4>3. r.tx.nonce < r.reason.expected => r.tx # t
        BY <1>3, <3>1, <3>3, <4>1
      <4> QED
        BY <1>5, <3>3, <4>2, <4>3 DEF Told, KeyFor
    <3> QED
      BY <2>1, <3>2, <3>3 DEF Told
  <2> QED
    BY <2>1
<1>9. RumoursTrue' /\ Judged
  <2>1. Spreads({}, {})
    BY <1>7, SpreadsIf DEF tableVars
  <2>2. \A x : Signed(x) => Signed(x)'
    BY QuietCalls
  <2> QED
    BY <1>8, <2>1, <2>2, StillTrue, RepeatsJudged DEF GossipInv
<1>10. ASSUME NEW j \in DOMAIN chain'
       PROVE  /\ call'[chain'[j].call].pc # "new" /\ chain'[j].nonce = call'[chain'[j].call].nonce
              /\ chain'[j].nonce < nonces'[KeyFor(chain'[j])]
  <2>1. CASE j \in 1..Len(chain)
    <3>1. chain[j] \in Tx
      BY <2>1, ElementOfSeq DEF GossipInv, TypeOK
    <3>2. KeyFor(chain[j]) \in Key /\ chain[j].nonce \in Nat
      BY <3>1, KeyForIsKey
    <3>3. /\ call[chain[j].call].pc # "new" /\ chain[j].nonce = call[chain[j].call].nonce
          /\ chain[j].nonce < nonces[KeyFor(chain[j])]
      BY <1>4, <2>1 DEF GossipInv, ChainOK
    <3>4. nonces[KeyFor(chain[j])] <= nonces'[KeyFor(chain[j])]
          /\ nonces[KeyFor(chain[j])] \in Nat /\ nonces'[KeyFor(chain[j])] \in Nat
      BY <1>3, <3>2
    <3>5. chain[j].nonce < nonces'[KeyFor(chain[j])]
      BY <3>2, <3>3, <3>4
    <3> QED
      BY <1>4, <2>1, <3>3, <3>5
  <2>2. CASE j = Len(chain) + 1
    BY <1>1, <1>2, <1>3, <1>4, <2>2
  <2> QED
    BY <1>4, <2>1, <2>2
<1>11. ASSUME NEW j \in DOMAIN chain', NEW l \in DOMAIN chain', chain'[j] = chain'[l]
       PROVE  j = l
  <2>1. \A m \in 1..Len(chain) : chain[m] # t
    BY <1>4, InRange
  <2>2. \A m \in 1..(Len(chain) + 1) : m \in 1..Len(chain) \/ m = Len(chain) + 1
    BY <1>4
  <2>3. \A m, o \in 1..Len(chain) : chain[m] = chain[o] => m = o
    BY <1>4 DEF GossipInv, ChainOK
  <2> QED
    BY <1>4, <1>11, <2>1, <2>2, <2>3
<1>12. ASSUME NEW n \in Node
       PROVE  /\ height'[n] <= Len(chain') /\ (n \in adding' => height'[n] < Len(chain'))
              /\ \A k \in Key : seen'[n][k] <= nonces'[k]
  <2>1. height[n] <= Len(chain) /\ height[n] \in Nat
    BY DEF GossipInv, ChainOK, TypeOK
  <2>2. ASSUME NEW k \in Key PROVE seen'[n][k] <= nonces'[k]
    <3>1. seen[n][k] \in Nat /\ seen[n][k] <= nonces[k]
      BY DEF GossipInv, ChainOK, TypeOK
    <3>2. nonces[k] \in Nat /\ nonces'[k] \in Nat /\ nonces[k] <= nonces'[k]
      BY <1>3
    <3> QED
      BY <3>1, <3>2
  <2> QED
    BY <1>4, <2>1, <2>2
<1>13. ChainOK'
  BY <1>10, <1>11, <1>12 DEF ChainOK
<1>14. CallsOK'
  <2>1. ASSUME NEW i \in Call, call[i].pc # "new" PROVE call[i].nonce <= nonces'[KeyOf[i]]
    <3>1. /\ call[i].nonce <= nonces[KeyOf[i]] /\ KeyOf[i] \in Key
          /\ call[i].nonce \in Nat
      BY <2>1 DEF GossipInv, CallsOK, TypeOK, CallRecord
    <3> QED
      BY <1>3, <3>1
  <2>2. ASSUME NEW i \in Call, call[i].pc = "landed" PROVE Pending(i) \in Range(chain')
    BY <1>5, <2>2 DEF GossipInv, CallsOK
  <2> QED
    BY <2>1, <2>2 DEF CallsOK, Pending
<1> QED
  BY <1>6, <1>7, <1>9, <1>13, <1>14 DEF GossipInv

\* It fails, or it has landed: either is said.
LEMMA JudgesIsSound ==
  ASSUME GossipInv, NEW t, Signed(t), NEW reason \in Reason,
         Told([tx |-> t, reason |-> reason]),
         NEW n \in Node, Blocks(n, t, reason),
         net' = net \cup Announce(n, t, reason) \/ net' \subseteq net,
         UNCHANGED <<chain, nonces, nodeVars, up, call>>
  PROVE  /\ GossipInv' /\ Spreads({t}, {[tx |-> t, reason |-> reason]})
         /\ t \notin Known(n) => [tx |-> t, reason |-> reason] \in blocked'[n]
<1>1. t \in Tx
  BY DEF Signed
<1>2. \A m \in net' : m \in net \/ (m \in Envelope /\ m.body = NewsBody(t, reason))
  BY <1>1, AnnounceIs DEF GossipInv
<1>3. /\ Spreads({t}, {[tx |-> t, reason |-> reason]})
      /\ t \notin Known(n) => [tx |-> t, reason |-> reason] \in blocked'[n]
  BY <1>1, <1>2, BlocksSpreads DEF GossipInv
<1>4. \A r \in {[tx |-> t, reason |-> reason]} : Signed(r.tx) /\ Told(r)
  OBVIOUS
<1>5. up' \subseteq Client
  BY DEF GossipInv, TypeOK
<1> QED
  BY <1>3, <1>4, <1>5, TellingStep

LEMMA ExecuteIsSound ==
  ASSUME GossipInv, Execute
  PROVE  GossipInv' /\ Judged
<1>1. PICK t : t = Head(pool[Processor]).tx
  OBVIOUS
<1>2. Signed(t) /\ t \in Tx /\ Processor \in Node /\ KeyFor(t) \in Key
  BY <1>1, HeadIsOffered, KeyForIsKey DEF Execute, Signed, Node
<1>3. CASE t \in Range(chain) /\ AddSignedBlock(Processor, t) /\ UNCHANGED <<chain, nonces, adding, net>>
  <2>1. IsLanded \in Reason /\ Told([tx |-> t, reason |-> IsLanded])
    BY <1>3 DEF IsLanded, Reason, Landed, Told
  <2>2. UNCHANGED <<nodeVars, up, call>> /\ Blocks(Processor, t, IsLanded)
    BY <1>3 DEF Execute, nodeVars, AddSignedBlock
  <2>3. GossipInv' /\ Spreads({t}, {[tx |-> t, reason |-> IsLanded]})
    BY <1>2, <1>3, <2>1, <2>2, JudgesIsSound
  <2>4. \A r \in {[tx |-> t, reason |-> IsLanded]} : ~IsAFailure(r)
    BY DEF IsAFailure, IsLanded
  <2> QED
    BY <2>3, <2>4, RepeatsJudged
<1>4. ASSUME NEW x \in Nat, x <= nonces[KeyFor(t)], t \notin Range(chain),
             AddFailed(Processor, t, IsFailed(x)),
             net' = net \cup Announce(Processor, t, IsFailed(x)),
             UNCHANGED <<chain, nonces, adding>>
      PROVE  GossipInv' /\ Judged
  <2>1. IsFailed(x) \in Failed /\ IsFailed(x).expected = x
    BY DEF IsFailed, Failed
  <2>2. Told([tx |-> t, reason |-> IsFailed(x)]) /\ IsFailed(x) \in Reason
    BY <1>4, <2>1 DEF Told, Reason
  <2>3. UNCHANGED <<nodeVars, up, call>> /\ Blocks(Processor, t, IsFailed(x))
    BY <1>4 DEF Execute, nodeVars, AddFailed
  <2>4. /\ GossipInv' /\ Spreads({t}, {[tx |-> t, reason |-> IsFailed(x)]})
        /\ [tx |-> t, reason |-> IsFailed(x)] \in blocked'[Processor]
    BY <1>1, <1>2, <1>4, <2>2, <2>3, JudgesIsSound, HeadIsOffered DEF Execute
  <2> QED
    BY <1>4, <2>4 DEF Spreads, Judged
<1>5. CASE /\ t \notin Range(chain) /\ t.nonce = nonces[KeyFor(t)]
           /\ chain' = Append(chain, t)
           /\ nonces' = [nonces EXCEPT ![KeyFor(t)] = t.nonce + 1]
           /\ adding' = adding \cup {Processor}
           /\ UNCHANGED <<tableVars, net>>
  BY <1>2, <1>5, ExecutesIsSound DEF Execute
<1>6. nonces[KeyFor(t)] \in Nat
  BY <1>2 DEF GossipInv, TypeOK
<1> QED
  BY <1>1, <1>3, <1>4, <1>5, <1>6 DEF Execute, NotAboutNonce

-----------------------------------------------------------------------------
\* Blocks reach the nodes.

LEMMA SyncIsSound ==
  ASSUME GossipInv, NEW c \in Client, Sync(c)
  PROVE  GossipInv' /\ Judged
<1>1. c \in Node /\ Processor \in Node
  BY DEF Node
<1>2. TablesTypeOK' /\ TablesClean' /\ Spreads({}, {})
  <2>1. TablesTypeOK' /\ TablesClean'
    BY DEF Sync, GossipInv, TablesTypeOK, TablesClean, tableVars, netVars, Known
  <2> QED
    BY <2>1, SpreadsIf DEF Sync, tableVars, netVars
<1>3. RumoursTrue' /\ Judged
  BY <1>2, QuietCalls, QuietChain, StillTrue, RepeatsJudged DEF GossipInv, Sync
<1>4. height[c] < Len(chain)
  <2>1. height[c] \in Nat /\ height[Processor] \in Nat /\ Len(chain) \in Nat
    BY <1>1 DEF GossipInv, TypeOK
  <2> QED
    BY <1>1, <2>1 DEF Sync, GossipInv, ChainOK
<1>5. TypeOK' /\ CallsOK'
  BY <1>1 DEF Sync, GossipInv, TypeOK, CallsOK, Pending, netVars
<1>6. ChainOK'
  BY <1>4 DEF Sync, GossipInv, ChainOK
<1> QED
  BY <1>2, <1>3, <1>5, <1>6 DEF GossipInv

LEMMA FinishIsSound ==
  ASSUME GossipInv, NEW n \in Node, Finish(n)
  PROVE  GossipInv' /\ Judged
<1>1. PICK j : j = height[n] + 1
  OBVIOUS
<1>2. /\ height[n] \in Nat /\ Len(chain) \in Nat /\ height[n] < Len(chain)
      /\ DOMAIN chain = 1..Len(chain) /\ j \in 1..Len(chain)
  BY <1>1 DEF Finish, GossipInv, TypeOK, ChainOK
<1>3. PICK t : t = chain[j]
  OBVIOUS
<1>4. /\ t \in Tx /\ t \in Range(chain) /\ KeyFor(t) \in Key /\ t.call \in Call /\ t.nonce \in Nat
      /\ t.nonce < nonces[KeyFor(t)]
      /\ call[t.call].pc # "new" /\ t.nonce = call[t.call].nonce
  <2>1. t \in Tx
    BY <1>2, <1>3, ElementOfSeq DEF GossipInv, TypeOK
  <2>2. t \in Range(chain)
    BY <1>2, <1>3, InRange
  <2> QED
    BY <1>2, <1>3, <2>1, <2>2, KeyForIsKey DEF GossipInv, ChainOK
<1>5. Signed(t)
  BY <1>4 DEF Signed
<1>6. /\ Blocks(n, t, IsLanded)
      /\ net' = net \cup Announce(n, t, IsLanded)
      /\ seen' = [seen EXCEPT ![n][KeyFor(t)] = t.nonce + 1]
      /\ height' = [height EXCEPT ![n] = j] /\ adding' = adding \ {n}
      /\ UNCHANGED <<chain, nonces, up, call>>
  BY <1>1, <1>3 DEF Finish, AddSignedBlock, callVars
<1>7. IsLanded \in Reason /\ Told([tx |-> t, reason |-> IsLanded])
  BY <1>4 DEF IsLanded, Reason, Landed, Told
<1>8. \A m \in net' : m \in net \/ (m \in Envelope /\ m.body = NewsBody(t, IsLanded))
  BY <1>4, <1>6, <1>7, AnnounceIs DEF GossipInv
<1>9. Spreads({t}, {[tx |-> t, reason |-> IsLanded]})
  BY <1>4, <1>6, <1>7, <1>8, BlocksSpreads DEF GossipInv
<1>10. RumoursTrue'
  <2>1. \A r \in {[tx |-> t, reason |-> IsLanded]} : Signed(r.tx) /\ Told(r)
    BY <1>5, <1>7
  <2> QED
    BY <1>5, <1>6, <1>9, <2>1, QuietCalls, QuietChain, StillTrue DEF GossipInv
<1>11. /\ seen' \in [Node -> [Key -> Nat]] /\ height' \in [Node -> Nat]
       /\ \A m \in Node, k \in Key :
            seen'[m][k] = IF m = n /\ k = KeyFor(t) THEN t.nonce + 1 ELSE seen[m][k]
       /\ \A m \in Node : height'[m] = IF m = n THEN j ELSE height[m]
  <2>1. seen \in [Node -> [Key -> Nat]] /\ height \in [Node -> Nat]
    BY DEF GossipInv, TypeOK
  <2>2. PICK s : s = [seen[n] EXCEPT ![KeyFor(t)] = t.nonce + 1]
    OBVIOUS
  <2>3. s \in [Key -> Nat] /\ \A k \in Key : s[k] = IF k = KeyFor(t) THEN t.nonce + 1 ELSE seen[n][k]
    BY <1>4, <2>1, <2>2
  <2>4. seen' = [seen EXCEPT ![n] = s]
    BY <1>6, <2>2
  <2>5. /\ seen' \in [Node -> [Key -> Nat]]
        /\ \A m \in Node : seen'[m] = IF m = n THEN s ELSE seen[m]
    BY <2>1, <2>3, <2>4
  <2>6. /\ height' \in [Node -> Nat]
        /\ \A m \in Node : height'[m] = IF m = n THEN j ELSE height[m]
    BY <1>2, <1>6, <2>1
  <2> QED
    BY <2>3, <2>5, <2>6
<1>12. TypeOK' /\ CallsOK'
  BY <1>6, <1>11 DEF GossipInv, TypeOK, CallsOK, Pending
<1>13. ASSUME NEW m \in Node
       PROVE  /\ height'[m] <= Len(chain) /\ (m \in adding' => height'[m] < Len(chain))
              /\ \A k \in Key : seen'[m][k] <= nonces[k]
  <2>1. ASSUME NEW k \in Key PROVE seen'[m][k] <= nonces[k]
    <3>1. nonces[k] \in Nat /\ seen[m][k] <= nonces[k]
      BY DEF GossipInv, TypeOK, ChainOK
    <3> QED
      BY <1>4, <1>11, <3>1
  <2>2. height[m] <= Len(chain) /\ (m \in adding => height[m] < Len(chain))
    BY DEF GossipInv, ChainOK
  <2> QED
    BY <1>2, <1>6, <1>11, <2>1, <2>2
<1>14. ChainOK'
  BY <1>6, <1>13 DEF GossipInv, ChainOK
<1>15. Judged
  <2>1. \A r \in {[tx |-> t, reason |-> IsLanded]} : ~IsAFailure(r)
    BY DEF IsAFailure, IsLanded
  <2> QED
    BY <1>9, <2>1, RepeatsJudged
<1> QED
  BY <1>9, <1>10, <1>12, <1>14, <1>15 DEF GossipInv, Spreads

-----------------------------------------------------------------------------
\* Gossip.

LEMMA BroadcastIsSound ==
  ASSUME GossipInv, NEW n \in Node, NEW T, T \subseteq Txs(pool[n]), Broadcast(n, T)
  PROVE  GossipInv' /\ Judged
<1>1. \A t \in T : Signed(t) /\ t \in Tx
  BY DEF GossipInv, RumoursTrue, Offered, Signed
<1>2. ASSUME NEW m \in net', m \notin net
      PROVE  m \in Envelope /\ \E t \in T : m.body = TxBody(t)
  <2>1. PICK p \in Peers(n), t \in T : m = Message(n, p, TxBody(t))
    BY <1>2 DEF Broadcast, Publish
  <2>2. p \in Node
    BY DEF Peers, GossipInv, TypeOK, Node
  <2>3. TxBody(t) \in Body
    BY <1>1 DEF TxBody, Body
  <2> QED
    BY <2>1, <2>2, <2>3 DEF Message, Envelope
<1>3. Spreads(T, {})
  BY <1>2, MarkingSpreads DEF Broadcast, GossipInv
<1>4. UNCHANGED <<chain, nonces, nodeVars, call>> /\ up' \subseteq Client
  BY DEF Broadcast, callVars, GossipInv, TypeOK
<1> QED
  BY <1>1, <1>3, <1>4, TellingStep, RepeatsJudged

LEMMA RebroadcastIsSound ==
  ASSUME GossipInv, NEW n \in Node, BroadcastNew(n) \/ Rebroadcast(n)
  PROVE  GossipInv' /\ Judged
<1>1. pool[n] \in Seq(Entry)
  BY DEF GossipInv, TablesTypeOK
<1>2. {e.tx : e \in {f \in Range(pool[n]) : ~f.gossiped}} \subseteq Txs(pool[n])
  BY DEF Txs, Range
<1> QED
  BY <1>2, BroadcastIsSound DEF BroadcastNew, Rebroadcast

LEMMA HandleTxIsSound ==
  ASSUME GossipInv, NEW m \in net, m.body.kind = "tx", HandleTx(m),
         UNCHANGED <<chain, nonces, nodeVars, up, breaks, call>>
  PROVE  GossipInv' /\ Judged
<1>1. PICK n, t : n = m.to /\ t = m.body.tx /\ n \in Node /\ m.from \in Node
  BY DEF GossipInv, TablesTypeOK
<1>2. Signed(t) /\ t \in Tx
  BY <1>1 DEF GossipInv, RumoursTrue, Offered, Signed
<1>3. up' \subseteq Client
  BY DEF GossipInv, TypeOK
<1>4. CASE t \in Known(n)
  <2>1. PICK reason : reason = ReasonOf(n, t)
    OBVIOUS
  <2>2. reason \in Reason /\ Rumoured([tx |-> t, reason |-> reason])
    <3>1. n \in Node /\ TablesTypeOK
      BY <1>1 DEF GossipInv
    <3> QED
      BY <1>4, <2>1, <3>1, ReasonIs
  <2>3. Told([tx |-> t, reason |-> reason])
    BY <2>2 DEF GossipInv, RumoursTrue
  <2>4. /\ net' = (net \ {m}) \cup {Message(n, m.from, NewsBody(t, reason))}
        /\ UNCHANGED tableVars
    BY <1>1, <1>4, <2>1 DEF HandleTx, tableVars
  <2>5. /\ Message(n, m.from, NewsBody(t, reason)) \in Envelope
        /\ Message(n, m.from, NewsBody(t, reason)).body = NewsBody(t, reason)
        /\ NewsBody(t, reason).tx = t /\ NewsBody(t, reason).reason = reason
    BY <1>1, <1>2, <2>2 DEF Message, NewsBody, Envelope, Body
  <2>6. \A l \in net' :
          \/ l \in net
          \/ /\ l \in Envelope /\ l.body.tx \in {t}
             /\ l.body.kind = "news" =>
                  [tx |-> l.body.tx, reason |-> l.body.reason] \in {[tx |-> t, reason |-> reason]}
    BY <2>4, <2>5
  <2>7. Spreads({t}, {[tx |-> t, reason |-> reason]})
    BY <2>4, <2>6, SendsSpreads DEF GossipInv
  <2>8. \A r \in {[tx |-> t, reason |-> reason]} : Signed(r.tx) /\ Told(r)
    BY <1>2, <2>3
  <2> QED
    BY <1>2, <1>3, <2>2, <2>7, <2>8, TellingStep, RepeatsJudged
<1>5. CASE t \notin Known(n)
  <2>1. Spreads({t}, {})
    BY <1>1, <1>2, <1>5, PutSpreads DEF HandleTx, GossipInv
  <2> QED
    BY <1>2, <1>3, <2>1, TellingStep, RepeatsJudged
<1> QED
  BY <1>4, <1>5

LEMMA HandleNewsIsSound ==
  ASSUME GossipInv, NEW m \in net, m.body.kind = "news", HandleNews(m),
         UNCHANGED <<chain, nonces, nodeVars, up, breaks, call>>
  PROVE  GossipInv' /\ Judged
<1>1. PICK n \in Node, t \in Tx, reason \in Reason : n = m.to /\ t = m.body.tx /\ reason = m.body.reason
  BY DEF GossipInv, TablesTypeOK, Body
<1>2. /\ Signed(t) /\ Told([tx |-> t, reason |-> reason])
      /\ Rumoured([tx |-> t, reason |-> reason])
  BY <1>1 DEF GossipInv, RumoursTrue, Rumoured
<1>3. Blocks(n, t, reason)
  <2>1. CASE reason.why = "landed"
    <3>1. reason = IsLanded
      BY <2>1 DEF Reason, Landed, Failed, IsLanded
    <3> QED
      BY <1>1, <2>1, <3>1 DEF HandleNews, AddSignedBlock
  <2>2. CASE reason.why # "landed"
    BY <1>1, <2>2 DEF HandleNews, AddFailed
  <2> QED
    BY <2>1, <2>2
<1>4. \A l \in net' : l \in net \/ (l \in Envelope /\ l.body = NewsBody(t, reason))
  BY <1>1, AnnounceIs DEF HandleNews, GossipInv
<1>5. Spreads({t}, {[tx |-> t, reason |-> reason]})
  BY <1>3, <1>4, BlocksSpreads DEF GossipInv
<1>6. \A r \in {[tx |-> t, reason |-> reason]} : Signed(r.tx) /\ Told(r)
  BY <1>2
<1>7. up' \subseteq Client
  BY DEF GossipInv, TypeOK
<1> QED
  BY <1>2, <1>5, <1>6, <1>7, TellingStep, RepeatsJudged

LEMMA ConnectionIsSound ==
  ASSUME GossipInv, NEW c \in Client, Break(c) \/ Connect(c)
  PROVE  GossipInv' /\ Judged
<1>1. net' \subseteq net /\ up' \subseteq Client /\ UNCHANGED tableVars
  BY DEF Break, Connect, GossipInv, TypeOK
<1>2. Spreads({}, {})
  BY <1>1, SendsSpreads DEF GossipInv
<1>3. UNCHANGED <<chain, nonces, nodeVars, call>>
  BY DEF Break, Connect, callVars
<1> QED
  BY <1>1, <1>2, <1>3, TellingStep, RepeatsJudged

-----------------------------------------------------------------------------
\* The calls.

\* What it takes for a call to move: it is not new any more, its nonce does not go
\* down, and unless it stays, nothing that it signed has landed.
Moves(i, c) == c \in CallRecord /\ c.pc # "new" /\ call' = [call EXCEPT ![i] = c]
MaySign(i, c) ==
  /\ c.nonce <= nonces[KeyOf[i]]
  /\ \A t \in Range(chain) : t.call = i => t.nonce = c.nonce
  /\ \A t : Signed(t) /\ t.call = i => t.nonce <= c.nonce
  /\ c.pc = "landed" => [call |-> i, nonce |-> c.nonce] \in Range(chain)

LEMMA CallMoves ==
  ASSUME GossipInv, NEW i \in Call, NEW c,
         Moves(i, c), MaySign(i, c),
         NEW ts, Spreads(ts, {}), \A t \in ts : Signed(t),
         UNCHANGED <<chain, nonces, nodeVars, up>>
  PROVE  GossipInv' /\ Judged
<1>1. /\ call'[i] = c /\ \A l \in Call \ {i} : call'[l] = call[l]
      /\ call' \in [Call -> CallRecord]
  BY DEF Moves, GossipInv, TypeOK
<1>2. c.pc # "new"
  BY DEF Moves
<1>3. \A t : Signed(t) => Signed(t)'
  <2>1. ASSUME NEW t, Signed(t) PROVE Signed(t)'
    <3>1. t \in Tx /\ t.call \in Call
      BY <2>1, KeyForIsKey DEF Signed
    <3>2. CASE t.call = i
      BY <1>1, <1>2, <2>1, <3>1, <3>2 DEF Signed, MaySign
    <3>3. CASE t.call # i
      BY <1>1, <2>1, <3>1, <3>3 DEF Signed
    <3> QED
      BY <3>2, <3>3
  <2> QED
    BY <2>1
<1>4. RumoursTrue'
  BY <1>3, QuietChain, StillTrue DEF GossipInv
<1>5. TypeOK'
  BY <1>1 DEF GossipInv, TypeOK, nodeVars
<1>6. ASSUME NEW j \in DOMAIN chain
      PROVE  /\ call'[chain[j].call].pc # "new" /\ chain[j].nonce = call'[chain[j].call].nonce
             /\ chain[j].nonce < nonces[KeyFor(chain[j])]
  <2>1. chain[j] \in Range(chain)
    BY InRange
  <2>2. chain[j] \in Tx
    BY ElementOfSeq DEF GossipInv, TypeOK
  <2>3. chain[j].call \in Call
    BY <2>2, KeyForIsKey
  <2>4. CASE chain[j].call = i
    BY <1>1, <1>2, <2>1, <2>4 DEF GossipInv, ChainOK, MaySign
  <2>5. CASE chain[j].call # i
    BY <1>1, <2>3, <2>5 DEF GossipInv, ChainOK
  <2> QED
    BY <2>4, <2>5
<1>7. ChainOK'
  BY <1>6 DEF GossipInv, ChainOK, nodeVars
<1>8. CallsOK'
  <2>1. ASSUME NEW l \in Call
        PROVE  /\ call'[l].pc # "new" => call'[l].nonce <= nonces[KeyOf[l]]
               /\ call'[l].pc = "landed" => [call |-> l, nonce |-> call'[l].nonce] \in Range(chain)
    <3>1. CASE l = i
      BY <1>1, <3>1 DEF MaySign
    <3>2. CASE l # i
      BY <1>1, <3>2 DEF GossipInv, CallsOK, Pending
    <3> QED
      BY <3>1, <3>2
  <2> QED
    BY <2>1 DEF CallsOK, Pending
<1>9. Judged
  <2>1. \A r \in {} : IsAFailure(r) => Rumoured(r)
    OBVIOUS
  <2> QED
    BY <2>1, RepeatsJudged
<1> QED
  BY <1>4, <1>5, <1>7, <1>8, <1>9 DEF GossipInv, Spreads

\* What is known of a call that is not new.
LEMMA CallIs ==
  ASSUME GossipInv, NEW i \in Call
  PROVE  /\ call[i].pc \in {"new", "proposes", "waits", "landed", "failed"}
         /\ call[i].attempt \in Nat /\ call[i].nonce \in Nat
         /\ KeyOf[i] \in Key /\ nonces[KeyOf[i]] \in Nat /\ NodeOf[i] \in Node
         /\ Pending(i) \in Tx /\ Pending(i).call = i /\ Pending(i).nonce = call[i].nonce
         /\ KeyFor(Pending(i)) = KeyOf[i]
         /\ \A t \in Range(chain) :
              t.call = i => call[i].pc # "new" /\ t.nonce = call[i].nonce /\ t = Pending(i)
         /\ \A t : Signed(t) /\ t.call = i => call[i].pc # "new" /\ t.nonce <= call[i].nonce
         /\ call[i].pc # "new" => call[i].nonce <= nonces[KeyOf[i]] /\ Signed(Pending(i))
<1>1. /\ call[i].pc \in {"new", "proposes", "waits", "landed", "failed"}
      /\ call[i].attempt \in Nat /\ call[i].nonce \in Nat
  BY DEF GossipInv, TypeOK, CallRecord
<1>2. KeyOf[i] \in Key /\ nonces[KeyOf[i]] \in Nat /\ NodeOf[i] \in Node
  BY DEF GossipInv, TypeOK
<1>3. /\ Pending(i) \in Tx /\ Pending(i).call = i /\ Pending(i).nonce = call[i].nonce
      /\ KeyFor(Pending(i)) = KeyOf[i]
  BY <1>1 DEF Pending, Tx, KeyFor
<1>4. ASSUME NEW t \in Range(chain), t.call = i
      PROVE  call[i].pc # "new" /\ t.nonce = call[i].nonce /\ t = Pending(i)
  <2>1. PICK j \in DOMAIN chain : chain[j] = t
    BY InRange
  <2>2. t \in Tx
    BY <2>1, ElementOfSeq DEF GossipInv, TypeOK
  <2>3. call[i].pc # "new" /\ t.nonce = call[i].nonce
    BY <1>4, <2>1 DEF GossipInv, ChainOK
  <2> QED
    BY <1>4, <2>2, <2>3 DEF Pending, Tx
<1>5. \A t : Signed(t) /\ t.call = i => call[i].pc # "new" /\ t.nonce <= call[i].nonce
  BY DEF Signed
<1>6. call[i].pc # "new" => call[i].nonce <= nonces[KeyOf[i]] /\ Signed(Pending(i))
  BY <1>1, <1>3 DEF GossipInv, CallsOK, Signed
<1> QED
  BY <1>1, <1>2, <1>3, <1>4, <1>5, <1>6

LEMMA WithPC ==
  ASSUME NEW r \in CallRecord, NEW pc \in {"proposes", "waits", "landed", "failed"},
         NEW c, c = [r EXCEPT !.pc = pc]
  PROVE  c \in CallRecord /\ c.pc = pc /\ c.nonce = r.nonce
BY DEF CallRecord

SignsNext(r, x) == [r EXCEPT !.nonce = x, !.attempt = r.attempt + 1]

LEMMA WithNonce ==
  ASSUME NEW r \in CallRecord, NEW x \in Nat, NEW c, c = SignsNext(r, x)
  PROVE  c \in CallRecord /\ c.pc = r.pc /\ c.nonce = x
<1>1. r.attempt + 1 \in Nat
  BY DEF CallRecord
<1>2. PICK b : b = [r EXCEPT !.nonce = x]
  OBVIOUS
<1>3. b \in CallRecord /\ b.pc = r.pc /\ b.nonce = x /\ b.attempt = r.attempt
  BY <1>2 DEF CallRecord
<1>4. c = [b EXCEPT !.attempt = r.attempt + 1]
  BY <1>2, <1>3 DEF SignsNext
<1> QED
  BY <1>1, <1>3, <1>4 DEF CallRecord

LEMMA MovesTo ==
  ASSUME GossipInv, NEW i \in Call, NEW pc \in {"proposes", "waits", "landed", "failed"},
         NEW c, c = [call[i] EXCEPT !.pc = pc], call' = [call EXCEPT ![i] = c]
  PROVE  Moves(i, c) /\ c.pc = pc /\ c.nonce = call[i].nonce
<1>1. call[i] \in CallRecord
  BY DEF GossipInv, TypeOK
<1>2. c \in CallRecord /\ c.pc = pc /\ c.nonce = call[i].nonce
  BY <1>1, WithPC
<1> QED
  BY <1>2 DEF Moves

\* A call may go on with what it has signed.
LEMMA MaySignTheSame ==
  ASSUME GossipInv, NEW i \in Call, call[i].pc # "new",
         NEW c, c.nonce = call[i].nonce,
         c.pc # "landed" \/ Pending(i) \in Range(chain)
  PROVE  MaySign(i, c)
<1>1. [call |-> i, nonce |-> c.nonce] = Pending(i)
  BY DEF Pending
<1> QED
  BY <1>1, CallIs DEF MaySign

LEMMA StartIsSound ==
  ASSUME GossipInv, NEW i \in Call, Start(i)
  PROVE  GossipInv' /\ Judged
<1>1. PICK x : x = seen[NodeOf[i]][KeyOf[i]]
  OBVIOUS
<1>2. x \in Nat /\ x <= nonces[KeyOf[i]]
  BY <1>1, CallIs DEF GossipInv, TypeOK, ChainOK
<1>3. PICK c : c = [pc |-> "proposes", attempt |-> 1, nonce |-> x]
  OBVIOUS
<1>4. Moves(i, c) /\ c.nonce = x /\ c.pc = "proposes"
  BY <1>1, <1>2, <1>3 DEF Start, Moves, CallRecord
<1>5. Spreads({}, {})
  BY SendsSpreads DEF GossipInv, Start, netVars
<1>6. call[i].pc = "new" /\ UNCHANGED <<chain, nonces, nodeVars, up>>
  BY DEF Start, netVars
<1>7. (\A t \in Range(chain) : t.call # i) /\ (\A t : Signed(t) => t.call # i)
  BY <1>6, CallIs
<1>8. MaySign(i, c)
  <2>1. c.nonce = x /\ c.pc # "landed"
    BY <1>4
  <2> QED
    BY <1>2, <1>7, <2>1 DEF MaySign
<1> QED
  BY <1>4, <1>5, <1>6, <1>8, CallMoves

LEMMA ProposeIsSound ==
  ASSUME GossipInv, NEW i \in Call, Propose(i)
  PROVE  GossipInv' /\ Judged
<1>1. PICK c : c = [call[i] EXCEPT !.pc = "waits"]
  OBVIOUS
<1>2. Moves(i, c) /\ c.pc = "waits" /\ c.nonce = call[i].nonce
  <2>1. call' = [call EXCEPT ![i] = c]
    BY <1>1 DEF Propose
  <2> QED
    BY <1>1, <2>1, MovesTo
<1>3. Spreads({Pending(i)}, {})
  BY CallIs, PutSpreads DEF GossipInv, Propose, netVars
<1>4. call[i].pc = "proposes" /\ UNCHANGED <<chain, nonces, nodeVars, up>>
  BY DEF Propose, netVars
<1>5. MaySign(i, c) /\ Signed(Pending(i))
  BY <1>2, <1>4, CallIs, MaySignTheSame
<1> QED
  BY <1>2, <1>3, <1>4, <1>5, CallMoves

LEMMA WakeIsSound ==
  ASSUME GossipInv, NEW i \in Call, Wake(i)
  PROVE  GossipInv' /\ Judged
<1>1. PICK c : c = [call[i] EXCEPT !.pc = "proposes"]
  OBVIOUS
<1>2. Moves(i, c) /\ c.pc = "proposes" /\ c.nonce = call[i].nonce
  <2>1. call' = [call EXCEPT ![i] = c]
    BY <1>1 DEF Wake
  <2> QED
    BY <1>1, <2>1, MovesTo
<1>3. Spreads({}, {})
  BY SendsSpreads DEF GossipInv, Wake, netVars
<1>4. call[i].pc = "waits" /\ UNCHANGED <<chain, nonces, nodeVars, up>>
  BY DEF Wake, netVars
<1>5. MaySign(i, c)
  BY <1>2, <1>4, MaySignTheSame
<1> QED
  BY <1>2, <1>3, <1>4, <1>5, CallMoves

\* What a call learns is true: it has landed, or it has not while a higher nonce was
\* expected.
LEMMA Learned ==
  ASSUME GossipInv, NEW i \in Call, Learn(i)
  PROVE  \E reason \in Reason :
           /\ Told([tx |-> Pending(i), reason |-> reason])
           /\ Rumoured([tx |-> Pending(i), reason |-> reason])
           /\ \E c : /\ call' = [call EXCEPT ![i] = c]
                     /\ c = IF reason.why = "landed" THEN [call[i] EXCEPT !.pc = "landed"]
                            ELSE IF Retried(i, reason.expected)
                                 THEN SignsNext(call[i], reason.expected)
                                 ELSE [call[i] EXCEPT !.pc = "failed"]
<1>1. NodeOf[i] \in Node /\ Pending(i) \in Known(NodeOf[i])
  BY CallIs DEF Learn
<1> DEFINE reason == ReasonOf(NodeOf[i], Pending(i))
           c == IF reason.why = "landed" THEN [call[i] EXCEPT !.pc = "landed"]
                ELSE IF Retried(i, reason.expected)
                     THEN SignsNext(call[i], reason.expected)
                     ELSE [call[i] EXCEPT !.pc = "failed"]
<1>2. reason \in Reason /\ Rumoured([tx |-> Pending(i), reason |-> reason])
  BY <1>1, ReasonIs DEF GossipInv
<1>3. Told([tx |-> Pending(i), reason |-> reason])
  BY <1>2 DEF GossipInv, RumoursTrue
<1>4. call' = [call EXCEPT ![i] = c]
  BY DEF Learn, SignsNext
<1>5. \E d : /\ call' = [call EXCEPT ![i] = d]
             /\ d = IF reason.why = "landed" THEN [call[i] EXCEPT !.pc = "landed"]
                    ELSE IF Retried(i, reason.expected)
                         THEN SignsNext(call[i], reason.expected)
                         ELSE [call[i] EXCEPT !.pc = "failed"]
  BY <1>4
<1> HIDE DEF reason
<1> QED
  BY <1>2, <1>3, <1>5

LEMMA LearnIsSound ==
  ASSUME GossipInv, NEW i \in Call, Learn(i)
  PROVE  GossipInv' /\ Judged
<1>0. PICK reason \in Reason :
        /\ Told([tx |-> Pending(i), reason |-> reason])
        /\ \E c : /\ call' = [call EXCEPT ![i] = c]
                  /\ c = IF reason.why = "landed" THEN [call[i] EXCEPT !.pc = "landed"]
                         ELSE IF Retried(i, reason.expected)
                              THEN SignsNext(call[i], reason.expected)
                              ELSE [call[i] EXCEPT !.pc = "failed"]
  BY Learned
<1>1. PICK c : /\ call' = [call EXCEPT ![i] = c]
               /\ c = IF reason.why = "landed" THEN [call[i] EXCEPT !.pc = "landed"]
                      ELSE IF Retried(i, reason.expected)
                           THEN SignsNext(call[i], reason.expected)
                           ELSE [call[i] EXCEPT !.pc = "failed"]
  BY <1>0
<1>2. call[i].pc = "proposes" /\ UNCHANGED <<chain, nonces, nodeVars, up, tableVars, net>>
  BY DEF Learn, netVars
<1>3. Spreads({}, {})
  BY <1>2, SendsSpreads DEF GossipInv
<1>4. CASE reason.why = "landed"
  <2>1. c = [call[i] EXCEPT !.pc = "landed"]
    BY <1>1, <1>4
  <2>2. Moves(i, c) /\ c.pc = "landed" /\ c.nonce = call[i].nonce
    BY <1>1, <2>1, MovesTo
  <2>3. Pending(i) \in Range(chain)
    BY <1>0, <1>4 DEF Told, Failed
  <2>4. MaySign(i, c)
    BY <1>2, <2>2, <2>3, MaySignTheSame
  <2> QED
    BY <1>2, <1>3, <2>2, <2>4, CallMoves
<1>5. CASE reason.why # "landed" /\ Retried(i, reason.expected)
  <2>1. /\ reason \in Failed /\ reason.expected \in Nat
        /\ reason.expected <= nonces[KeyOf[i]]
        /\ call[i].nonce < reason.expected => Pending(i) \notin Range(chain)
    <3>1. reason # IsLanded
      BY <1>5 DEF IsLanded
    <3>2. KeyFor(Pending(i)) = KeyOf[i] /\ Pending(i).nonce = call[i].nonce
      BY CallIs
    <3> QED
      BY <1>0, <3>1, <3>2 DEF Told, Failed
  <2>2. c = SignsNext(call[i], reason.expected)
    BY <1>1, <1>5
  <2>3. Moves(i, c) /\ c.pc = "proposes" /\ c.nonce = reason.expected
    <3>1. call' = [call EXCEPT ![i] = c]
      BY <1>1
    <3>2. call[i] \in CallRecord
      BY DEF GossipInv, TypeOK
    <3>3. c \in CallRecord /\ c.pc = call[i].pc /\ c.nonce = reason.expected
      BY <2>1, <2>2, <3>2, WithNonce
    <3> QED
      BY <1>2, <3>1, <3>3 DEF Moves
  <2>4. call[i].nonce < reason.expected
    BY <1>5 DEF Retried
  <2>5. \A t \in Range(chain) : t.call # i
    BY <2>1, <2>4, CallIs
  <2>6. ASSUME NEW t, Signed(t), t.call = i PROVE t.nonce <= reason.expected
    <3>1. t.nonce \in Nat /\ t.nonce <= call[i].nonce /\ call[i].nonce \in Nat
      BY <2>6, CallIs, KeyForIsKey DEF Signed
    <3> QED
      BY <2>1, <2>4, <3>1
  <2>7. MaySign(i, c)
    <3>1. c.nonce = reason.expected /\ c.pc # "landed"
      BY <2>3
    <3> QED
      BY <2>1, <2>5, <2>6, <3>1 DEF MaySign
  <2> QED
    BY <1>2, <1>3, <2>3, <2>7, CallMoves
<1>6. CASE reason.why # "landed" /\ ~Retried(i, reason.expected)
  <2>1. c = [call[i] EXCEPT !.pc = "failed"]
    BY <1>1, <1>6
  <2>2. Moves(i, c) /\ c.pc = "failed" /\ c.nonce = call[i].nonce
    BY <1>1, <2>1, MovesTo
  <2>3. MaySign(i, c)
    BY <1>2, <2>2, MaySignTheSame
  <2> QED
    BY <1>2, <1>3, <2>2, <2>3, CallMoves
<1> QED
  BY <1>4, <1>5, <1>6

-----------------------------------------------------------------------------

LEMMA GossipInit == Init => GossipInv
<1> SUFFICES ASSUME Init PROVE GossipInv
  OBVIOUS
<1>1. chain \in Seq(Tx) /\ DOMAIN chain = {} /\ Len(chain) = 0
  BY DEF Init
<1>2. TypeOK
  BY <1>1 DEF Init, TypeOK, CallRecord
<1>3. \A n \in Node : pool[n] = << >> /\ pool[n] \in Seq(Entry) /\ DOMAIN pool[n] = {} /\ blocked[n] = {}
  BY DEF Init
<1>4. TablesTypeOK
  BY <1>3 DEF Init, TablesTypeOK
<1>5. TablesClean
  BY <1>3 DEF TablesClean, Unique, Known
<1>6. RumoursTrue
  BY <1>3 DEF RumoursTrue, Offered, Rumoured, Txs, Init
<1>7. ChainOK /\ CallsOK
  BY <1>1 DEF Init, ChainOK, CallsOK
<1> QED
  BY <1>2, <1>4, <1>5, <1>6, <1>7 DEF GossipInv

LEMMA GossipStutters ==
  ASSUME GossipInv, UNCHANGED vars
  PROVE  GossipInv' /\ Judged
<1>1. Spreads({}, {}) /\ up' \subseteq Client /\ UNCHANGED <<chain, nonces, nodeVars, call>>
  BY SendsSpreads DEF GossipInv, TypeOK, vars, netVars, callVars
<1> QED
  BY <1>1, TellingStep, RepeatsJudged

LEMMA GossipStep == GossipInv /\ [Next]_vars => GossipInv' /\ Judged
<1> SUFFICES ASSUME GossipInv, [Next]_vars PROVE GossipInv' /\ Judged
  OBVIOUS
<1>1. ASSUME NEW c \in Client, Sync(c) \/ Rebroadcast(c) \/ Break(c) \/ Connect(c)
      PROVE  GossipInv' /\ Judged
  BY <1>1, SyncIsSound, RebroadcastIsSound, ConnectionIsSound DEF Node
<1>2. ASSUME NEW n \in Node, Finish(n) \/ BroadcastNew(n) PROVE GossipInv' /\ Judged
  BY <1>2, FinishIsSound, RebroadcastIsSound
<1>3. ASSUME NEW m \in net, Handle(m) PROVE GossipInv' /\ Judged
  BY <1>3, HandleTxIsSound, HandleNewsIsSound DEF Handle
<1>4. ASSUME NEW i \in Call, Start(i) \/ Propose(i) \/ Wake(i) \/ Learn(i)
      PROVE  GossipInv' /\ Judged
  BY <1>4, StartIsSound, ProposeIsSound, WakeIsSound, LearnIsSound
<1> QED
  BY <1>1, <1>2, <1>3, <1>4, ExecuteIsSound, GossipStutters DEF Next

LEMMA GossipInvariant == Spec => []GossipInv
BY GossipInit, GossipStep, PTL DEF Spec

\* However often calls sign again and whatever connections lose or mempools forget, the
\* messages of a call are executed once at most: each transaction in the chain is
\* what its call signed last, and a call signs again only after a refusal that is final
\* (kolme.rs sign_propose_await_transaction_inner).
THEOREM SignsToExecuteOnce == Spec => []ExecutedOnceAtMost
<1>1. GossipInv => ExecutedOnceAtMost
  <2> SUFFICES ASSUME GossipInv, NEW j \in DOMAIN chain, NEW l \in DOMAIN chain,
                      chain[j].call = chain[l].call
               PROVE  j = l
    BY DEF ExecutedOnceAtMost
  <2>1. chain[j] \in Tx /\ chain[l] \in Tx
    BY ElementOfSeq DEF GossipInv, TypeOK
  <2>2. chain[j].nonce = chain[l].nonce
    BY DEF GossipInv, ChainOK
  <2>3. chain[j] = chain[l]
    BY <2>1, <2>2 DEF Tx
  <2> QED
    BY <2>3 DEF GossipInv, ChainOK
<1> QED
  BY <1>1, GossipInvariant, PTL

-----------------------------------------------------------------------------
\* Answers, as long as the processor remembers.

FailuresKept == \A e \in blocked[Processor] : IsAFailure(e) => e \in blocked'[Processor]

\* What lands was not known to the processor.
LEMMA LandsUnknown ==
  ASSUME GossipInv, [Next]_vars
  PROVE  \A t \in Range(chain') : t \in Range(chain) \/ t \notin Known(Processor)
<1>1. CASE UNCHANGED chain
  BY <1>1
<1>2. CASE Execute
  <2>1. PICK t : t = Head(pool[Processor]).tx
    OBVIOUS
  <2>2. t \in Tx /\ t \notin Known(Processor)
    BY <1>2, <2>1, HeadIsOffered DEF Execute, Signed
  <2>3. chain' = Append(chain, t) \/ UNCHANGED chain
    BY <1>2, <2>1 DEF Execute
  <2>4. CASE chain' = Append(chain, t)
    <3>1. chain \in Seq(Tx)
      BY DEF GossipInv, TypeOK
    <3>2. Range(chain') = Range(chain) \cup {t}
      BY <2>2, <2>4, <3>1, ChainWith
    <3> QED
      BY <2>2, <3>2
  <2> QED
    BY <1>1, <2>3, <2>4
<1>3. CASE ~Execute
  BY <1>1, <1>3 DEF Next, vars, Sync, Rebroadcast, BroadcastNew, Broadcast, Break, Connect,
                    Finish, Handle, Start, Propose, Wake, Learn
<1> QED
  BY <1>2, <1>3

\* A call gives up only on what is said to have failed.
LEMMA GivesUp ==
  ASSUME GossipInv, [Next]_vars, NEW i \in Call, call'[i].pc = "failed"
  PROVE  \/ call[i].pc = "failed" /\ call'[i].nonce = call[i].nonce
         \/ /\ call'[i].nonce = call[i].nonce /\ UNCHANGED <<chain, blocked>>
            /\ \E reason \in Reason :
                 IsAFailure([tx |-> Pending(i), reason |-> reason])
                 /\ Rumoured([tx |-> Pending(i), reason |-> reason])
<1>1. CASE UNCHANGED call
  BY <1>1
<1>2. ASSUME NEW l \in Call, Start(l) \/ Propose(l) \/ Wake(l)
      PROVE  call[i].pc = "failed" /\ call'[i].nonce = call[i].nonce
  <2>1. PICK c : call' = [call EXCEPT ![l] = c] /\ c.pc # "failed"
    <3>1. CASE Start(l)
      <4>1. PICK c : c = [pc |-> "proposes", attempt |-> 1,
                          nonce |-> seen[NodeOf[l]][KeyOf[l]]]
        OBVIOUS
      <4>2. call' = [call EXCEPT ![l] = c]
        BY <3>1, <4>1 DEF Start
      <4>3. c.pc = "proposes"
        BY <4>1
      <4> QED
        BY <4>2, <4>3
    <3>2. CASE Propose(l) \/ Wake(l)
      <4>1. PICK pc \in {"proposes", "waits"} : call' = [call EXCEPT ![l].pc = pc]
        BY <3>2 DEF Propose, Wake
      <4>2. PICK c : c = [call[l] EXCEPT !.pc = pc]
        OBVIOUS
      <4>3. c.pc = pc
        BY <4>2, WithPC DEF GossipInv, TypeOK
      <4> QED
        BY <4>1, <4>2, <4>3
    <3> QED
      BY <1>2, <3>1, <3>2
  <2>2. i # l /\ call'[i] = call[i]
    BY <2>1 DEF GossipInv, TypeOK
  <2> QED
    BY <2>2
<1>3. ASSUME NEW l \in Call, Learn(l), l # i
      PROVE  call[i].pc = "failed" /\ call'[i].nonce = call[i].nonce
  BY <1>3 DEF Learn, GossipInv, TypeOK
<1>4. CASE Learn(i)
  <2>1. PICK reason \in Reason :
          /\ Rumoured([tx |-> Pending(i), reason |-> reason])
          /\ \E c : /\ call' = [call EXCEPT ![i] = c]
                    /\ c = IF reason.why = "landed" THEN [call[i] EXCEPT !.pc = "landed"]
                           ELSE IF Retried(i, reason.expected)
                                THEN SignsNext(call[i], reason.expected)
                                ELSE [call[i] EXCEPT !.pc = "failed"]
    BY <1>4, Learned
  <2>2. PICK c : /\ call' = [call EXCEPT ![i] = c]
                 /\ c = IF reason.why = "landed" THEN [call[i] EXCEPT !.pc = "landed"]
                        ELSE IF Retried(i, reason.expected)
                             THEN SignsNext(call[i], reason.expected)
                             ELSE [call[i] EXCEPT !.pc = "failed"]
    BY <2>1
  <2>3. call[i] \in CallRecord /\ call'[i] = c /\ call[i].pc = "proposes"
    BY <1>4, <2>2 DEF Learn, GossipInv, TypeOK
  <2>4. CASE reason.why = "landed"
    BY <2>2, <2>3, <2>4, WithPC
  <2>5. CASE reason.why # "landed"
    <3>1. reason.why = "failed"
      BY <2>5 DEF Reason, Landed, Failed
    <3>2. IsAFailure([tx |-> Pending(i), reason |-> reason])
      BY <3>1 DEF IsAFailure
    <3>3. c.nonce = call[i].nonce
      <4>1. CASE Retried(i, reason.expected)
        <5>1. reason.expected \in Nat /\ c = SignsNext(call[i], reason.expected)
          BY <2>2, <2>5, <4>1 DEF Reason, Landed, Failed
        <5>2. c.pc = call[i].pc
          BY <2>3, <5>1, WithNonce
        <5> QED
          BY <2>3, <5>2
      <4>2. CASE ~Retried(i, reason.expected)
        BY <2>2, <2>3, <2>5, <4>2, WithPC
      <4> QED
        BY <4>1, <4>2
    <3> QED
      BY <1>4, <2>1, <2>3, <3>2, <3>3 DEF Learn, tableVars
  <2> QED
    BY <2>4, <2>5
<1>5. CASE ~\E l \in Call : Start(l) \/ Propose(l) \/ Wake(l) \/ Learn(l)
  BY <1>1, <1>5 DEF Next, vars, callVars, Execute, Sync, Rebroadcast, BroadcastNew, Broadcast,
                    Break, Connect, Finish, Handle
<1> QED
  BY <1>2, <1>3, <1>4, <1>5

LEMMA FailuresStayFinal ==
  ASSUME GossipInv, FailuresFinal, [Next]_vars, FailuresKept
  PROVE  FailuresFinal'
<1>1. Processor \in Node
  BY DEF Node
<1>2. ASSUME NEW t, Final(t) PROVE Final(t)'
  <2>1. PICK e \in blocked[Processor] : e.tx = t /\ IsAFailure(e)
    BY <1>2 DEF Final, Remembered
  <2>2. e \in blocked'[Processor]
    BY <2>1 DEF FailuresKept
  <2>3. t \in Known(Processor)
    BY <2>1 DEF Known
  <2>4. t \notin Range(chain')
    BY <1>2, <2>3, LandsUnknown DEF Final
  <2> QED
    BY <2>1, <2>2, <2>4 DEF Final, Remembered, IsAFailure
<1>3. ASSUME NEW r, Rumoured(r)', IsAFailure(r) PROVE Final(r.tx)'
  <2>1. CASE Rumoured(r)
    BY <1>2, <1>3, <2>1 DEF FailuresFinal
  <2>2. CASE r \in blocked'[Processor] /\ r.tx \notin Range(chain) /\ UNCHANGED chain
    BY <1>3, <2>2 DEF Final, Remembered, IsAFailure
  <2> QED
    BY <1>3, <2>1, <2>2, GossipStep DEF Judged
<1>4. ASSUME NEW i \in Call, call'[i].pc = "failed" PROVE Final(Pending(i))'
  <2>1. CASE call[i].pc = "failed" /\ call'[i].nonce = call[i].nonce
    <3>1. Final(Pending(i))
      BY <2>1 DEF FailuresFinal
    <3>2. Pending(i)' = Pending(i)
      BY <2>1 DEF Pending
    <3>3. PICK t : t = Pending(i)
      OBVIOUS
    <3>4. Final(t)'
      BY <1>2, <3>1, <3>3
    <3> QED
      BY <3>2, <3>3, <3>4 DEF Final, Remembered
  <2>2. CASE /\ call'[i].nonce = call[i].nonce /\ UNCHANGED <<chain, blocked>>
             /\ \E reason \in Reason :
                  IsAFailure([tx |-> Pending(i), reason |-> reason])
                  /\ Rumoured([tx |-> Pending(i), reason |-> reason])
    <3>1. Final(Pending(i))
      BY <2>2 DEF FailuresFinal
    <3>2. Pending(i)' = Pending(i)
      BY <2>2 DEF Pending
    <3> QED
      BY <2>2, <3>1, <3>2 DEF Final, Remembered, IsAFailure
  <2> QED
    BY <1>4, <2>1, <2>2, GivesUp
<1> QED
  BY <1>3, <1>4 DEF FailuresFinal, IsAFailure

\* What a call returns is so: the transaction it says has landed is in the chain, and of
\* a call that failed nothing is, nor will be as long as the processor remembers that it
\* failed, on whatever ways old transactions and news come back to it (kolme.rs
\* propose_and_await_transaction_inner, mempool.rs add).
THEOREM AnswersHold == Spec /\ [][FailuresKept]_vars => []AnswersAreTrue
<1>1. Init => FailuresFinal
  BY DEF Init, FailuresFinal, Rumoured
<1>2. GossipInv /\ FailuresFinal /\ [Next]_vars /\ [FailuresKept]_vars => FailuresFinal'
  <2> SUFFICES ASSUME GossipInv, FailuresFinal, [Next]_vars, [FailuresKept]_vars
               PROVE  FailuresFinal'
    OBVIOUS
  <2>1. FailuresKept
    BY DEF FailuresKept, vars, tableVars
  <2> QED
    BY <2>1, FailuresStayFinal
<1>3. GossipInv /\ FailuresFinal => AnswersAreTrue
  <2> SUFFICES ASSUME GossipInv, FailuresFinal, NEW i \in Call
               PROVE  /\ call[i].pc = "landed" => Pending(i) \in Range(chain)
                      /\ call[i].pc = "failed" => \A t \in Range(chain) : t.call # i
    BY DEF AnswersAreTrue
  <2>1. call[i].pc = "landed" => Pending(i) \in Range(chain)
    BY DEF GossipInv, CallsOK
  <2>2. ASSUME call[i].pc = "failed", NEW t \in Range(chain), t.call = i PROVE FALSE
    <3>1. t = Pending(i)
      BY <2>2, CallIs
    <3> QED
      BY <2>2, <3>1 DEF FailuresFinal, Final
  <2> QED
    BY <2>1, <2>2
<1> QED
  BY <1>1, <1>2, <1>3, GossipInvariant, PTL DEF Spec

-----------------------------------------------------------------------------
\* With room for whatever calls may sign, the processor forgets nothing.

\* A transaction is offered, has landed, or is known to have landed or failed.
Mentioned(t) ==
  Offered(t) \/ (\E n \in Node : t \in Known(n)) \/ t \in Range(chain)
Asked(t) == \E i \in Call : call[i].pc = "proposes" /\ t = Pending(i)

MentionsNoMore == \A t : Mentioned(t)' => Mentioned(t) \/ Asked(t)

\* A node learns of one transaction.
Learns ==
  \E n \in Node, t \in Tx, reason \in Reason :
    /\ Mentioned(t) /\ Blocks(n, t, reason) /\ UNCHANGED chain
    /\ \A m \in net' : m \in net \/ (m \in Envelope /\ m.body = NewsBody(t, reason))

LEMMA RumouredIsMentioned == \A r : Rumoured(r) => Mentioned(r.tx)
BY DEF Rumoured, Mentioned, Known, Offered

LEMMA MentionsIf ==
  ASSUME NEW ts, NEW rs, Spreads(ts, rs),
         \A t \in ts : Mentioned(t) \/ Asked(t), \A r \in rs : Mentioned(r.tx),
         \A t \in Range(chain') : Mentioned(t)
  PROVE  MentionsNoMore
<1>1. ASSUME NEW t, Mentioned(t)' PROVE Mentioned(t) \/ Asked(t)
  <2>1. CASE Offered(t)'
    BY <2>1 DEF Spreads, Mentioned
  <2>2. CASE \E n \in Node : t \in Known(n)'
    <3>0. PICK n \in Node : \E e \in blocked'[n] : e.tx = t
      BY <2>2 DEF Known
    <3>1. PICK e \in blocked'[n] : e.tx = t
      BY <3>0
    <3>2. Rumoured(e) \/ e \in rs
      BY <3>1 DEF Spreads, Rumoured
    <3> QED
      BY <3>1, <3>2, RumouredIsMentioned
  <2>3. CASE t \in Range(chain')
    BY <2>3
  <2> QED
    BY <1>1, <2>1, <2>2, <2>3 DEF Mentioned
<1> QED
  BY <1>1 DEF MentionsNoMore

LEMMA LearnsMentions ==
  ASSUME GossipInv, Learns
  PROVE  MentionsNoMore
<1>1. PICK n \in Node, t \in Tx, reason \in Reason :
        /\ Mentioned(t) /\ Blocks(n, t, reason) /\ UNCHANGED chain
        /\ \A m \in net' : m \in net \/ (m \in Envelope /\ m.body = NewsBody(t, reason))
  BY DEF Learns
<1>2. Spreads({t}, {[tx |-> t, reason |-> reason]})
  BY <1>1, BlocksSpreads DEF GossipInv
<1>3. \A x \in Range(chain') : Mentioned(x)
  BY <1>1 DEF Mentioned
<1>4. /\ \A x \in {t} : Mentioned(x) \/ Asked(x)
      /\ \A r \in {[tx |-> t, reason |-> reason]} : Mentioned(r.tx)
  BY <1>1
<1> QED
  BY <1>2, <1>3, <1>4, MentionsIf

\* Nothing is written to tables, and nothing is sent.
LEMMA SilentMentions ==
  ASSUME GossipInv, UNCHANGED tableVars, net' \subseteq net,
         \A t \in Range(chain') : Mentioned(t)
  PROVE  MentionsNoMore
<1>1. Spreads({}, {})
  BY SendsSpreads DEF GossipInv
<1> QED
  BY <1>1, MentionsIf

LEMMA ExecuteMentions ==
  ASSUME GossipInv, Execute
  PROVE  Learns \/ (UNCHANGED blocked /\ MentionsNoMore)
<1>1. PICK t : t = Head(pool[Processor]).tx
  OBVIOUS
<1>2. t \in Tx /\ Mentioned(t) /\ Processor \in Node /\ KeyFor(t) \in Key
  BY <1>1, HeadIsOffered, KeyForIsKey DEF Execute, Signed, Node, Mentioned, Offered
<1>3. nonces[KeyFor(t)] \in Nat
  BY <1>2 DEF GossipInv, TypeOK
<1>4. ASSUME NEW reason \in Reason, Blocks(Processor, t, reason), UNCHANGED chain,
             net' = net \cup Announce(Processor, t, reason) \/ net' = net
      PROVE  Learns
  <2>1. \A m \in net' : m \in net \/ (m \in Envelope /\ m.body = NewsBody(t, reason))
    BY <1>2, <1>4, AnnounceIs DEF GossipInv
  <2> QED
    BY <1>2, <1>4, <2>1 DEF Learns
<1>5. CASE AddSignedBlock(Processor, t) /\ UNCHANGED <<chain, net>>
  <2>1. IsLanded \in Reason
    BY DEF IsLanded, Reason, Landed
  <2> QED
    BY <1>4, <1>5, <2>1 DEF AddSignedBlock
<1>6. ASSUME NEW x \in Nat, AddFailed(Processor, t, IsFailed(x)), UNCHANGED chain,
             net' = net \cup Announce(Processor, t, IsFailed(x))
      PROVE  Learns
  <2>1. IsFailed(x) \in Reason
    BY DEF IsFailed, Reason, Failed
  <2> QED
    BY <1>4, <1>6, <2>1 DEF AddFailed
<1>7. CASE chain' = Append(chain, t) /\ UNCHANGED <<tableVars, net>>
  <2>1. chain \in Seq(Tx)
    BY DEF GossipInv, TypeOK
  <2>2. \A x \in Range(chain') : x \in Range(chain) \/ x = t
    BY <1>2, <1>7, <2>1, ChainWith
  <2>3. \A x \in Range(chain') : Mentioned(x)
    BY <1>2, <2>2 DEF Mentioned
  <2> QED
    BY <1>7, <2>3, SilentMentions DEF tableVars
<1> QED
  BY <1>1, <1>3, <1>5, <1>6, <1>7 DEF Execute, NotAboutNonce

LEMMA FinishLearns ==
  ASSUME GossipInv, NEW n \in Node, Finish(n)
  PROVE  Learns
<1>1. PICK t : t = chain[height[n] + 1]
  OBVIOUS
<1>2. t \in Tx /\ t \in Range(chain)
  <2>1. /\ height[n] \in Nat /\ Len(chain) \in Nat /\ height[n] < Len(chain)
        /\ DOMAIN chain = 1..Len(chain)
    BY DEF Finish, GossipInv, TypeOK, ChainOK
  <2>2. height[n] + 1 \in 1..Len(chain)
    BY <2>1
  <2> QED
    BY <1>1, <2>1, <2>2, ElementOfSeq, InRange DEF GossipInv, TypeOK
<1>3. /\ Blocks(n, t, IsLanded) /\ UNCHANGED chain
      /\ net' = net \cup Announce(n, t, IsLanded)
  BY <1>1 DEF Finish, AddSignedBlock
<1>4. IsLanded \in Reason
  BY DEF IsLanded, Reason, Landed
<1>5. \A m \in net' : m \in net \/ (m \in Envelope /\ m.body = NewsBody(t, IsLanded))
  BY <1>2, <1>3, <1>4, AnnounceIs DEF GossipInv
<1> QED
  BY <1>2, <1>3, <1>4, <1>5 DEF Learns, Mentioned

LEMMA BroadcastMentions ==
  ASSUME GossipInv, NEW n \in Node, BroadcastNew(n) \/ Rebroadcast(n)
  PROVE  UNCHANGED blocked /\ MentionsNoMore
<1>1. pool[n] \in Seq(Entry)
  BY DEF GossipInv, TablesTypeOK
<1>2. PICK T : T \subseteq Txs(pool[n]) /\ Broadcast(n, T)
  <2>1. {e.tx : e \in {f \in Range(pool[n]) : ~f.gossiped}} \subseteq Txs(pool[n])
    BY <1>1 DEF Txs, Range
  <2> QED
    BY <2>1 DEF BroadcastNew, Rebroadcast
<1>3. \A t \in T : Offered(t) /\ t \in Tx
  BY <1>2 DEF GossipInv, RumoursTrue, Offered, Signed
<1>4. ASSUME NEW m \in net', m \notin net
      PROVE  m \in Envelope /\ \E t \in T : m.body = TxBody(t)
  <2>1. PICK p \in Peers(n), t \in T : m = Message(n, p, TxBody(t))
    BY <1>2, <1>4 DEF Broadcast, Publish
  <2>2. p \in Node
    BY DEF Peers, GossipInv, TypeOK, Node
  <2>3. TxBody(t) \in Body
    BY <1>3 DEF TxBody, Body
  <2> QED
    BY <2>1, <2>2, <2>3 DEF Message, Envelope
<1>5. UNCHANGED <<blocked, chain>>
  BY <1>2 DEF Broadcast
<1>6. Spreads(T, {})
  BY <1>2, <1>4, MarkingSpreads DEF Broadcast, GossipInv
<1>7. \A t \in Range(chain') : Mentioned(t)
  BY <1>5 DEF Mentioned
<1>8. \A t \in T : Mentioned(t) \/ Asked(t)
  BY <1>3 DEF Mentioned
<1> QED
  BY <1>5, <1>6, <1>7, <1>8, MentionsIf

LEMMA HandleMentions ==
  ASSUME GossipInv, NEW m \in net, Handle(m)
  PROVE  Learns \/ (UNCHANGED blocked /\ MentionsNoMore)
<1>1. PICK n, t : n = m.to /\ t = m.body.tx /\ n \in Node /\ m.from \in Node
  BY DEF GossipInv, TablesTypeOK
<1>2. Offered(t) /\ t \in Tx /\ Mentioned(t)
  BY <1>1 DEF GossipInv, RumoursTrue, Offered, Signed, Mentioned
<1>3. UNCHANGED chain /\ \A x \in Range(chain') : Mentioned(x)
  BY DEF Handle, Mentioned
<1>4. CASE m.body.kind = "tx" /\ HandleTx(m) /\ t \in Known(n)
  <2>1. PICK reason : reason = ReasonOf(n, t)
    OBVIOUS
  <2>2. reason \in Reason
    BY <1>1, <1>4, <2>1, ReasonIs DEF GossipInv
  <2>3. /\ net' = (net \ {m}) \cup {Message(n, m.from, NewsBody(t, reason))}
        /\ UNCHANGED tableVars
    BY <1>1, <1>4, <2>1 DEF HandleTx, tableVars
  <2>4. Blocks(n, t, reason)
    BY <1>4, <2>3 DEF Blocks
  <2>5. Message(n, m.from, NewsBody(t, reason)) \in Envelope
        /\ Message(n, m.from, NewsBody(t, reason)).body = NewsBody(t, reason)
    BY <1>1, <1>2, <2>2 DEF Message, NewsBody, Envelope, Body
  <2> QED
    BY <1>1, <1>2, <1>3, <2>2, <2>3, <2>4, <2>5 DEF Learns
<1>5. CASE m.body.kind = "tx" /\ HandleTx(m) /\ t \notin Known(n)
  <2>1. Spreads({t}, {})
    BY <1>1, <1>2, <1>5, PutSpreads DEF HandleTx, GossipInv
  <2> QED
    BY <1>2, <1>3, <1>5, <2>1, MentionsIf DEF HandleTx
<1>6. CASE m.body.kind = "news" /\ HandleNews(m)
  <2>1. PICK reason \in Reason : reason = m.body.reason
    BY <1>6 DEF GossipInv, TablesTypeOK, Body
  <2>2. Blocks(n, t, reason)
    <3>1. CASE reason.why = "landed"
      <4>1. reason = IsLanded
        BY <3>1 DEF Reason, Landed, Failed, IsLanded
      <4> QED
        BY <1>1, <1>6, <2>1, <3>1, <4>1 DEF HandleNews, AddSignedBlock
    <3>2. CASE reason.why # "landed"
      BY <1>1, <1>6, <2>1, <3>2 DEF HandleNews, AddFailed
    <3> QED
      BY <3>1, <3>2
  <2>3. \A l \in net' : l \in net \/ (l \in Envelope /\ l.body = NewsBody(t, reason))
    BY <1>1, <1>2, <1>6, <2>1, AnnounceIs DEF HandleNews, GossipInv
  <2> QED
    BY <1>1, <1>2, <1>3, <2>1, <2>2, <2>3 DEF Learns
<1> QED
  BY <1>4, <1>5, <1>6 DEF Handle

LEMMA StepMentions ==
  ASSUME GossipInv, [Next]_vars
  PROVE  MentionsNoMore /\ (Learns \/ UNCHANGED blocked)
<1>1. ASSUME UNCHANGED <<chain, tableVars>>, net' \subseteq net
      PROVE  UNCHANGED blocked /\ MentionsNoMore
  BY <1>1, SilentMentions DEF tableVars, Mentioned
<1>2. ASSUME NEW c \in Client, Sync(c) \/ Break(c) \/ Connect(c)
      PROVE  UNCHANGED blocked /\ MentionsNoMore
  <2>1. UNCHANGED <<chain, tableVars>> /\ net' \subseteq net
    BY <1>2 DEF Sync, Break, Connect, netVars
  <2> QED
    BY <1>1, <2>1
<1>3. ASSUME NEW i \in Call, Start(i) \/ Wake(i) \/ Learn(i)
      PROVE  UNCHANGED blocked /\ MentionsNoMore
  <2>1. UNCHANGED <<chain, tableVars>> /\ net' \subseteq net
    BY <1>3 DEF Start, Wake, Learn, netVars
  <2> QED
    BY <1>1, <2>1
<1>4. ASSUME NEW i \in Call, Propose(i) PROVE UNCHANGED blocked /\ MentionsNoMore
  <2>1. UNCHANGED <<blocked, chain>> /\ call[i].pc = "proposes"
    BY <1>4 DEF Propose
  <2>2. Spreads({Pending(i)}, {})
    BY <1>4, CallIs, PutSpreads DEF GossipInv, Propose, netVars
  <2>3. \A t \in {Pending(i)} : Mentioned(t) \/ Asked(t)
    BY <2>1 DEF Asked
  <2>4. \A t \in Range(chain') : Mentioned(t)
    BY <2>1 DEF Mentioned
  <2> QED
    BY <2>1, <2>2, <2>3, <2>4, MentionsIf
<1>5. CASE UNCHANGED vars
  BY <1>1, <1>5 DEF vars, netVars
<1>6. ASSUME NEW n \in Node, Finish(n) \/ BroadcastNew(n)
      PROVE  Learns \/ (UNCHANGED blocked /\ MentionsNoMore)
  BY <1>6, FinishLearns, BroadcastMentions
<1>7. ASSUME NEW c \in Client, Rebroadcast(c) PROVE UNCHANGED blocked /\ MentionsNoMore
  BY <1>7, BroadcastMentions DEF Node
<1>8. Learns \/ (UNCHANGED blocked /\ MentionsNoMore)
  BY <1>2, <1>3, <1>4, <1>5, <1>6, <1>7, ExecuteMentions, HandleMentions DEF Next
<1> QED
  BY <1>8, LearnsMentions

-----------------------------------------------------------------------------
\* What each call has signed, attempt by attempt.

Attempts == 1..MaxAttempts
Place == Call \X Attempts

AttemptsOK ==
  \A i \in Call :
    /\ call[i].attempt <= MaxAttempts
    /\ call[i].pc = "new" <=> call[i].attempt = 0

SignedAt(f) ==
  /\ f \in [Place -> Tx]
  /\ \A i \in Call : call[i].attempt # 0 => f[<<i, call[i].attempt>>] = Pending(i)
  /\ \A t : Mentioned(t) => \E a \in 1..call[t.call].attempt : f[<<t.call, a>>] = t

OneEntry == \A d, e \in blocked[Processor] : d.tx = e.tx => d = e

RoomInv == AttemptsOK /\ (\E f : SignedAt(f)) /\ OneEntry

\* A call signs the next time, or what it has signed stays.
SameAttempt(i) ==
  /\ call'[i].attempt = call[i].attempt /\ call'[i].nonce = call[i].nonce
  /\ call'[i].pc = "new" <=> call[i].pc = "new"
NextAttempt(i) ==
  /\ call'[i].attempt = call[i].attempt + 1 /\ call[i].attempt < MaxAttempts
  /\ call'[i].pc # "new"

LEMMA WithPCAttempt ==
  ASSUME NEW r \in CallRecord, NEW pc, NEW c, c = [r EXCEPT !.pc = pc]
  PROVE  c.attempt = r.attempt /\ c.nonce = r.nonce /\ c.pc = pc
BY DEF CallRecord

LEMMA SignsNextAttempt ==
  ASSUME NEW r \in CallRecord, NEW x \in Nat, NEW c, c = SignsNext(r, x)
  PROVE  c.attempt = r.attempt + 1 /\ c.pc = r.pc
<1>1. PICK b : b = [r EXCEPT !.nonce = x]
  OBVIOUS
<1>2. b \in CallRecord /\ b.pc = r.pc /\ b.attempt = r.attempt
  BY <1>1 DEF CallRecord
<1>3. c = [b EXCEPT !.attempt = r.attempt + 1]
  BY <1>1, <1>2 DEF SignsNext
<1> QED
  BY <1>2, <1>3 DEF CallRecord

LEMMA StepAttempts ==
  ASSUME GossipInv, AttemptsOK, [Next]_vars, NEW i \in Call
  PROVE  SameAttempt(i) \/ NextAttempt(i)
<1>1. CASE UNCHANGED call
  BY <1>1 DEF SameAttempt
<1>2. ASSUME NEW l \in Call, NEW c, call' = [call EXCEPT ![l] = c],
             l = i => \/ /\ c.attempt = call[i].attempt /\ c.nonce = call[i].nonce
                         /\ c.pc = "new" <=> call[i].pc = "new"
                      \/ /\ c.attempt = call[i].attempt + 1 /\ call[i].attempt < MaxAttempts
                         /\ c.pc # "new"
      PROVE  SameAttempt(i) \/ NextAttempt(i)
  <2>1. call'[i] = IF l = i THEN c ELSE call[i]
    BY <1>2 DEF GossipInv, TypeOK
  <2> QED
    BY <1>2, <2>1 DEF SameAttempt, NextAttempt
<1>3. ASSUME NEW l \in Call, Start(l) PROVE SameAttempt(i) \/ NextAttempt(i)
  <2>1. PICK c : c = [pc |-> "proposes", attempt |-> 1, nonce |-> seen[NodeOf[l]][KeyOf[l]]]
    OBVIOUS
  <2>2. c.pc = "proposes" /\ c.attempt = 1 /\ call' = [call EXCEPT ![l] = c]
    BY <1>3, <2>1 DEF Start
  <2>3. call[l].attempt = 0
    BY <1>3 DEF Start, AttemptsOK
  <2>4. c.attempt = call[l].attempt + 1 /\ call[l].attempt < MaxAttempts /\ c.pc # "new"
    BY <2>2, <2>3
  <2> QED
    BY <1>2, <2>2, <2>4
<1>4. ASSUME NEW l \in Call, Propose(l) \/ Wake(l) PROVE SameAttempt(i) \/ NextAttempt(i)
  <2>1. PICK pc \in {"proposes", "waits"} : call' = [call EXCEPT ![l].pc = pc]
    BY <1>4 DEF Propose, Wake
  <2>2. PICK c : c = [call[l] EXCEPT !.pc = pc]
    OBVIOUS
  <2>3. call[l] \in CallRecord
    BY DEF GossipInv, TypeOK
  <2>4. c.attempt = call[l].attempt /\ c.nonce = call[l].nonce /\ c.pc # "new"
    BY <2>2, <2>3, WithPCAttempt
  <2>5. call[l].pc # "new"
    BY <1>4 DEF Propose, Wake
  <2>6. call' = [call EXCEPT ![l] = c]
    BY <2>1, <2>2
  <2> QED
    BY <1>2, <2>4, <2>5, <2>6
<1>5. ASSUME NEW l \in Call, Learn(l) PROVE SameAttempt(i) \/ NextAttempt(i)
  <2>1. PICK reason \in Reason :
          \E c : /\ call' = [call EXCEPT ![l] = c]
                 /\ c = IF reason.why = "landed" THEN [call[l] EXCEPT !.pc = "landed"]
                        ELSE IF Retried(l, reason.expected)
                             THEN SignsNext(call[l], reason.expected)
                             ELSE [call[l] EXCEPT !.pc = "failed"]
    BY <1>5, Learned
  <2>2. PICK c : /\ call' = [call EXCEPT ![l] = c]
                 /\ c = IF reason.why = "landed" THEN [call[l] EXCEPT !.pc = "landed"]
                        ELSE IF Retried(l, reason.expected)
                             THEN SignsNext(call[l], reason.expected)
                             ELSE [call[l] EXCEPT !.pc = "failed"]
    BY <2>1
  <2>3. call[l] \in CallRecord /\ call[l].pc = "proposes"
    BY <1>5 DEF Learn, GossipInv, TypeOK
  <2>4. CASE \E pc \in {"landed", "failed"} : c = [call[l] EXCEPT !.pc = pc]
    <3>1. c.attempt = call[l].attempt /\ c.nonce = call[l].nonce /\ c.pc # "new"
      BY <2>3, <2>4, WithPCAttempt
    <3> QED
      BY <1>2, <2>2, <2>3, <3>1
  <2>5. CASE /\ reason.why # "landed" /\ Retried(l, reason.expected)
             /\ c = SignsNext(call[l], reason.expected)
    <3>1. reason.expected \in Nat
      BY <2>5 DEF Reason, Landed, Failed
    <3>2. c.attempt = call[l].attempt + 1 /\ c.pc = "proposes"
      BY <2>3, <2>5, <3>1, SignsNextAttempt
    <3>3. call[l].attempt < MaxAttempts
      BY <2>5 DEF Retried
    <3> QED
      BY <1>2, <2>2, <3>2, <3>3
  <2> QED
    BY <2>2, <2>4, <2>5
<1>6. CASE ~\E l \in Call : Start(l) \/ Propose(l) \/ Wake(l) \/ Learn(l)
  BY <1>1, <1>6 DEF Next, vars, callVars, Execute, Sync, Rebroadcast, BroadcastNew, Broadcast,
                    Break, Connect, Finish, Handle
<1> QED
  BY <1>3, <1>4, <1>5, <1>6

LEMMA MentionedIs ==
  ASSUME GossipInv, NEW t, Mentioned(t)
  PROVE  t \in Tx /\ t.call \in Call
<1> SUFFICES t \in Tx
  BY KeyForIsKey
<1>1. CASE Offered(t)
  BY <1>1 DEF GossipInv, RumoursTrue, Signed
<1>2. CASE \E n \in Node : t \in Known(n)
  BY <1>2, ReasonIs DEF GossipInv
<1>3. CASE t \in Range(chain)
  BY <1>3, InRange, ElementOfSeq DEF GossipInv, TypeOK
<1> QED
  BY <1>1, <1>2, <1>3 DEF Mentioned

\* The transaction of the attempt that a step makes, if it makes one.
LEMMA SignedAtNext ==
  ASSUME GossipInv, GossipInv', AttemptsOK, MentionsNoMore, NEW f, SignedAt(f),
         \A i \in Call : SameAttempt(i) \/ NextAttempt(i)
  PROVE  \E g : SignedAt(g)'
<1>0. PICK g : g = [p \in Place |->
                      IF p[2] # call[p[1]].attempt /\ p[2] = call'[p[1]].attempt
                      THEN Pending(p[1])' ELSE f[p]]
  OBVIOUS
<1>1. ASSUME NEW i \in Call
      PROVE  /\ Pending(i) \in Tx /\ Pending(i)' \in Tx
             /\ call[i].attempt \in Nat /\ call'[i].attempt \in Nat
             /\ call[i].attempt <= MaxAttempts /\ call'[i].attempt <= MaxAttempts
             /\ call[i].attempt <= call'[i].attempt
             /\ call'[i].attempt = call[i].attempt => Pending(i)' = Pending(i)
  <2>1. /\ Pending(i) \in Tx /\ call[i].attempt \in Nat /\ call[i].nonce \in Nat
    BY CallIs
  <2>2. call'[i].attempt \in Nat /\ call'[i].nonce \in Nat
    BY DEF GossipInv, TypeOK, CallRecord
  <2>3. Pending(i)' \in Tx
    BY <2>2 DEF Pending, Tx
  <2>4. call[i].attempt <= MaxAttempts
    BY DEF AttemptsOK
  <2>5. /\ call[i].attempt <= call'[i].attempt /\ call'[i].attempt <= MaxAttempts
        /\ call'[i].attempt = call[i].attempt => call'[i].nonce = call[i].nonce
    BY <2>1, <2>2, <2>4 DEF SameAttempt, NextAttempt
  <2> QED
    BY <2>1, <2>2, <2>3, <2>4, <2>5 DEF Pending
<1>2. g \in [Place -> Tx]
  BY <1>0, <1>1 DEF SignedAt, Place
<1>3. ASSUME NEW i \in Call, NEW a \in Attempts
      PROVE  g[<<i, a>>] = IF a # call[i].attempt /\ a = call'[i].attempt
                           THEN Pending(i)' ELSE f[<<i, a>>]
  BY <1>0 DEF Place
<1>4. ASSUME NEW i \in Call, call'[i].attempt # 0 PROVE g[<<i, call'[i].attempt>>] = Pending(i)'
  <2>1. PICK a \in Attempts : a = call'[i].attempt
    BY <1>1, <1>4 DEF Attempts
  <2>2. CASE a # call[i].attempt
    BY <1>3, <2>1, <2>2
  <2>3. CASE a = call[i].attempt
    <3>1. f[<<i, a>>] = Pending(i)
      BY <1>4, <2>1, <2>3 DEF SignedAt
    <3> QED
      BY <1>1, <1>3, <2>1, <2>3, <3>1
  <2> QED
    BY <2>2, <2>3
<1>5. ASSUME NEW t, Mentioned(t) \/ Asked(t)
      PROVE  t.call \in Call /\ \E a \in 1..call[t.call].attempt : f[<<t.call, a>>] = t
  <2>1. CASE Mentioned(t)
    BY <2>1, MentionedIs DEF SignedAt
  <2>2. CASE Asked(t)
    <3>1. PICK i \in Call : call[i].pc = "proposes" /\ t = Pending(i)
      BY <2>2 DEF Asked
    <3>2. t.call = i /\ call[i].attempt \in Nat /\ call[i].attempt # 0
      BY <3>1, CallIs DEF AttemptsOK
    <3>3. f[<<i, call[i].attempt>>] = t
      BY <3>1, <3>2 DEF SignedAt
    <3> QED
      BY <3>2, <3>3
  <2> QED
    BY <1>5, <2>1, <2>2
<1>6. ASSUME NEW t, Mentioned(t)'
      PROVE  \E a \in 1..call'[t.call].attempt : g[<<t.call, a>>] = t
  <2>0. PICK i \in Call : t.call = i /\ \E a \in 1..call[i].attempt : f[<<i, a>>] = t
    BY <1>5, <1>6 DEF MentionsNoMore
  <2>1. PICK a \in 1..call[i].attempt : t.call = i /\ f[<<i, a>>] = t
    BY <2>0
  <2>2. a \in Attempts /\ a \in 1..call'[i].attempt
    BY <1>1 DEF Attempts
  <2>3. ~(a # call[i].attempt /\ a = call'[i].attempt)
    BY <1>1, <2>1 DEF SameAttempt, NextAttempt
  <2>4. g[<<i, a>>] = t
    BY <1>3, <2>1, <2>2, <2>3
  <2> QED
    BY <2>1, <2>2, <2>4
<1>7. /\ \A i \in Call : call'[i].attempt # 0 => g[<<i, call'[i].attempt>>] = Pending(i)'
      /\ \A t : Mentioned(t)' => \E a \in 1..call'[t.call].attempt : g[<<t.call, a>>] = t
  BY <1>4, <1>6
<1>8. SignedAt(g)'
  BY <1>2, <1>7 DEF SignedAt
<1> QED
  BY <1>8

LEMMA LearnsElsewhere ==
  ASSUME GossipInv, NEW n, NEW t, NEW reason, Blocks(n, t, reason),
         t \in Known(n) \/ n # Processor
  PROVE  UNCHANGED blocked[Processor]
<1>1. DOMAIN blocked = Node /\ Processor \in Node
  BY DEF GossipInv, TablesTypeOK, Node
<1>2. UNCHANGED blocked \/ \E b : blocked' = [blocked EXCEPT ![n] = b]
  BY DEF Blocks, tableVars
<1>3. CASE t \in Known(n)
  BY <1>3 DEF Blocks, tableVars
<1>4. CASE n # Processor
  BY <1>1, <1>2, <1>4
<1> QED
  BY <1>3, <1>4

LEMMA LearnsOnce ==
  ASSUME GossipInv, OneEntry, Learns
  PROVE  OneEntry'
<1>1. PICK n \in Node, t \in Tx, reason \in Reason :
        /\ Blocks(n, t, reason)
        /\ \A m \in net' : m \in net \/ (m \in Envelope /\ m.body = NewsBody(t, reason))
  BY DEF Learns
<1>2. CASE t \in Known(n) \/ n # Processor
  <2>1. UNCHANGED blocked[Processor]
    BY <1>1, <1>2, LearnsElsewhere
  <2> QED
    BY <2>1 DEF OneEntry
<1>3. CASE t \notin Known(n) /\ n = Processor
  <2>1. PICK r : r = [tx |-> t, reason |-> reason]
    OBVIOUS
  <2>2. \A e \in blocked'[Processor] : e \in blocked[Processor] \/ e = r
    BY <1>1, <1>3, <2>1, BlocksSpreads DEF GossipInv
  <2>3. \A e \in blocked[Processor] : e.tx # r.tx
    BY <1>3, <2>1 DEF Known
  <2> QED
    BY <2>2, <2>3 DEF OneEntry
<1> QED
  BY <1>2, <1>3

LEMMA RoomStep ==
  ASSUME GossipInv, RoomInv, [Next]_vars
  PROVE  RoomInv'
<1>1. GossipInv'
  BY GossipStep
<1>2. \A i \in Call : SameAttempt(i) \/ NextAttempt(i)
  BY StepAttempts DEF RoomInv
<1>3. MentionsNoMore /\ (Learns \/ UNCHANGED blocked)
  BY StepMentions
<1>4. \E f : SignedAt(f)'
  BY <1>1, <1>2, <1>3, SignedAtNext DEF RoomInv
<1>5. OneEntry'
  BY <1>3, LearnsOnce DEF RoomInv, OneEntry
<1>6. AttemptsOK'
  <2>1. ASSUME NEW i \in Call
        PROVE  call'[i].attempt <= MaxAttempts /\ (call'[i].pc = "new" <=> call'[i].attempt = 0)
    BY <1>2, CallIs DEF RoomInv, AttemptsOK, SameAttempt, NextAttempt
  <2> QED
    BY <2>1 DEF AttemptsOK
<1> QED
  BY <1>4, <1>5, <1>6 DEF RoomInv

LEMMA RoomInit == Init => RoomInv
<1> SUFFICES ASSUME Init PROVE RoomInv
  OBVIOUS
<1>1. AttemptsOK /\ \A i \in Call : call[i].attempt = 0
  BY DEF Init, AttemptsOK
<1>2. OneEntry
  BY DEF Init, OneEntry, Node
<1>3. \A t : ~Mentioned(t)
  BY DEF Init, Mentioned, Offered, Known, Txs, Range
<1>4. \E f : f \in [Place -> Tx]
  <2>1. [p \in Place |-> [call |-> p[1], nonce |-> 0]] \in [Place -> Tx]
    BY DEF Place, Tx
  <2> QED
    BY <2>1
<1>5. \E f : SignedAt(f)
  BY <1>1, <1>3, <1>4 DEF SignedAt
<1> QED
  BY <1>1, <1>2, <1>5 DEF RoomInv

-----------------------------------------------------------------------------
\* Room.

Roomy == IsFiniteSet(Call) /\ Cardinality(Call) * MaxAttempts <= BlockedCap

LEMMA Places ==
  ASSUME Roomy
  PROVE  IsFiniteSet(Place) /\ Cardinality(Place) <= BlockedCap
<1>1. IsFiniteSet(Attempts) /\ Cardinality(Attempts) = MaxAttempts
  BY FS_Interval DEF Attempts
<1>2. IsFiniteSet(Place) /\ Cardinality(Place) = Cardinality(Call) * MaxAttempts
  BY <1>1, FS_Product DEF Roomy, Place
<1> QED
  BY <1>2 DEF Roomy

\* What the processor learns of is one more thing that has a place.
LEMMA HasRoom ==
  ASSUME Roomy, GossipInv, RoomInv, NEW t, Mentioned(t), t \notin Known(Processor)
  PROVE  /\ IsFiniteSet(blocked[Processor]) /\ Cardinality(blocked[Processor]) \in Nat
         /\ Cardinality(blocked[Processor]) < BlockedCap
<1> DEFINE S == Known(Processor) \cup {t}
<1>1. PICK f : SignedAt(f)
  BY DEF RoomInv
<1>2. Processor \in Node /\ blocked[Processor] \subseteq Rumour
  BY DEF Node, GossipInv, TablesTypeOK
<1>3. \A x \in S : Mentioned(x)
  BY <1>2 DEF Mentioned
<1>4. \A x \in S : \E p \in Place : f[p] = x
  <2>1. ASSUME NEW x \in S PROVE \E p \in Place : f[p] = x
    <3>1. Mentioned(x)
      BY <1>3
    <3>2. x.call \in Call
      BY <3>1, MentionedIs
    <3>3. PICK i \in Call : i = x.call
      BY <3>2
    <3>4. PICK a \in 1..call[i].attempt : f[<<i, a>>] = x
      BY <1>1, <3>1, <3>3 DEF SignedAt
    <3>5. call[i].attempt \in Nat /\ call[i].attempt <= MaxAttempts
      BY CallIs DEF RoomInv, AttemptsOK
    <3>6. <<i, a>> \in Place
      BY <3>5 DEF Place, Attempts
    <3> QED
      BY <3>4, <3>6
  <2> QED
    BY <2>1
<1> HIDE DEF S
<1>5. [x \in S |-> CHOOSE p \in Place : f[p] = x] \in Injection(S, Place)
  <2>1. PICK g : g = [x \in S |-> CHOOSE p \in Place : f[p] = x]
    OBVIOUS
  <2>2. \A x \in S : g[x] \in Place /\ f[g[x]] = x
    BY <1>4, <2>1
  <2>3. g \in [S -> Place]
    BY <2>1, <2>2
  <2>4. \A x, y \in S : g[x] = g[y] => x = y
    BY <2>2
  <2>5. g \in Injection(S, Place)
    BY <2>3, <2>4 DEF Injection, IsInjective
  <2> QED
    BY <2>1, <2>5
<1>6. IsFiniteSet(S) /\ Cardinality(S) <= BlockedCap
  <2>1. IsFiniteSet(S) /\ Cardinality(S) <= Cardinality(Place)
    BY <1>5, Places, FS_Injection
  <2>2. Cardinality(S) \in Nat /\ Cardinality(Place) \in Nat
    BY <2>1, Places, FS_CardinalityType
  <2> QED
    BY <2>1, <2>2, Places
<1>7. /\ IsFiniteSet(Known(Processor)) /\ Cardinality(Known(Processor)) \in Nat
      /\ Cardinality(S) = Cardinality(Known(Processor)) + 1
  <2>1. Known(Processor) \subseteq S
    BY DEF S
  <2>2. IsFiniteSet(Known(Processor))
    BY <1>6, <2>1, FS_Subset
  <2> QED
    BY <2>2, FS_AddElement, FS_CardinalityType DEF S
<1>8. IsFiniteSet(blocked[Processor]) /\ Cardinality(blocked[Processor]) <= Cardinality(Known(Processor))
  <2>1. PICK g : g = [e \in blocked[Processor] |-> e.tx]
    OBVIOUS
  <2>2. g \in [blocked[Processor] -> Known(Processor)]
    BY <2>1 DEF Known
  <2>3. \A d, e \in blocked[Processor] : g[d] = g[e] => d = e
    BY <2>1 DEF RoomInv, OneEntry
  <2>4. g \in Injection(blocked[Processor], Known(Processor))
    BY <2>2, <2>3 DEF Injection, IsInjective
  <2> QED
    BY <1>7, <2>4, FS_Injection
<1>9. Cardinality(blocked[Processor]) \in Nat
  BY <1>8, FS_CardinalityType
<1>10. Cardinality(S) <= BlockedCap /\ BlockedCap \in Nat
  BY <1>6
<1> QED
  BY <1>7, <1>8, <1>9, <1>10

LEMMA RoomKeeps ==
  ASSUME Roomy, GossipInv, RoomInv, [Next]_vars
  PROVE  FailuresKept
<1>1. CASE UNCHANGED blocked
  BY <1>1 DEF FailuresKept
<1>2. CASE Learns
  <2>1. PICK n \in Node, t \in Tx, reason \in Reason : Mentioned(t) /\ Blocks(n, t, reason)
    BY <1>2 DEF Learns
  <2>2. CASE t \in Known(n) \/ n # Processor
    <3>1. UNCHANGED blocked[Processor]
      BY <2>1, <2>2, LearnsElsewhere
    <3> QED
      BY <3>1 DEF FailuresKept
  <2>3. CASE t \notin Known(n) /\ n = Processor
    <3>1. PICK b : b = blocked[Processor]
      OBVIOUS
    <3>2. IsFiniteSet(b) /\ Cardinality(b) \in Nat /\ Cardinality(b) < BlockedCap
      BY <2>1, <2>3, <3>1, HasRoom
    <3>3. PICK forgotten \in SUBSET b :
            /\ Cardinality(b) - Cardinality(forgotten)
                 = IF Cardinality(b) < BlockedCap THEN Cardinality(b) ELSE BlockedCap - 1
            /\ blocked' = [blocked EXCEPT
                 ![Processor] = (@ \ forgotten) \cup {[tx |-> t, reason |-> reason]}]
      BY <2>1, <2>3, <3>1 DEF Blocks
    <3>4. IsFiniteSet(forgotten) /\ Cardinality(forgotten) \in Nat
      BY <3>2, FS_Subset, FS_CardinalityType
    <3>5. Cardinality(b) - Cardinality(forgotten) = Cardinality(b)
      BY <3>2, <3>3
    <3>6. Cardinality(forgotten) = 0
      BY <3>2, <3>4, <3>5
    <3>7. forgotten = {}
      BY <3>4, <3>6, FS_EmptySet
    <3>8. Processor \in Node /\ DOMAIN blocked = Node
      BY DEF Node, GossipInv, TablesTypeOK
    <3> QED
      BY <3>1, <3>3, <3>7, <3>8 DEF FailuresKept
  <2> QED
    BY <2>2, <2>3
<1> QED
  BY <1>1, <1>2, StepMentions

\* Where the table of the processor has room for all that calls ever sign, it forgets no
\* failure, and what a call returns is so without conditions: what may make a table
\* full is only what has been signed, however often it is said and sent, and each call
\* signs a bounded number of times (mempool.rs add_signed_block and
\* add_failed_transaction, kolme.rs sign_propose_await_transaction_inner).
THEOREM AnswersHoldWithRoom ==
  ASSUME IsFiniteSet(Call), Cardinality(Call) * MaxAttempts <= BlockedCap
  PROVE  Spec => []AnswersAreTrue
<1>1. GossipInv /\ RoomInv /\ [Next]_vars => RoomInv'
  BY RoomStep
<1>2. GossipInv /\ RoomInv /\ [Next]_vars => [FailuresKept]_vars
  BY RoomKeeps DEF Roomy
<1>3. Spec => [][FailuresKept]_vars
  BY <1>1, <1>2, RoomInit, GossipInvariant, PTL DEF Spec
<1> QED
  BY <1>3, AnswersHold, PTL
=============================================================================
