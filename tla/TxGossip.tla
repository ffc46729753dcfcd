------------------------------ MODULE TxGossip ------------------------------
(***************************************************************************)
(* How a signed transaction gets from who proposes it to the processor,    *)
(* and how the answer gets back: the mempool and its table of transactions *)
(* that landed or failed, which forget what was used least recently; the   *)
(* gossip of transactions and of news of them over websockets that break   *)
(* and reconnect; and the calls that sign, propose, wait and sign again    *)
(* with another nonce.                                                     *)
(***************************************************************************)
EXTENDS Naturals, Sequences, SequencesExt, FiniteSets

CONSTANTS
  Client,        \* nodes that connect to the processor's node
  Processor,     \* the processor's node
  Call,          \* calls of sign_propose_await_transaction
  NodeOf,        \* the node a call is made at
  Key,           \* the keys that sign
  KeyOf,         \* the key a call signs with
  Risky,         \* calls whose messages may fail, whatever the nonce
  MaxAttempts,   \* how often a call signs (MAX_NONCE_ATTEMPTS)
  PoolCap,       \* how many transactions a mempool keeps
  BlockedCap,    \* how many landed or failed transactions it remembers
  MaxBreaks      \* bound on how often connections break

Node == Client \cup {Processor}

ASSUME TxGossipAssumption ==
  /\ Processor \notin Client
  /\ NodeOf \in [Call -> Node]
  /\ KeyOf \in [Call -> Key] /\ Risky \subseteq Call
  /\ MaxAttempts \in Nat \ {0} /\ PoolCap \in Nat \ {0} /\ BlockedCap \in Nat \ {0}
  /\ MaxBreaks \in Nat

\* A transaction is known by its hash; each call signs one for each nonce it tries.
Tx == [call : Call, nonce : Nat]
KeyFor(t) == KeyOf[t.call]

\* Why a transaction is blocked: it landed, or it failed.  A failure says which
\* nonce was expected, if it was about the nonce.
Landed == [why : {"landed"}]
NotAboutNonce == 0
Failed == [why : {"failed"}, expected : Nat]

VARIABLES
  chain,     \* the transactions of the blocks, in order
  nonces,    \* for each key, the next nonce after the last block
  height,    \* for each node, how many blocks its state is made of
  seen,      \* for each node and key, the next nonce in that state
  adding,    \* the nodes whose store has a block that their mempool has not
  pool,      \* for each node, its mempool, what was used least recently first
  blocked,   \* for each node, what it knows to have landed or failed
  net,       \* the messages in flight
  up,        \* the clients that are connected
  breaks,    \* how often connections broke
  call,      \* for each call, where it is
  sig        \* the calls that have been woken

nodeVars == <<height, seen, adding>>
tableVars == <<pool, blocked>>
netVars == <<net, up, breaks>>
callVars == <<call, sig>>
vars == <<chain, nonces, nodeVars, tableVars, netVars, callVars>>

-----------------------------------------------------------------------------
\* Tables that forget.

\* The mempool is in the order of use.  Of the other table any entry may be the one
\* that was used least recently.

Txs(q) == {q[i].tx : i \in DOMAIN q}
Without(q, t) ==
  IF t \in Txs(q) THEN RemoveAt(q, CHOOSE i \in DOMAIN q : q[i].tx = t) ELSE q
Put(q, e) == LET r == Append(q, e) IN IF Len(r) > PoolCap THEN Tail(r) ELSE r

Known(n) == {e.tx : e \in blocked[n]}
ReasonOf(n, t) == (CHOOSE e \in blocked[n] : e.tx = t).reason

\* What has been gossiped counts as used, the most recent entry first: the order
\* of what is gossiped together is turned round, behind the rest.  Entry i is
\* ahead of entry j then.
Ahead(q, T, i, j) ==
  IF q[i].tx \in T THEN q[j].tx \in T /\ i > j ELSE q[j].tx \in T \/ i < j

MarksGossiped(n, T) ==
  LET q == pool[n]
      Marked(e) == [tx |-> e.tx, gossiped |-> e.gossiped \/ e.tx \in T]
  IN  \E was \in [DOMAIN q -> DOMAIN q] :
        /\ \A i, j \in DOMAIN q : i < j => Ahead(q, T, was[i], was[j])
        /\ pool' = [pool EXCEPT ![n] = [i \in DOMAIN q |-> Marked(q[was[i]])]]

-----------------------------------------------------------------------------
\* Messages.  Clients hear from the processor's node, which hears from them all.  A
\* client's broadcasts wait until it is connected.

Peers(n) == IF n = Processor THEN up ELSE {Processor}
Message(from, to, body) == [from |-> from, to |-> to, body |-> body]
Publish(n, bodies) == {Message(n, p, b) : p \in Peers(n), b \in bodies}

TxBody(t) == [kind |-> "tx", tx |-> t]
NewsBody(t, reason) == [kind |-> "news", tx |-> t, reason |-> reason]
IsLanded == [why |-> "landed"]
IsFailed(expected) == [why |-> "failed", expected |-> expected]

\* News of a transaction is passed on to the clients: it comes from the processor.
Announce(n, t, reason) ==
  IF n = Processor THEN Publish(n, {NewsBody(t, reason)}) ELSE {}

-----------------------------------------------------------------------------
\* What a node does with news of a transaction.  The first thing it learns stays.

Waiting(i) == call[i].pc \in {"proposes", "waits"}
Woken(n) == sig \cup {i \in Call : NodeOf[i] = n /\ Waiting(i)}

Blocks(n, t, reason) ==
  IF t \in Known(n) THEN UNCHANGED tableVars
  ELSE /\ \E forgotten \in SUBSET blocked[n] :
            /\ Cardinality(blocked[n]) - Cardinality(forgotten)
                 = IF Cardinality(blocked[n]) < BlockedCap THEN Cardinality(blocked[n])
                   ELSE BlockedCap - 1
            /\ blocked' = [blocked EXCEPT
                 ![n] = (@ \ forgotten) \cup {[tx |-> t, reason |-> reason]}]
       /\ pool' = [pool EXCEPT ![n] = Without(@, t)]

AddSignedBlock(n, t) == Blocks(n, t, IsLanded)

\* A failure that is new wakes who waits, and is announced.
AddFailed(n, t, reason) ==
  /\ Blocks(n, t, reason)
  /\ sig' = IF t \in Known(n) THEN sig ELSE Woken(n)

-----------------------------------------------------------------------------
\* The processor.

\* It takes what was used least recently.  What has landed already it only drops.
Execute ==
  /\ Processor \notin adding
  /\ pool[Processor] # << >>
  /\ LET t == Head(pool[Processor]).tx
         k == KeyFor(t)
         Fails(reason) ==
           /\ AddFailed(Processor, t, reason)
           /\ net' = net \cup Announce(Processor, t, reason)
           /\ UNCHANGED <<chain, nonces, adding>>
     IN \/ /\ t \in Range(chain)
           /\ AddSignedBlock(Processor, t)
           /\ UNCHANGED <<chain, nonces, adding, net, sig>>
        \/ /\ t \notin Range(chain) /\ t.nonce = nonces[k]
           /\ chain' = Append(chain, t)
           /\ nonces' = [nonces EXCEPT ![k] = t.nonce + 1]
           /\ adding' = adding \cup {Processor}
           /\ sig' = Woken(Processor)
           /\ UNCHANGED <<tableVars, net>>
        \/ /\ t \notin Range(chain) /\ t.nonce # nonces[k]
           /\ Fails(IsFailed(nonces[k]))
        \/ /\ t \notin Range(chain) /\ t.nonce = nonces[k] /\ t.call \in Risky
           /\ Fails(IsFailed(NotAboutNonce))
  /\ UNCHANGED <<height, seen, up, breaks, call>>

-----------------------------------------------------------------------------
\* Adding a block: it is stored and waiting calls are woken; then the mempool is
\* told, gossip is to announce it, and the block becomes the node's state.

Sync(c) ==
  /\ c \in up \ adding
  /\ height[c] < height[Processor]
  /\ adding' = adding \cup {c}
  /\ sig' = Woken(c)
  /\ UNCHANGED <<chain, nonces, height, seen, tableVars, netVars, call>>

Finish(n) ==
  /\ n \in adding
  /\ LET t == chain[height[n] + 1]
     IN /\ AddSignedBlock(n, t)
        /\ net' = net \cup Announce(n, t, IsLanded)
        /\ seen' = [seen EXCEPT ![n][KeyFor(t)] = t.nonce + 1]
  /\ height' = [height EXCEPT ![n] = @ + 1]
  /\ adding' = adding \ {n}
  /\ UNCHANGED <<chain, nonces, up, breaks, callVars>>

-----------------------------------------------------------------------------
\* Gossip.

\* What is new in the mempool is broadcast, and after a while all of it again.
Broadcast(n, T) ==
  /\ T # {}
  /\ net' = net \cup Publish(n, {TxBody(t) : t \in T})
  /\ MarksGossiped(n, T)
  /\ UNCHANGED <<chain, nonces, nodeVars, blocked, up, breaks, callVars>>

BroadcastNew(n) == Broadcast(n, {e.tx : e \in {f \in Range(pool[n]) : ~f.gossiped}})

Rebroadcast_OnlyNew(c) == BroadcastNew(c)

\* (In the processor's own mempool nothing gets as old as that.)
Rebroadcast(c) == Broadcast(c, Txs(pool[c]))

\* A peer that broadcasts what is known to have landed or failed is told so.
HandleTx_TakesFailed(m) ==
  LET n == m.to
      t == m.body.tx
      landed == t \in Known(n) /\ ReasonOf(n, t) = IsLanded
  IN /\ net' = (net \ {m})
          \cup IF landed THEN {Message(n, m.from, NewsBody(t, IsLanded))} ELSE {}
     /\ pool' = IF landed \/ t \in Txs(pool[n]) THEN pool
          ELSE [pool EXCEPT ![n] = Put(@, [tx |-> t, gossiped |-> TRUE])]
     /\ UNCHANGED <<blocked, sig>>

HandleTx(m) ==
  LET n == m.to
      t == m.body.tx
  IN /\ IF t \in Known(n)
        THEN /\ net' = (net \ {m}) \cup {Message(n, m.from, NewsBody(t, ReasonOf(n, t)))}
             /\ UNCHANGED pool
        ELSE /\ net' = net \ {m}
             /\ pool' = IF t \in Txs(pool[n]) THEN pool
                  ELSE [pool EXCEPT ![n] = Put(@, [tx |-> t, gossiped |-> TRUE])]
     /\ UNCHANGED <<blocked, sig>>

HandleNews(m) ==
  /\ IF m.body.reason.why = "landed"
     THEN AddSignedBlock(m.to, m.body.tx) /\ UNCHANGED sig
     ELSE AddFailed(m.to, m.body.tx, m.body.reason)
  /\ net' = (net \ {m})
       \cup IF m.body.tx \in Known(m.to) THEN {}
            ELSE Announce(m.to, m.body.tx, m.body.reason)

Handle(m) ==
  /\ {m.from, m.to} \cap up # {}
  /\ \/ m.body.kind = "tx" /\ HandleTx(m)
     \/ m.body.kind = "news" /\ HandleNews(m)
  /\ UNCHANGED <<chain, nonces, nodeVars, up, breaks, call>>

\* A connection breaks, and any of what was on its way is lost: all that the
\* processor's node had for the client, and what the client had sent already.
Break(c) ==
  /\ c \in up
  /\ breaks < MaxBreaks
  /\ breaks' = breaks + 1
  /\ up' = up \ {c}
  /\ \E sent \in SUBSET {m \in net : m.from = c} :
       net' = {m \in net : m.to # c} \ sent
  /\ UNCHANGED <<chain, nonces, nodeVars, tableVars, callVars>>

Connect(c) ==
  /\ c \in Client \ up
  /\ up' = up \cup {c}
  /\ UNCHANGED <<chain, nonces, nodeVars, tableVars, net, breaks, callVars>>

-----------------------------------------------------------------------------
\* The calls.

Pending(i) == [call |-> i, nonce |-> call[i].nonce]

Start(i) ==
  /\ call[i].pc = "new"
  /\ call' = [call EXCEPT ![i] = [pc |-> "proposes", attempt |-> 1,
                                  nonce |-> seen[NodeOf[i]][KeyOf[i]]]]
  /\ UNCHANGED <<chain, nonces, nodeVars, tableVars, netVars, sig>>

\* It proposes again whenever it is woken, and learns from the refusal.
Propose(i) ==
  LET n == NodeOf[i]
      t == Pending(i)
  IN /\ call[i].pc = "proposes"
     /\ t \notin Known(n)
     /\ pool' = IF t \in Txs(pool[n]) THEN pool
          ELSE [pool EXCEPT ![n] = Put(@, [tx |-> t, gossiped |-> FALSE])]
     /\ call' = [call EXCEPT ![i].pc = "waits"]
     /\ UNCHANGED <<chain, nonces, nodeVars, blocked, netVars, sig>>

Wake_SignsAgain(i) ==
  /\ call[i].pc = "waits" /\ i \in sig
  /\ call' = [call EXCEPT ![i].pc = "proposes", ![i].nonce = seen[NodeOf[i]][KeyOf[i]]]
  /\ sig' = sig \ {i}
  /\ UNCHANGED <<chain, nonces, nodeVars, tableVars, netVars>>

Wake(i) ==
  /\ call[i].pc = "waits" /\ i \in sig
  /\ call' = [call EXCEPT ![i].pc = "proposes"]
  /\ sig' = sig \ {i}
  /\ UNCHANGED <<chain, nonces, nodeVars, tableVars, netVars>>

\* Only a nonce that is too low is replaced by the expected one.
Retried(i, expected) == call[i].nonce < expected /\ call[i].attempt < MaxAttempts

Learn(i) ==
  LET n == NodeOf[i]
      t == Pending(i)
      reason == ReasonOf(n, t)
  IN /\ call[i].pc = "proposes"
     /\ t \in Known(n)
     /\ sig' = sig \ {i}
     /\ call' = [call EXCEPT ![i] =
          IF reason.why = "landed" THEN [@ EXCEPT !.pc = "landed"]
          ELSE IF Retried(i, reason.expected)
               THEN [@ EXCEPT !.nonce = reason.expected,
                           !.attempt = call[i].attempt + 1]
               ELSE [@ EXCEPT !.pc = "failed"]]
     /\ UNCHANGED <<chain, nonces, nodeVars, tableVars, netVars>>

-----------------------------------------------------------------------------
Init ==
  /\ chain = << >>
  /\ nonces = [k \in Key |-> 0]
  /\ height = [n \in Node |-> 0]
  /\ seen = [n \in Node |-> [k \in Key |-> 0]]
  /\ adding = {}
  /\ pool = [n \in Node |-> << >>]
  /\ blocked = [n \in Node |-> {}]
  /\ net = {} /\ up = Client /\ breaks = 0
  /\ call = [i \in Call |-> [pc |-> "new", attempt |-> 0, nonce |-> 0]]
  /\ sig = {}

Next ==
  \/ Execute
  \/ \E c \in Client : Sync(c) \/ Rebroadcast(c) \/ Break(c) \/ Connect(c)
  \/ \E n \in Node : Finish(n) \/ BroadcastNew(n)
  \/ \E m \in net : Handle(m)
  \/ \E i \in Call : Start(i) \/ Propose(i) \/ Wake(i) \/ Learn(i)

Spec == Init /\ [][Next]_vars

\* Tasks that can go on do; connections are made again; what stays in a queue of a
\* connection that is up is taken from it in its turn.  Nobody has to make a call.
FairSpec ==
  /\ Spec
  /\ WF_vars(Execute)
  /\ \A c \in Client :
       WF_vars(Sync(c)) /\ WF_vars(Rebroadcast(c)) /\ WF_vars(Connect(c))
  /\ \A n \in Node :
       /\ WF_vars(Finish(n)) /\ WF_vars(BroadcastNew(n))
       /\ \A i \in Call :
            WF_vars(\E m \in net : m.to = n /\ m.body.tx.call = i /\ Handle(m))
  /\ \A i \in Call : WF_vars(Propose(i) \/ Wake(i) \/ Learn(i))

-----------------------------------------------------------------------------
\* Properties.

\* However often a call signs again, its messages are executed once at most
\* (kolme.rs sign_propose_await_transaction_inner).
ExecutedOnceAtMost ==
  \A j, l \in DOMAIN chain : chain[j].call = chain[l].call => j = l

\* What a call returns is so: its transaction has landed, or none of those it
\* signed has, nor will while the processor remembers what failed (kolme.rs
\* propose_and_await_transaction_inner, mempool.rs add).
AnswersAreTrue ==
  \A i \in Call :
    /\ call[i].pc = "landed" => Pending(i) \in Range(chain)
    /\ call[i].pc = "failed" => \A t \in Range(chain) : t.call # i

\* The processor gets to judge what a call waits for, whatever connections lose,
\* while the mempools have room for what is proposed (kolme.rs
\* propose_and_await_transaction_inner, gossip.rs broadcast_mempool_entries).
ProposalsAreJudged ==
  \A i \in Call, a \in 1..MaxAttempts :
    Waiting(i) /\ call[i].attempt = a
      ~> \/ Pending(i) \in Range(chain) \cup Known(Processor)
         \/ call[i].attempt # a \/ ~Waiting(i)
=============================================================================
