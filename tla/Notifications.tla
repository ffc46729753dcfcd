---------------------------- MODULE Notifications ----------------------------
(***************************************************************************)
(* What a node's API server tells a client over a websocket: each block,   *)
(* each failed transaction, and what the processors say is the latest      *)
(* block.  That saying comes from several processors with clocks of their  *)
(* own, and travels between the nodes in any order, repeatedly, or not at  *)
(* all.                                                                    *)
(***************************************************************************)
EXTENDS Integers

CONSTANTS
  Peer,              \* the nodes
  BlockProducer,     \* those that run a processor
  Server,            \* the one with the client
  MaxChain,          \* bound on the chain's height
  Times,             \* what a clock may show
  MaxFailed,         \* bound on failed transactions
  FailedCapacity     \* how many failures the channel keeps for a receiver

ASSUME NotificationsAssumption ==
  /\ BlockProducer \subseteq Peer /\ Server \in Peer
  /\ Times \subseteq Int
  /\ MaxChain \in Nat /\ MaxFailed \in Nat /\ FailedCapacity \in Nat

VARIABLES
  chainLength,  \* the number of blocks there are
  tip,          \* for each node, the height of its next block
  latestBlock,  \* for each node, what it takes to be the latest block
  toPublish,    \* the nodes whose gossip has not seen that it has changed
  onTheWay,     \* latest blocks that were sent to other nodes
  failures,     \* how many failed transactions the server has announced
  client,       \* "off", "open" or "closed"
  toTell,       \* the client's next block, the failures its channel has given,
                \* and whether latestBlock has changed since it last looked
  looking,      \* whether latestBlock is about to be read for the client
  told          \* what the client was last told: the height of its next
                \* block, how many failures there were, and a latest block

networkVars == <<chainLength, tip, latestBlock, toPublish, onTheWay>>
clientVars == <<client, toTell, looking, told>>
notifyVars == <<networkVars, failures, clientVars>>

NoLatest == [height |-> -1, when |-> 0]
LatestBlocks == [height : Nat, when : Times]

-----------------------------------------------------------------------------
\* The latest block.

\* check_height_when
IsLater(old, new) == new.height >= old.height /\ new.when > old.when
Replaces_AnyHeight(old, new) == old = NoLatest \/ new.when > old.when

Replaces(old, new) == old = NoLatest \/ IsLater(old, new)

\* The watchers are woken by a change only.
UpdateLatestBlock(n, l) ==
  IF Replaces(latestBlock[n], l)
  THEN /\ latestBlock' = [latestBlock EXCEPT ![n] = l]
       /\ toPublish' = toPublish \cup {n}
       /\ toTell' = [toTell EXCEPT !.latest = @ \/ n = Server]
  ELSE UNCHANGED <<latestBlock, toPublish, toTell>>

\* A processor says where it is: after a transaction, and every
\* latest_block_delay.
Emit(p, height) ==
  \E t \in Times : UpdateLatestBlock(p, [height |-> height, when |-> t])

EmitLatest(p) ==
  /\ tip[p] > 0
  /\ Emit(p, tip[p] - 1)
  /\ UNCHANGED <<chainLength, tip, onTheWay, failures, client, looking, told>>

ProduceBlock(p) ==
  /\ tip[p] = chainLength /\ chainLength < MaxChain
  /\ chainLength' = chainLength + 1
  /\ tip' = [tip EXCEPT ![p] = @ + 1]
  /\ Emit(p, chainLength)
  /\ UNCHANGED <<onTheWay, failures, client, looking, told>>

\* A node gets blocks from others, or from its database.
GetsBlocks(n) ==
  /\ \E h \in 1..chainLength : tip[n] < h /\ tip' = [tip EXCEPT ![n] = h]
  /\ UNCHANGED <<chainLength, latestBlock, toPublish, onTheWay, failures, clientVars>>

\* The gossip loop publishes what has become of it by now.
PublishLatest(n) ==
  /\ n \in toPublish
  /\ toPublish' = toPublish \ {n}
  /\ onTheWay' = onTheWay \cup {latestBlock[n]}
  /\ UNCHANGED <<chainLength, tip, latestBlock, failures, clientVars>>

\* A new connection begins with what the node knows.
PeerConnects(n) ==
  /\ latestBlock[n] # NoLatest
  /\ onTheWay' = onTheWay \cup {latestBlock[n]}
  /\ UNCHANGED <<chainLength, tip, latestBlock, toPublish, failures, clientVars>>

ReceiveLatest(n) ==
  /\ \E l \in onTheWay : UpdateLatestBlock(n, l)
  /\ UNCHANGED <<chainLength, tip, onTheWay, failures, client, looking, told>>

-----------------------------------------------------------------------------
\* The client.

FailureAnnounced ==
  /\ failures < MaxFailed
  /\ failures' = failures + 1
  /\ UNCHANGED <<networkVars, clientVars>>

ClientConnects ==
  /\ client # "open"
  /\ client' = "open" /\ looking' = FALSE
  /\ toTell' = [block |-> tip[Server], failure |-> failures, latest |-> FALSE]
  /\ told' = [block |-> tip[Server], failure |-> failures, latest |-> NoLatest]
  /\ UNCHANGED <<networkVars, failures>>

\* The next block, once the node has it.
TellBlock ==
  /\ client = "open" /\ ~looking
  /\ toTell.block < tip[Server]
  /\ toTell' = [toTell EXCEPT !.block = @ + 1]
  /\ told' = [told EXCEPT !.block = toTell.block + 1]
  /\ UNCHANGED <<networkVars, failures, client, looking>>

\* A client that the channel has left behind is disconnected.
Lags == failures - toTell.failure > FailedCapacity

TellFailure ==
  /\ client = "open" /\ ~looking /\ toTell.failure < failures
  /\ ~Lags
  /\ toTell' = [toTell EXCEPT !.failure = @ + 1]
  /\ told' = [told EXCEPT !.failure = toTell.failure + 1]
  /\ UNCHANGED <<networkVars, failures, client, looking>>

\* It is noticed that there is another latest block, which is then read, and may
\* have been replaced again in between.
NoticeLatest ==
  /\ client = "open" /\ ~looking /\ toTell.latest
  /\ toTell' = [toTell EXCEPT !.latest = FALSE]
  /\ looking' = TRUE
  /\ UNCHANGED <<networkVars, failures, client, told>>

TellLatest ==
  /\ client = "open" /\ looking
  /\ looking' = FALSE
  /\ told' = [told EXCEPT !.latest = latestBlock[Server]]
  /\ UNCHANGED <<networkVars, failures, client, toTell>>

\* The client leaves, or a block takes too long to load, or the channel lags.
ClientCloses ==
  /\ client = "open"
  /\ client' = "closed"
  /\ UNCHANGED <<networkVars, failures, toTell, looking, told>>

-----------------------------------------------------------------------------

NotifyInit ==
  /\ chainLength = 0 /\ tip = [n \in Peer |-> 0]
  /\ latestBlock = [n \in Peer |-> NoLatest] /\ toPublish = {} /\ onTheWay = {}
  /\ failures = 0
  /\ client = "off" /\ looking = FALSE
  /\ toTell = [block |-> 0, failure |-> 0, latest |-> FALSE]
  /\ told = [block |-> 0, failure |-> 0, latest |-> NoLatest]

NotifyNext ==
  \/ \E p \in BlockProducer : ProduceBlock(p) \/ EmitLatest(p)
  \/ \E n \in Peer :
       GetsBlocks(n) \/ PublishLatest(n) \/ PeerConnects(n) \/ ReceiveLatest(n)
  \/ FailureAnnounced
  \/ ClientConnects \/ ClientCloses
  \/ TellBlock \/ TellFailure \/ NoticeLatest \/ TellLatest

NotifySpec == NotifyInit /\ [][NotifyNext]_notifyVars

-----------------------------------------------------------------------------

\* What the client is told of last is a latest block that exists, or nothing.
Follows(old, new) ==
  /\ new.block \in {old.block, old.block + 1}
  /\ new.failure \in {old.failure, old.failure + 1}
  /\ \/ new.latest = old.latest
     \/ /\ old.latest = NoLatest \/ IsLater(old.latest, new.latest)
        /\ new.latest.height < chainLength'

\* As long as a client stays connected it is told of every block and of every
\* failure, one after the other; and the latest blocks it is told of exist, and
\* go back neither in height nor in time, although processors take turns whose
\* clocks differ, and what they say arrives in any order (api_server.rs
\* handle_websocket, kolme.rs update_latest_block).
ToldInOrder ==
  [][client = "open" /\ client' = "open" => Follows(told, told')]_notifyVars
=============================================================================
