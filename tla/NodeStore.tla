------------------------------ MODULE NodeStore ------------------------------
(***************************************************************************)
(* A processor with its store.  It executes a transaction against the      *)
(* state in memory, writes the layers of the new state, the block and      *)
(* where to find the transaction, and only then moves to the new state.    *)
(* It may stop between any two writes, and the machine it runs on may      *)
(* lose the last of them.  On the restart it loads the latest block's      *)
(* state from the layers in the store.                                     *)
(*                                                                         *)
(* A state is content-addressed: the layer of its root stands for the      *)
(* whole, and has a layer per account below it.  Stores: "postgres", whose *)
(* writes are durable one by one and where a block's row is also its       *)
(* transaction's; "fjall", a journal that is flushed after a block.        *)
(***************************************************************************)
EXTENDS SixSigma

CONSTANTS
  Stores,      \* the kinds of store to look at
  Uses,        \* what users do, one of these in a behaviour: the sequences of
               \* messages they send, and a bound on the chain's height
  MaxNonce,    \* bound on the nonces transactions are signed for
  MaxCrashes   \* bound on crashes

ASSUME NodeStoreAssumption ==
  /\ Stores \subseteq {"postgres", "fjall"}
  /\ \A u \in Uses : u.height \in Nat /\ u.bodies \subseteq Seq(Messages)
  /\ MaxNonce \in Nat /\ MaxCrashes \in Nat

VARIABLES
  store,     \* the kind of store
  use,       \* what users do
  durable,   \* what is in the store for good
  tail,      \* writes that a crash of the machine may lose, in order
  todo,      \* writes of the block being added that are still to be done
  state,     \* the state in memory; Down when the node does not run
  height,    \* its height
  adding,    \* the state of the block being added, or Nothing
  crashes

vars == <<store, use, durable, tail, todo, state, height, adding, crashes>>

Down == [down |-> TRUE]
Nothing == [nothing |-> TRUE]
Running == state # Down

-----------------------------------------------------------------------------
\* What is written.

Leaf(id, account) == [op |-> "layer", leaf |-> <<id, account>>]
Root(s) == [op |-> "layer", root |-> s]
Leaves(s) == {Leaf(id, s.accounts.all[id]) : id \in DOMAIN s.accounts.all}
BlockAt(h, tx, s) == [op |-> "block", height |-> h, tx |-> tx, state |-> s]
TxAt(tx, h) == [op |-> "tx", tx |-> tx, height |-> h]

Present == durable \cup Range(tail)

\* contains_hash: a layer is in the store.
HasLayer(layer) == layer \in Present
NewLayers(s) == {layer \in Leaves(s) : ~HasLayer(layer)}

\* A layer follows the layers below it, and nothing is below one that is there.
Layers_RootFirst(s) ==
  IF HasLayer(Root(s)) THEN << >>
  ELSE <<Root(s)>> \o SetToSeq(NewLayers(s))

Layers(s) ==
  IF HasLayer(Root(s)) THEN << >>
  ELSE SetToSeq(NewLayers(s)) \o <<Root(s)>>

Writes(h, tx, s) ==
  Layers(s) \o <<BlockAt(h, tx, s)>> \o
    IF store = "fjall" THEN <<TxAt(tx, h)>> ELSE << >>

Blocks == {w \in Present : w.op = "block"}
Latest == CHOOSE b \in Blocks : \A c \in Blocks : c.height <= b.height

\* get_tx_height
Found(tx) ==
  \E w \in Present :
    w.op = (IF store = "fjall" THEN "tx" ELSE "block") /\ w.tx = tx

-----------------------------------------------------------------------------

\* Anybody may send a transaction again that has been signed once.
Construct_Unchecked(tx) ==
  /\ Running /\ adding = Nothing /\ height < use.height
  /\ CanExecute(state, tx)
  /\ adding' = Executed(state, tx).state
  /\ todo' = Writes(height + 1, tx, Executed(state, tx).state)
  /\ UNCHANGED <<store, use, durable, tail, state, height, crashes>>

Construct(tx) ==
  /\ Running /\ adding = Nothing /\ height < use.height
  /\ ~Found(tx) /\ CanExecute(state, tx)
  /\ adding' = Executed(state, tx).state
  /\ todo' = Writes(height + 1, tx, Executed(state, tx).state)
  /\ UNCHANGED <<store, use, durable, tail, state, height, crashes>>

Write ==
  /\ todo # << >>
  /\ todo' = Tail(todo)
  /\ IF store = "fjall"
     THEN tail' = Append(tail, Head(todo)) /\ UNCHANGED durable
     ELSE durable' = durable \cup {Head(todo)} /\ UNCHANGED tail
  /\ UNCHANGED <<store, use, state, height, adding, crashes>>

\* The node moves on to the new state.
MovesOn == state' = adding /\ height' = height + 1 /\ adding' = Nothing

\* The journal is flushed before that.
Finish ==
  /\ adding # Nothing /\ todo = << >>
  /\ durable' = Present /\ tail' = << >>
  /\ MovesOn
  /\ UNCHANGED <<store, use, todo, crashes>>

\* Of the writes that were not flushed, a first part is there afterwards.
Crash ==
  /\ Running /\ crashes < MaxCrashes
  /\ crashes' = crashes + 1
  /\ \E n \in 0..Len(tail) : durable' = durable \cup Range(SubSeq(tail, 1, n))
  /\ tail' = << >> /\ todo' = << >> /\ adding' = Nothing /\ state' = Down
  /\ UNCHANGED <<store, use, height>>

Restart ==
  /\ ~Running
  /\ height' = Latest.height
  /\ state' = [Latest.state EXCEPT !.accounts = Loaded(@)]
  /\ UNCHANGED <<store, use, durable, tail, todo, adding, crashes>>

-----------------------------------------------------------------------------

GenesisTx == [key |-> Validator, nonce |-> 0, body |-> << >>]

\* A chain that has its genesis block.
Init ==
  /\ store \in Stores /\ use \in Uses
  /\ durable = Leaves(Genesis) \cup
       {Root(Genesis), BlockAt(0, GenesisTx, Genesis), TxAt(GenesisTx, 0)}
  /\ tail = << >> /\ todo = << >> /\ crashes = 0
  /\ state = Genesis /\ height = 0 /\ adding = Nothing

Next ==
  \/ \E k \in Key, n \in 0..MaxNonce, body \in use.bodies :
       Construct([key |-> k, nonce |-> n, body |-> body])
  \/ Write \/ Finish \/ Crash \/ Restart

Spec == Init /\ [][Next]_vars

-----------------------------------------------------------------------------

\* A transaction is executed once, even though a key may leave an account and
\* join another whose nonce is lower, so that the nonce fits once more.  The
\* exception is a crash of a fjall store between a block and its transaction.
ExecutedOnce ==
  \A b, c \in Blocks :
    b.tx = c.tx /\ b.height < c.height => store = "fjall" /\ TxAt(b.tx, b.height) \notin Present

\* Whenever the node stops, it comes up again as it was: with every layer of the
\* latest block's state in the store, no block missing below it, and with the
\* lookups of keys and wallets, which are not stored, as the operations on the
\* accounts had left them (accounts.rs from_serialized_accounts).
Recoverable ==
  LET accounts == Latest.state.accounts
  IN  /\ HasLayer(Root(Latest.state)) /\ NewLayers(Latest.state) = {}
      /\ {b.height : b \in Blocks} = 0..Latest.height
      /\ CanLoad(accounts.all) /\ Loaded(accounts) = accounts

\* The coins of the accounts, and of the open markets.
Coins(accounts) == SumFunction([id \in DOMAIN accounts.all |-> accounts.all[id].coins])
Staked(markets) ==
  SumFunction([m \in DOMAIN markets |-> IF markets[m].open THEN markets[m].funds ELSE 0])

\* What was deposited or sent to the house is with an account, in the house's
\* reserve or in an open market, or has been paid out, or is lost in a bet on a
\* market that was settled already.
EveryCoinIsSomewhere ==
  Running =>
    Coins(state.accounts) + state.reserve + Staked(state.markets) + state.withdrawn + state.late
      = state.deposited + state.sent

\* The stakes in an open market pay its winners, whatever the outcome is.
MarketsCanSettle ==
  Running => \A m \in DOMAIN state.markets, o \in Outcome :
    LET market == state.markets[m]
    IN  market.open =>
          /\ CanSettle(state, m, o)
          /\ Payouts(market.bets, o) = market.liability[o]
          /\ Payouts(market.bets, o) <= market.funds

\* Every coin is accounted for, and an open market can be settled without
\* leaving the house in debt, however bets, settlements and crashes follow each
\* other (state.rs place_bet, settle).
BooksBalance == EveryCoinIsSomewhere /\ MarketsCanSettle
=============================================================================
