-------------------------------- MODULE Genesis --------------------------------
(***************************************************************************)
(* How an application gets its bridge contracts.  A chain is configured    *)
(* without one; the submitter for that kind of chain creates it and tells  *)
(* everyone its address in a transaction that it signs with a throw-away   *)
(* key, and that the processor therefore drops.  Listeners who see it in   *)
(* the mempool before that attest to the address, and the quorum adopts    *)
(* it.  The submitter repeats itself until that has happened.  A listener  *)
(* does not ask who has signed what it sees: others may offer an address,  *)
(* also one that is no contract's.                                         *)
(*                                                                         *)
(* The chain is one sequence of blocks that every node executes; what it   *)
(* may not have seen yet is covered by the time a transaction is under way.*)
(* The trigger of a new block fires before the node's state moves to it,   *)
(* so who is woken reads the state with the block or the one before it,    *)
(* and goes back to sleep.                                                 *)
(*                                                                         *)
(* A contract is the number of its creation on its chain; the set that it  *)
(* is created with is the number of changes that led to that set.          *)
(***************************************************************************)
EXTENDS Naturals, FiniteSets, Sequences

CONSTANTS
  GenesisChains,     \* the chains to be given a contract, in their order
  KindOf,            \* the kind of each of them
  ListenerKeys,      \* the listeners, each with one component per kind
  NeededListeners,   \* how many of them must attest
  MaxCreated,        \* bound on the contracts created on a chain
  MaxSetChanges,     \* bound on changes of the validator set
  MaxOthersOffers,   \* bound on offers of anyone but the submitters
  MaxGenesisStops    \* bound on crashes of submitters and listeners

GenesisChain == {GenesisChains[i] : i \in DOMAIN GenesisChains}
ChainKind == {KindOf[c] : c \in GenesisChain}
Watcher == ListenerKeys \X ChainKind

ASSUME GenesisAssumption ==
  /\ \A i, j \in DOMAIN GenesisChains :
       GenesisChains[i] = GenesisChains[j] => i = j
  /\ KindOf \in [GenesisChain -> {"cosmos", "ethereum", "solana"}]
  /\ IsFiniteSet(ListenerKeys)
  /\ NeededListeners \in 1..Cardinality(ListenerKeys)
  /\ MaxCreated \in Nat /\ MaxSetChanges \in Nat
  /\ MaxOthersOffers \in Nat /\ MaxGenesisStops \in Nat

VARIABLES
  \* On Kolme:
  bridge,    \* for each chain, its contract in the config, 0 when needed
  event0,    \* for each chain, event 0: its contract, 0 before the first
             \* attestation, and who has attested
  changes,   \* how often the validator set has been changed
  before,    \* these three in the state before the last block
  vouched,   \* history: the attestations that landed
  \* On the external chains:
  born,      \* for each chain, the sets its contracts were created with
  \* Submitters, one for each kind:
  created,   \* genesis_created, for each chain
  making,    \* the contract being created, or NoWork
  looking,   \* whether it has been told of a block since it looked
  restarts,  \* how often one was stopped
  \* Mempools:
  offers,    \* transactions that name a contract, not signed by a listener
  others,    \* how many of them were not of a submitter
  stray,     \* transactions of listeners that stopped
  \* Listeners:
  stage,     \* what each component does
  vote,      \* the attestation it waits for, or NoOffer
  awake,     \* whether it has been told of a block or a transaction
  deaths     \* how often one was stopped

genesisChainVars == <<bridge, event0, changes, before, vouched>>
genesisSubmitterVars == <<created, making, looking, restarts>>
mempoolVars == <<offers, others, stray>>
genesisListenerVars == <<stage, vote, awake, deaths>>
genesisVars == <<genesisChainVars, born, genesisSubmitterVars, mempoolVars,
                 genesisListenerVars>>

Needed == 0
NoEvent == [contract |-> 0, votes |-> {}]
NoWork == [chain |-> "none", set |-> 0, contract |-> 0]
Offer(c, n) == [chain |-> c, contract |-> n]
NoOffer == Offer("none", 0)

\* What a node's state may be when a task of it looks.
Current == [bridge |-> bridge, event0 |-> event0, changes |-> changes]
States == {Current, before}

NewBlock_SubmittersOnly ==
  /\ before' = Current
  /\ looking' = [k \in ChainKind |-> TRUE]
  /\ UNCHANGED awake

\* Everyone is told of a block; submitters wait for nothing else.
NewBlock ==
  /\ before' = Current
  /\ looking' = [k \in ChainKind |-> TRUE]
  /\ awake' = [w \in Watcher |-> TRUE]

\* Listeners are told of transactions that come and go as well.
InMempool == awake' = [w \in Watcher |-> TRUE]

-----------------------------------------------------------------------------
\* The submitters.

\* The first chain that lacks a contract.
NextGenesis(state, c) ==
  \E i \in DOMAIN GenesisChains :
    /\ c = GenesisChains[i] /\ state.bridge[c] = Needed
    /\ \A j \in 1..(i - 1) : state.bridge[GenesisChains[j]] # Needed

ShouldCreate_EachTime(state, k, c) == NextGenesis(state, c) /\ KindOf[c] = k

ShouldCreate(state, k, c) ==
  NextGenesis(state, c) /\ KindOf[c] = k /\ created[c] = 0

\* It looks once, at what is its node's state then, and not again without another
\* block.
SubmitterLooks(k) ==
  /\ looking[k] /\ making[k] = NoWork
  /\ looking' = [looking EXCEPT ![k] = FALSE]
  /\ \E state \in States :
       \/ /\ \A c \in GenesisChain : ~ShouldCreate(state, k, c)
          /\ UNCHANGED making
       \/ \E c \in GenesisChain :
            /\ ShouldCreate(state, k, c)
            /\ making' = [making EXCEPT ![k] =
                            [chain |-> c, set |-> state.changes, contract |-> 0]]
  /\ UNCHANGED <<genesisChainVars, born, created, restarts, mempoolVars,
                 genesisListenerVars>>

\* A Solana program has one address, and is initialized once.
Creatable(c) == KindOf[c] = "solana" => born[c] = << >>

ContractCreated(k) ==
  LET c == making[k].chain
  IN  /\ making[k] # NoWork /\ making[k].contract = 0
      /\ Creatable(c) /\ Len(born[c]) < MaxCreated
      /\ born' = [born EXCEPT ![c] = Append(@, making[k].set)]
      /\ making' = [making EXCEPT ![k].contract = Len(born[c]) + 1]
      /\ UNCHANGED <<genesisChainVars, created, looking, restarts, mempoolVars,
                     genesisListenerVars>>

\* The address is known to this submitter, in memory, from here on.
ContractRecorded(k) ==
  /\ making[k].contract # 0
  /\ created' = [created EXCEPT ![making[k].chain] = making[k].contract]
  /\ making' = [making EXCEPT ![k] = NoWork]
  /\ UNCHANGED <<genesisChainVars, born, looking, restarts, mempoolVars,
                 genesisListenerVars>>

\* A submitter that stops is started again: it remembers nothing, and looks.
Forgotten(k) ==
  /\ created' = [c \in GenesisChain |-> IF KindOf[c] = k THEN 0 ELSE created[c]]
  /\ making' = [making EXCEPT ![k] = NoWork]
  /\ looking' = [looking EXCEPT ![k] = TRUE]
  /\ UNCHANGED <<genesisChainVars, born, mempoolVars, genesisListenerVars>>

\* An error while it creates a contract ends the submitter.
CreationFails(k) ==
  /\ making[k] # NoWork /\ making[k].contract = 0
  /\ ~Creatable(making[k].chain)
  /\ Forgotten(k) /\ UNCHANGED restarts

SubmitterStops(k) ==
  /\ restarts + deaths < MaxGenesisStops
  /\ restarts' = restarts + 1
  /\ Forgotten(k)

\* Every second, and at once after a creation; never while a contract is being
\* created, as the table of created ones is locked.
SubmitterProposes(k) ==
  /\ making[k] = NoWork
  /\ \E state \in States, c \in GenesisChain :
       /\ NextGenesis(state, c) /\ KindOf[c] = k /\ created[c] # 0
       /\ Offer(c, created[c]) \notin offers
       /\ offers' = offers \cup {Offer(c, created[c])}
  /\ InMempool
  /\ UNCHANGED <<genesisChainVars, born, genesisSubmitterVars, others, stray,
                 stage, vote, deaths>>

\* Whoever else sends a transaction that names an address: another submitter of the
\* chain, an operator, or one who is mistaken.
OthersOffer ==
  /\ others < MaxOthersOffers
  /\ others' = others + 1
  /\ \E c \in GenesisChain, n \in 1..MaxCreated : offers' = offers \cup {Offer(c, n)}
  /\ InMempool
  /\ UNCHANGED <<genesisChainVars, born, genesisSubmitterVars, stray, stage, vote,
                 deaths>>

\* The processor executes it, and its signer is not a listener.
OfferFails ==
  /\ \E o \in offers : offers' = offers \ {o}
  /\ InMempool
  /\ UNCHANGED <<genesisChainVars, born, genesisSubmitterVars, others, stray, stage,
                 vote, deaths>>

-----------------------------------------------------------------------------
\* Attestations on Kolme.

\* Event 0 is the next event until someone has attested to it, and is a pending
\* one until the quorum has.
VoteAcceptable_AnyContract(l, o) ==
  bridge[o.chain] = Needed /\ l \notin event0[o.chain].votes

VoteAcceptable(l, o) ==
  /\ bridge[o.chain] = Needed
  /\ event0[o.chain].contract \in {0, o.contract}
  /\ l \notin event0[o.chain].votes

VoteLands(l, o) ==
  LET e == event0[o.chain]
      votes == e.votes \cup {l}
  IN  /\ VoteAcceptable(l, o)
      /\ vouched' = vouched \cup {<<l, o>>}
      /\ \/ /\ Cardinality(votes) < NeededListeners
            /\ event0' = [event0 EXCEPT ![o.chain] =
                 [contract |-> IF e.contract = 0 THEN o.contract ELSE e.contract,
                  votes |-> votes]]
            /\ UNCHANGED bridge
         \/ /\ Cardinality(votes) >= NeededListeners
            /\ bridge' = [bridge EXCEPT ![o.chain] =
                 IF e.contract = 0 THEN o.contract ELSE e.contract]
            /\ event0' = [event0 EXCEPT ![o.chain] = NoEvent]
      /\ NewBlock
      /\ UNCHANGED <<changes, born, created, making, restarts, offers, others>>

\* The processor's key is handed on, say: an action for every chain, whether it
\* has a contract or not, takes the contract from the set before to the one after.
SetChanges ==
  /\ changes < MaxSetChanges
  /\ changes' = changes + 1
  /\ NewBlock
  /\ UNCHANGED <<bridge, event0, vouched, born, created, making, restarts,
                 mempoolVars, stage, vote, deaths>>

\* A block that has nothing to do with any of this.
OtherBlock ==
  /\ NewBlock
  /\ UNCHANGED <<bridge, event0, changes, vouched, born, created, making, restarts,
                 mempoolVars, stage, vote, deaths>>

StrayDecided ==
  /\ \E t \in stray :
       /\ stray' = stray \ {t}
       /\ \/ VoteLands(t[1], t[2])
          \/ /\ ~VoteAcceptable(t[1], t[2]) /\ InMempool
             /\ UNCHANGED <<genesisChainVars, born, genesisSubmitterVars, offers,
                            others>>
  /\ UNCHANGED <<stage, vote, deaths>>

-----------------------------------------------------------------------------
\* The listeners.

ChainsOf(k) == {c \in GenesisChain : KindOf[c] = k}

\* What is in the mempool: offers, and the attestations of listeners.
Visible ==
  offers \cup {vote[w] : w \in {v \in Watcher : stage[v] = "attesting"}}
         \cup {t[2] : t \in stray}

\* get_next_bridge_event_id is event 0.
HasNotAttested(state, l, c) ==
  state.bridge[c] = Needed /\ l \notin state.event0[c].votes

\* That the contract is not what it should be, or is none, is logged, and that is
\* all.
ListenerNotices(w) ==
  /\ stage[w] = "waiting" /\ awake[w]
  /\ \E o \in Visible, state \in States :
       /\ KindOf[o.chain] = w[2] /\ HasNotAttested(state, w[1], o.chain)
       /\ stage' = [stage EXCEPT ![w] = "attesting"]
       /\ vote' = [vote EXCEPT ![w] = o]
  /\ InMempool
  /\ UNCHANGED <<genesisChainVars, born, genesisSubmitterVars, mempoolVars, deaths>>

ListenerAttests(w) ==
  /\ stage[w] = "attesting"
  /\ VoteLands(w[1], vote[w])
  /\ stage' = [stage EXCEPT ![w] = "waiting"]
  /\ vote' = [vote EXCEPT ![w] = NoOffer]
  /\ UNCHANGED <<stray, deaths>>

\* A refused attestation ends the component, whatever the reason.
ListenerRefused(w) ==
  /\ stage[w] = "attesting" /\ ~VoteAcceptable(w[1], vote[w])
  /\ stage' = [stage EXCEPT ![w] = "down"]
  /\ vote' = [vote EXCEPT ![w] = NoOffer]
  /\ InMempool
  /\ UNCHANGED <<genesisChainVars, born, genesisSubmitterVars, mempoolVars, deaths>>

\* Having looked at the mempool, or at first, it asks whether all contracts of its
\* kind are there, and if they are not, sleeps.
ListenerChecks(w) ==
  /\ stage[w] = "waiting" /\ awake[w]
  /\ \E state \in States :
       \/ /\ \A c \in ChainsOf(w[2]) : state.bridge[c] # Needed
          /\ stage' = [stage EXCEPT ![w] = "listening"]
          /\ UNCHANGED awake
       \/ /\ \E c \in ChainsOf(w[2]) : state.bridge[c] = Needed
          /\ awake' = [awake EXCEPT ![w] = FALSE]
          /\ UNCHANGED stage
  /\ UNCHANGED <<genesisChainVars, born, genesisSubmitterVars, mempoolVars, vote,
                 deaths>>

\* What it has sent is decided without it.
ListenerDies(w) ==
  /\ restarts + deaths < MaxGenesisStops /\ stage[w] # "down"
  /\ deaths' = deaths + 1
  /\ stage' = [stage EXCEPT ![w] = "down"]
  /\ vote' = [vote EXCEPT ![w] = NoOffer]
  /\ stray' = stray \cup (IF stage[w] = "attesting" THEN {<<w[1], vote[w]>>} ELSE {})
  /\ UNCHANGED <<genesisChainVars, born, genesisSubmitterVars, offers, others, awake>>

\* At the start it looks without being told.
ListenerRestarts(w) ==
  /\ stage[w] = "down"
  /\ stage' = [stage EXCEPT ![w] = "waiting"]
  /\ awake' = [awake EXCEPT ![w] = TRUE]
  /\ UNCHANGED <<genesisChainVars, born, genesisSubmitterVars, mempoolVars, vote,
                 deaths>>

-----------------------------------------------------------------------------
GenesisInit ==
  /\ bridge = [c \in GenesisChain |-> Needed]
  /\ event0 = [c \in GenesisChain |-> NoEvent]
  /\ changes = 0 /\ vouched = {} /\ before = Current
  /\ born = [c \in GenesisChain |-> << >>]
  /\ created = [c \in GenesisChain |-> 0]
  /\ making = [k \in ChainKind |-> NoWork]
  /\ looking = [k \in ChainKind |-> TRUE]
  /\ restarts = 0
  /\ offers = {} /\ others = 0 /\ stray = {}
  /\ stage = [w \in Watcher |-> "waiting"]
  /\ vote = [w \in Watcher |-> NoOffer]
  /\ awake = [w \in Watcher |-> TRUE]
  /\ deaths = 0

SubmitterWorks(k) ==
  SubmitterLooks(k) \/ ContractCreated(k) \/ ContractRecorded(k) \/ CreationFails(k)

ListenerWorks(w) ==
  ListenerAttests(w) \/ ListenerRefused(w) \/ ListenerChecks(w) \/ ListenerRestarts(w)

GenesisNext ==
  \/ \E k \in ChainKind : SubmitterWorks(k) \/ SubmitterProposes(k) \/ SubmitterStops(k)
  \/ \E w \in Watcher : ListenerNotices(w) \/ ListenerWorks(w) \/ ListenerDies(w)
  \/ OthersOffer \/ OfferFails \/ StrayDecided
  \/ SetChanges \/ OtherBlock

\* Every component goes on, and what is in a mempool is decided.  An offer may
\* be dropped before a listener looks, but not every time it is repeated.
GenesisFairness ==
  /\ \A k \in ChainKind :
       WF_genesisVars(SubmitterWorks(k)) /\ WF_genesisVars(SubmitterProposes(k))
  /\ \A w \in Watcher :
       SF_genesisVars(ListenerNotices(w)) /\ WF_genesisVars(ListenerWorks(w))
  /\ WF_genesisVars(OfferFails) /\ WF_genesisVars(StrayDecided)

GenesisSpec == GenesisInit /\ [][GenesisNext]_genesisVars
GenesisFairSpec == GenesisSpec /\ GenesisFairness

-----------------------------------------------------------------------------
\* Properties.

\* What is adopted was attested to by a quorum of listeners, and no listener
\* attests to two addresses, whatever submitters, restarted ones and others offer
\* and however old the state is that a listener looks at (execute.rs listener:
\* pending.event == *event).  That it is the address of a contract is not said: the
\* listeners do not insist on it.
AdoptedByQuorum ==
  /\ \A c \in GenesisChain : bridge[c] # Needed =>
       Cardinality({l \in ListenerKeys : <<l, Offer(c, bridge[c])>> \in vouched})
         >= NeededListeners
  /\ \A v, w \in vouched : v[1] = w[1] /\ v[2].chain = w[2].chain => v = w

\* A submitter creates no second contract on a chain, although it sees its first
\* one missing in every block until the listeners have attested, unless it was
\* stopped (submitter/mod.rs genesis_created).
CreatedOnce ==
  \A c \in GenesisChain : Len(born[c]) <= 1 + restarts

\* A contract that nobody will offer again and that was not adopted.
Orphan(c) ==
  \E n \in DOMAIN born[c] :
    /\ n # bridge[c] /\ n # created[c]
    /\ making[KindOf[c]] # [chain |-> c, set |-> born[c][n], contract |-> n]

\* Blocks keep coming, whatever for.
BlocksKeepComing == []<><<OtherBlock>>_genesisVars

\* As long as blocks keep coming, unless a submitter stops between the creation of a
\* contract and its adoption or others offer addresses, every listener ends up with
\* the contracts of its kind, although it may each time be told of a block before
\* its node's state has it (submitter/mod.rs run, listener/mod.rs
\* wait_for_contracts).
GenesisCompletes ==
  BlocksKeepComing /\ [](others = 0 /\ \A c \in GenesisChain : ~Orphan(c)) =>
    <>[](\A w \in Watcher : stage[w] = "listening")
=============================================================================
