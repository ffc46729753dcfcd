--------------------------- MODULE MCChainListeners ---------------------------
(* Values for TLC of the constants of listeners that follow a contract         *)
(* (ChainListeners), and of how they and the submitters get one (Genesis).     *)
(* These share no state: each is explored with the other at rest.              *)
EXTENDS ChainListeners, Genesis

\* A contract on Ethereum has deposits only: the listener does not know the
\* event of an executed action.
MCEventKinds == [p \in Platforms |-> IF p = "ethereum" THEN {"regular"} ELSE {"regular", "signed"}]

\* A contract that is created anew each time, and a program with one address.
TwoChains == <<"eth", "sol">>
TheirKinds == [c \in {"eth", "sol"} |-> IF c = "eth" THEN "ethereum" ELSE "solana"]

VARIABLE part   \* what is explored, the rest staying as it starts

MCVars == <<vars, genesisVars, part>>

MCInit ==
  /\ Init /\ GenesisInit
  /\ part \in {"events", "contract"}
  /\ part = "contract" => platform = "ethereum"

MCNext ==
  /\ \/ part = "events" /\ Next /\ UNCHANGED genesisVars
     \/ part = "contract" /\ GenesisNext /\ UNCHANGED vars
  /\ UNCHANGED part

Events(A) == part = "events" /\ A
Contract(A) == part = "contract" /\ A

\* The fairness of FairSpec and of GenesisFairSpec, each in its part.
MCSpec ==
  /\ MCInit /\ [][MCNext]_MCVars
  /\ WF_vars(Events(ListenerStarts)) /\ WF_vars(Events(Steps))
  /\ WF_vars(Events(Ends)) /\ WF_vars(Events(Land \/ Refused))
  /\ \A k \in ChainKind :
       /\ WF_genesisVars(Contract(SubmitterWorks(k)))
       /\ WF_genesisVars(Contract(SubmitterProposes(k)))
  /\ \A w \in Watcher :
       /\ SF_genesisVars(Contract(ListenerNotices(w)))
       /\ WF_genesisVars(Contract(ListenerWorks(w)))
  /\ WF_genesisVars(Contract(OfferFails)) /\ WF_genesisVars(Contract(StrayDecided))
=============================================================================
