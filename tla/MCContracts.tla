----------------------------- MODULE MCContracts ----------------------------
(* Values of the constants of Contracts for TLC: operators change the set,  *)
(* and a contract must follow.  In a part of its own every validator runs   *)
(* an upgrader, and the processor's key may be handed on meanwhile.         *)
EXTENDS Contracts

CONSTANTS p, l, a1, a2, f, v1, v2, c1

Keys == {p, l, a1, a2, f}

\* Both approvers must sign; the processor listens too.
Genesis ==
  [processor |-> p, listeners |-> {p, l}, neededListeners |-> 1,
   approvers |-> {a1, a2}, neededApprovers |-> 2]

\* The set operators may want instead, with one approver and another processor.
Other ==
  [processor |-> l, listeners |-> {l, a1}, neededListeners |-> 2,
   approvers |-> {a1, p}, neededApprovers |-> 1]

Payloads == {NewSetPayload(Other), MigratePayload(c1)}
Handed == {<<p, f>>, <<l, f>>, <<a1, f>>}
NoUpgraders == {}
NoDesired == [u \in {} |-> v1]
\* Bounds on proposals, and on those together with the actions.
MaxOpenProposals == 2
MaxChanges == 4

VARIABLE part

MCVars == <<allVars, part>>

ContractPart ==
  /\ part = "contract" /\ ContractNext
  /\ nextProposal' <= MaxOpenProposals /\ nextProposal' + Len(emitted') <= MaxChanges

-----------------------------------------------------------------------------
\* Where upgraders run, the processor's key has no other role; any two groups
\* are two keys.
Nodes == {p, l, a1, f}
ThreeNodes ==
  [processor |-> p, listeners |-> {l}, neededListeners |-> 1,
   approvers |-> {a1}, neededApprovers |-> 1]

Upgrading == INSTANCE Governance WITH
  Key <- Nodes, Chain <- {}, InitialSet <- ThreeNodes, OpenPayload <- {},
  Replacements <- {<<p, f>>}, Upgrader <- Nodes,
  Desired <- [u \in Nodes |-> v2], MaxProposals <- 3, MaxActions <- 2

UpgradePart ==
  /\ part = "upgrade" /\ Upgrading!Next
  /\ UNCHANGED contractVars

\* When every validator runs the upgrader and blocks of others keep coming, the
\* chain reaches the version they all desire (upgrader.rs run, run_single).
UpgradersSucceed == Upgrading!UpgradeReached

-----------------------------------------------------------------------------
MCInit ==
  \/ part = "contract" /\ Instantiate
  \/ /\ part = "upgrade" /\ Upgrading!Init
     /\ kind = "cosmos" /\ held = valset /\ taken = 0 /\ last = NoCall

MCNext == (ContractPart \/ UpgradePart) /\ UNCHANGED part

MCSpec ==
  /\ MCInit /\ [][MCNext]_MCVars
  /\ \A u \in Nodes : WF_vars(part = "upgrade" /\ Upgrading!UpgraderStep(u))
=============================================================================
