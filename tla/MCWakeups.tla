------------------------------- MODULE MCWakeups -------------------------------
(* Values for TLC of the constants of the tasks of one process (Wakeups), and *)
(* of two listeners who must agree on a contract (Genesis).  These share no   *)
(* state: each is explored with the other at rest.  A process that executes   *)
(* every block has a task of each kind but one; where blocks are transferred, *)
(* or others write to the database, tasks wait for heights and for the        *)
(* version.                                                                   *)
EXTENDS Wakeups, Genesis
CONSTANTS t1, f1

Executing ==
  [shared |-> FALSE, executes |-> TRUE,
   tasks |-> {t1, Tx(t1), f1, VersionWaiter}, blocks |-> 2]
Transferring ==
  [shared |-> FALSE, executes |-> FALSE,
   tasks |-> {At(1), At(2), VersionWaiter}, blocks |-> 2]
SharedDatabase ==
  [shared |-> TRUE, executes |-> TRUE, tasks |-> {At(1), At(2)}, blocks |-> 3]
AllProcesses == {Executing, Transferring, SharedDatabase}

OneChain == <<"eth">>
ItsKind == [c \in {"eth"} |-> "ethereum"]

VARIABLE part   \* what is explored, the rest staying as it starts

MCVars == <<vars, genesisVars, part>>

MCInit ==
  /\ Init /\ GenesisInit
  /\ part \in {"tasks", "contract"}
  /\ part = "contract" => process = Executing

MCNext ==
  /\ \/ part = "tasks" /\ Next /\ UNCHANGED genesisVars
     \/ part = "contract" /\ GenesisNext /\ UNCHANGED vars
  /\ UNCHANGED part

MCSpec == MCInit /\ [][MCNext]_MCVars /\ (part = "tasks" => Fairness)
=============================================================================
