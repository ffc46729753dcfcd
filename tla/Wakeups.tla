------------------------------- MODULE Wakeups -------------------------------
(***************************************************************************)
(* How the components of one process learn of new blocks.  The task that   *)
(* adds a block writes it to the store, fires the new-block trigger, tells *)
(* the mempool, and at last loads the block as the process's state.  Other *)
(* tasks look at one of the three, and sleep until the trigger fires.  A   *)
(* process that transfers blocks with their states instead of executing    *)
(* them takes them in any order, and loads the newest one it has at the    *)
(* end.  One on a shared database finds blocks there that others wrote.    *)
(***************************************************************************)
EXTENDS Naturals, Sequences, FiniteSetsExt

CONSTANTS
  Proposer,        \* tasks that propose a transaction, named like it
  Awaited,         \* the transactions that tasks of their own wait for
  Follower,        \* tasks that act on the state: approver, upgrader, submitter
  Height,          \* the heights that tasks wait for
  VersionWaiter,   \* the processor, waiting for its version
  Upgrade,         \* the block that switches the chain to that version
  Filler,          \* any other block
  Processes        \* the processes to look at: whether others write to their
                   \* databases, whether they execute blocks or transfer them,
                   \* their tasks, a bound on the chain's length

Tx(t) == [waitsFor |-> "tx", tx |-> t]
At(h) == [waitsFor |-> "height", height |-> h]

Waiter ==
  Proposer \cup Follower \cup {VersionWaiter}
    \cup {Tx(t) : t \in Awaited} \cup {At(h) : h \in Height}

ASSUME WakeupsAssumption ==
  /\ Awaited \subseteq Proposer
  /\ \A f \in Follower :
       /\ f \notin Proposer /\ f # VersionWaiter
       /\ \A t \in Awaited : f # Tx(t)
       /\ \A h \in Height : f # At(h)
  /\ Height \subseteq Nat \ {0}
  /\ Processes \subseteq [shared : BOOLEAN, executes : BOOLEAN, tasks : SUBSET Waiter, blocks : Nat]

VARIABLES
  process,    \* the process, one of these
  chain,      \* the blocks of the network, each the name of its transaction
  failed,     \* transactions the processor has signed a failure of
  stored,     \* the heights of the blocks that its store has
  adding,     \* the step the task that adds a block is at
  height,     \* the block it adds
  state,      \* the height of the block whose state it has loaded, 0 at first
  pool,       \* the mempool
  blocked,    \* transactions the mempool knows to have landed or failed
  failing,    \* failures the mempool knows and waiting tasks are not told of
  task,       \* what each waiter is at
  signal,     \* whether it has a trigger it has not seen
  acted       \* for each follower: the state it has last acted on

chainVars == <<process, chain, failed>>
storeVars == <<stored, adding, height, state>>
poolVars == <<pool, blocked, failing>>
taskVars == <<task, signal, acted>>
vars == <<chainVars, storeVars, poolVars, taskVars>>

Blocks(n) == {chain[i] : i \in 1..n}
Landed == Blocks(Len(chain))
Larger(m, n) == IF m > n THEN m ELSE n

\* The newest block in the store.
Newest == Max(stored \cup {0})

-----------------------------------------------------------------------------
\* The network: transactions that were proposed land or fail.

Lands(b) ==
  /\ Len(chain) < process.blocks
  /\ b \in {Upgrade, Filler} \cup pool
  /\ b = Filler \/ b \notin Landed \cup failed
  /\ chain' = Append(chain, b)
  /\ UNCHANGED <<process, failed, storeVars, poolVars, taskVars>>

Fails(t) ==
  /\ t \in pool \ (Landed \cup failed)
  /\ failed' = failed \cup {t}
  /\ UNCHANGED <<process, chain, storeVars, poolVars, taskVars>>

-----------------------------------------------------------------------------
\* Adding a block.

\* The next block, having been executed.
Stores ==
  /\ adding = "no" /\ process.executes
  /\ state < Len(chain)
  /\ adding' = "stored"
  /\ height' = state + 1
  /\ stored' = stored \cup {state + 1}
  /\ UNCHANGED <<state, chainVars, poolVars, taskVars>>

\* Any block it does not have, its state being in the store.  That such a process
\* executes the next block when it can makes no difference here.
StoresWithState(h) ==
  /\ adding = "no" /\ ~process.executes
  /\ h \in 1..Len(chain) /\ h \notin stored
  /\ adding' = "stored"
  /\ height' = h
  /\ stored' = stored \cup {h}
  /\ UNCHANGED <<state, chainVars, poolVars, taskVars>>

Triggers_Nobody ==
  /\ adding = "stored"
  /\ adding' = "told"
  /\ UNCHANGED <<stored, height, state, chainVars, poolVars, taskVars>>

\* Everybody who has subscribed gets the trigger, the store having the block.
Triggers ==
  /\ adding = "stored"
  /\ adding' = "told"
  /\ signal' = [w \in Waiter |-> TRUE]
  /\ UNCHANGED <<stored, height, state, task, acted, chainVars, poolVars>>

Pools ==
  /\ adding = "told"
  /\ adding' = "pooled"
  /\ blocked' = blocked \cup ({chain[height]} \cap Proposer)
  /\ pool' = pool \ {chain[height]}
  /\ UNCHANGED <<stored, height, state, failing, chainVars, taskVars>>

\* The state never goes back to an earlier block.
Loads ==
  /\ adding = "pooled" /\ process.executes
  /\ adding' = "no"
  /\ state' = Larger(state, height)
  /\ UNCHANGED <<stored, height, chainVars, poolVars, taskVars>>

\* Nobody is told that the state has moved, over however many blocks.
LoadsNewest ==
  /\ adding = "pooled" /\ ~process.executes
  /\ adding' = "no"
  /\ state' = Larger(state, Newest)
  /\ UNCHANGED <<stored, height, chainVars, poolVars, taskVars>>

-----------------------------------------------------------------------------
\* Another process writes to the database; this one is told by the database and
\* loads the state.

OthersStore ==
  /\ process.shared
  /\ Newest < Len(chain)
  /\ stored' = stored \cup {Newest + 1}
  /\ UNCHANGED <<adding, height, state, chainVars, poolVars, taskVars>>

Resyncs ==
  /\ process.shared
  /\ state < Newest
  /\ state' = Newest
  /\ UNCHANGED <<stored, adding, height, chainVars, poolVars, taskVars>>

-----------------------------------------------------------------------------
\* News by gossip: a block has landed, ahead of the block itself; or a
\* transaction has failed, which the mempool must know before anybody looks.

HearsOfBlock(t) ==
  /\ t \in Landed \ blocked
  /\ blocked' = blocked \cup {t}
  /\ pool' = pool \ {t}
  /\ UNCHANGED <<failing, chainVars, storeVars, taskVars>>

HearsOfFailure_TellsFirst(t) ==
  /\ t \in failed \ blocked
  /\ \/ /\ t \notin failing
        /\ failing' = failing \cup {t}
        /\ signal' = [w \in Waiter |-> w \in Proposer \/ signal[w]]
        /\ UNCHANGED <<blocked, pool>>
     \/ /\ t \in failing
        /\ failing' = failing \ {t}
        /\ blocked' = blocked \cup {t}
        /\ pool' = pool \ {t}
        /\ UNCHANGED signal
  /\ UNCHANGED <<task, acted, chainVars, storeVars>>

HearsOfFailure(t) ==
  /\ t \in failed \ blocked
  /\ blocked' = blocked \cup {t}
  /\ pool' = pool \ {t}
  /\ failing' = failing \cup {t}
  /\ UNCHANGED <<chainVars, storeVars, taskVars>>

TellsOfFailure(t) ==
  /\ t \in failing \cap blocked
  /\ failing' = failing \ {t}
  /\ signal' = [w \in Waiter |-> w \in Proposer \/ signal[w]]
  /\ UNCHANGED <<pool, blocked, task, acted, chainVars, storeVars>>

-----------------------------------------------------------------------------
\* Waiting tasks.  Each subscribes at some time, and then looks.

Becomes(w, s) == task' = [task EXCEPT ![w] = s]

\* What was triggered before is not seen.
Subscribes(w) ==
  /\ task[w] = "new"
  /\ Becomes(w, "looks")
  /\ signal' = [signal EXCEPT ![w] = FALSE]
  /\ UNCHANGED <<acted, chainVars, storeVars, poolVars>>

Proposes(t) ==
  /\ task[t] = "looks"
  /\ \/ t \in blocked /\ Becomes(t, "done") /\ UNCHANGED pool
     \/ t \notin blocked /\ Becomes(t, "sleeps") /\ pool' = pool \cup {t}
  /\ UNCHANGED <<blocked, failing, signal, acted, chainVars, storeVars>>

Follows(f) ==
  /\ task[f] = "looks"
  /\ acted' = [acted EXCEPT ![f] = state]
  /\ Becomes(f, "sleeps")
  /\ UNCHANGED <<signal, chainVars, storeVars, poolVars>>

LooksForTx(t) ==
  /\ task[Tx(t)] = "looks"
  /\ Becomes(Tx(t), IF t \in {chain[h] : h \in stored} THEN "done" ELSE "sleeps")
  /\ UNCHANGED <<signal, acted, chainVars, storeVars, poolVars>>

LooksForHeight(h) ==
  /\ task[At(h)] = "looks"
  /\ Becomes(At(h), IF h \in stored THEN "done" ELSE "sleeps")
  /\ UNCHANGED <<signal, acted, chainVars, storeVars, poolVars>>

LooksForVersion_AsItIs ==
  /\ task[VersionWaiter] = "looks"
  /\ Becomes(VersionWaiter,
       IF Upgrade \in Blocks(state) THEN "done" ELSE "sleeps")
  /\ UNCHANGED <<signal, acted, chainVars, storeVars, poolVars>>

\* It loads the newest block in the store before it looks at the version.
LooksForVersion ==
  /\ task[VersionWaiter] = "looks"
  /\ state' = Larger(state, Newest)
  /\ Becomes(VersionWaiter,
       IF Upgrade \in Blocks(state') THEN "done" ELSE "sleeps")
  /\ UNCHANGED <<stored, adding, height, signal, acted, chainVars, poolVars>>

Wakes(w) ==
  /\ task[w] = "sleeps" /\ signal[w]
  /\ Becomes(w, "looks")
  /\ signal' = [signal EXCEPT ![w] = FALSE]
  /\ UNCHANGED <<acted, chainVars, storeVars, poolVars>>

TimesOut_Never(h) == FALSE /\ h = h /\ UNCHANGED vars

\* Only who waits for a height looks again after five seconds.
TimesOut(h) ==
  /\ task[At(h)] = "sleeps"
  /\ Becomes(At(h), "looks")
  /\ UNCHANGED <<signal, acted, chainVars, storeVars, poolVars>>

-----------------------------------------------------------------------------
Init ==
  /\ process \in Processes
  /\ chain = << >> /\ failed = {}
  /\ stored = {} /\ adding = "no" /\ height = 0 /\ state = 0
  /\ pool = {} /\ blocked = {} /\ failing = {}
  /\ task = [w \in Waiter |-> IF w \in process.tasks THEN "new" ELSE "done"]
  /\ signal = [w \in Waiter |-> FALSE]
  /\ acted = [f \in Follower |-> 0]

Adds ==
  \/ Stores \/ \E h \in 1..Len(chain) : StoresWithState(h)
  \/ Triggers \/ Pools \/ Loads \/ LoadsNewest

Looks ==
  \/ \E t \in Proposer : Proposes(t)
  \/ \E f \in Follower : Follows(f)
  \/ \E t \in Awaited : LooksForTx(t)
  \/ \E h \in Height : LooksForHeight(h)
  \/ LooksForVersion
  \/ \E w \in Waiter : Subscribes(w) \/ Wakes(w)

Next ==
  \/ \E b \in Proposer \cup {Upgrade, Filler} : Lands(b)
  \/ Adds \/ OthersStore \/ Resyncs \/ Looks
  \/ \E t \in Proposer :
       Fails(t) \/ HearsOfBlock(t) \/ HearsOfFailure(t) \/ TellsOfFailure(t)
  \/ \E h \in Height : TimesOut(h)

Spec == Init /\ [][Next]_vars

\* A process with its own database adds every block of the network if it executes
\* them, and otherwise the newest one and those that are asked for; one with a shared
\* database finds it there.  Tasks that can go on do, failures are heard of.  Nothing
\* makes the network go on to another block.
Asked(h) == At(h) \in Waiter /\ task[At(h)] \in {"looks", "sleeps"}

Fairness ==
  /\ WF_vars(~process.shared /\ Stores)
  /\ WF_vars(~process.shared /\ \E h \in 1..Len(chain) :
                (h = Len(chain) \/ Asked(h)) /\ StoresWithState(h))
  /\ WF_vars(adding # "no" /\ Adds)
  /\ WF_vars(OthersStore) /\ WF_vars(Resyncs)
  /\ \A t \in Proposer :
       WF_vars(Proposes(t)) /\ WF_vars(HearsOfFailure(t)) /\ WF_vars(TellsOfFailure(t))
  /\ \A f \in Follower : WF_vars(Follows(f))
  /\ \A t \in Awaited : WF_vars(LooksForTx(t))
  /\ \A h \in Height : WF_vars(LooksForHeight(h)) /\ WF_vars(TimesOut(h))
  /\ WF_vars(LooksForVersion)
  /\ \A w \in Waiter : WF_vars(Subscribes(w)) /\ WF_vars(Wakes(w))

FairSpec == Spec /\ Fairness

-----------------------------------------------------------------------------
\* Properties.

\* Who waits for a height returns once the network has it, also when another process
\* wrote the block or it was transferred; who waits for a transaction does where the
\* process itself executes every block (kolme.rs wait_for_block, wait_for_tx).
WaitsEnd ==
  /\ \A h \in Height : At(h) \in process.tasks /\ Len(chain) >= h ~> task[At(h)] = "done"
  /\ \A t \in Awaited :
       ~process.shared /\ process.executes /\ t \in Landed ~> task[Tx(t)] = "done"

\* "Wait for the chain to be running on the version we are expecting to see"
\* (kolme.rs wait_for_active_version): with a database of its own a process gets
\* there once the upgrade has landed.
VersionArrives == ~process.shared /\ Upgrade \in Landed ~> task[VersionWaiter] = "done"

\* Who has proposed a transaction that fails is told (kolme.rs
\* propose_and_await_transaction_inner, add_failed_transaction).
FailuresLearned == \A t \in Proposer : t \in failed ~> task[t] = "done"

\* Where the process executes every block and nobody else writes to its database, who
\* follows the chain and sleeps while no block is being added has acted on the state
\* of the last block but one at least: what a trigger that comes too early can cost
\* is one block (kolme.rs add_executed_block).  Where blocks are transferred the
\* state may move over any number of them unnoticed.
FollowersMissOneAtMost ==
  ~process.shared /\ process.executes =>
    \A f \in Follower :
      task[f] = "sleeps" /\ ~signal[f] /\ adding = "no" => acted[f] + 1 >= state
=============================================================================
