--------------------------- MODULE BlockProduction --------------------------
(***************************************************************************)
(* The cluster of processors that produces the chain.  All its instances   *)
(* work on one database.  Each of them keeps a snapshot of the last block  *)
(* it knows (current), its own mempool, and walks through                  *)
(*     genesis -> approve -> idle -> waiting -> lock -> resync ->          *)
(*     construct -> insert -> publish -> advance -> approve -> ...         *)
(* The construct lock is meant to let one of them at a time go from        *)
(* resync to advance; the unique keys of the blocks table are what is left *)
(* when the lock is lost.  A definition named X_Y is X as a bug Y would    *)
(* have it, for mutation checks; no action uses one.                       *)
(***************************************************************************)
EXTENDS Naturals, FiniteSets

CONSTANTS
  Processor,     \* the running processor instances
  Key,           \* signing keys a processor can have
  Version,       \* code and chain versions
  Account,       \* transaction senders
  Tx,            \* transactions
  ApprovalTx,    \* transactions a processor writes itself, to approve an action
  GenesisTx,     \* [Processor -> Tx], the genesis transaction each would send
  TxInfo,        \* what each transaction says, see TxRecord
  Secrets,       \* [Processor -> SUBSET Key], the secret keys of an instance
  CodeVersion,   \* [Processor -> Version], the version an instance runs
  GenesisState,  \* the state before the first block
  Faults,        \* the environment faults allowed, a subset of FaultKinds
  MaxCrashes,    \* bound on the number of crashes
  CrashesAlone,  \* bound: whether behaviours with a crash have no approvals
  None           \* no key, version, limit, block, transaction or lock holder

FaultKinds == {"lockLost", "replyLost"}

State == [key : Key, version : Version, nonce : [Account -> Nat]]

TxRecord ==
  [sender    : Account,
   nonce     : Nat,
   maxHeight : Nat \cup {None},
   setsKey     : Key \cup {None},
   setsVersion : Version \cup {None}]

GenesisTxs == {GenesisTx[p] : p \in Processor}

ASSUME ConstantsAssumption ==
  /\ None \notin Key \cup Version \cup Tx \cup Processor \cup Nat
  /\ GenesisTx \in [Processor -> Tx]
  /\ TxInfo \in [Tx -> TxRecord]
  /\ Secrets \in [Processor -> SUBSET Key]
  /\ CodeVersion \in [Processor -> Version]
  /\ GenesisState \in State
  /\ ApprovalTx \subseteq Tx \ GenesisTxs
  /\ Faults \subseteq FaultKinds
  /\ MaxCrashes \in Nat /\ CrashesAlone \in BOOLEAN

VARIABLES
  blocks,    \* the rows of the blocks table
  lock,      \* holder of the construct lock, or None
  pc,        \* where each processor is
  current,   \* the block each processor's reads see, or None before the first
  work,      \* the transaction in add_transaction, or None
  fromPool,  \* whether that transaction came from the mempool
  proposed,  \* the height add_transaction chose for it
  built,     \* the block construct_block returned, or None
  pool,      \* mempool of each processor
  verdict,   \* what each mempool knows of a transaction
  failures,  \* every failure notification signed so far
  crashes    \* number of crashes so far

vars == <<blocks, lock, pc, current, work, fromPool, proposed, built, pool,
          verdict, failures, crashes>>

-----------------------------------------------------------------------------
\* Blocks.

\* The hash of a block stands for all of its content.
BlockId(b) == [height |-> b.height, tx |-> b.tx, builder |-> b.builder]

ParentId(c) == IF c = None THEN None ELSE BlockId(c)
NextHeight(c) == IF c = None THEN 0 ELSE c.height + 1
StateOf(c) == IF c = None THEN GenesisState ELSE c.state

\* The state after executing t, and whether execution succeeds at height h.
Apply(s, t) ==
  LET info == TxInfo[t] IN
  [key     |-> IF info.setsKey = None THEN s.key ELSE info.setsKey,
   version |-> IF info.setsVersion = None THEN s.version ELSE info.setsVersion,
   nonce   |-> [s.nonce EXCEPT ![info.sender] = @ + 1]]

Executes(s, t, h) ==
  /\ (h = 0) <=> (t \in GenesisTxs)
  /\ s.nonce[TxInfo[t].sender] = TxInfo[t].nonce
  /\ TxInfo[t].maxHeight # None => h <= TxInfo[t].maxHeight

Block ==
  [height : Nat, tx : Tx, key : Key, builder : Processor, state : State,
   parent : [height : Nat, tx : Tx, builder : Processor] \cup {None}]

\* None is not taken for a block.
ASSUME NoneIsNoBlock == None \notin Block

NewBlock_StateBefore(p, c, t) ==
  [height |-> NextHeight(c), tx |-> t, key |-> StateOf(c).key, builder |-> p,
   state |-> StateOf(c), parent |-> ParentId(c)]

NewBlock(p, c, t) ==
  [height  |-> NextHeight(c),
   tx      |-> t,
   key     |-> StateOf(c).key,
   builder |-> p,
   state   |-> Apply(StateOf(c), t),
   parent  |-> ParentId(c)]

Landed(t) == \E b \in blocks : b.tx = t

IsLatest(b) == b \in blocks /\ \A c \in blocks : c.height <= b.height

HasSecret(p) == StateOf(current[p]).key \in Secrets[p]
ActiveVersion(p) == StateOf(current[p]).version = CodeVersion[p]

-----------------------------------------------------------------------------
\* Pieces of handlers.

\* resync: take the database's last block if it is ahead of the snapshot.
Resynced(p) ==
  IF \E b \in blocks : IsLatest(b) /\ b.height >= NextHeight(current[p])
  THEN [current EXCEPT ![p] = CHOOSE b \in blocks : IsLatest(b)]
  ELSE current

\* The mempool learns that t is settled: block it, and drop it, unless it was
\* blocked before.
Settle(p, t, how) ==
  IF verdict[p][t] = "none"
  THEN /\ verdict' = [verdict EXCEPT ![p][t] = how]
       /\ pool' = [pool EXCEPT ![p] = @ \ {t}]
  ELSE UNCHANGED <<verdict, pool>>

Release(p) == IF lock = p THEN None ELSE lock

\* add_transaction returns: the lock is dropped and the loop goes on.
Return(p, next) ==
  /\ lock' = Release(p)
  /\ pc' = [pc EXCEPT ![p] = next]
  /\ work' = [work EXCEPT ![p] = None]
  /\ fromPool' = [fromPool EXCEPT ![p] = TRUE]
  /\ proposed' = [proposed EXCEPT ![p] = 0]
  /\ built' = [built EXCEPT ![p] = None]

AfterSuccess(p) == IF fromPool[p] THEN "approve" ELSE "idle"

GiveUp_Silently(p) ==
  /\ Settle(p, work[p], "failed")
  /\ Return(p, "idle")
  /\ UNCHANGED failures

\* An error other than a conflicting block: sign a failure notification, or,
\* without the key to sign it, only forget the transaction.
GiveUp(p) ==
  /\ \/ /\ HasSecret(p)
        /\ failures' = failures \cup
             {[tx |-> work[p], height |-> proposed[p], by |-> p]}
        /\ Settle(p, work[p], "failed")
     \/ /\ ~HasSecret(p)
        /\ pool' = [pool EXCEPT ![p] = @ \ {work[p]}]
        /\ UNCHANGED <<failures, verdict>>
  /\ Return(p, "idle")

-----------------------------------------------------------------------------
Init ==
  /\ blocks = {}
  /\ lock = None
  /\ pc = [p \in Processor |-> "genesis"]
  /\ current = [p \in Processor |-> None]
  /\ work = [p \in Processor |-> None]
  /\ fromPool = [p \in Processor |-> TRUE]
  /\ proposed = [p \in Processor |-> 0]
  /\ built = [p \in Processor |-> None]
  /\ pool = [p \in Processor |-> {}]
  /\ verdict = [p \in Processor |-> [t \in Tx |-> "none"]]
  /\ failures = {}
  /\ crashes = 0

-----------------------------------------------------------------------------
\* Startup: ensure_genesis_event, retried until it succeeds.  It takes no lock.

GenesisReady(p) ==
  /\ pc[p] = "genesis"
  /\ current[p] # None \/ ~ActiveVersion(p)
  /\ pc' = [pc EXCEPT ![p] = "approve"]
  /\ UNCHANGED <<blocks, lock, current, work, fromPool, proposed, built, pool,
                 verdict, failures, crashes>>

\* The genesis transaction is signed anew each time, so it is never in the
\* database yet.
GenesisBuild(p) ==
  /\ pc[p] = "genesis"
  /\ current[p] = None /\ ActiveVersion(p) /\ HasSecret(p)
  /\ Executes(GenesisState, GenesisTx[p], 0)
  /\ built' = [built EXCEPT ![p] = NewBlock(p, None, GenesisTx[p])]
  /\ work' = [work EXCEPT ![p] = GenesisTx[p]]
  /\ fromPool' = [fromPool EXCEPT ![p] = TRUE]
  /\ pc' = [pc EXCEPT ![p] = "genesisInsert"]
  /\ UNCHANGED <<blocks, lock, current, proposed, pool, verdict, failures,
                 crashes>>

-----------------------------------------------------------------------------
\* The producer loop.

WaitForActiveVersion(p) ==
  /\ pc[p] = "idle"
  /\ current' = Resynced(p)
  /\ pc' = [pc EXCEPT ![p] =
              IF StateOf(current'[p]).version = CodeVersion[p]
              THEN "waiting" ELSE "idle"]
  /\ UNCHANGED <<blocks, lock, work, fromPool, proposed, built, pool, verdict,
                 failures, crashes>>

\* wait_on_mempool drops what has landed meanwhile and returns what has not.
WaitOnMempool(p) ==
  /\ pc[p] = "waiting"
  /\ \E t \in pool[p] :
       \/ /\ Landed(t)
          /\ Settle(p, t, "landed")
          /\ UNCHANGED <<pc, work, fromPool>>
       \/ /\ ~Landed(t)
          /\ pc' = [pc EXCEPT ![p] = "lock"]
          /\ work' = [work EXCEPT ![p] = t]
          /\ fromPool' = [fromPool EXCEPT ![p] = TRUE]
          /\ UNCHANGED <<pool, verdict>>
  /\ UNCHANGED <<blocks, lock, current, proposed, built, failures, crashes>>

TakeConstructLock_NoLocking(p) ==
  /\ pc[p] = "lock"
  /\ pc' = [pc EXCEPT ![p] = "resync"]
  /\ UNCHANGED <<blocks, lock, current, work, fromPool, proposed, built, pool,
                 verdict, failures, crashes>>

TakeConstructLock(p) ==
  /\ pc[p] = "lock"
  /\ lock = None
  /\ lock' = p
  /\ pc' = [pc EXCEPT ![p] = "resync"]
  /\ UNCHANGED <<blocks, current, work, fromPool, proposed, built, pool,
                 verdict, failures, crashes>>

ResyncUnderLock_NoDbCheck(p) ==
  /\ pc[p] = "resync"
  /\ current' = Resynced(p)
  /\ proposed' = [proposed EXCEPT ![p] = NextHeight(current'[p])]
  /\ pc' = [pc EXCEPT ![p] = "construct"]
  /\ UNCHANGED <<blocks, lock, work, fromPool, built, pool, verdict, failures,
                 crashes>>

\* Resync, skip a transaction that is in the database, choose the height.
ResyncUnderLock(p) ==
  /\ pc[p] = "resync"
  /\ current' = Resynced(p)
  /\ \/ /\ Landed(work[p])
        /\ Return(p, AfterSuccess(p))
     \/ /\ ~Landed(work[p])
        /\ proposed' = [proposed EXCEPT ![p] = NextHeight(current'[p])]
        /\ pc' = [pc EXCEPT ![p] = "construct"]
        /\ UNCHANGED <<lock, work, fromPool, built>>
  /\ UNCHANGED <<blocks, pool, verdict, failures, crashes>>

\* construct_block looks at the snapshot of that moment, which other tasks of
\* the same process may have moved since the height was chosen.
Constructible(p) ==
  /\ HasSecret(p)
  /\ ~Landed(work[p])
  /\ ActiveVersion(p)
  /\ NextHeight(current[p]) = proposed[p]
  /\ Executes(StateOf(current[p]), work[p], proposed[p])

ConstructBlock(p) ==
  /\ pc[p] = "construct"
  /\ Constructible(p)
  /\ built' = [built EXCEPT ![p] = NewBlock(p, current[p], work[p])]
  /\ pc' = [pc EXCEPT ![p] = "insert"]
  /\ UNCHANGED <<blocks, lock, current, work, fromPool, proposed, pool,
                 verdict, failures, crashes>>

ConstructFails(p) ==
  /\ pc[p] = "construct"
  /\ ~Constructible(p)
  /\ GiveUp(p)
  /\ UNCHANGED <<blocks, current, crashes>>

\* The blocks table has unique heights, block hashes and transaction hashes.
HeightTaken(b) == \E c \in blocks : c.height = b.height
Insertable_NoHeightKey(b) == ~Landed(b.tx)
Insertable(b) == ~HeightTaken(b) /\ ~Landed(b.tx)

InsertBlock(p) ==
  /\ pc[p] \in {"insert", "genesisInsert"}
  /\ Insertable(built[p])
  /\ blocks' = blocks \cup {built[p]}
  /\ pc' = [pc EXCEPT ![p] = "publish"]
  /\ UNCHANGED <<lock, current, work, fromPool, proposed, built, pool, verdict,
                 failures, crashes>>

\* A conflicting block is only warned about: the transaction stays.  A row with
\* the same transaction is always at or below a taken height, see NoGaps.
InsertConflict(p) ==
  /\ pc[p] = "insert"
  /\ HeightTaken(built[p])
  /\ Return(p, "idle")
  /\ UNCHANGED <<blocks, current, pool, verdict, failures, crashes>>

GenesisConflict(p) ==
  /\ pc[p] = "genesisInsert"
  /\ ~Insertable(built[p])
  /\ current' = Resynced(p)
  /\ Return(p, "genesis")
  /\ UNCHANGED <<blocks, pool, verdict, failures, crashes>>

\* The row is committed, but the connection drops before the reply: the caller
\* sees an error like any other.
InsertReplyLost(p) ==
  /\ "replyLost" \in Faults
  /\ pc[p] = "insert"
  /\ Insertable(built[p])
  /\ blocks' = blocks \cup {built[p]}
  /\ GiveUp(p)
  /\ UNCHANGED <<current, crashes>>

\* The mempool is told before the snapshot moves.
PublishBlock(p) ==
  /\ pc[p] = "publish"
  /\ Settle(p, built[p].tx, "landed")
  /\ pc' = [pc EXCEPT ![p] = "advance"]
  /\ UNCHANGED <<blocks, lock, current, work, fromPool, proposed, built,
                 failures, crashes>>

AdvanceCurrent_Unguarded(p) ==
  /\ pc[p] = "advance"
  /\ current' = [current EXCEPT ![p] = built[p]]
  /\ Return(p, AfterSuccess(p))
  /\ UNCHANGED <<blocks, pool, verdict, failures, crashes>>

\* Another task may have moved the snapshot past this block already.
AdvanceCurrent(p) ==
  /\ pc[p] = "advance"
  /\ current' = IF NextHeight(current[p]) > built[p].height
                THEN current
                ELSE [current EXCEPT ![p] = built[p]]
  /\ Return(p, AfterSuccess(p))
  /\ UNCHANGED <<blocks, pool, verdict, failures, crashes>>

\* approve_actions: write an approval and add it without the mempool, or not.
\* Before the first block no action is pending.
ApproveActions(p) ==
  /\ pc[p] = "approve"
  /\ \/ /\ pc' = [pc EXCEPT ![p] = "idle"]
        /\ UNCHANGED <<work, fromPool>>
     \/ /\ current[p] # None /\ HasSecret(p) /\ (CrashesAlone => crashes = 0)
        /\ \E t \in ApprovalTx : work' = [work EXCEPT ![p] = t]
        /\ fromPool' = [fromPool EXCEPT ![p] = FALSE]
        /\ pc' = [pc EXCEPT ![p] = "lock"]
  /\ UNCHANGED <<blocks, lock, current, proposed, built, pool, verdict,
                 failures, crashes>>

-----------------------------------------------------------------------------
\* Other tasks of the same process.

\* The remote data listener resyncs.  The store may have grown since it read
\* the latest height, so it may install any block newer than the snapshot.
RemoteResync(p) ==
  /\ pc[p] # "down"
  /\ \E b \in blocks :
       /\ b.height >= NextHeight(current[p])
       /\ current' = [current EXCEPT ![p] = b]
  /\ UNCHANGED <<blocks, lock, pc, work, fromPool, proposed, built, pool,
                 verdict, failures, crashes>>

\* A client of this node, or gossip, proposes a transaction.
ProposeTransaction(p, t) ==
  /\ pc[p] # "down"
  /\ verdict[p][t] = "none"
  /\ pool' = [pool EXCEPT ![p] = @ \cup {t}]
  /\ UNCHANGED <<blocks, lock, pc, current, work, fromPool, proposed, built,
                 verdict, failures, crashes>>

\* Gossip delivers a failure notification, or a landed block.
ReceiveFailed(p) ==
  /\ pc[p] # "down"
  /\ \E n \in failures : Settle(p, n.tx, "failed")
  /\ UNCHANGED <<blocks, lock, pc, current, work, fromPool, proposed, built,
                 failures, crashes>>

ReceiveLanded(p) ==
  /\ pc[p] # "down"
  /\ \E b \in blocks : Settle(p, b.tx, "landed")
  /\ UNCHANGED <<blocks, lock, pc, current, work, fromPool, proposed, built,
                 failures, crashes>>

-----------------------------------------------------------------------------
\* Faults.

MayCrash ==
  /\ crashes < MaxCrashes
  /\ CrashesAlone =>
       /\ \A q \in Processor : work[q] \notin ApprovalTx
       /\ \A b \in blocks : b.tx \notin ApprovalTx

Crash_KeepsLock(p) ==
  /\ pc[p] # "down" /\ MayCrash
  /\ crashes' = crashes + 1
  /\ pc' = [pc EXCEPT ![p] = "down"]
  /\ work' = [work EXCEPT ![p] = None]
  /\ built' = [built EXCEPT ![p] = None]
  /\ current' = [current EXCEPT ![p] = None]
  /\ pool' = [pool EXCEPT ![p] = {}]
  /\ verdict' = [verdict EXCEPT ![p] = [t \in Tx |-> "none"]]
  /\ UNCHANGED <<blocks, lock, fromPool, proposed, failures>>

\* All that is in memory is gone, and the database ends the lock's session.
Crash(p) ==
  /\ pc[p] # "down" /\ MayCrash
  /\ crashes' = crashes + 1
  /\ Return(p, "down")
  /\ current' = [current EXCEPT ![p] = None]
  /\ pool' = [pool EXCEPT ![p] = {}]
  /\ verdict' = [verdict EXCEPT ![p] = [t \in Tx |-> "none"]]
  /\ UNCHANGED <<blocks, failures>>

Restart(p) ==
  /\ pc[p] = "down"
  /\ current' = Resynced(p)
  /\ pc' = [pc EXCEPT ![p] = "genesis"]
  /\ UNCHANGED <<blocks, lock, work, fromPool, proposed, built, pool, verdict,
                 failures, crashes>>

\* The database session that holds the lock dies, its holder goes on.
LoseLock ==
  /\ "lockLost" \in Faults
  /\ lock # None
  /\ lock' = None
  /\ UNCHANGED <<blocks, pc, current, work, fromPool, proposed, built, pool,
                 verdict, failures, crashes>>

-----------------------------------------------------------------------------
Produce(p) ==
  \/ GenesisReady(p) \/ GenesisBuild(p) \/ WaitForActiveVersion(p)
  \/ WaitOnMempool(p) \/ TakeConstructLock(p) \/ ResyncUnderLock(p)
  \/ ConstructBlock(p) \/ ConstructFails(p)
  \/ InsertBlock(p) \/ InsertConflict(p)
  \/ GenesisConflict(p) \/ InsertReplyLost(p)
  \/ PublishBlock(p) \/ AdvanceCurrent(p) \/ ApproveActions(p)

ClientTx == Tx \ (GenesisTxs \cup ApprovalTx)

Background(p) ==
  \/ RemoteResync(p)
  \/ \E t \in ClientTx : ProposeTransaction(p, t)
  \/ ReceiveFailed(p) \/ ReceiveLanded(p)

Next ==
  \/ \E p \in Processor : Produce(p) \/ Background(p) \/ Crash(p) \/ Restart(p)
  \/ LoseLock

Spec == Init /\ [][Next]_vars

\* A processor that can take a step takes one: the producer loop is one task
\* that is always scheduled, and a crashed instance is restarted.
Fairness ==
  \A p \in Processor : WF_vars(Produce(p)) /\ WF_vars(Restart(p))

FairSpec == Spec /\ Fairness

-----------------------------------------------------------------------------
\* Properties.

PcLabels == {"genesis", "genesisInsert", "idle", "waiting", "lock", "resync",
             "construct", "insert", "publish", "advance", "approve", "down"}

\* The stages of add_transaction that the construct lock covers.
Locked == {"resync", "construct", "insert", "publish", "advance"}

Notice == [tx : Tx, height : Nat, by : Processor]

\* Every variable keeps its type.
TypeOK ==
  /\ blocks \in SUBSET Block
  /\ lock \in Processor \cup {None}
  /\ pc \in [Processor -> PcLabels]
  /\ current \in [Processor -> Block \cup {None}]
  /\ work \in [Processor -> Tx \cup {None}]
  /\ fromPool \in [Processor -> BOOLEAN]
  /\ proposed \in [Processor -> Nat]
  /\ built \in [Processor -> Block \cup {None}]
  /\ pool \in [Processor -> SUBSET Tx]
  /\ verdict \in [Processor -> [Tx -> {"none", "landed", "failed"}]]
  /\ failures \in SUBSET Notice
  /\ crashes \in Nat

\* b is what executing its transaction on its parent gives, built by an instance
\* that runs the chain's version and has the key the parent's state names.
ValidOn(b, c) ==
  /\ b.height = NextHeight(c)
  /\ b.parent = ParentId(c)
  /\ b.key = StateOf(c).key /\ b.key \in Secrets[b.builder]
  /\ StateOf(c).version = CodeVersion[b.builder]
  /\ b.state = Apply(StateOf(c), b.tx)
  /\ Executes(StateOf(c), b.tx, b.height)

WellFormed(b) == \E c \in blocks \cup {None} : ValidOn(b, c)

\* No two processors put different blocks at one height, even when the lock is
\* lost and several of them build at once (processor.rs add_transaction).
NoFork == \A b, c \in blocks : b.height = c.height => b = c

\* A transaction that two processors hold in their mempools, or that is tried
\* again after a crash, is in at most one block (processor.rs construct_block).
NoDoubleInclusion == \A b, c \in blocks : b.tx = c.tx => b = c

\* Every stored block was executed on the stored block just below it: no
\* processor ever builds on a snapshot another one has overtaken.
ChainIsExecutable == \A b \in blocks : WellFormed(b)

\* There is no gap below a stored block.
NoGaps ==
  \A b \in blocks : \A k \in 0..b.height : \E c \in blocks : c.height = k

\* A sender's nonces go up along the chain, so that a signed transaction cannot
\* take effect twice, whichever processors build the blocks.
NoncesIncrease ==
  \A b, c \in blocks :
    b.height <= c.height => c.state.nonce[TxInfo[b.tx].sender] > TxInfo[b.tx].nonce

\* What a processor's reads show is a block of the chain.
SnapshotsOnChain == \A p \in Processor : current[p] \in blocks \cup {None}

\* A mempool never holds what it has blocked; wait_on_mempool, which drops a
\* landed transaction only when it is not blocked, would spin on it forever.
PoolNotBlocked ==
  \A p \in Processor : \A t \in pool[p] : verdict[p][t] = "none"

\* A processor's snapshot never goes back while it is running, although resync,
\* the remote listener and add_executed_block all write it.
SnapshotNeverRewinds ==
  [][\A p \in Processor :
       pc'[p] # "down" => NextHeight(current'[p]) >= NextHeight(current[p])]_vars

\* While the lock works, a transaction is declared failed only when it is not
\* in a block, and after an attempt at the height just after the last block.
FailureJudgedAtTip ==
  [][\A n \in failures' \ failures :
       /\ ~Landed(n.tx)'
       /\ \A b \in blocks' : b.height < n.height]_vars

\* While the lock works, at most one processor is inside add_transaction.
MutualExclusion ==
  \A p, q \in Processor : pc[p] \in Locked /\ work[p] \notin GenesisTxs
    /\ pc[q] \in Locked /\ work[q] \notin GenesisTxs => p = q

\* The cluster implements an append-only log without duplicates.
LedgerSpec ==
  INSTANCE Ledger WITH
    entries <- {[height |-> b.height, tx |-> b.tx] : b \in blocks}

ImplementsLedger == LedgerSpec!Spec

\* A proposed transaction is settled unless the node that holds it crashes: it
\* lands, or a failure notification is signed for it.
ProposedIsSettled ==
  \A p \in Processor, t \in Tx :
    t \in pool[p] ~> \/ Landed(t)
                     \/ \E n \in failures : n.tx = t
                     \/ pc[p] = "down"
=============================================================================
