------------------------ MODULE BlockProductionProofs -----------------------
(***************************************************************************)
(* For any number of processors, keys, versions, transactions and faults:  *)
(* the chain never forks, never holds a transaction twice, is executable   *)
(* from its start without gaps, and implements the abstract ledger.        *)
(***************************************************************************)
EXTENDS BlockProduction, TLAPS

USE ConstantsAssumption, NoneIsNoBlock

-----------------------------------------------------------------------------
\* What a processor holds at each stage of add_transaction.
StageOK ==
  \A p \in Processor :
    /\ pc[p] \in {"lock", "resync", "construct", "insert", "genesisInsert",
                  "publish", "advance"} => work[p] \in Tx
    /\ pc[p] \in {"insert", "genesisInsert", "publish", "advance"}
         => built[p] \in Block

TypeInv == TypeOK /\ StageOK

LEMMA ApplyType ==
  ASSUME NEW s \in State, NEW t \in Tx
  PROVE  Apply(s, t) \in State
<1>1. TxInfo[t] \in TxRecord
  OBVIOUS
<1>2. [s.nonce EXCEPT ![TxInfo[t].sender] = @ + 1] \in [Account -> Nat]
  BY <1>1 DEF State, TxRecord
<1> QED
  BY <1>1, <1>2 DEF Apply, State, TxRecord

LEMMA NewBlockType ==
  ASSUME NEW p \in Processor, NEW c \in Block \cup {None}, NEW t \in Tx
  PROVE  NewBlock(p, c, t) \in Block
<1>1. StateOf(c) \in State /\ NextHeight(c) \in Nat
  BY DEF StateOf, NextHeight, Block
<1>2. Apply(StateOf(c), t) \in State
  BY <1>1, ApplyType
<1>3. StateOf(c).key \in Key
  BY <1>1 DEF State
<1>4. ParentId(c) \in [height : Nat, tx : Tx, builder : Processor] \cup {None}
  BY DEF ParentId, BlockId, Block
<1> QED
  BY <1>1, <1>2, <1>3, <1>4 DEF NewBlock, Block

\* A resync leaves the snapshot alone or takes a stored block that is ahead.
LEMMA ResyncedIs ==
  ASSUME NEW p \in Processor, TypeOK
  PROVE  \/ Resynced(p) = current
         \/ \E b \in blocks :
              /\ b.height >= NextHeight(current[p])
              /\ Resynced(p) = [current EXCEPT ![p] = b]
<1>1. CASE \E b \in blocks : IsLatest(b) /\ b.height >= NextHeight(current[p])
  <2> DEFINE l == CHOOSE b \in blocks : IsLatest(b)
  <2>1. PICK b \in blocks : IsLatest(b) /\ b.height >= NextHeight(current[p])
    BY <1>1
  <2>2. l \in blocks /\ IsLatest(l)
    BY <2>1
  <2>3. NextHeight(current[p]) \in Nat /\ b.height \in Nat /\ l.height \in Nat
    BY <2>1, <2>2 DEF TypeOK, NextHeight, Block
  <2>4. l.height >= NextHeight(current[p])
    BY <2>1, <2>2, <2>3 DEF IsLatest
  <2>5. Resynced(p) = [current EXCEPT ![p] = l]
    BY <1>1 DEF Resynced
  <2> QED
    BY <2>2, <2>4, <2>5
<1>2. CASE ~\E b \in blocks : IsLatest(b) /\ b.height >= NextHeight(current[p])
  BY <1>2 DEF Resynced
<1> QED
  BY <1>1, <1>2

LEMMA ResyncedType ==
  ASSUME NEW p \in Processor, TypeOK
  PROVE  Resynced(p) \in [Processor -> Block \cup {None}]
<1>1. current \in [Processor -> Block \cup {None}] /\ blocks \subseteq Block
  BY DEF TypeOK
<1>2. CASE Resynced(p) = current
  BY <1>1, <1>2
<1>3. CASE \E b \in blocks : Resynced(p) = [current EXCEPT ![p] = b]
  BY <1>1, <1>3
<1> QED
  BY <1>2, <1>3, ResyncedIs

LEMMA SettleType ==
  ASSUME TypeOK, NEW p \in Processor, NEW t \in Tx,
         NEW how \in {"landed", "failed"}, Settle(p, t, how)
  PROVE  /\ pool' \in [Processor -> SUBSET Tx]
         /\ verdict' \in [Processor -> [Tx -> {"none", "landed", "failed"}]]
<1>1. /\ pool \in [Processor -> SUBSET Tx]
      /\ verdict \in [Processor -> [Tx -> {"none", "landed", "failed"}]]
  BY DEF TypeOK
<1>2. CASE verdict[p][t] = "none"
  <2>1. pool' = [pool EXCEPT ![p] = @ \ {t}]
    BY <1>2 DEF Settle
  <2>2. verdict' = [verdict EXCEPT ![p] = [verdict[p] EXCEPT ![t] = how]]
    BY <1>2 DEF Settle
  <2>3. [verdict[p] EXCEPT ![t] = how] \in [Tx -> {"none", "landed", "failed"}]
    BY <1>1
  <2> QED
    BY <1>1, <2>1, <2>2, <2>3
<1>3. CASE verdict[p][t] # "none"
  BY <1>1, <1>3 DEF Settle
<1> QED
  BY <1>2, <1>3

LEMMA ReturnType ==
  ASSUME TypeInv, NEW p \in Processor,
         NEW next \in {"idle", "approve", "genesis", "down"}, Return(p, next)
  PROVE  /\ lock' \in Processor \cup {None}
         /\ pc' \in [Processor -> PcLabels]
         /\ work' \in [Processor -> Tx \cup {None}]
         /\ fromPool' \in [Processor -> BOOLEAN]
         /\ proposed' \in [Processor -> Nat]
         /\ built' \in [Processor -> Block \cup {None}]
         /\ StageOK'
<1> USE DEF TypeInv, TypeOK, Return
<1>1. /\ lock' \in Processor \cup {None}
      /\ pc' \in [Processor -> PcLabels]
      /\ work' \in [Processor -> Tx \cup {None}]
  BY DEF Release, PcLabels
<1>2. /\ fromPool' \in [Processor -> BOOLEAN]
      /\ proposed' \in [Processor -> Nat]
      /\ built' \in [Processor -> Block \cup {None}]
  OBVIOUS
<1>3. StageOK'
  BY DEF StageOK
<1> QED
  BY <1>1, <1>2, <1>3

LEMMA GiveUpType ==
  ASSUME TypeInv, NEW p \in Processor, GiveUp(p), work[p] \in Tx
  PROVE  /\ lock' \in Processor \cup {None}
         /\ pc' \in [Processor -> PcLabels]
         /\ work' \in [Processor -> Tx \cup {None}]
         /\ fromPool' \in [Processor -> BOOLEAN]
         /\ proposed' \in [Processor -> Nat]
         /\ built' \in [Processor -> Block \cup {None}]
         /\ pool' \in [Processor -> SUBSET Tx]
         /\ verdict' \in [Processor -> [Tx -> {"none", "landed", "failed"}]]
         /\ failures' \in SUBSET Notice
         /\ StageOK'
<1>1. Return(p, "idle")
  BY DEF GiveUp
<1>2. proposed[p] \in Nat
  BY DEF TypeInv, TypeOK
<1>3. /\ pool' \in [Processor -> SUBSET Tx]
      /\ verdict' \in [Processor -> [Tx -> {"none", "landed", "failed"}]]
      /\ failures' \in SUBSET Notice
  <2>1. CASE HasSecret(p)
    <3>1. Settle(p, work[p], "failed")
      BY <2>1 DEF GiveUp
    <3>2. failures' = failures \cup
            {[tx |-> work[p], height |-> proposed[p], by |-> p]}
      BY <2>1 DEF GiveUp
    <3> QED
      BY <3>1, <3>2, <1>2, SettleType DEF TypeInv, TypeOK, Notice
  <2>2. CASE ~HasSecret(p)
    <3>1. /\ pool' = [pool EXCEPT ![p] = pool[p] \ {work[p]}]
          /\ UNCHANGED <<failures, verdict>>
      BY <2>2 DEF GiveUp
    <3>2. TypeOK
      BY DEF TypeInv
    <3>3. pool' \in [Processor -> SUBSET Tx]
      BY <3>1, <3>2 DEF TypeOK
    <3> QED
      BY <3>1, <3>2, <3>3 DEF TypeOK
  <2> QED
    BY <2>1, <2>2
<1> QED
  BY <1>1, <1>3, ReturnType

-----------------------------------------------------------------------------
LEMMA TypeInit == Init => TypeInv
BY DEF Init, TypeInv, TypeOK, StageOK, PcLabels

LEMMA TypeStep == TypeInv /\ [Next]_vars => TypeInv'
<1> SUFFICES ASSUME TypeInv, [Next]_vars PROVE TypeInv'
  OBVIOUS
<1> USE DEF TypeInv
<1>1. ASSUME NEW p \in Processor, GenesisReady(p) PROVE TypeInv'
  BY <1>1 DEF GenesisReady, TypeOK, StageOK, PcLabels
<1>2. ASSUME NEW p \in Processor, GenesisBuild(p) PROVE TypeInv'
  <2>1. GenesisTx[p] \in Tx /\ NewBlock(p, None, GenesisTx[p]) \in Block
    BY NewBlockType
  <2> QED
    BY <1>2, <2>1 DEF GenesisBuild, TypeOK, StageOK, PcLabels
<1>3. ASSUME NEW p \in Processor, WaitForActiveVersion(p) PROVE TypeInv'
  <2>1. current' \in [Processor -> Block \cup {None}]
    BY <1>3, ResyncedType DEF WaitForActiveVersion
  <2>2. pc' \in [Processor -> PcLabels] /\ StageOK'
    BY <1>3 DEF WaitForActiveVersion, TypeOK, StageOK, PcLabels
  <2> QED
    BY <1>3, <2>1, <2>2 DEF WaitForActiveVersion, TypeOK
<1>4. ASSUME NEW p \in Processor, WaitOnMempool(p) PROVE TypeInv'
  <2>1. PICK t \in pool[p] :
          \/ Settle(p, t, "landed") /\ UNCHANGED <<pc, work, fromPool>>
          \/ /\ pc' = [pc EXCEPT ![p] = "lock"]
             /\ work' = [work EXCEPT ![p] = t]
             /\ fromPool' = [fromPool EXCEPT ![p] = TRUE]
             /\ UNCHANGED <<pool, verdict>>
    BY <1>4 DEF WaitOnMempool
  <2>2. t \in Tx
    BY DEF TypeOK
  <2>3. /\ pool' \in [Processor -> SUBSET Tx]
        /\ verdict' \in [Processor -> [Tx -> {"none", "landed", "failed"}]]
    BY <2>1, <2>2, SettleType DEF TypeOK
  <2>4. /\ pc' \in [Processor -> PcLabels]
        /\ work' \in [Processor -> Tx \cup {None}]
        /\ fromPool' \in [Processor -> BOOLEAN]
    <3>1. CASE UNCHANGED <<pc, work, fromPool>>
      BY <3>1 DEF TypeOK
    <3>2. CASE /\ pc' = [pc EXCEPT ![p] = "lock"]
               /\ work' = [work EXCEPT ![p] = t]
               /\ fromPool' = [fromPool EXCEPT ![p] = TRUE]
      BY <2>2, <3>2 DEF TypeOK, PcLabels
    <3> QED
      BY <2>1, <3>1, <3>2
  <2>5. UNCHANGED <<blocks, lock, current, proposed, built, failures, crashes>>
    BY <1>4 DEF WaitOnMempool
  <2>6. StageOK'
    BY <2>1, <2>2, <2>5 DEF StageOK, TypeOK
  <2> QED
    BY <2>3, <2>4, <2>5, <2>6 DEF TypeOK
<1>5. ASSUME NEW p \in Processor, TakeConstructLock(p) PROVE TypeInv'
  BY <1>5 DEF TakeConstructLock, TypeOK, StageOK, PcLabels
<1>6. ASSUME NEW p \in Processor, ResyncUnderLock(p) PROVE TypeInv'
  <2>1. current' \in [Processor -> Block \cup {None}]
    BY <1>6, ResyncedType DEF ResyncUnderLock
  <2>2. UNCHANGED <<blocks, pool, verdict, failures, crashes>>
    BY <1>6 DEF ResyncUnderLock
  <2>3. CASE Landed(work[p])
    <3>1. Return(p, AfterSuccess(p))
      BY <1>6, <2>3 DEF ResyncUnderLock
    <3>2. AfterSuccess(p) \in {"idle", "approve", "genesis", "down"}
      BY DEF AfterSuccess
    <3> QED
      BY <3>1, <3>2, <2>1, <2>2, ReturnType DEF TypeOK
  <2>4. CASE ~Landed(work[p])
    <3>1. NextHeight(current'[p]) \in Nat
      BY <2>1 DEF NextHeight, Block
    <3>2. /\ pc[p] = "resync"
          /\ proposed' = [proposed EXCEPT ![p] = NextHeight(current'[p])]
          /\ pc' = [pc EXCEPT ![p] = "construct"]
          /\ UNCHANGED <<lock, work, fromPool, built>>
      BY <1>6, <2>4 DEF ResyncUnderLock
    <3>3. proposed' \in [Processor -> Nat] /\ pc' \in [Processor -> PcLabels]
      BY <3>1, <3>2 DEF TypeOK, PcLabels
    <3>4. StageOK'
      BY <3>2 DEF TypeOK, StageOK
    <3> QED
      BY <2>1, <2>2, <3>2, <3>3, <3>4 DEF TypeOK
  <2> QED
    BY <2>3, <2>4
<1>7. ASSUME NEW p \in Processor, ConstructBlock(p) PROVE TypeInv'
  <2>1. work[p] \in Tx /\ current[p] \in Block \cup {None}
    BY <1>7 DEF ConstructBlock, TypeOK, StageOK
  <2>2. NewBlock(p, current[p], work[p]) \in Block
    BY <2>1, NewBlockType
  <2> QED
    BY <1>7, <2>1, <2>2 DEF ConstructBlock, TypeOK, StageOK, PcLabels
<1>8. ASSUME NEW p \in Processor, ConstructFails(p) PROVE TypeInv'
  <2>1. GiveUp(p) /\ work[p] \in Tx /\ UNCHANGED <<blocks, current, crashes>>
    BY <1>8 DEF ConstructFails, StageOK
  <2> QED
    BY <2>1, GiveUpType DEF TypeOK
<1>9. ASSUME NEW p \in Processor, InsertBlock(p) PROVE TypeInv'
  <2>1. built[p] \in Block /\ work[p] \in Tx
    BY <1>9 DEF InsertBlock, StageOK
  <2> QED
    BY <1>9, <2>1 DEF InsertBlock, TypeOK, StageOK, PcLabels
<1>10. ASSUME NEW p \in Processor, InsertConflict(p) PROVE TypeInv'
  BY <1>10, ReturnType DEF InsertConflict, TypeOK
<1>12. ASSUME NEW p \in Processor, GenesisConflict(p) PROVE TypeInv'
  <2>1. current' \in [Processor -> Block \cup {None}]
    BY <1>12, ResyncedType DEF GenesisConflict
  <2>2. /\ Return(p, "genesis")
        /\ UNCHANGED <<blocks, pool, verdict, failures, crashes>>
    BY <1>12 DEF GenesisConflict
  <2> QED
    BY <2>1, <2>2, ReturnType DEF TypeOK
<1>13. ASSUME NEW p \in Processor, InsertReplyLost(p) PROVE TypeInv'
  <2>1. /\ GiveUp(p) /\ work[p] \in Tx /\ built[p] \in Block
        /\ blocks' = blocks \cup {built[p]}
        /\ UNCHANGED <<current, crashes>>
    BY <1>13 DEF InsertReplyLost, StageOK
  <2> QED
    BY <2>1, GiveUpType DEF TypeOK
<1>14. ASSUME NEW p \in Processor, PublishBlock(p) PROVE TypeInv'
  <2>1. built[p] \in Block /\ built[p].tx \in Tx
    BY <1>14 DEF PublishBlock, StageOK, Block
  <2>2. /\ pool' \in [Processor -> SUBSET Tx]
        /\ verdict' \in [Processor -> [Tx -> {"none", "landed", "failed"}]]
    BY <1>14, <2>1, SettleType DEF PublishBlock
  <2> QED
    BY <1>14, <2>2 DEF PublishBlock, TypeOK, StageOK, PcLabels
<1>15. ASSUME NEW p \in Processor, AdvanceCurrent(p) PROVE TypeInv'
  <2>1. built[p] \in Block
    BY <1>15 DEF AdvanceCurrent, StageOK
  <2>2. current' \in [Processor -> Block \cup {None}]
    BY <1>15, <2>1 DEF AdvanceCurrent, TypeOK
  <2>3. /\ Return(p, AfterSuccess(p))
        /\ AfterSuccess(p) \in {"idle", "approve", "genesis", "down"}
        /\ UNCHANGED <<blocks, pool, verdict, failures, crashes>>
    BY <1>15 DEF AdvanceCurrent, AfterSuccess
  <2> QED
    BY <2>2, <2>3, ReturnType DEF TypeOK
<1>16. ASSUME NEW p \in Processor, ApproveActions(p) PROVE TypeInv'
  <2>1. /\ pc[p] = "approve"
        /\ UNCHANGED <<blocks, lock, current, proposed, built, pool, verdict,
                       failures, crashes>>
    BY <1>16 DEF ApproveActions
  <2>2. CASE pc' = [pc EXCEPT ![p] = "idle"] /\ UNCHANGED <<work, fromPool>>
    BY <2>1, <2>2 DEF TypeOK, StageOK, PcLabels
  <2>3. CASE \E t \in ApprovalTx :
               /\ work' = [work EXCEPT ![p] = t]
               /\ fromPool' = [fromPool EXCEPT ![p] = FALSE]
               /\ pc' = [pc EXCEPT ![p] = "lock"]
    <3>1. PICK t \in Tx : /\ work' = [work EXCEPT ![p] = t]
                          /\ fromPool' = [fromPool EXCEPT ![p] = FALSE]
                          /\ pc' = [pc EXCEPT ![p] = "lock"]
      BY <2>3
    <3>2. /\ work' \in [Processor -> Tx \cup {None}]
          /\ fromPool' \in [Processor -> BOOLEAN]
          /\ pc' \in [Processor -> PcLabels]
      BY <3>1 DEF TypeOK, PcLabels
    <3>3. StageOK'
      BY <2>1, <3>1 DEF TypeOK, StageOK
    <3> QED
      BY <2>1, <3>2, <3>3 DEF TypeOK
  <2> QED
    BY <1>16, <2>2, <2>3 DEF ApproveActions
<1>17. ASSUME NEW p \in Processor, RemoteResync(p) PROVE TypeInv'
  BY <1>17 DEF RemoteResync, TypeOK, StageOK
<1>18. ASSUME NEW p \in Processor, NEW t \in ClientTx, ProposeTransaction(p, t)
       PROVE  TypeInv'
  BY <1>18 DEF ProposeTransaction, ClientTx, TypeOK, StageOK
<1>19. ASSUME NEW p \in Processor, ReceiveFailed(p) PROVE TypeInv'
  <2>1. PICK n \in failures : Settle(p, n.tx, "failed")
    BY <1>19 DEF ReceiveFailed
  <2>2. n.tx \in Tx
    BY DEF TypeOK, Notice
  <2> QED
    BY <1>19, <2>1, <2>2, SettleType DEF ReceiveFailed, TypeOK, StageOK
<1>20. ASSUME NEW p \in Processor, ReceiveLanded(p) PROVE TypeInv'
  <2>1. PICK b \in blocks : Settle(p, b.tx, "landed")
    BY <1>20 DEF ReceiveLanded
  <2>2. b.tx \in Tx
    BY DEF TypeOK, Block
  <2> QED
    BY <1>20, <2>1, <2>2, SettleType DEF ReceiveLanded, TypeOK, StageOK
<1>21. ASSUME NEW p \in Processor, Crash(p) PROVE TypeInv'
  <2>1. /\ Return(p, "down")
        /\ crashes' \in Nat
        /\ current' \in [Processor -> Block \cup {None}]
        /\ pool' \in [Processor -> SUBSET Tx]
        /\ verdict' \in [Processor -> [Tx -> {"none", "landed", "failed"}]]
        /\ UNCHANGED <<blocks, failures>>
    BY <1>21 DEF Crash, TypeOK
  <2> QED
    BY <2>1, ReturnType DEF TypeOK
<1>22. ASSUME NEW p \in Processor, Restart(p) PROVE TypeInv'
  <2>1. current' \in [Processor -> Block \cup {None}]
    BY <1>22, ResyncedType DEF Restart
  <2> QED
    BY <1>22, <2>1 DEF Restart, TypeOK, StageOK, PcLabels
<1>23. CASE LoseLock
  BY <1>23 DEF LoseLock, TypeOK, StageOK
<1>24. CASE UNCHANGED vars
  BY <1>24 DEF vars, TypeOK, StageOK
<1> QED
  BY <1>1, <1>2, <1>3, <1>4, <1>5, <1>6, <1>7, <1>8, <1>9, <1>10,
     <1>12, <1>13, <1>14, <1>15, <1>16, <1>17, <1>18, <1>19, <1>20, <1>21,
     <1>22, <1>23, <1>24
  DEF Next, Produce, Background

\* Every variable keeps its type, for every cluster, transaction set and fault.
THEOREM TypeCorrect == Spec => []TypeOK
<1>1. TypeInv => TypeOK
  BY DEF TypeInv
<1> QED
  BY <1>1, TypeInit, TypeStep, PTL DEF Spec

-----------------------------------------------------------------------------
\* What a processor that inserts, or has inserted, holds in its hands.
BuiltOK ==
  \A p \in Processor :
    /\ pc[p] \in {"insert", "genesisInsert"} => WellFormed(built[p])
    /\ pc[p] \in {"publish", "advance"} => built[p] \in blocks

ChainOK ==
  NoFork /\ NoDoubleInclusion /\ ChainIsExecutable /\ NoGaps /\ NoncesIncrease

SafeInv == TypeInv /\ ChainOK /\ SnapshotsOnChain /\ BuiltOK

\* An insertable block goes on top of the chain: were a stored block as high,
\* the chain, having no gaps, would have one at this very height.
LEMMA InsertedOnTop ==
  ASSUME TypeOK, NoGaps, NEW b \in Block, WellFormed(b), Insertable(b)
  PROVE  \A c \in blocks : c.height < b.height
<1> SUFFICES ASSUME NEW c \in blocks, ~(c.height < b.height) PROVE FALSE
  OBVIOUS
<1>1. b.height \in Nat /\ c.height \in Nat
  BY DEF TypeOK, Block
<1>2. b.height \in 0..c.height
  BY <1>1
<1>3. PICK d \in blocks : d.height = b.height
  BY <1>2 DEF NoGaps
<1> QED
  BY <1>3 DEF Insertable, HeightTaken

\* Executing a transaction lowers no nonce and uses up the sender's.
LEMMA ApplyNonce ==
  ASSUME NEW s \in State, NEW t \in Tx
  PROVE  /\ \A x \in Account : Apply(s, t).nonce[x] >= s.nonce[x]
         /\ Apply(s, t).nonce[TxInfo[t].sender] = s.nonce[TxInfo[t].sender] + 1
<1>1. s.nonce \in [Account -> Nat] /\ TxInfo[t].sender \in Account
  BY DEF State, TxRecord
<1>2. Apply(s, t).nonce = [s.nonce EXCEPT ![TxInfo[t].sender] = @ + 1]
  BY DEF Apply
<1> QED
  BY <1>1, <1>2

\* Adding an insertable block keeps the chain a chain.
LEMMA InsertKeepsChain ==
  ASSUME TypeOK, TypeOK', ChainOK, NEW b \in Block, WellFormed(b),
         Insertable(b), blocks' = blocks \cup {b}
  PROVE  ChainOK'
<1> USE DEF ChainOK
<1>1. \A c \in blocks : c.height < b.height
  BY InsertedOnTop
<1>2. PICK d \in blocks \cup {None} : ValidOn(b, d)
  BY DEF WellFormed
<1>3. b.height \in Nat /\ \A c \in blocks : c.height \in Nat
  BY DEF TypeOK, Block
<1>4. NoFork'
  BY <1>1, <1>3 DEF NoFork
<1>5. NoDoubleInclusion'
  BY DEF NoDoubleInclusion, Insertable, Landed
<1>6. ChainIsExecutable'
  <2>1. \A c \in Block : WellFormed(c) => WellFormed(c)'
    BY DEF WellFormed
  <2> QED
    BY <2>1 DEF ChainIsExecutable, TypeOK
<1>7. NoGaps'
  <2> SUFFICES ASSUME NEW k \in 0..b.height
               PROVE  \E c \in blocks' : c.height = k
    BY DEF NoGaps
  <2>1. CASE k = b.height
    BY <2>1
  <2>2. CASE k # b.height
    <3>1. d \in blocks /\ b.height = d.height + 1
      BY <1>2, <1>3, <2>2, NoneIsNoBlock DEF ValidOn, NextHeight
    <3>2. k \in 0..d.height
      BY <1>3, <2>2, <3>1
    <3> QED
      BY <3>1, <3>2 DEF NoGaps
  <2> QED
    BY <2>1, <2>2
<1>8. NoncesIncrease'
  <2> SUFFICES ASSUME NEW c \in blocks', c.height <= b.height
               PROVE  b.state.nonce[TxInfo[c.tx].sender] > TxInfo[c.tx].nonce
    BY <1>1, <1>3 DEF NoncesIncrease
  <2> DEFINE s == StateOf(d)
             x == TxInfo[c.tx].sender
  <2>1. s \in State /\ b.tx \in Tx /\ c.tx \in Tx /\ c.height \in Nat
    BY DEF TypeOK, StateOf, Block
  <2>2. b.state = Apply(s, b.tx) /\ s.nonce[TxInfo[b.tx].sender] = TxInfo[b.tx].nonce
    BY <1>2 DEF ValidOn, Executes
  <2>3. /\ x \in Account /\ TxInfo[c.tx].nonce \in Nat
        /\ s.nonce \in [Account -> Nat]
        /\ b.state.nonce \in [Account -> Nat]
    BY <2>1 DEF TxRecord, State, Block
  <2>4. CASE c = b
    BY <2>1, <2>2, <2>3, <2>4, ApplyNonce
  <2>5. CASE c \in blocks
    <3>1. d \in blocks /\ c.height <= d.height
      BY <1>1, <1>2, <1>3, <2>5, NoneIsNoBlock DEF ValidOn, NextHeight
    <3>2. s.nonce[x] > TxInfo[c.tx].nonce
      BY <2>5, <3>1, NoneIsNoBlock DEF NoncesIncrease, StateOf, TypeOK
    <3>3. b.state.nonce[x] >= s.nonce[x]
      BY <2>1, <2>2, <2>3, ApplyNonce
    <3>4. b.state.nonce[x] \in Nat /\ s.nonce[x] \in Nat
      BY <2>3
    <3> QED
      BY <2>3, <3>2, <3>3, <3>4
  <2> QED
    BY <2>4, <2>5
<1> QED
  BY <1>4, <1>5, <1>6, <1>7, <1>8

-----------------------------------------------------------------------------
\* The only way the blocks table changes: one processor inserts what it built.
Inserts(p) ==
  /\ pc[p] \in {"insert", "genesisInsert"}
  /\ Insertable(built[p])
  /\ blocks' = blocks \cup {built[p]}

LEMMA BlocksStep ==
  ASSUME [Next]_vars
  PROVE  blocks' = blocks \/ \E p \in Processor : Inserts(p)
<1>1. ASSUME NEW p \in Processor, Produce(p)
      PROVE  blocks' = blocks \/ Inserts(p)
  BY <1>1 DEF Produce, Inserts, GenesisReady, GenesisBuild,
     WaitForActiveVersion, WaitOnMempool, TakeConstructLock, ResyncUnderLock,
     ConstructBlock, ConstructFails, InsertBlock, InsertConflict,
     GenesisConflict, InsertReplyLost, PublishBlock,
     AdvanceCurrent, ApproveActions
<1>2. ASSUME NEW p \in Processor, Background(p) \/ Crash(p) \/ Restart(p)
      PROVE  blocks' = blocks
  BY <1>2 DEF Background, RemoteResync, ProposeTransaction, ReceiveFailed,
     ReceiveLanded, Crash, Restart
<1>3. CASE LoseLock \/ UNCHANGED vars
  BY <1>3 DEF LoseLock, vars
<1> QED
  BY <1>1, <1>2, <1>3 DEF Next

\* What a step does to the snapshot of q.
Keeps(q) == current'[q] = current[q]
MovesUp(q) == \E b \in blocks : /\ current'[q] = b
                                /\ b.height >= NextHeight(current[q])
Stops(q) == current'[q] = None /\ pc'[q] = "down"

LEMMA ResyncedMoves ==
  ASSUME TypeOK, NEW p \in Processor, current' = Resynced(p)
  PROVE  \A q \in Processor : Keeps(q) \/ MovesUp(q)
<1>1. CASE Resynced(p) = current
  BY <1>1 DEF Keeps
<1>2. ASSUME NEW b \in blocks, b.height >= NextHeight(current[p]),
             Resynced(p) = [current EXCEPT ![p] = b], NEW q \in Processor
      PROVE  Keeps(q) \/ MovesUp(q)
  <2>1. current'[q] = IF q = p THEN b ELSE current[q]
    BY <1>2 DEF TypeOK
  <2> QED
    BY <1>2, <2>1 DEF Keeps, MovesUp
<1> QED
  BY <1>1, <1>2, ResyncedIs

LEMMA CurrentStep ==
  ASSUME SafeInv, [Next]_vars
  PROVE  \A q \in Processor : Keeps(q) \/ MovesUp(q) \/ Stops(q)
<1> USE DEF SafeInv, TypeInv
<1> DEFINE Goal == \A q \in Processor : Keeps(q) \/ MovesUp(q) \/ Stops(q)
<1>1. ASSUME UNCHANGED current PROVE Goal
  BY <1>1 DEF Keeps
<1>2. ASSUME NEW p \in Processor,
             WaitForActiveVersion(p) \/ ResyncUnderLock(p)
               \/ GenesisConflict(p) \/ Restart(p)
      PROVE  Goal
  BY <1>2, ResyncedMoves
     DEF WaitForActiveVersion, ResyncUnderLock, GenesisConflict, Restart
<1>3. ASSUME NEW p \in Processor, AdvanceCurrent(p) PROVE Goal
  <2>1. built[p] \in blocks
    BY <1>3 DEF AdvanceCurrent, BuiltOK
  <2>2. built[p].height \in Nat /\ NextHeight(current[p]) \in Nat
    BY <2>1 DEF TypeOK, NextHeight, Block
  <2>3. CASE NextHeight(current[p]) > built[p].height
    BY <1>1, <1>3, <2>3 DEF AdvanceCurrent
  <2>4. CASE ~(NextHeight(current[p]) > built[p].height)
    BY <1>3, <2>1, <2>2, <2>4 DEF AdvanceCurrent, Keeps, MovesUp, TypeOK
  <2> QED
    BY <2>3, <2>4
<1>4. ASSUME NEW p \in Processor, RemoteResync(p) PROVE Goal
  BY <1>4 DEF RemoteResync, Keeps, MovesUp, TypeOK
<1>5. ASSUME NEW p \in Processor, Crash(p) PROVE Goal
  BY <1>5 DEF Crash, Return, Keeps, Stops, TypeOK
<1>6. ASSUME NEW p \in Processor, Produce(p) PROVE Goal
  BY <1>1, <1>2, <1>3, <1>6 DEF Produce, GenesisReady, GenesisBuild,
     WaitOnMempool, TakeConstructLock, ConstructBlock, ConstructFails,
     InsertBlock, InsertConflict, InsertReplyLost,
     PublishBlock, ApproveActions
<1>7. ASSUME NEW p \in Processor, Background(p) PROVE Goal
  BY <1>1, <1>4, <1>7 DEF Background, ProposeTransaction, ReceiveFailed,
     ReceiveLanded
<1>8. CASE LoseLock \/ UNCHANGED vars
  BY <1>1, <1>8 DEF LoseLock, vars
<1> QED
  BY <1>2, <1>5, <1>6, <1>7, <1>8 DEF Next

\* What a processor builds is valid on its snapshot, hence on a stored block.
LEMMA BuildsValid ==
  ASSUME SafeInv, NEW p \in Processor, GenesisBuild(p) \/ ConstructBlock(p)
  PROVE  WellFormed(built'[p])
<1> USE DEF SafeInv, TypeInv
<1> DEFINE c == current[p]
<1>1. c \in blocks \cup {None}
  BY DEF SnapshotsOnChain
<1>2. built'[p] = NewBlock(p, c, work'[p])
  BY DEF GenesisBuild, ConstructBlock, TypeOK, StageOK
<1>3. /\ StateOf(c).key \in Secrets[p]
      /\ StateOf(c).version = CodeVersion[p]
  BY DEF GenesisBuild, ConstructBlock, Constructible, HasSecret, ActiveVersion
<1>4. Executes(StateOf(c), work'[p], NextHeight(c))
  BY DEF GenesisBuild, ConstructBlock, Constructible, StateOf, NextHeight,
         TypeOK
<1>5. ValidOn(built'[p], c)
  BY <1>2, <1>3, <1>4 DEF ValidOn, NewBlock
<1> QED
  BY <1>1, <1>5 DEF WellFormed

\* Where the block in q's hands comes from.
StillBuilt(q) ==
  /\ built'[q] = built[q]
  /\ \/ pc'[q] = pc[q]
     \/ pc[q] = "publish" /\ pc'[q] = "advance"
     \/ pc'[q] = "publish" /\ built[q] \in blocks'
NoneBuilt(q) == pc'[q] \notin {"insert", "genesisInsert", "publish", "advance"}
FreshlyBuilt(q) == pc'[q] \in {"insert", "genesisInsert"} /\ WellFormed(built'[q])

LEMMA BuiltStep ==
  ASSUME SafeInv, [Next]_vars
  PROVE  \A q \in Processor : StillBuilt(q) \/ NoneBuilt(q) \/ FreshlyBuilt(q)
<1> USE DEF SafeInv, TypeInv, TypeOK, StillBuilt, NoneBuilt
<1> DEFINE Goal ==
      \A q \in Processor : StillBuilt(q) \/ NoneBuilt(q) \/ FreshlyBuilt(q)
<1>1. ASSUME UNCHANGED <<pc, built>> PROVE Goal
  BY <1>1
<1>2. ASSUME NEW p \in Processor,
             NEW next \in {"idle", "approve", "genesis", "down"},
             Return(p, next)
      PROVE  Goal
  BY <1>2 DEF Return
<1>3. ASSUME NEW p \in Processor, GenesisBuild(p) \/ ConstructBlock(p)
      PROVE  Goal
  <2>1. FreshlyBuilt(p)
    BY <1>3, BuildsValid DEF FreshlyBuilt, GenesisBuild, ConstructBlock
  <2>2. \A q \in Processor \ {p} : StillBuilt(q)
    BY <1>3 DEF GenesisBuild, ConstructBlock
  <2> QED
    BY <2>1, <2>2
<1>4. ASSUME NEW p \in Processor,
             UNCHANGED built,
             \E l \in PcLabels : pc' = [pc EXCEPT ![p] = l],
             NoneBuilt(p) \/ StillBuilt(p)
      PROVE  Goal
  BY <1>4
<1>5. ASSUME NEW p \in Processor,
             \/ GenesisReady(p) \/ WaitForActiveVersion(p)
             \/ TakeConstructLock(p) \/ InsertBlock(p) \/ PublishBlock(p)
             \/ Restart(p)
      PROVE  Goal
  BY <1>4, <1>5 DEF GenesisReady, WaitForActiveVersion, TakeConstructLock,
     InsertBlock, PublishBlock, Restart, PcLabels
<1>6. ASSUME NEW p \in Processor, WaitOnMempool(p) \/ ApproveActions(p)
      PROVE  Goal
  BY <1>1, <1>4, <1>6 DEF WaitOnMempool, ApproveActions, PcLabels
<1>7. ASSUME NEW p \in Processor, ResyncUnderLock(p) PROVE Goal
  <2>1. AfterSuccess(p) \in {"idle", "approve"}
    BY DEF AfterSuccess
  <2> QED
    BY <1>2, <1>4, <1>7, <2>1 DEF ResyncUnderLock, PcLabels
<1>8. ASSUME NEW p \in Processor,
             \/ ConstructFails(p) \/ InsertConflict(p)
             \/ GenesisConflict(p) \/ InsertReplyLost(p) \/ Crash(p)
      PROVE  Goal
  BY <1>2, <1>8 DEF ConstructFails, InsertConflict,
     GenesisConflict, InsertReplyLost, Crash, GiveUp
<1>9. ASSUME NEW p \in Processor, AdvanceCurrent(p) PROVE Goal
  <2>1. AfterSuccess(p) \in {"idle", "approve"}
    BY DEF AfterSuccess
  <2> QED
    BY <1>2, <1>9, <2>1 DEF AdvanceCurrent
<1>10. ASSUME NEW p \in Processor, Background(p) PROVE Goal
  BY <1>1, <1>10 DEF Background, RemoteResync, ProposeTransaction,
     ReceiveFailed, ReceiveLanded
<1>11. CASE LoseLock \/ UNCHANGED vars
  BY <1>1, <1>11 DEF LoseLock, vars
<1> QED
  BY <1>3, <1>5, <1>6, <1>7, <1>8, <1>9, <1>10, <1>11 DEF Next, Produce

-----------------------------------------------------------------------------
LEMMA SafeInit == Init => SafeInv
<1> SUFFICES ASSUME Init PROVE SafeInv
  OBVIOUS
<1>1. ChainOK
  BY DEF Init, ChainOK, NoFork, NoDoubleInclusion, ChainIsExecutable, NoGaps,
         NoncesIncrease
<1>2. SnapshotsOnChain /\ BuiltOK
  BY DEF Init, SnapshotsOnChain, BuiltOK
<1> QED
  BY <1>1, <1>2, TypeInit DEF SafeInv

LEMMA SafeStep == SafeInv /\ [Next]_vars => SafeInv'
<1> SUFFICES ASSUME SafeInv, [Next]_vars PROVE SafeInv'
  OBVIOUS
<1> USE DEF SafeInv
<1>1. TypeInv'
  BY TypeStep
<1>2. blocks \subseteq blocks'
  BY BlocksStep DEF Inserts
<1>3. ChainOK'
  <2>1. CASE blocks' = blocks
    BY <2>1 DEF ChainOK, NoFork, NoDoubleInclusion, ChainIsExecutable, NoGaps,
       NoncesIncrease, WellFormed
  <2>2. ASSUME NEW p \in Processor, Inserts(p) PROVE ChainOK'
    <3>1. WellFormed(built[p]) /\ built[p] \in Block
      BY <2>2 DEF Inserts, BuiltOK, TypeInv, StageOK
    <3> QED
      BY <1>1, <2>2, <3>1, InsertKeepsChain DEF Inserts, TypeInv
  <2> QED
    BY <2>1, <2>2, BlocksStep
<1>4. SnapshotsOnChain'
  BY <1>2, CurrentStep DEF SnapshotsOnChain, Keeps, MovesUp, Stops
<1>5. BuiltOK'
  <2>1. \A b : WellFormed(b) => WellFormed(b)'
    BY <1>2 DEF WellFormed
  <2> SUFFICES ASSUME NEW q \in Processor
               PROVE  /\ pc'[q] \in {"insert", "genesisInsert"}
                           => WellFormed(built[q])'
                      /\ pc'[q] \in {"publish", "advance"}
                           => built'[q] \in blocks'
    BY DEF BuiltOK
  <2>2. CASE StillBuilt(q)
    BY <1>2, <2>1, <2>2 DEF StillBuilt, BuiltOK
  <2>3. CASE NoneBuilt(q) \/ FreshlyBuilt(q)
    <3>1. WellFormed(built'[q]) => WellFormed(built[q])'
      BY <1>2 DEF WellFormed
    <3> QED
      BY <2>3, <3>1 DEF NoneBuilt, FreshlyBuilt
  <2> QED
    BY <2>2, <2>3, BuiltStep
<1> QED
  BY <1>1, <1>3, <1>4, <1>5

\* The inductive invariant that the theorems below draw on.
LEMMA Safety == Spec => []SafeInv
BY SafeInit, SafeStep, PTL DEF Spec

\* No two blocks at one height, whoever loses the construct lock.
THEOREM ForkFree == Spec => []NoFork
<1>1. SafeInv => NoFork
  BY DEF SafeInv, ChainOK
<1> QED
  BY <1>1, Safety, PTL

\* No transaction in two blocks.
THEOREM IncludedOnce == Spec => []NoDoubleInclusion
<1>1. SafeInv => NoDoubleInclusion
  BY DEF SafeInv, ChainOK
<1> QED
  BY <1>1, Safety, PTL

\* Every block was executed on the block below it, by an instance entitled to.
THEOREM Executable == Spec => []ChainIsExecutable
<1>1. SafeInv => ChainIsExecutable
  BY DEF SafeInv, ChainOK
<1> QED
  BY <1>1, Safety, PTL

\* Every height below a block has a block.
THEOREM GapFree == Spec => []NoGaps
<1>1. SafeInv => NoGaps
  BY DEF SafeInv, ChainOK
<1> QED
  BY <1>1, Safety, PTL

\* A sender's nonces go up along the chain.
THEOREM NoReplay == Spec => []NoncesIncrease
<1>1. SafeInv => NoncesIncrease
  BY DEF SafeInv, ChainOK
<1> QED
  BY <1>1, Safety, PTL

\* What a processor reads is a block of the chain.
THEOREM ReadsChain == Spec => []SnapshotsOnChain
<1>1. SafeInv => SnapshotsOnChain
  BY DEF SafeInv
<1> QED
  BY <1>1, Safety, PTL

\* A running processor's snapshot never goes back.
THEOREM NoRewind == Spec => SnapshotNeverRewinds
<1>1. SafeInv /\ [Next]_vars =>
        [\A p \in Processor : pc'[p] # "down" =>
           NextHeight(current'[p]) >= NextHeight(current[p])]_vars
  <2> SUFFICES ASSUME SafeInv, [Next]_vars, NEW p \in Processor,
                      pc'[p] # "down"
               PROVE  NextHeight(current'[p]) >= NextHeight(current[p])
    OBVIOUS
  <2>1. NextHeight(current[p]) \in Nat
    BY DEF SafeInv, TypeInv, TypeOK, NextHeight, Block
  <2>2. Keeps(p) \/ MovesUp(p)
    BY CurrentStep DEF Stops
  <2>3. ASSUME NEW b \in blocks, b.height >= NextHeight(current[p])
        PROVE  NextHeight(b) >= NextHeight(current[p])
    <3>1. b # None /\ b.height \in Nat
      BY DEF SafeInv, TypeInv, TypeOK, Block
    <3> QED
      BY <2>1, <2>3, <3>1 DEF NextHeight
  <2> QED
    BY <2>1, <2>2, <2>3 DEF Keeps, MovesUp
<1> QED
  BY <1>1, Safety, PTL DEF Spec, SnapshotNeverRewinds

-----------------------------------------------------------------------------
\* The refinement of the ledger: an insertion appends, all else stutters.
Entries == {[height |-> b.height, tx |-> b.tx] : b \in blocks}

LEMMA InsertAppends ==
  ASSUME SafeInv, NEW p \in Processor, Inserts(p)
  PROVE  LedgerSpec!Next
<1> USE DEF SafeInv, TypeInv, ChainOK, Inserts
<1> DEFINE b == built[p]
<1>1. WellFormed(b) /\ b \in Block /\ Insertable(b)
  BY DEF BuiltOK, StageOK
<1>2. PICK d \in blocks \cup {None} : ValidOn(b, d)
  BY <1>1 DEF WellFormed
<1>3. \A c \in blocks : c.height < b.height
  BY <1>1, InsertedOnTop
<1>4. b.height \in Nat /\ b.tx \in Tx
  BY <1>1 DEF Block
<1>5. LedgerSpec!IsNextHeight(b.height)
  <2>1. \A e \in Entries : e.height < b.height
    BY <1>3 DEF Entries
  <2>2. ASSUME NEW k \in 0..(b.height - 1)
        PROVE  \E e \in Entries : e.height = k
    <3>1. d \in blocks /\ b.height = d.height + 1 /\ d.height \in Nat
      BY <1>2, <1>4 DEF ValidOn, NextHeight, TypeOK, Block
    <3>2. PICK c \in blocks : c.height = k
      BY <2>2, <3>1 DEF NoGaps
    <3>3. [height |-> c.height, tx |-> c.tx] \in Entries
      BY DEF Entries
    <3> QED
      BY <3>2, <3>3
  <2> QED
    BY <2>1, <2>2 DEF LedgerSpec!IsNextHeight, Entries
<1>6. \A e \in Entries : e.tx # b.tx
  BY <1>1 DEF Insertable, Landed, Entries
<1>7. Entries' = Entries \cup {[height |-> b.height, tx |-> b.tx]}
  BY DEF Entries
<1>8. b.height \in LedgerSpec!CandidateHeights
  <2>1. CASE d = None
    BY <1>2, <2>1 DEF ValidOn, NextHeight, LedgerSpec!CandidateHeights
  <2>2. CASE d \in blocks
    <3>1. [height |-> d.height, tx |-> d.tx] \in Entries
      BY <2>2 DEF Entries
    <3>2. b.height = [height |-> d.height, tx |-> d.tx].height + 1
      BY <1>2, <2>2 DEF ValidOn, NextHeight, TypeOK
    <3> QED
      BY <3>1, <3>2 DEF LedgerSpec!CandidateHeights, Entries
  <2> QED
    BY <2>1, <2>2
<1> QED
  <2>1. PICK h \in LedgerSpec!CandidateHeights, t \in Tx :
               h = b.height /\ t = b.tx
    BY <1>4, <1>8
  <2>2. LedgerSpec!Append(h, t)
    BY <1>5, <1>6, <1>7, <2>1
    DEF LedgerSpec!Append, LedgerSpec!IsNextHeight, Entries
  <2> QED
    BY <2>1, <2>2 DEF LedgerSpec!Next

\* Seen from outside, the cluster is the abstract ledger.
THEOREM Refinement == Spec => ImplementsLedger
<1>1. Init => LedgerSpec!Init
  BY DEF Init, LedgerSpec!Init
<1>2. SafeInv /\ [Next]_vars => [LedgerSpec!Next]_Entries
  <2> SUFFICES ASSUME SafeInv, [Next]_vars
               PROVE  LedgerSpec!Next \/ UNCHANGED Entries
    OBVIOUS
  <2> QED
    BY BlocksStep, InsertAppends DEF Entries
<1> QED
  BY <1>1, <1>2, Safety, PTL
  DEF Spec, ImplementsLedger, LedgerSpec!Spec, Entries

-----------------------------------------------------------------------------
\* The construct lock, when it is not lost.

\* A genesis block is inserted without the lock; else who is locked holds it.
LockHeld ==
  \A p \in Processor :
    /\ pc[p] \in Locked /\ work[p] \notin GenesisTxs => lock = p
    /\ pc[p] = "genesisInsert" => work[p] \in GenesisTxs

LEMMA LockStep ==
  ASSUME "lockLost" \notin Faults, TypeInv, LockHeld, [Next]_vars
  PROVE  LockHeld'
<1> USE DEF TypeInv, TypeOK, LockHeld, Locked
<1>1. ASSUME NEW p \in Processor,
             NEW next \in {"idle", "approve", "genesis", "down"},
             Return(p, next)
      PROVE  LockHeld'
  BY <1>1 DEF Return, Release
<1>2. ASSUME NEW p \in Processor, UNCHANGED <<lock, work>>,
             \/ pc[p] \in Locked \cup {"genesisInsert"}
             \/ pc'[p] \notin Locked \cup {"genesisInsert"},
             pc'[p] # "genesisInsert",
             \E l \in PcLabels : pc' = [pc EXCEPT ![p] = l]
      PROVE  LockHeld'
  BY <1>2
<1>3. ASSUME UNCHANGED <<lock, work, pc>> PROVE LockHeld'
  BY <1>3
<1>4. ASSUME NEW p \in Processor,
             \/ GenesisReady(p) \/ WaitForActiveVersion(p)
             \/ ConstructBlock(p) \/ InsertBlock(p) \/ PublishBlock(p)
             \/ Restart(p)
      PROVE  LockHeld'
  BY <1>2, <1>4 DEF GenesisReady, WaitForActiveVersion, ConstructBlock,
     InsertBlock, PublishBlock, Restart, PcLabels
<1>5. ASSUME NEW p \in Processor, GenesisBuild(p) PROVE LockHeld'
  <2>1. GenesisTx[p] \in GenesisTxs
    BY DEF GenesisTxs
  <2> QED
    BY <1>5, <2>1 DEF GenesisBuild
<1>6. ASSUME NEW p \in Processor, WaitOnMempool(p) \/ ApproveActions(p)
      PROVE  LockHeld'
  <2>1. /\ lock' = lock /\ pc[p] \notin Locked \cup {"genesisInsert"}
        /\ \/ UNCHANGED <<work, pc>>
           \/ \E l \in {"lock", "idle"} : pc' = [pc EXCEPT ![p] = l]
        /\ \A q \in Processor \ {p} : work'[q] = work[q]
    BY <1>6 DEF WaitOnMempool, ApproveActions
  <2>2. ASSUME NEW q \in Processor \ {p} PROVE pc'[q] = pc[q] /\ work'[q] = work[q]
    BY <2>1
  <2>3. pc'[p] \notin Locked \cup {"genesisInsert"}
    BY <2>1
  <2> QED
    BY <2>1, <2>2, <2>3
<1>7. ASSUME NEW p \in Processor, TakeConstructLock(p) PROVE LockHeld'
  BY <1>7 DEF TakeConstructLock
<1>8. ASSUME NEW p \in Processor, ResyncUnderLock(p) PROVE LockHeld'
  BY <1>1, <1>2, <1>8 DEF ResyncUnderLock, AfterSuccess, PcLabels
<1>9. ASSUME NEW p \in Processor,
             \/ ConstructFails(p) \/ InsertConflict(p)
             \/ GenesisConflict(p) \/ InsertReplyLost(p) \/ AdvanceCurrent(p)
             \/ Crash(p)
      PROVE  LockHeld'
  BY <1>1, <1>9 DEF ConstructFails, InsertConflict,
     GenesisConflict, InsertReplyLost, AdvanceCurrent, Crash, GiveUp,
     AfterSuccess
<1>10. ASSUME NEW p \in Processor, Background(p) PROVE LockHeld'
  BY <1>3, <1>10 DEF Background, RemoteResync, ProposeTransaction,
     ReceiveFailed, ReceiveLanded
<1>11. CASE LoseLock \/ UNCHANGED vars
  BY <1>3, <1>11 DEF LoseLock, vars
<1> QED
  BY <1>4, <1>5, <1>6, <1>7, <1>8, <1>9, <1>10, <1>11 DEF Next, Produce

\* At most one processor is inside add_transaction while no lock is lost.
THEOREM LockExcludes ==
  ASSUME "lockLost" \notin Faults
  PROVE  Spec => []MutualExclusion
<1>1. Init => LockHeld
  BY DEF Init, LockHeld, Locked
<1>2. TypeInv /\ LockHeld /\ [Next]_vars => LockHeld'
  BY LockStep
<1>3. TypeInv /\ LockHeld => MutualExclusion
  BY DEF LockHeld, MutualExclusion
<1> QED
  BY <1>1, <1>2, <1>3, TypeInit, TypeStep, PTL DEF Spec

-----------------------------------------------------------------------------
LEMMA SettleBlocks ==
  ASSUME TypeOK, PoolNotBlocked, NEW p \in Processor, NEW t \in Tx,
         NEW how \in {"landed", "failed"}, Settle(p, t, how)
  PROVE  PoolNotBlocked'
<1>1. CASE UNCHANGED <<verdict, pool>>
  BY <1>1 DEF PoolNotBlocked
<1>2. CASE /\ verdict' = [verdict EXCEPT ![p][t] = how]
           /\ pool' = [pool EXCEPT ![p] = @ \ {t}]
  <2> SUFFICES ASSUME NEW q \in Processor, NEW u \in pool'[q]
               PROVE  verdict'[q][u] = "none"
    BY DEF PoolNotBlocked
  <2>1. /\ pool \in [Processor -> SUBSET Tx]
        /\ verdict \in [Processor -> [Tx -> {"none", "landed", "failed"}]]
    BY DEF TypeOK
  <2>2. u \in pool[q] /\ (q = p => u # t)
    BY <1>2, <2>1
  <2>3. verdict'[q][u] = verdict[q][u]
    BY <1>2, <2>1, <2>2
  <2> QED
    BY <2>2, <2>3 DEF PoolNotBlocked
<1> QED
  BY <1>1, <1>2 DEF Settle

LEMMA PoolStep ==
  ASSUME TypeInv, PoolNotBlocked, [Next]_vars
  PROVE  PoolNotBlocked'
<1> USE DEF TypeInv
<1>1. ASSUME UNCHANGED <<pool, verdict>> PROVE PoolNotBlocked'
  BY <1>1 DEF PoolNotBlocked
<1>2. ASSUME NEW p \in Processor, GiveUp(p), work[p] \in Tx
      PROVE  PoolNotBlocked'
  <2>1. CASE HasSecret(p)
    <3>1. Settle(p, work[p], "failed")
      BY <1>2, <2>1 DEF GiveUp
    <3> QED
      BY <1>2, <3>1, SettleBlocks
  <2>2. CASE ~HasSecret(p)
    <3>1. /\ pool' = [pool EXCEPT ![p] = @ \ {work[p]}]
          /\ verdict' = verdict
      BY <1>2, <2>2 DEF GiveUp
    <3> QED
      BY <3>1 DEF PoolNotBlocked, TypeOK
  <2> QED
    BY <2>1, <2>2
<1>3. ASSUME NEW p \in Processor,
             ConstructFails(p) \/ InsertReplyLost(p)
      PROVE  PoolNotBlocked'
  BY <1>2, <1>3 DEF ConstructFails, InsertReplyLost, StageOK
<1>4. ASSUME NEW p \in Processor, WaitOnMempool(p) PROVE PoolNotBlocked'
  <2>1. CASE UNCHANGED <<pool, verdict>>
    BY <1>1, <2>1
  <2>2. ASSUME NEW t \in pool[p], Settle(p, t, "landed") PROVE PoolNotBlocked'
    <3>1. t \in Tx
      BY DEF TypeOK
    <3> QED
      BY <2>2, <3>1, SettleBlocks
  <2> QED
    BY <1>4, <2>1, <2>2 DEF WaitOnMempool
<1>5. ASSUME NEW p \in Processor,
             PublishBlock(p) \/ ReceiveFailed(p) \/ ReceiveLanded(p)
      PROVE  PoolNotBlocked'
  <2>1. PICK t \in Tx : Settle(p, t, "landed") \/ Settle(p, t, "failed")
    BY <1>5 DEF PublishBlock, ReceiveFailed, ReceiveLanded, StageOK, TypeOK,
       Notice, Block
  <2> QED
    BY <2>1, SettleBlocks
<1>6. ASSUME NEW p \in Processor, NEW t \in ClientTx, ProposeTransaction(p, t)
      PROVE  PoolNotBlocked'
  BY <1>6 DEF ProposeTransaction, PoolNotBlocked, TypeOK
<1>7. ASSUME NEW p \in Processor, Crash(p) PROVE PoolNotBlocked'
  BY <1>7 DEF Crash, PoolNotBlocked, TypeOK
<1>8. ASSUME NEW p \in Processor, Produce(p) PROVE PoolNotBlocked'
  BY <1>1, <1>3, <1>4, <1>5, <1>8 DEF Produce, GenesisReady, GenesisBuild,
     WaitForActiveVersion, TakeConstructLock, ResyncUnderLock, ConstructBlock,
     InsertBlock, InsertConflict, GenesisConflict, AdvanceCurrent,
     ApproveActions
<1>9. ASSUME NEW p \in Processor, Background(p) \/ Restart(p)
      PROVE  PoolNotBlocked'
  BY <1>1, <1>5, <1>6, <1>9 DEF Background, RemoteResync, Restart
<1>10. CASE LoseLock \/ UNCHANGED vars
  BY <1>1, <1>10 DEF LoseLock, vars
<1> QED
  BY <1>7, <1>8, <1>9, <1>10 DEF Next

\* No mempool holds what it has blocked.
THEOREM PoolClean == Spec => []PoolNotBlocked
<1>1. Init => PoolNotBlocked
  BY DEF Init, PoolNotBlocked
<1>2. TypeInv /\ PoolNotBlocked /\ [Next]_vars => PoolNotBlocked'
  BY PoolStep
<1> QED
  BY <1>1, <1>2, TypeInit, TypeStep, PTL DEF Spec

-----------------------------------------------------------------------------
\* A failure is judged at the tip of the chain.

HasLatest == blocks = {} \/ \E b \in blocks : IsLatest(b)

\* In the loop a processor has a block, or cannot work: genesis is behind it.
AfterGenesis(q) ==
  /\ pc[q] \in {"waiting", "lock", "resync", "construct", "insert"} => current[q] # None
  /\ pc[q] \in {"approve", "idle"} /\ current[q] = None => ~ActiveVersion(q)
  /\ pc[q] \in {"lock", "resync", "construct", "insert"} => work[q] \notin GenesisTxs
  /\ pool[q] \cap GenesisTxs = {}
  /\ pc[q] = "genesisInsert" => built[q].height = 0

\* What add_transaction found when it chose the height is still so.
AtTip(q) ==
  pc[q] \in {"construct", "insert"} =>
    /\ ~Landed(work[q])
    /\ \A b \in blocks : b.height < proposed[q]

TipInv ==
  /\ SafeInv /\ LockHeld /\ HasLatest
  /\ \A q \in Processor : AfterGenesis(q) /\ AtTip(q)

\* A step of p leaves q where it is.
Stays(q) ==
  /\ pc'[q] = pc[q] /\ work'[q] = work[q] /\ proposed'[q] = proposed[q] /\ built'[q] = built[q]
  /\ current'[q] = current[q] \/ current'[q] \in blocks
  /\ pool'[q] \cap GenesisTxs = {}

LEMMA StaysAfterGenesis ==
  ASSUME TypeOK, NEW q \in Processor, AfterGenesis(q), Stays(q)
  PROVE  AfterGenesis(q)'
<1>1. None \notin blocks
  BY DEF TypeOK
<1>2. CASE current'[q] = current[q]
  BY <1>2 DEF AfterGenesis, Stays, ActiveVersion
<1>3. CASE current'[q] \in blocks
  BY <1>1, <1>3 DEF AfterGenesis, Stays
<1> QED
  BY <1>2, <1>3 DEF Stays

LEMMA SettleShrinks ==
  ASSUME TypeOK, NEW p \in Processor, NEW t, NEW how, Settle(p, t, how)
  PROVE  \A q \in Processor : pool'[q] \subseteq pool[q]
<1>1. CASE verdict[p][t] = "none"
  <2>1. pool' = [pool EXCEPT ![p] = pool[p] \ {t}]
    BY <1>1 DEF Settle
  <2> QED
    BY <2>1 DEF TypeOK
<1>2. CASE verdict[p][t] # "none"
  BY <1>2 DEF Settle
<1> QED
  BY <1>1, <1>2

LEMMA GiveUpShrinks ==
  ASSUME TypeOK, NEW p \in Processor, GiveUp(p)
  PROVE  \A q \in Processor : pool'[q] \subseteq pool[q]
<1>1. CASE HasSecret(p)
  BY <1>1, SettleShrinks DEF GiveUp
<1>2. CASE ~HasSecret(p)
  <2>1. pool' = [pool EXCEPT ![p] = pool[p] \ {work[p]}]
    BY <1>2 DEF GiveUp
  <2> QED
    BY <2>1 DEF TypeOK
<1> QED
  BY <1>1, <1>2

\* What Return leaves of the processor that returns and of the others.
LEMMA ReturnMoves ==
  ASSUME TypeOK, NEW p \in Processor, NEW next \in PcLabels, Return(p, next)
  PROVE  /\ pc'[p] = next /\ work'[p] = None
         /\ \A q \in Processor \ {p} :
              /\ pc'[q] = pc[q] /\ work'[q] = work[q]
              /\ proposed'[q] = proposed[q] /\ built'[q] = built[q]
  BY DEF Return, TypeOK

\* What a step of the producer loop does to the processor that takes it and to
\* the others.
LEMMA ProduceMoves ==
  ASSUME TipInv, NEW p \in Processor, Produce(p)
  PROVE  AfterGenesis(p)' /\ \A q \in Processor \ {p} : Stays(q)
<1> USE DEF TipInv, SafeInv, TypeInv
<1> DEFINE Goal == AfterGenesis(p)' /\ \A q \in Processor \ {p} : Stays(q)
<1>1. TypeOK /\ \A q \in Processor : pool[q] \cap GenesisTxs = {}
  BY DEF AfterGenesis
<1>2. \A q \in Processor : Keeps(q) \/ MovesUp(q) \/ Stops(q)
  BY CurrentStep DEF Next
<1>3. ASSUME NEW next \in {"idle", "approve", "genesis"}, Return(p, next),
             \A q \in Processor : pool'[q] \subseteq pool[q],
             current' = current \/ current' = Resynced(p)
               \/ (\E b \in blocks : current' = [current EXCEPT ![p] = b]),
             next = "genesis" \/ current'[p] # None
      PROVE  Goal
  <2>1. next \in PcLabels
    BY DEF PcLabels
  <2>2. \A q \in Processor \ {p} : current'[q] = current[q]
    <3>1. Resynced(p) = current \/ \E b \in blocks : Resynced(p) = [current EXCEPT ![p] = b]
      BY <1>1, ResyncedIs
    <3> QED
      BY <1>3, <3>1 DEF TypeOK
  <2>3. \A q \in Processor \ {p} : Stays(q)
    BY <1>1, <1>3, <2>1, <2>2, ReturnMoves DEF Stays
  <2>4. pc'[p] = next
    BY <1>1, <1>3, <2>1, ReturnMoves
  <2>5. AfterGenesis(p)'
    BY <1>1, <1>3, <2>4 DEF AfterGenesis
  <2> QED
    BY <2>3, <2>5
<1>4. CASE GenesisReady(p)
  <2>1. AfterGenesis(p)'
    BY <1>1, <1>4 DEF GenesisReady, AfterGenesis, ActiveVersion, TypeOK
  <2>2. ASSUME NEW q \in Processor \ {p} PROVE Stays(q)
    BY <1>1, <1>4 DEF GenesisReady, Stays, TypeOK
  <2> QED
    BY <2>1, <2>2
<1>5. CASE GenesisBuild(p)
  <2>1. built'[p].height = 0 /\ pc'[p] = "genesisInsert" /\ pool' = pool
    BY <1>1, <1>5 DEF GenesisBuild, NewBlock, NextHeight, TypeOK
  <2>2. AfterGenesis(p)'
    BY <1>1, <2>1 DEF AfterGenesis
  <2>3. ASSUME NEW q \in Processor \ {p} PROVE Stays(q)
    BY <1>1, <1>5 DEF GenesisBuild, Stays, TypeOK
  <2> QED
    BY <2>2, <2>3
<1>6. CASE WaitForActiveVersion(p)
  <2>1. \A q \in Processor \ {p} : current'[q] = current[q]
    <3>1. Resynced(p) = current \/ \E b \in blocks : Resynced(p) = [current EXCEPT ![p] = b]
      BY <1>1, ResyncedIs
    <3> QED
      BY <1>6, <3>1 DEF WaitForActiveVersion, TypeOK
  <2>2. current'[p] = None => current[p] = None
    <3>1. Keeps(p) \/ MovesUp(p)
      BY <1>2, <1>6 DEF Stops, WaitForActiveVersion, TypeOK
    <3> QED
      BY <1>1, <3>1 DEF Keeps, MovesUp, TypeOK
  <2>3. pc'[p] = IF ActiveVersion(p)' THEN "waiting" ELSE "idle"
    BY <1>1, <1>6 DEF WaitForActiveVersion, ActiveVersion, TypeOK
  <2>4. current'[p] = None => ~ActiveVersion(p)'
    BY <1>1, <1>6, <2>2 DEF WaitForActiveVersion, AfterGenesis, ActiveVersion
  <2>5. AfterGenesis(p)'
    BY <1>1, <1>6, <2>3, <2>4 DEF WaitForActiveVersion, AfterGenesis
  <2>6. ASSUME NEW q \in Processor \ {p} PROVE Stays(q)
    BY <1>1, <1>6, <2>1 DEF WaitForActiveVersion, Stays, TypeOK
  <2> QED
    BY <2>5, <2>6
<1>7. CASE WaitOnMempool(p)
  <2>1. \A q \in Processor : pool'[q] \subseteq pool[q]
    BY <1>1, <1>7, SettleShrinks DEF WaitOnMempool
  <2>2. /\ current' = current /\ built' = built /\ proposed' = proposed /\ pc[p] = "waiting"
        /\ \/ UNCHANGED <<pc, work>>
           \/ \E t \in pool[p] : /\ pc' = [pc EXCEPT ![p] = "lock"]
                                 /\ work' = [work EXCEPT ![p] = t]
    BY <1>7 DEF WaitOnMempool
  <2>3. AfterGenesis(p)'
    BY <1>1, <2>1, <2>2 DEF AfterGenesis, TypeOK
  <2>4. ASSUME NEW q \in Processor \ {p} PROVE Stays(q)
    BY <1>1, <2>1, <2>2 DEF Stays, TypeOK
  <2> QED
    BY <2>3, <2>4
<1>8. CASE TakeConstructLock(p)
  <2>1. AfterGenesis(p)'
    BY <1>1, <1>8 DEF TakeConstructLock, AfterGenesis, TypeOK
  <2>2. ASSUME NEW q \in Processor \ {p} PROVE Stays(q)
    BY <1>1, <1>8 DEF TakeConstructLock, Stays, TypeOK
  <2> QED
    BY <2>1, <2>2
<1>9. CASE ResyncUnderLock(p)
  <2>1. current[p] # None /\ work[p] \notin GenesisTxs
    BY <1>9 DEF ResyncUnderLock, AfterGenesis
  <2>2. current'[p] # None
    <3>1. Keeps(p) \/ MovesUp(p)
      BY <1>2, <1>9, ResyncedMoves DEF ResyncUnderLock
    <3> QED
      BY <1>1, <2>1, <3>1 DEF Keeps, MovesUp, TypeOK
  <2>3. CASE Landed(work[p])
    BY <1>3, <1>9, <2>2, <2>3 DEF ResyncUnderLock, AfterSuccess
  <2>4. CASE ~Landed(work[p])
    <3>1. pc' = [pc EXCEPT ![p] = "construct"] /\ UNCHANGED <<work, built, pool>>
          /\ \A q \in Processor \ {p} : proposed'[q] = proposed[q]
      BY <1>1, <1>9, <2>4 DEF ResyncUnderLock, TypeOK
    <3>2. \A q \in Processor \ {p} : current'[q] = current[q]
      <4>1. Resynced(p) = current \/ \E b \in blocks : Resynced(p) = [current EXCEPT ![p] = b]
        BY <1>1, ResyncedIs
      <4> QED
        BY <1>9, <4>1 DEF ResyncUnderLock, TypeOK
    <3>3. AfterGenesis(p)'
      BY <1>1, <2>1, <2>2, <3>1 DEF AfterGenesis, TypeOK
    <3>4. ASSUME NEW q \in Processor \ {p} PROVE Stays(q)
      BY <1>1, <3>1, <3>2 DEF Stays, TypeOK
    <3> QED
      BY <3>3, <3>4
  <2> QED
    BY <2>3, <2>4
<1>10. CASE ConstructBlock(p)
  <2>1. AfterGenesis(p)'
    BY <1>1, <1>10 DEF ConstructBlock, AfterGenesis, TypeOK
  <2>2. ASSUME NEW q \in Processor \ {p} PROVE Stays(q)
    BY <1>1, <1>10 DEF ConstructBlock, Stays, TypeOK
  <2> QED
    BY <2>1, <2>2
<1>11. CASE ConstructFails(p) \/ InsertReplyLost(p)
  <2>1. current[p] # None /\ current' = current /\ GiveUp(p)
    BY <1>11 DEF ConstructFails, InsertReplyLost, AfterGenesis
  <2>2. \A q \in Processor : pool'[q] \subseteq pool[q]
    BY <1>1, <2>1, GiveUpShrinks
  <2> QED
    BY <1>3, <2>1, <2>2 DEF GiveUp
<1>12. CASE InsertBlock(p)
  <2>1. AfterGenesis(p)'
    BY <1>1, <1>12 DEF InsertBlock, AfterGenesis, TypeOK
  <2>2. ASSUME NEW q \in Processor \ {p} PROVE Stays(q)
    BY <1>1, <1>12 DEF InsertBlock, Stays, TypeOK
  <2> QED
    BY <2>1, <2>2
<1>13. CASE InsertConflict(p)
  <2>1. current[p] # None /\ current' = current
    BY <1>13 DEF InsertConflict, AfterGenesis
  <2> QED
    BY <1>3, <1>13, <2>1 DEF InsertConflict
<1>14. CASE GenesisConflict(p)
  BY <1>3, <1>14 DEF GenesisConflict
<1>15. CASE PublishBlock(p)
  <2>1. \A q \in Processor : pool'[q] \subseteq pool[q]
    BY <1>1, <1>15, SettleShrinks DEF PublishBlock
  <2>2. AfterGenesis(p)'
    BY <1>1, <1>15, <2>1 DEF PublishBlock, AfterGenesis, TypeOK
  <2>3. ASSUME NEW q \in Processor \ {p} PROVE Stays(q)
    BY <1>1, <1>15, <2>1 DEF PublishBlock, Stays, TypeOK
  <2> QED
    BY <2>2, <2>3
<1>16. CASE AdvanceCurrent(p)
  <2>1. built[p] \in blocks /\ built[p] # None /\ built[p].height \in Nat
    BY <1>1, <1>16 DEF AdvanceCurrent, BuiltOK, TypeOK, Block
  <2>2. CASE NextHeight(current[p]) > built[p].height
    <3>1. current[p] # None
      BY <2>1, <2>2 DEF NextHeight
    <3>2. current' = current
      BY <1>16, <2>2 DEF AdvanceCurrent
    <3> QED
      BY <1>3, <1>16, <3>1, <3>2 DEF AdvanceCurrent, AfterSuccess
  <2>3. CASE ~(NextHeight(current[p]) > built[p].height)
    <3>1. current' = [current EXCEPT ![p] = built[p]]
      BY <1>16, <2>3 DEF AdvanceCurrent
    <3>2. current'[p] # None
      BY <1>1, <2>1, <3>1 DEF TypeOK
    <3> QED
      BY <1>3, <1>16, <2>1, <3>1, <3>2 DEF AdvanceCurrent, AfterSuccess
  <2> QED
    BY <2>2, <2>3
<1>17. CASE ApproveActions(p)
  <2>1. /\ UNCHANGED <<current, built, proposed, pool>> /\ pc[p] = "approve"
        /\ \/ pc' = [pc EXCEPT ![p] = "idle"] /\ work' = work
           \/ /\ current[p] # None /\ pc' = [pc EXCEPT ![p] = "lock"]
              /\ \E t \in ApprovalTx : work' = [work EXCEPT ![p] = t]
    BY <1>17 DEF ApproveActions
  <2>2. AfterGenesis(p)'
    BY <1>1, <2>1 DEF AfterGenesis, ActiveVersion, TypeOK
  <2>3. ASSUME NEW q \in Processor \ {p} PROVE Stays(q)
    BY <1>1, <2>1 DEF Stays, TypeOK
  <2> QED
    BY <2>2, <2>3
<1> QED
  BY <1>4, <1>5, <1>6, <1>7, <1>8, <1>9, <1>10, <1>11, <1>12, <1>13, <1>14, <1>15, <1>16,
     <1>17 DEF Produce

LEMMA OtherMoves ==
  ASSUME TipInv, NEW p \in Processor, Background(p) \/ Crash(p) \/ Restart(p)
  PROVE  AfterGenesis(p)' /\ \A q \in Processor \ {p} : Stays(q)
<1> USE DEF TipInv, SafeInv, TypeInv
<1>1. TypeOK /\ \A q \in Processor : pool[q] \cap GenesisTxs = {}
  BY DEF AfterGenesis
<1>2. CASE RemoteResync(p)
  <2>1. PICK b \in blocks : current' = [current EXCEPT ![p] = b]
    BY <1>2 DEF RemoteResync
  <2>2. UNCHANGED <<pc, work, proposed, built, pool>>
    BY <1>2 DEF RemoteResync
  <2>3. \A q \in Processor : Stays(q)
    BY <1>1, <2>1, <2>2 DEF Stays, TypeOK
  <2> QED
    BY <1>1, <2>3, StaysAfterGenesis
<1>3. ASSUME UNCHANGED <<pc, current, work, proposed, built>>,
             \A q \in Processor : pool'[q] \cap GenesisTxs = {}
      PROVE  AfterGenesis(p)' /\ \A q \in Processor \ {p} : Stays(q)
  <2>1. \A q \in Processor : Stays(q)
    BY <1>3 DEF Stays
  <2> QED
    BY <1>1, <2>1, StaysAfterGenesis
<1>4. ASSUME NEW t \in ClientTx, ProposeTransaction(p, t)
      PROVE  AfterGenesis(p)' /\ \A q \in Processor \ {p} : Stays(q)
  <2>1. pool' = [pool EXCEPT ![p] = pool[p] \cup {t}]
    BY <1>4 DEF ProposeTransaction
  <2>2. \A q \in Processor : pool'[q] \cap GenesisTxs = {}
    BY <1>1, <2>1 DEF TypeOK, ClientTx
  <2> QED
    BY <1>3, <1>4, <2>2 DEF ProposeTransaction
<1>5. CASE ReceiveFailed(p) \/ ReceiveLanded(p)
  <2>1. \A q \in Processor : pool'[q] \subseteq pool[q]
    BY <1>1, <1>5, SettleShrinks DEF ReceiveFailed, ReceiveLanded
  <2>2. \A q \in Processor : pool'[q] \cap GenesisTxs = {}
    BY <1>1, <2>1
  <2> QED
    BY <1>3, <1>5, <2>2 DEF ReceiveFailed, ReceiveLanded
<1>6. CASE Crash(p)
  <2>1. "down" \in PcLabels /\ Return(p, "down")
    BY <1>6 DEF PcLabels, Crash
  <2>2. /\ pc'[p] = "down"
        /\ \A q \in Processor \ {p} :
             /\ pc'[q] = pc[q] /\ work'[q] = work[q]
             /\ proposed'[q] = proposed[q] /\ built'[q] = built[q]
    BY <1>1, <2>1, ReturnMoves
  <2>3. \A q \in Processor : pool'[q] \cap GenesisTxs = {}
    BY <1>1, <1>6 DEF Crash, TypeOK
  <2>4. \A q \in Processor \ {p} : current'[q] = current[q]
    BY <1>6 DEF Crash, TypeOK
  <2> QED
    BY <2>2, <2>3, <2>4 DEF AfterGenesis, Stays
<1>7. CASE Restart(p)
  <2>1. pc'[p] = "genesis" /\ UNCHANGED <<work, proposed, built, pool>>
        /\ \A q \in Processor \ {p} : pc'[q] = pc[q]
    BY <1>1, <1>7 DEF Restart, TypeOK
  <2>2. \A q \in Processor \ {p} : current'[q] = current[q]
    <3>1. Resynced(p) = current \/ \E b \in blocks : Resynced(p) = [current EXCEPT ![p] = b]
      BY <1>1, ResyncedIs
    <3> QED
      BY <1>7, <3>1 DEF Restart, TypeOK
  <2> QED
    BY <1>1, <2>1, <2>2 DEF AfterGenesis, Stays
<1> QED
  BY <1>2, <1>4, <1>5, <1>6, <1>7 DEF Background

LEMMA AfterGenesisStep ==
  ASSUME TipInv, [Next]_vars
  PROVE  \A q \in Processor : AfterGenesis(q)'
<1> USE DEF TipInv, SafeInv, TypeInv
<1>1. ASSUME NEW p \in Processor, Produce(p) \/ Background(p) \/ Crash(p) \/ Restart(p),
             NEW q \in Processor
      PROVE  AfterGenesis(q)'
  BY <1>1, ProduceMoves, OtherMoves, StaysAfterGenesis
<1>2. CASE LoseLock \/ UNCHANGED vars
  <2>1. UNCHANGED <<pc, current, work, proposed, built, pool>>
    BY <1>2 DEF LoseLock, vars
  <2>2. \A q \in Processor : Stays(q)
    BY <2>1 DEF Stays, AfterGenesis
  <2> QED
    BY <2>2, StaysAfterGenesis
<1> QED
  BY <1>1, <1>2 DEF Next

LEMMA LatestStep ==
  ASSUME SafeInv, HasLatest, [Next]_vars
  PROVE  HasLatest'
<1> USE DEF SafeInv, TypeInv
<1>1. CASE blocks' = blocks
  BY <1>1 DEF HasLatest, IsLatest
<1>2. ASSUME NEW p \in Processor, Inserts(p) PROVE HasLatest'
  <2>1. built[p] \in Block /\ WellFormed(built[p]) /\ built[p].height \in Nat
    BY <1>2 DEF Inserts, StageOK, BuiltOK, Block
  <2>2. \A c \in blocks : c.height < built[p].height /\ c.height \in Nat
    BY <1>2, <2>1, InsertedOnTop DEF Inserts, ChainOK, TypeOK, Block
  <2>3. blocks' = blocks \cup {built[p]}
    BY <1>2 DEF Inserts
  <2>4. \A c \in blocks' : c.height <= built[p].height
    BY <2>1, <2>2, <2>3
  <2> QED
    BY <2>3, <2>4 DEF HasLatest, IsLatest
<1> QED
  BY <1>1, <1>2, BlocksStep

\* The height chosen after a resync is above every block.
LEMMA ResyncedToTip ==
  ASSUME TypeOK, HasLatest, NEW p \in Processor, current' = Resynced(p)
  PROVE  \A b \in blocks : b.height < NextHeight(current'[p])
<1> SUFFICES ASSUME NEW b \in blocks PROVE b.height < NextHeight(current'[p])
  OBVIOUS
<1>1. PICK l \in blocks : IsLatest(l)
  BY DEF HasLatest
<1>2. b.height <= l.height /\ b.height \in Nat /\ l.height \in Nat
  BY <1>1 DEF IsLatest, TypeOK, Block
<1>3. NextHeight(current[p]) \in Nat
  BY DEF TypeOK, NextHeight, Block
<1>4. CASE l.height >= NextHeight(current[p])
  <2>1. PICK top : top = CHOOSE c \in blocks : IsLatest(c)
    OBVIOUS
  <2>2. top \in blocks /\ IsLatest(top)
    BY <1>1, <2>1
  <2>3. current'[p] = top
    BY <1>1, <1>4, <2>1 DEF Resynced, TypeOK
  <2>4. top # None /\ top.height \in Nat /\ b.height <= top.height
    BY <2>2 DEF IsLatest, TypeOK, Block
  <2> QED
    BY <1>2, <2>3, <2>4 DEF NextHeight
<1>5. CASE ~(l.height >= NextHeight(current[p]))
  <2>1. ~\E c \in blocks : IsLatest(c) /\ c.height >= NextHeight(current[p])
    <3>1. ASSUME NEW c \in blocks PROVE ~(c.height >= NextHeight(current[p]))
      <4>1. c.height <= l.height /\ c.height \in Nat
        BY <1>1 DEF IsLatest, TypeOK, Block
      <4> QED
        BY <1>2, <1>3, <1>5, <4>1
    <3> QED
      BY <3>1
  <2>2. current' = current
    BY <2>1 DEF Resynced
  <2> QED
    BY <1>2, <1>3, <1>5, <2>2
<1> QED
  BY <1>4, <1>5

\* How a processor comes to be between the choice of a height and the insert.
Enters(q) == ResyncUnderLock(q) /\ ~Landed(work[q])
Remains(q) ==
  /\ pc[q] \in {"construct", "insert"} /\ work'[q] = work[q] /\ proposed'[q] = proposed[q]
  /\ blocks' = blocks \/ \E p \in Processor \ {q} : Inserts(p)

LEMMA TipMoves ==
  ASSUME TipInv, [Next]_vars, NEW q \in Processor, pc'[q] \in {"construct", "insert"}
  PROVE  Enters(q) \/ Remains(q)
<1> USE DEF TipInv, SafeInv, TypeInv
<1>1. ASSUME NEW p \in Processor \ {q}, Produce(p) \/ Background(p) \/ Crash(p) \/ Restart(p)
      PROVE  Remains(q)
  <2>1. Stays(q)
    BY <1>1, ProduceMoves, OtherMoves
  <2>2. blocks' = blocks \/ Inserts(p)
    BY <1>1 DEF Produce, Inserts, GenesisReady, GenesisBuild,
       WaitForActiveVersion, WaitOnMempool, TakeConstructLock, ResyncUnderLock,
       ConstructBlock, ConstructFails, InsertBlock, InsertConflict,
       GenesisConflict, InsertReplyLost, PublishBlock,
       AdvanceCurrent, ApproveActions, Background, RemoteResync, ProposeTransaction,
       ReceiveFailed, ReceiveLanded, Crash, Restart
  <2> QED
    BY <1>1, <2>1, <2>2 DEF Stays, Remains
<1>2. ASSUME NEW next \in {"idle", "approve", "genesis", "down"}, Return(q, next) PROVE FALSE
  <2>1. next \in PcLabels
    BY DEF PcLabels
  <2> QED
    BY <1>2, <2>1, ReturnMoves
<1>3. CASE Produce(q)
  <2>1. CASE ResyncUnderLock(q)
    BY <1>2, <2>1 DEF ResyncUnderLock, Enters, AfterSuccess
  <2>2. CASE ConstructBlock(q)
    BY <2>2 DEF ConstructBlock, Remains
  <2>3. CASE \/ ConstructFails(q) \/ InsertConflict(q) \/ GenesisConflict(q)
             \/ InsertReplyLost(q) \/ AdvanceCurrent(q)
    BY <1>2, <2>3 DEF ConstructFails, InsertConflict, GenesisConflict, InsertReplyLost,
       AdvanceCurrent, GiveUp, AfterSuccess
  <2>4. CASE \/ GenesisReady(q) \/ GenesisBuild(q) \/ WaitForActiveVersion(q)
             \/ TakeConstructLock(q) \/ InsertBlock(q) \/ PublishBlock(q)
    BY <2>4 DEF GenesisReady, GenesisBuild, WaitForActiveVersion, TakeConstructLock,
       InsertBlock, PublishBlock, TypeOK
  <2>5. CASE WaitOnMempool(q)
    BY <2>5 DEF WaitOnMempool, TypeOK
  <2>6. CASE ApproveActions(q)
    BY <2>6 DEF ApproveActions, TypeOK
  <2> QED
    BY <1>3, <2>1, <2>2, <2>3, <2>4, <2>5, <2>6 DEF Produce
<1>4. CASE Background(q) \/ LoseLock \/ UNCHANGED vars
  BY <1>4 DEF Background, RemoteResync, ProposeTransaction, ReceiveFailed, ReceiveLanded,
     LoseLock, vars, Remains
<1>5. CASE Crash(q)
  BY <1>2, <1>5 DEF Crash
<1>6. CASE Restart(q)
  BY <1>6 DEF Restart, TypeOK
<1> QED
  BY <1>1, <1>3, <1>4, <1>5, <1>6 DEF Next

\* Nobody inserts while another one is between the choice of a height and the
\* insert: it would hold the lock too, or insert a second genesis block.
LEMMA NoneInsertsMeanwhile ==
  ASSUME TipInv, NEW p \in Processor, NEW q \in Processor \ {p}, Inserts(p),
         pc[q] \in {"construct", "insert"}
  PROVE  FALSE
<1> USE DEF TipInv, SafeInv, TypeInv
<1>1. lock = q /\ current[q] # None
  BY DEF LockHeld, Locked, AfterGenesis
<1>2. CASE pc[p] = "insert"
  BY <1>1, <1>2 DEF LockHeld, Locked, AfterGenesis
<1>3. CASE pc[p] = "genesisInsert"
  <2>1. built[p].height = 0 /\ Insertable(built[p])
    BY <1>3 DEF AfterGenesis, Inserts
  <2>2. current[q] \in blocks /\ current[q].height \in Nat
    BY <1>1 DEF SnapshotsOnChain, TypeOK, Block
  <2>3. \E c \in blocks : c.height = 0
    BY <2>2 DEF ChainOK, NoGaps
  <2> QED
    BY <2>1, <2>3 DEF Insertable, HeightTaken
<1> QED
  BY <1>2, <1>3 DEF Inserts

LEMMA AtTipStep ==
  ASSUME TipInv, [Next]_vars, NEW q \in Processor
  PROVE  AtTip(q)'
<1> SUFFICES ASSUME pc'[q] \in {"construct", "insert"} PROVE AtTip(q)'
  BY DEF AtTip
<1>1. CASE Enters(q)
  <2>1. /\ blocks' = blocks /\ work' = work /\ current' = Resynced(q) /\ ~Landed(work[q])
        /\ proposed' = [proposed EXCEPT ![q] = NextHeight(current'[q])]
    BY <1>1 DEF Enters, ResyncUnderLock
  <2>2. proposed'[q] = NextHeight(current'[q])
    BY <2>1 DEF TipInv, SafeInv, TypeInv, TypeOK
  <2>3. \A b \in blocks : b.height < NextHeight(current'[q])
    BY <2>1, ResyncedToTip DEF TipInv, SafeInv, TypeInv
  <2> QED
    BY <2>1, <2>2, <2>3 DEF AtTip, Landed
<1>2. CASE Remains(q)
  <2>1. blocks' = blocks
    BY <1>2, NoneInsertsMeanwhile DEF Remains
  <2> QED
    BY <1>2, <2>1 DEF Remains, AtTip, TipInv, Landed
<1> QED
  BY <1>1, <1>2, TipMoves

LEMMA TipStep ==
  ASSUME "lockLost" \notin Faults, TipInv, [Next]_vars
  PROVE  TipInv'
<1>1. SafeInv' /\ LockHeld'
  BY SafeStep, LockStep DEF TipInv, SafeInv
<1>2. HasLatest'
  BY LatestStep DEF TipInv
<1>3. \A q \in Processor : AfterGenesis(q)' /\ AtTip(q)'
  BY AfterGenesisStep, AtTipStep
<1> QED
  BY <1>1, <1>2, <1>3 DEF TipInv

LEMMA TipInit == Init => TipInv
<1> SUFFICES ASSUME Init PROVE TipInv
  OBVIOUS
<1>1. SafeInv
  BY SafeInit
<1>2. LockHeld /\ HasLatest
  BY DEF Init, LockHeld, Locked, HasLatest
<1>3. \A q \in Processor : AfterGenesis(q) /\ AtTip(q)
  BY DEF Init, AfterGenesis, AtTip
<1> QED
  BY <1>1, <1>2, <1>3 DEF TipInv

\* A step that signs a notification found the transaction in no block and the
\* height above every block.
LEMMA FailureStep ==
  ASSUME Faults = {}, TipInv, [Next]_vars, NEW n \in failures' \ failures
  PROVE  ~Landed(n.tx)' /\ \A b \in blocks' : b.height < n.height
<1>1. PICK p \in Processor : ConstructFails(p)
  BY DEF Next, Produce, GenesisReady, GenesisBuild, WaitForActiveVersion, WaitOnMempool,
     TakeConstructLock, ResyncUnderLock, ConstructBlock, InsertBlock, InsertConflict,
     GenesisConflict, InsertReplyLost, PublishBlock, AdvanceCurrent, ApproveActions,
     Background, RemoteResync, ProposeTransaction, ReceiveFailed, ReceiveLanded, Crash,
     Restart, LoseLock, vars
<1>2. n = [tx |-> work[p], height |-> proposed[p], by |-> p]
  BY <1>1 DEF ConstructFails, GiveUp
<1>3. blocks' = blocks /\ AtTip(p) /\ pc[p] = "construct"
  BY <1>1 DEF ConstructFails, TipInv
<1> QED
  BY <1>2, <1>3 DEF AtTip, Landed

\* While the construct lock works and no reply is lost, a transaction that a
\* processor declares failed is in no block, and the height it names is the one
\* after the last block.
THEOREM FailuresAreCurrent ==
  ASSUME Faults = {}
  PROVE  Spec => FailureJudgedAtTip
<1>1. TipInv /\ [Next]_vars => TipInv'
  BY TipStep
<1>2. TipInv /\ [Next]_vars =>
        [\A n \in failures' \ failures :
           /\ ~Landed(n.tx)'
           /\ \A b \in blocks' : b.height < n.height]_vars
  BY FailureStep
<1> QED
  BY <1>1, <1>2, TipInit, PTL DEF Spec, FailureJudgedAtTip

=============================================================================
