------------------------------ MODULE StateSync ------------------------------
(***************************************************************************)
(* How a node fetches the blocks of the chain from its peers: the sync     *)
(* manager of the gossip component, the Merkle layers it collects, and the *)
(* state the node runs on.  A block is executed on top of the state of the *)
(* block before it, or it is stored with the layers of its state, which    *)
(* arrive one by one and are written children first.                       *)
(*                                                                         *)
(* Peers are honest and have the whole chain.  A request may be lost and   *)
(* is repeated, so whatever was asked for may arrive at any later time,    *)
(* any number of times and in any order.                                   *)
(***************************************************************************)
EXTENDS Naturals, FiniteSetsExt

CONSTANTS
  MaxHeight,     \* bound: the height of the last block
  Layer,         \* hashes of Merkle layers, ordered as numbers
  Children,      \* the hashes a layer refers to
  Roots,         \* the layers a block names: framework state, app state, logs
  Signer,        \* the processor that signed a block
  Processor,     \* the processor in the framework state after a block
  Genesis,       \* the processor of the genesis information
  Version,       \* the chain's version in the state after a block
  FirstVersion,  \* its version before any block
  Setup,         \* how nodes are run: sync mode, code version, other writers
  StateHeight,   \* the height that ValidateFrom trusts
  Awaited,       \* heights that other tasks of the node ask for
  RequestLimit,  \* layers requested at a time
  MaxFaults      \* bound on failed executions and crashes

Height == 0..MaxHeight

ASSUME StateSyncAssumption ==
  /\ MaxHeight \in Nat /\ StateHeight \in Height
  /\ Layer \subseteq Nat /\ RequestLimit \in Nat \ {0}
  /\ Children \in [Layer -> SUBSET Layer]
  /\ Roots \in [Height -> SUBSET Layer]
  /\ \A s \in Setup :
       /\ s.mode \in {"StateTransfer", "Archive", "BlockTransfer", "ValidateFrom"}
       /\ s.others \in {"none", "shared", "ingest"}
  /\ Awaited \subseteq Height
  /\ MaxFaults \in Nat

VARIABLES
  setup,     \* how this node is run
  tip,       \* the last block the processor has produced
  blocks,    \* heights in the store
  merkle,    \* layers in the store
  executed,  \* heights whose transaction this node has executed
  next,      \* the height after the block whose state the node runs on
  archived,  \* the height after the last block marked as archived
  needed,    \* the sync manager's entry for each height
  asked,     \* heights and layers requested from peers
  busy,      \* process_sync_manager is between two rounds of its loop
  climb,     \* hashes that process_available_hash has yet to look at
  faults     \* how many executions have failed, or crashes happened

storeVars == <<blocks, merkle, executed, next, archived>>
syncVars == <<needed, asked, busy, climb>>
vars == <<setup, tip, storeVars, syncVars, faults>>

None == [st |-> "none", want |-> {}, pend |-> {}, rev |-> {}]
Needed == [None EXCEPT !.st = "needed"]
Entry ==
  [st : {"none", "needed", "received", "pending"},
   want : SUBSET Layer,            \* needed_layers
   pend : SUBSET Layer,            \* pending_layers
   rev : SUBSET (Layer \X Layer)]  \* reverse_layers: <<child, parent>>

BlockAt(h) == [is |-> "block", height |-> h]
LayerOf(l) == [is |-> "layer", hash |-> l]

ViewProcessor == IF next = 0 THEN Genesis ELSE Processor[next - 1]
VersionBefore(h) == IF h = 0 THEN FirstVersion ELSE Version[h - 1]

Closed(ls) == \A l \in ls : Children[l] \subseteq ls

\* Layers with everything below them: what saving a state writes.
Below(ls) ==
  {l \in Layer : \A s \in SUBSET Layer : ls \subseteq s /\ Closed(s) => l \in s}

\* Kolme::get_next_to_archive, which marks what it passes as archived.
NextToArchive(stored) ==
  CHOOSE h \in archived..(MaxHeight + 1) :
    /\ h \notin stored
    /\ archived..(h - 1) \subseteq stored

\* Kolme::resync: the state becomes that of the latest block of the store.
Resynced(stored) ==
  IF stored = {} \/ next > Max(stored) THEN next ELSE Max(stored) + 1

-----------------------------------------------------------------------------
Init ==
  /\ setup \in Setup
  /\ tip \in Height
  /\ blocks = {} /\ merkle = {} /\ executed = {}
  /\ next = 0 /\ archived = 0
  /\ needed = [h \in Height |-> None]
  /\ asked = {} /\ busy = FALSE /\ climb = {}
  /\ faults = 0

\* Nobody holds the sync manager's lock.
Unlocked == ~busy /\ climb = {}

Produce ==
  /\ tip < MaxHeight
  /\ tip' = tip + 1
  /\ UNCHANGED <<setup, storeVars, syncVars, faults>>

-----------------------------------------------------------------------------
\* What adds a height to the needed blocks.

WithNeeded(entries, h) ==
  IF h \in blocks \/ entries[h] # None THEN entries
  ELSE [entries EXCEPT ![h] = Needed]

AddNeeded(h) ==
  /\ Unlocked
  /\ needed' = WithNeeded(needed, h)
  /\ UNCHANGED <<setup, tip, storeVars, asked, busy, climb, faults>>

\* A latest block the processor has signed, again at every heartbeat.
HearLatest == AddNeeded(tip)

\* Some task of the node waits for a block.
WaitForBlock == \E h \in Awaited : AddNeeded(h)

-----------------------------------------------------------------------------
\* Rounds of get_data_requests.  Each first fills the gap before the first
\* needed block, as the mode asks for, and then looks at the first entry.

Open(entries) == {h \in Height : entries[h] # None}

WithMissing ==
  CASE setup.mode = "StateTransfer" -> needed
    [] setup.mode = "Archive" ->
         IF \E h \in Open(needed) : NextToArchive(blocks) < Min(Open(needed))
         THEN WithNeeded(needed, NextToArchive(blocks)) ELSE needed
    [] setup.mode = "BlockTransfer" ->
         IF Open(needed) # {} /\ next \in Height /\ next # Min(Open(needed))
         THEN WithNeeded(needed, next) ELSE needed
    [] setup.mode = "ValidateFrom" ->
         IF next <= StateHeight THEN WithNeeded(needed, StateHeight) ELSE needed

Looks(h) ==
  /\ climb = {}
  /\ Open(WithMissing) # {} /\ h = Min(Open(WithMissing))

\* The archive is looked at in archive mode alone, and when something is needed.
Archives ==
  archived' = IF setup.mode = "Archive" /\ Open(needed) # {}
              THEN NextToArchive(blocks) ELSE archived

FindsNothing ==
  /\ busy /\ Open(WithMissing) = {}
  /\ busy' = FALSE
  /\ UNCHANGED <<setup, tip, storeVars, needed, asked, climb, faults>>

DropStored(h) ==
  /\ Looks(h) /\ h \in blocks
  /\ needed' = [WithMissing EXCEPT ![h] = None]
  /\ busy' = TRUE
  /\ Archives
  /\ UNCHANGED <<setup, tip, blocks, merkle, executed, next, asked, climb,
                 faults>>

AskBlock(h) ==
  /\ Looks(h) /\ h \notin blocks
  /\ WithMissing[h].st = "needed"
  /\ asked' = asked \cup {BlockAt(h)}
  /\ needed' = WithMissing
  /\ busy' = FALSE
  /\ Archives
  /\ UNCHANGED <<setup, tip, blocks, merkle, executed, next, climb, faults>>

DoBlock_OneMore(h) ==
  CASE setup.mode = "BlockTransfer" -> TRUE
    [] setup.mode \in {"StateTransfer", "Archive"} ->
         next = h /\ VersionBefore(next) = setup.code
    [] setup.mode = "ValidateFrom" -> h > StateHeight + 1

\* Whether a received block is executed, or stored with its state.
DoBlock(h) ==
  CASE setup.mode = "BlockTransfer" -> TRUE
    [] setup.mode \in {"StateTransfer", "Archive"} ->
         next = h /\ VersionBefore(next) = setup.code
    [] setup.mode = "ValidateFrom" -> h > StateHeight

\* What Kolme::add_block_with and execute_transaction insist on.
Executable(h) ==
  /\ next = h /\ Signer[h] = ViewProcessor
  /\ VersionBefore(next) = setup.code

\* The layers of the new state, children first, the block, then the state.
Execute(h) ==
  /\ Looks(h) /\ h \notin blocks
  /\ WithMissing[h].st = "received" /\ DoBlock(h)
  /\ Executable(h)
  /\ merkle' = merkle \cup Below(Roots[h])
  /\ blocks' = blocks \cup {h}
  /\ executed' = executed \cup {h}
  /\ next' = h + 1
  /\ archived' = NextToArchive(blocks')
  /\ needed' = [WithMissing EXCEPT ![h] = None]
  /\ busy' = TRUE
  /\ UNCHANGED <<setup, tip, asked, climb, faults>>

\* A block that does not follow, or that data the execution loads was not
\* available for, leaves the needed blocks all the same.
ExecuteFails(h) ==
  /\ Looks(h) /\ h \notin blocks
  /\ WithMissing[h].st = "received" /\ DoBlock(h)
  /\ \/ ~Executable(h) /\ UNCHANGED faults
     \/ faults < MaxFaults /\ faults' = faults + 1
  /\ needed' = [WithMissing EXCEPT ![h] = None]
  /\ busy' = TRUE
  /\ Archives
  /\ UNCHANGED <<setup, tip, blocks, merkle, executed, next, asked, climb>>

\* The entry that get_block_data_requests works on, and what it makes of its
\* needed layers: of those up to the RequestLimit-th that is not stored, it
\* drops the stored ones and asks for the others.
Collecting(h) ==
  IF WithMissing[h].st = "received"
  THEN [None EXCEPT !.st = "pending", !.want = Roots[h] \ merkle]
  ELSE WithMissing[h]

Reached(want) ==
  {l \in want : Cardinality({k \in want \ merkle : k < l}) < RequestLimit}

StillWanted(h) ==
  Collecting(h).want \ (Reached(Collecting(h).want) \cap merkle)

CollectsState(h) ==
  /\ Looks(h) /\ h \notin blocks
  /\ \/ WithMissing[h].st = "received" /\ ~DoBlock(h)
     \/ WithMissing[h].st = "pending"
  /\ UNCHANGED <<setup, tip, executed, climb, faults>>

AskLayers(h) ==
  /\ CollectsState(h) /\ StillWanted(h) # {}
  /\ needed' = [WithMissing EXCEPT
                  ![h] = [Collecting(h) EXCEPT !.want = StillWanted(h)]]
  /\ asked' = asked \cup {LayerOf(l) : l \in Reached(Collecting(h).want) \ merkle}
  /\ busy' = FALSE
  /\ Archives
  /\ UNCHANGED <<blocks, merkle, next>>

\* Kolme::add_block_with_state looks at the processor of the state the node
\* runs on, whatever the height of the block, and at the layers.
Acceptable(h) == Signer[h] = ViewProcessor /\ Roots[h] \subseteq merkle

FinishState_Archives(h) ==
  /\ CollectsState(h) /\ StillWanted(h) = {}
  /\ Acceptable(h)
  /\ blocks' = blocks \cup {h}
  /\ next' = Resynced(blocks')
  /\ needed' = [WithMissing EXCEPT ![h] = None]
  /\ busy' = TRUE
  /\ archived' = h + 1
  /\ UNCHANGED <<merkle, asked>>

FinishState(h) ==
  /\ CollectsState(h) /\ StillWanted(h) = {}
  /\ Acceptable(h)
  /\ blocks' = blocks \cup {h}
  /\ next' = Resynced(blocks')
  /\ needed' = [WithMissing EXCEPT ![h] = None]
  /\ busy' = TRUE
  /\ Archives
  /\ UNCHANGED <<merkle, asked>>

\* The error ends the round; the entry stays, with nothing left to ask for.
FinishFails(h) ==
  /\ CollectsState(h) /\ StillWanted(h) = {}
  /\ ~Acceptable(h)
  /\ needed' = [WithMissing EXCEPT ![h] = [Collecting(h) EXCEPT !.want = {}]]
  /\ busy' = FALSE
  /\ Archives
  /\ UNCHANGED <<blocks, merkle, next, asked>>

Process ==
  \/ FindsNothing
  \/ \E h \in Height :
       \/ DropStored(h) \/ AskBlock(h)
       \/ Execute(h) \/ ExecuteFails(h)
       \/ AskLayers(h) \/ FinishState(h) \/ FinishFails(h)

-----------------------------------------------------------------------------
\* What peers send.

ReceiveBlock(h) ==
  /\ Unlocked /\ BlockAt(h) \in asked /\ h <= tip
  /\ \/ /\ h \in blocks
        /\ needed' = [needed EXCEPT ![h] = None]
     \/ /\ h \notin blocks /\ needed[h].st = "needed"
        /\ needed' = [needed EXCEPT ![h].st = "received"]
  /\ UNCHANGED <<setup, tip, storeVars, asked, busy, climb, faults>>

\* A layer counts for the first needed block alone.  One that got stored in
\* the meantime is no longer needed; one with children that are not stored
\* waits for them.
ReceiveLayer(l) ==
  /\ Unlocked /\ LayerOf(l) \in asked /\ Open(needed) # {}
  /\ LET h == Min(Open(needed))
         missing == Children[l] \ merkle
     IN /\ needed[h].st = "pending"
        /\ l \in needed[h].want \ needed[h].pend
        /\ IF l \in merkle
           THEN /\ needed' = [needed EXCEPT ![h].want = @ \ {l}]
                /\ UNCHANGED climb
           ELSE /\ needed' = [needed EXCEPT
                     ![h].want = (@ \cup missing) \ {l},
                     ![h].pend = @ \cup {l},
                     ![h].rev = @ \cup (missing \X {l})]
                /\ climb' = IF missing = {} THEN {l} ELSE {}
  /\ UNCHANGED <<setup, tip, storeVars, asked, busy, faults>>

Climb_OneChild(l) ==
  /\ l \in climb
  /\ LET h == Min(Open(needed))
         parents == {p \in Layer : <<l, p>> \in needed[h].rev}
     IN /\ merkle' = merkle \cup {l}
        /\ needed' = [needed EXCEPT ![h].pend = @ \ {l},
                                    ![h].rev = @ \ ({l} \X Layer)]
        /\ climb' = (climb \ {l}) \cup parents
  /\ UNCHANGED <<setup, tip, blocks, executed, next, archived, asked, busy,
                 faults>>

Climb_Stays(l) ==
  /\ l \in climb
  /\ LET h == Min(Open(needed))
         stores == l \in needed[h].pend /\ Children[l] \subseteq merkle
     IN IF l \in merkle \/ stores
        THEN /\ merkle' = merkle \cup {l}
             /\ needed' = [needed EXCEPT ![h].pend = @ \ {l},
                                         ![h].rev = @ \ ({l} \X Layer)]
             /\ climb' = climb \ {l}
        ELSE /\ climb' = climb \ {l}
             /\ UNCHANGED <<merkle, needed>>
  /\ UNCHANGED <<setup, tip, blocks, executed, next, archived, asked, busy,
                 faults>>

\* process_available_hash: a hash that is stored by now, or that is pending
\* with all its children stored, lets the layers above it be looked at.
Climb(l) ==
  /\ l \in climb
  /\ LET h == Min(Open(needed))
         parents == {p \in Layer : <<l, p>> \in needed[h].rev}
         stores == l \in needed[h].pend /\ Children[l] \subseteq merkle
     IN IF l \in merkle \/ stores
        THEN /\ merkle' = merkle \cup {l}
             /\ needed' = [needed EXCEPT ![h].pend = @ \ {l},
                                         ![h].rev = @ \ ({l} \X Layer)]
             /\ climb' = (climb \ {l}) \cup parents
        ELSE /\ climb' = climb \ {l}
             /\ UNCHANGED <<merkle, needed>>
  /\ UNCHANGED <<setup, tip, blocks, executed, next, archived, asked, busy,
                 faults>>

ReceiveBlocks == \E h \in Height : ReceiveBlock(h)
ReceiveLayers == \E l \in Layer : ReceiveLayer(l)
ClimbUp == \E l \in Layer : Climb(l)

-----------------------------------------------------------------------------
\* Who else writes to the node's store: another process on a shared database,
\* one layer or block at a time, with a notification that makes this node
\* resync; or an operator's copy from another node's store.

OtherLayer(l) ==
  /\ setup.others = "shared"
  /\ l \in Below(UNION {Roots[h] : h \in 0..tip}) \ merkle
  /\ Children[l] \subseteq merkle
  /\ merkle' = merkle \cup {l}
  /\ UNCHANGED <<setup, tip, blocks, executed, next, archived, syncVars,
                 faults>>

OtherBlock(h) ==
  /\ setup.others = "shared"
  /\ h \in 0..tip \ blocks /\ Roots[h] \subseteq merkle
  /\ blocks' = blocks \cup {h}
  /\ UNCHANGED <<setup, tip, merkle, executed, next, archived, syncVars,
                 faults>>

\* Notified by the database, or after the last block that was copied.
Resync ==
  /\ \/ setup.others = "shared"
     \/ setup.others = "ingest" /\ NextToArchive(blocks) > tip
  /\ next' = Resynced(blocks)
  /\ UNCHANGED <<setup, tip, blocks, merkle, executed, archived, syncVars,
                 faults>>

\* One round of ingest_blocks_from.  The state is resynced after the last
\* block alone, so every block has to be signed by the same processor.
Ingest ==
  /\ setup.others = "ingest"
  /\ \E h \in 0..tip :
       /\ h = NextToArchive(blocks) /\ Signer[h] = ViewProcessor
       /\ archived' = h
       /\ merkle' = merkle \cup Below(Roots[h])
       /\ blocks' = blocks \cup {h}
  /\ UNCHANGED <<setup, tip, executed, next, syncVars, faults>>

\* A crash and a restart: what is not in the store is lost.
Restart ==
  /\ faults < MaxFaults
  /\ faults' = faults + 1
  /\ next' = IF blocks = {} THEN 0 ELSE Max(blocks) + 1
  /\ needed' = [h \in Height |-> None]
  /\ asked' = {} /\ busy' = FALSE /\ climb' = {}
  /\ UNCHANGED <<setup, tip, blocks, merkle, executed, archived>>

Others ==
  \/ \E l \in Layer : OtherLayer(l)
  \/ \E h \in Height : OtherBlock(h)
  \/ Resync \/ Ingest

Next ==
  \/ Produce \/ HearLatest \/ WaitForBlock
  \/ Process \/ ReceiveBlocks \/ ReceiveLayers \/ ClimbUp
  \/ Others \/ Restart

\* Gossip's loop serves its timer, its channels and its peers in turn; what is
\* asked for is asked for again until it arrives; the processor repeats its
\* latest block.
Fairness ==
  /\ WF_vars(HearLatest) /\ WF_vars(Process) /\ WF_vars(ClimbUp)
  /\ SF_vars(ReceiveBlocks) /\ SF_vars(ReceiveLayers)

Spec == Init /\ [][Next]_vars
FairSpec == Spec /\ Fairness
-----------------------------------------------------------------------------
(* A type invariant. *)
TypeOK ==
  /\ setup \in Setup /\ tip \in Height
  /\ blocks \subseteq Height /\ merkle \subseteq Layer /\ executed \subseteq Height
  /\ next \in 0..(MaxHeight + 1) /\ archived \in 0..(MaxHeight + 1)
  /\ needed \in [Height -> Entry]
  /\ asked \subseteq {BlockAt(h) : h \in Height} \cup {LayerOf(l) : l \in Layer}
  /\ busy \in BOOLEAN /\ climb \subseteq Layer

(* A layer is in the store only with all layers below it, and a block only *)
(* with the layers of its state: whoever saves a Merkle map stops at a      *)
(* layer that is stored, and whoever loads a block's state expects all of   *)
(* it, also after a crash between two layers.                               *)
StoreComplete ==
  /\ Closed(merkle)
  /\ \A h \in blocks : Roots[h] \subseteq merkle

(* Block transfer takes no state from a peer, and ValidateFrom none above   *)
(* the height it was told to trust, however blocks arrive and whatever the   *)
(* other tasks of the node ask for.                                          *)
TrustsNoMore ==
  setup.others = "none" =>
    /\ setup.mode = "BlockTransfer" => blocks \subseteq executed
    /\ setup.mode = "ValidateFrom" =>
         {h \in blocks : h > StateHeight} \subseteq executed

(* What is marked as archived is there without gaps, and the state the node *)
(* runs on is that of a stored block.                                        *)
ArchiveHasNoGaps ==
  /\ 0..(archived - 1) \subseteq blocks
  /\ next > 0 => next - 1 \in blocks

(* The first debug assertion at the end of collecting a block's state: when *)
(* no layer is needed any more, none has been received that waits for its    *)
(* children to be stored.                                                    *)
NothingLeftBehind ==
  \A h \in Height :
    climb = {} /\ needed[h].st = "pending" /\ needed[h].want = {} =>
      needed[h].pend = {}

(* A node that archives, and one that executes every block and runs the     *)
(* chain's version, gets every block of the chain, over rotations of the     *)
(* processor's key, upgrades, failed executions and restarts.                *)
CanFollow(h) ==
  /\ setup.others = "none"
  /\ \/ setup.mode = "Archive"
     \/ setup.mode = "BlockTransfer" /\ \A k \in 0..h : VersionBefore(k) = setup.code

ChainArrives ==
  \A h \in Height : (h <= tip /\ CanFollow(h)) ~> (h \in blocks)
=============================================================================
