--------------------------- MODULE StateSyncProofs ---------------------------
(***************************************************************************)
(* Proofs about StateSync, for every chain, every Merkle tree and every    *)
(* sync mode: what is in the store is complete, and no state is taken from *)
(* a peer that the mode says to compute, and what is marked as archived is *)
(* there without gaps.                                                     *)
(***************************************************************************)
EXTENDS StateSync, WellFoundedInduction, TLAPS

\* What saving a state writes is complete, and holds the state.
LEMMA BelowClosed ==
  ASSUME NEW h \in Height
  PROVE  Closed(Below(Roots[h])) /\ Roots[h] \subseteq Below(Roots[h])
<1>1. Roots[h] \subseteq Layer /\ \A l \in Layer : Children[l] \subseteq Layer
  BY StateSyncAssumption
<1> QED
  BY <1>1 DEF Below, Closed

LEMMA ClosedUnion ==
  ASSUME NEW s, NEW t, Closed(s), Closed(t) PROVE Closed(s \cup t)
BY DEF Closed

-----------------------------------------------------------------------------
\* The sets that the other invariants range over.
InRange == tip \in Height /\ setup \in Setup

LEMMA InRangeInvariant == Spec => []InRange
<1>1. Init => InRange
  BY DEF Init, InRange
<1>2. InRange /\ [Next]_vars => InRange'
  <2> SUFFICES ASSUME InRange, [Next]_vars PROVE InRange'
    OBVIOUS
  <2>1. CASE Produce
    BY <2>1, StateSyncAssumption DEF Produce, InRange, Height
  <2>2. CASE UNCHANGED vars
    BY <2>2 DEF vars, InRange
  <2>3. ASSUME Next, ~Produce PROVE tip' = tip /\ setup' = setup
    BY <2>3 DEF Next, HearLatest, WaitForBlock, AddNeeded, Process, FindsNothing,
       DropStored, AskBlock, Execute, ExecuteFails, CollectsState, AskLayers,
       FinishState, FinishFails, ReceiveBlocks, ReceiveBlock, ReceiveLayers,
       ReceiveLayer, ClimbUp, Climb, Others, OtherLayer, OtherBlock, Resync,
       Ingest, Restart
  <2> QED
    BY <2>1, <2>2, <2>3 DEF InRange
<1> QED
  BY <1>1, <1>2, PTL DEF Spec

\* A step that adds neither a layer nor a block to the store.
LEMMA StoreUntouched ==
  ASSUME StoreComplete, merkle' = merkle, blocks' = blocks
  PROVE  StoreComplete'
BY DEF StoreComplete, Closed

\* A step that adds a set of layers that is complete together with the store.
LEMMA LayersAdded ==
  ASSUME StoreComplete, NEW s, merkle' = merkle \cup s, Closed(merkle'),
         blocks' = blocks
  PROVE  StoreComplete'
BY DEF StoreComplete, Closed

\* Whoever saves a whole state and then its block.
LEMMA StateSaved ==
  ASSUME StoreComplete, NEW h \in Height,
         merkle' = merkle \cup Below(Roots[h]), blocks' = blocks \cup {h}
  PROVE  StoreComplete'
<1>1. Closed(merkle') /\ Roots[h] \subseteq merkle'
  BY BelowClosed, ClosedUnion DEF StoreComplete
<1> QED
  BY <1>1 DEF StoreComplete

(* A layer is in the store only with all layers below it and a block only   *)
(* with its state, whichever mode the node syncs in, whoever else writes to  *)
(* the store, and wherever it crashes.                                       *)
THEOREM StoreIsComplete == Spec => []StoreComplete
<1>1. Init => StoreComplete
  BY DEF Init, StoreComplete, Closed
<1>2. InRange /\ StoreComplete /\ [Next]_vars => StoreComplete'
  <2> SUFFICES ASSUME InRange, StoreComplete, [Next]_vars PROVE StoreComplete'
    OBVIOUS
  <2>1. CASE Produce \/ HearLatest \/ WaitForBlock \/ ReceiveBlocks
               \/ ReceiveLayers \/ Restart \/ UNCHANGED vars
    <3>1. merkle' = merkle /\ blocks' = blocks
      BY <2>1 DEF Produce, HearLatest, WaitForBlock, AddNeeded, ReceiveBlocks,
         ReceiveBlock, ReceiveLayers, ReceiveLayer, Restart, vars, storeVars
    <3> QED
      BY <3>1, StoreUntouched
  <2>2. CASE Process
    <3>1. CASE FindsNothing
      BY <3>1, StoreUntouched DEF FindsNothing, storeVars
    <3>2. ASSUME NEW h \in Height,
                 \/ DropStored(h) \/ AskBlock(h) \/ ExecuteFails(h)
                 \/ AskLayers(h) \/ FinishFails(h)
          PROVE  StoreComplete'
      BY <3>2, StoreUntouched
         DEF DropStored, AskBlock, ExecuteFails, AskLayers, FinishFails
    <3>3. ASSUME NEW h \in Height, Execute(h) PROVE StoreComplete'
      BY <3>3, StateSaved DEF Execute
    <3>4. ASSUME NEW h \in Height, FinishState(h) PROVE StoreComplete'
      BY <3>4 DEF FinishState, Acceptable, StoreComplete
    <3> QED
      BY <2>2, <3>1, <3>2, <3>3, <3>4 DEF Process
  <2>3. CASE ClimbUp
    <3>1. PICK l \in Layer : Climb(l)
      BY <2>3 DEF ClimbUp
    <3>2. CASE merkle' = merkle
      BY <3>1, <3>2, StoreUntouched DEF Climb
    <3>3. CASE merkle' # merkle
      <4>1. merkle' = merkle \cup {l} /\ Children[l] \subseteq merkle
        BY <3>1, <3>3 DEF Climb
      <4>2. Closed(merkle')
        BY <4>1 DEF StoreComplete, Closed
      <4> QED
        BY <3>1, <4>1, <4>2, LayersAdded DEF Climb
    <3> QED
      BY <3>2, <3>3
  <2>4. CASE Others
    <3>1. ASSUME NEW l \in Layer, OtherLayer(l) PROVE StoreComplete'
      <4>1. Closed(merkle')
        BY <3>1 DEF OtherLayer, StoreComplete, Closed
      <4> QED
        BY <3>1, <4>1, LayersAdded DEF OtherLayer
    <3>2. ASSUME NEW h \in Height, OtherBlock(h) PROVE StoreComplete'
      BY <3>2 DEF OtherBlock, StoreComplete
    <3>3. CASE Resync
      BY <3>3, StoreUntouched DEF Resync
    <3>4. CASE Ingest
      <4>1. PICK h \in 0..tip : /\ merkle' = merkle \cup Below(Roots[h])
                                /\ blocks' = blocks \cup {h}
        BY <3>4 DEF Ingest
      <4>2. h \in Height
        BY StateSyncAssumption DEF Height, InRange
      <4> QED
        BY <4>1, <4>2, StateSaved
    <3> QED
      BY <2>4, <3>1, <3>2, <3>3, <3>4 DEF Others
  <2> QED
    BY <2>1, <2>2, <2>3, <2>4 DEF Next
<1> QED
  BY <1>1, <1>2, InRangeInvariant, PTL DEF Spec

-----------------------------------------------------------------------------
\* Entries of the sync manager, and what may be collecting layers: the modes
\* that execute a block never have its entry pending.
Typed == needed \in [Height -> Entry]

Trusted(h) ==
  /\ setup.mode # "BlockTransfer"
  /\ setup.mode = "ValidateFrom" => ~(h > StateHeight)

OnlyTrustedPending ==
  \A h \in Height : needed[h].st = "pending" => Trusted(h)

Collected == Typed /\ OnlyTrustedPending

LEMMA EntryOf ==
  /\ None \in Entry /\ None.st = "none"
  /\ Needed \in Entry /\ Needed.st = "needed"
BY DEF None, Needed, Entry

\* Asking for a height changes no entry that there is.
LEMMA WithNeededCollected ==
  ASSUME NEW h, NEW entries \in [Height -> Entry],
         \A k \in Height : entries[k].st = "pending" => Trusted(k)
  PROVE  /\ WithNeeded(entries, h) \in [Height -> Entry]
         /\ \A k \in Height :
              WithNeeded(entries, h)[k].st = "pending" => Trusted(k)
BY EntryOf DEF WithNeeded

LEMMA WithMissingCollected ==
  ASSUME Collected, InRange
  PROVE  /\ WithMissing \in [Height -> Entry]
         /\ \A k \in Height : WithMissing[k].st = "pending" => Trusted(k)
<1>1. needed \in [Height -> Entry]
         /\ \A k \in Height : needed[k].st = "pending" => Trusted(k)
  BY DEF Collected, Typed, OnlyTrustedPending
<1>2. setup.mode \in {"StateTransfer", "Archive", "BlockTransfer", "ValidateFrom"}
  BY StateSyncAssumption DEF InRange
<1>3. CASE setup.mode = "StateTransfer"
  BY <1>1, <1>3 DEF WithMissing
<1>4. CASE setup.mode = "Archive"
  BY <1>1, <1>4, WithNeededCollected DEF WithMissing
<1>5. CASE setup.mode = "BlockTransfer"
  BY <1>1, <1>5, WithNeededCollected DEF WithMissing
<1>6. CASE setup.mode = "ValidateFrom"
  BY <1>1, <1>6, WithNeededCollected DEF WithMissing
<1> QED
  BY <1>2, <1>3, <1>4, <1>5, <1>6

\* The entry a step of get_block_data_requests leaves: of a height whose state
\* may be collected.
LEMMA CollectingTrusted ==
  ASSUME Collected, InRange, NEW h \in Height, CollectsState(h)
  PROVE  /\ Trusted(h)
         /\ \A w \in SUBSET Collecting(h).want :
              [Collecting(h) EXCEPT !.want = w] \in Entry
<1>1. /\ WithMissing \in [Height -> Entry]
      /\ \A k \in Height : WithMissing[k].st = "pending" => Trusted(k)
  BY WithMissingCollected
<1>2. Roots[h] \subseteq Layer
  BY StateSyncAssumption
<1>3. Collecting(h) \in Entry
  BY <1>1, <1>2 DEF Collecting, Entry, None
<1>4. \A w \in SUBSET Collecting(h).want :
        [Collecting(h) EXCEPT !.want = w] \in Entry
  BY <1>3 DEF Entry
<1>5. CASE WithMissing[h].st = "pending"
  BY <1>1, <1>4, <1>5
<1>6. CASE WithMissing[h].st = "received" /\ ~DoBlock(h)
  <2>1. setup.mode \in {"StateTransfer", "Archive", "BlockTransfer", "ValidateFrom"}
    BY StateSyncAssumption DEF InRange
  <2>2. Trusted(h)
    BY <1>6, <2>1 DEF DoBlock, Trusted
  <2> QED
    BY <1>4, <2>2
<1> QED
  BY <1>5, <1>6 DEF CollectsState

\* One entry is replaced by another that may be there.
LEMMA EntryReplaced ==
  ASSUME setup' = setup, NEW f \in [Height -> Entry],
         \A k \in Height : f[k].st = "pending" => Trusted(k),
         NEW h, NEW e, h \in Height => e \in Entry /\ (e.st = "pending" => Trusted(h)),
         needed' = [f EXCEPT ![h] = e]
  PROVE  Collected'
<1>1. needed' \in [Height -> Entry]
  OBVIOUS
<1>2. \A k \in Height : needed'[k].st = "pending" => Trusted(k)
  OBVIOUS
<1>3. \A k \in Height : Trusted(k)' = Trusted(k)
  BY DEF Trusted
<1> QED
  BY <1>1, <1>2, <1>3 DEF Collected, Typed, OnlyTrustedPending

LEMMA EntriesKept ==
  ASSUME setup' = setup, needed' \in [Height -> Entry],
         \A k \in Height : needed'[k].st = "pending" => Trusted(k)
  PROVE  Collected'
<1>1. \A k \in Height : Trusted(k)' = Trusted(k)
  BY DEF Trusted
<1> QED
  BY <1>1 DEF Collected, Typed, OnlyTrustedPending

LEMMA CollectedInvariant == Spec => []Collected
<1>1. Init => Collected
  BY EntryOf DEF Init, Collected, Typed, OnlyTrustedPending
<1>2. InRange /\ Collected /\ [Next]_vars => Collected'
  <2> SUFFICES ASSUME InRange, Collected, [Next]_vars PROVE Collected'
    OBVIOUS
  <2>1. setup' = setup
    BY DEF Next, Produce, HearLatest, WaitForBlock, AddNeeded, Process, FindsNothing,
       DropStored, AskBlock, Execute, ExecuteFails, CollectsState, AskLayers,
       FinishState, FinishFails, ReceiveBlocks, ReceiveBlock, ReceiveLayers,
       ReceiveLayer, ClimbUp, Climb, Others, OtherLayer, OtherBlock, Resync,
       Ingest, Restart, vars
  <2>2. /\ needed \in [Height -> Entry]
        /\ \A k \in Height : needed[k].st = "pending" => Trusted(k)
    BY DEF Collected, Typed, OnlyTrustedPending
  <2>3. /\ WithMissing \in [Height -> Entry]
        /\ \A k \in Height : WithMissing[k].st = "pending" => Trusted(k)
    BY WithMissingCollected
  <2>4. CASE Produce \/ Others \/ UNCHANGED vars
    <3>1. needed' = needed
      BY <2>4 DEF Produce, Others, OtherLayer, OtherBlock, Resync, Ingest, vars,
         syncVars
    <3> QED
      BY <2>1, <2>2, <3>1, EntriesKept
  <2>5. CASE HearLatest \/ WaitForBlock
    <3>1. PICK h : needed' = WithNeeded(needed, h)
      BY <2>5 DEF HearLatest, WaitForBlock, AddNeeded
    <3> QED
      BY <2>1, <2>2, <3>1, WithNeededCollected, EntriesKept
  <2>6. CASE Process
    <3>1. CASE FindsNothing
      BY <2>1, <2>2, <3>1, EntriesKept DEF FindsNothing
    <3>2. ASSUME NEW h \in Height, AskBlock(h) PROVE Collected'
      BY <2>1, <2>3, <3>2, EntriesKept DEF AskBlock
    <3>3. ASSUME NEW h \in Height,
                 \/ DropStored(h) \/ Execute(h) \/ ExecuteFails(h) \/ FinishState(h)
          PROVE  Collected'
      <4>1. needed' = [WithMissing EXCEPT ![h] = None]
        BY <3>3 DEF DropStored, Execute, ExecuteFails, FinishState
      <4> QED
        BY <2>1, <2>3, <4>1, EntryOf, EntryReplaced
    <3>4. ASSUME NEW h \in Height, AskLayers(h) \/ FinishFails(h)
          PROVE  Collected'
      <4>1. CollectsState(h)
        BY <3>4 DEF AskLayers, FinishFails
      <4>2. PICK w \in SUBSET Collecting(h).want :
              needed' = [WithMissing EXCEPT ![h] = [Collecting(h) EXCEPT !.want = w]]
        BY <3>4 DEF AskLayers, FinishFails, StillWanted
      <4> DEFINE e == [Collecting(h) EXCEPT !.want = w]
      <4>3. Trusted(h) /\ e \in Entry
        BY <4>1, CollectingTrusted
      <4> HIDE DEF e
      <4> QED
        BY <2>1, <2>3, <4>2, <4>3, EntryReplaced DEF e
    <3> QED
      BY <2>6, <3>1, <3>2, <3>3, <3>4 DEF Process
  <2>7. CASE ReceiveBlocks
    <3>1. PICK h \in Height : ReceiveBlock(h)
      BY <2>7 DEF ReceiveBlocks
    <3>2. CASE needed' = [needed EXCEPT ![h] = None]
      BY <2>1, <2>2, <3>2, EntryOf, EntryReplaced
    <3>3. CASE needed' = [needed EXCEPT ![h].st = "received"]
      <4> DEFINE e == [needed[h] EXCEPT !.st = "received"]
      <4>1. e \in Entry /\ e.st = "received"
        BY <2>2 DEF Entry
      <4>2. needed' = [needed EXCEPT ![h] = e]
        BY <3>3
      <4> HIDE DEF e
      <4> QED
        BY <2>1, <2>2, <4>1, <4>2, EntryReplaced
    <3> QED
      BY <3>1, <3>2, <3>3 DEF ReceiveBlock
  <2>8. CASE ReceiveLayers
    <3>1. PICK l \in Layer : ReceiveLayer(l)
      BY <2>8 DEF ReceiveLayers
    <3> DEFINE h == Min(Open(needed))
               missing == Children[l] \ merkle
               e1 == [needed[h] EXCEPT !.want = @ \ {l}]
               e2 == [needed[h] EXCEPT !.want = (@ \cup missing) \ {l},
                                       !.pend = @ \cup {l},
                                       !.rev = @ \cup (missing \X {l})]
    <3>2. needed' = [needed EXCEPT ![h] = e1] \/ needed' = [needed EXCEPT ![h] = e2]
      BY <3>1 DEF ReceiveLayer
    <3>3. missing \subseteq Layer
      BY StateSyncAssumption
    <3>4. h \in Height => /\ e1 \in Entry /\ e1.st = needed[h].st
                          /\ e2 \in Entry /\ e2.st = needed[h].st
      BY <2>2, <3>3 DEF Entry
    <3> HIDE DEF e1, e2, h
    <3> QED
      BY <2>1, <2>2, <3>2, <3>4, EntryReplaced
  <2>9. CASE ClimbUp
    <3>1. PICK l \in Layer : Climb(l)
      BY <2>9 DEF ClimbUp
    <3> DEFINE h == Min(Open(needed))
               e == [needed[h] EXCEPT !.pend = @ \ {l}, !.rev = @ \ ({l} \X Layer)]
    <3>2. needed' = needed \/ needed' = [needed EXCEPT ![h] = e]
      BY <3>1 DEF Climb
    <3>3. h \in Height => e \in Entry /\ e.st = needed[h].st
      BY <2>2 DEF Entry
    <3> HIDE DEF e, h
    <3> QED
      BY <2>1, <2>2, <3>2, <3>3, EntryReplaced, EntriesKept
  <2>10. CASE Restart
    BY <2>1, <2>10, EntryOf, EntriesKept DEF Restart
  <2> QED
    BY <2>4, <2>5, <2>6, <2>7, <2>8, <2>9, <2>10 DEF Next
<1> QED
  BY <1>1, <1>2, InRangeInvariant, PTL DEF Spec

(* Block transfer stores no block it has not executed, and ValidateFrom none *)
(* above the height it was told to trust, for every chain and every order in *)
(* which blocks and layers are asked for and arrive.                         *)
THEOREM TrustIsBounded == Spec => []TrustsNoMore
<1>1. Init => TrustsNoMore
  BY DEF Init, TrustsNoMore
<1>2. InRange /\ Collected /\ TrustsNoMore /\ [Next]_vars => TrustsNoMore'
  <2> SUFFICES ASSUME InRange, Collected, TrustsNoMore, [Next]_vars
               PROVE  TrustsNoMore'
    OBVIOUS
  <2>1. CASE UNCHANGED <<setup, blocks, executed>>
    BY <2>1 DEF TrustsNoMore
  <2>2. ASSUME NEW h \in Height, Execute(h) PROVE TrustsNoMore'
    BY <2>2 DEF Execute, TrustsNoMore
  <2>3. ASSUME NEW h \in Height, FinishState(h) PROVE TrustsNoMore'
    <3>1. Trusted(h)
      BY <2>3, CollectingTrusted DEF FinishState
    <3>2. UNCHANGED <<setup, executed>> /\ blocks' = blocks \cup {h}
      BY <2>3 DEF FinishState, CollectsState
    <3> QED
      BY <3>1, <3>2 DEF Trusted, TrustsNoMore
  <2>4. CASE Others
    BY <2>4 DEF Others, OtherLayer, OtherBlock, Resync, Ingest, TrustsNoMore
  <2>5. CASE Process
    <3>1. ASSUME NEW h \in Height,
                 \/ DropStored(h) \/ AskBlock(h) \/ ExecuteFails(h)
                 \/ AskLayers(h) \/ FinishFails(h)
          PROVE  UNCHANGED <<setup, blocks, executed>>
      BY <3>1 DEF DropStored, AskBlock, ExecuteFails, AskLayers, FinishFails,
         CollectsState
    <3>2. CASE FindsNothing
      BY <2>1, <3>2 DEF FindsNothing, storeVars
    <3> QED
      BY <2>1, <2>2, <2>3, <2>5, <3>1, <3>2 DEF Process
  <2>6. CASE Produce \/ HearLatest \/ WaitForBlock \/ ReceiveBlocks
               \/ ReceiveLayers \/ ClimbUp \/ Restart \/ UNCHANGED vars
    BY <2>1, <2>6 DEF Produce, HearLatest, WaitForBlock, AddNeeded, ReceiveBlocks,
       ReceiveBlock, ReceiveLayers, ReceiveLayer, ClimbUp, Climb, Restart, vars,
       storeVars
  <2> QED
    BY <2>4, <2>5, <2>6 DEF Next
<1> QED
  BY <1>1, <1>2, InRangeInvariant, CollectedInvariant, PTL DEF Spec

-----------------------------------------------------------------------------
\* Least and greatest heights.

\* The order of the numbers, as a relation that is well founded.
LEMMA NatOrder ==
  \E R : /\ IsWellFoundedOn(R, Nat)
         /\ \A x, y \in Nat : y < x => <<y, x>> \in R
<1> DEFINE R == OpToRel(<, Nat)
<1>1. IsWellFoundedOn(R, Nat)
  BY NatLessThanWellFounded
<1>2. \A x, y \in Nat : y < x => <<y, x>> \in R
  BY DEF OpToRel
<1> HIDE DEF R
<1> QED
  BY <1>1, <1>2

LEMMA SmallestNat ==
  ASSUME NEW T, T \subseteq Nat, T # {}
  PROVE  \E x \in T : \A y \in T : x <= y
<1>1. PICK R : /\ IsWellFoundedOn(R, Nat)
               /\ \A x, y \in Nat : y < x => <<y, x>> \in R
  BY NatOrder
<1>2. PICK x \in T : \A y \in T : ~(<<y, x>> \in R)
  BY <1>1, WFMin
<1>3. ASSUME NEW y \in T PROVE x <= y
  <2>1. x \in Nat /\ y \in Nat
    OBVIOUS
  <2>2. ~(y < x)
    BY <1>1, <1>2, <2>1
  <2> QED
    BY <2>1, <2>2
<1> QED
  BY <1>3

LEMMA MaxStored ==
  ASSUME NEW s \in SUBSET Height, s # {}
  PROVE  Max(s) \in s /\ Max(s) \in Nat
<1> DEFINE T == {n \in Nat : n <= MaxHeight /\ MaxHeight - n \in s}
<1>1. MaxHeight \in Nat
  BY StateSyncAssumption
<1>2. \A h \in s : h \in Nat /\ h <= MaxHeight /\ MaxHeight - h \in T
  <2>1. ASSUME NEW h \in s PROVE h \in Nat /\ h <= MaxHeight /\ MaxHeight - h \in T
    <3>1. h \in Nat /\ h <= MaxHeight
      BY <1>1 DEF Height
    <3>2. MaxHeight - h \in Nat /\ MaxHeight - (MaxHeight - h) = h
      BY <1>1, <3>1
    <3>3. MaxHeight - h <= MaxHeight
      BY <1>1, <3>1
    <3> QED
      BY <3>1, <3>2, <3>3
  <2> QED
    BY <2>1
<1>3. PICK n \in T : \A m \in T : n <= m
  <2>1. T \subseteq Nat /\ T # {}
    BY <1>2
  <2> HIDE DEF T
  <2> QED
    BY <2>1, SmallestNat
<1>4. MaxHeight - n \in s
  OBVIOUS
<1>5. \A h \in s : MaxHeight - n >= h
  <2>1. ASSUME NEW h \in s PROVE MaxHeight - n >= h
    <3>1. n <= MaxHeight - h /\ n \in Nat /\ h \in Nat
      BY <1>2, <1>3
    <3> QED
      BY <1>1, <3>1
  <2> QED
    BY <2>1
<1>6. \E x \in s : \A y \in s : x >= y
  BY <1>4, <1>5
<1>7. Max(s) \in s
  BY <1>6 DEF Max
<1> HIDE DEF Max
<1> QED
  BY <1>2, <1>7

-----------------------------------------------------------------------------
\* What is archived.

InStore ==
  /\ blocks \subseteq Height /\ archived \in 0..(MaxHeight + 1)
  /\ next \in Nat /\ ArchiveHasNoGaps

\* The first height behind the archive that is not stored.
LEMMA NextIsTheFirstMissing ==
  ASSUME archived \in 0..(MaxHeight + 1), NEW s \in SUBSET Height,
         0..(archived - 1) \subseteq s
  PROVE  /\ NextToArchive(s) \in 0..(MaxHeight + 1)
         /\ 0..(NextToArchive(s) - 1) \subseteq s
<1> DEFINE T == {h \in archived..(MaxHeight + 1) : h \notin s}
<1>1. MaxHeight \in Nat /\ archived \in Nat
  BY StateSyncAssumption
<1>2. MaxHeight + 1 \in T
  BY <1>1 DEF Height
<1>3. PICK h \in T : \A k \in T : h <= k
  <2>1. T \subseteq Nat /\ T # {}
    BY <1>1, <1>2
  <2> HIDE DEF T
  <2> QED
    BY <2>1, SmallestNat
<1>4. archived..(h - 1) \subseteq s
  <2>1. ASSUME NEW k \in archived..(h - 1), k \notin s PROVE FALSE
    <3>1. k \in T /\ k < h /\ k \in Nat /\ h \in Nat
      BY <1>1, <2>1
    <3> QED
      BY <1>3, <3>1
  <2> QED
    BY <2>1
<1>5. \E x \in archived..(MaxHeight + 1) :
        x \notin s /\ archived..(x - 1) \subseteq s
  BY <1>4
<1> DEFINE n == NextToArchive(s)
<1>6. n \in archived..(MaxHeight + 1) /\ archived..(n - 1) \subseteq s
  BY <1>5 DEF NextToArchive
<1> HIDE DEF n
<1>7. 0..(n - 1) \subseteq s
  <2>1. ASSUME NEW k \in 0..(n - 1) PROVE k \in s
    <3>1. k \in 0..(archived - 1) \/ k \in archived..(n - 1)
      BY <1>1, <1>6
    <3> QED
      BY <1>6, <3>1
  <2> QED
    BY <2>1
<1>8. n \in 0..(MaxHeight + 1)
  BY <1>1, <1>6
<1> QED
  BY <1>7, <1>8 DEF n

\* Marking what is stored as archived, while blocks are added.
LEMMA ArchivesKeeps ==
  ASSUME InStore, NEW s \in SUBSET Height, blocks \subseteq s,
         \/ archived' = archived
         \/ archived' = NextToArchive(blocks)
         \/ archived' = NextToArchive(s)
  PROVE  archived' \in 0..(MaxHeight + 1) /\ 0..(archived' - 1) \subseteq s
<1>1. /\ archived \in 0..(MaxHeight + 1) /\ 0..(archived - 1) \subseteq blocks
      /\ blocks \in SUBSET Height
  BY DEF InStore, ArchiveHasNoGaps
<1>2. CASE archived' = archived
  BY <1>1, <1>2
<1>3. CASE archived' = NextToArchive(blocks)
  BY <1>1, <1>3, NextIsTheFirstMissing
<1>4. CASE archived' = NextToArchive(s)
  <2>1. 0..(archived - 1) \subseteq s
    BY <1>1
  <2> QED
    BY <1>1, <1>4, <2>1, NextIsTheFirstMissing
<1> QED
  BY <1>2, <1>3, <1>4

\* Resyncing takes the state of the last block, or leaves it.
LEMMA ResyncedIsStored ==
  ASSUME InStore, NEW s \in SUBSET Height, blocks \subseteq s
  PROVE  Resynced(s) \in Nat /\ (Resynced(s) > 0 => Resynced(s) - 1 \in s)
<1>1. next \in Nat /\ (next > 0 => next - 1 \in s)
  BY DEF InStore, ArchiveHasNoGaps
<1>2. CASE s = {} \/ next > Max(s)
  BY <1>1, <1>2 DEF Resynced
<1>3. CASE ~(s = {} \/ next > Max(s))
  <2>1. Max(s) \in s /\ Max(s) \in Nat
    BY <1>3, MaxStored
  <2>2. Resynced(s) = Max(s) + 1
    BY <1>3 DEF Resynced
  <2> HIDE DEF Max
  <2> QED
    BY <2>1, <2>2
<1> QED
  BY <1>2, <1>3

(* Whatever is marked as archived is there without gaps, and the node runs   *)
(* on the state of a stored block, in every mode and whoever else writes to  *)
(* the store (kolme.rs get_next_to_archive, resync, ingest_blocks_from).     *)
THEOREM ArchiveIsGapFree == Spec => []ArchiveHasNoGaps
<1>0. MaxHeight \in Nat
  BY StateSyncAssumption
<1>1. Init => InStore
  BY <1>0 DEF Init, InStore, ArchiveHasNoGaps
<1>2. InRange /\ InStore /\ [Next]_vars => InStore'
  <2> SUFFICES ASSUME InRange, InStore, [Next]_vars PROVE InStore'
    OBVIOUS
  <2>0. /\ blocks \in SUBSET Height /\ archived \in 0..(MaxHeight + 1)
        /\ next \in Nat /\ (next > 0 => next - 1 \in blocks)
        /\ 0..(archived - 1) \subseteq blocks
    BY DEF InStore, ArchiveHasNoGaps
  <2>1. ASSUME UNCHANGED <<blocks, next, archived>> PROVE InStore'
    BY <2>1 DEF InStore, ArchiveHasNoGaps
  <2>2. ASSUME NEW s \in SUBSET Height, blocks' = s, blocks \subseteq s,
               \/ archived' = archived
               \/ archived' = NextToArchive(blocks)
               \/ archived' = NextToArchive(s),
               next' \in Nat, next' > 0 => next' - 1 \in s
        PROVE  InStore'
    BY <2>2, ArchivesKeeps DEF InStore, ArchiveHasNoGaps
  <2>3. CASE Produce \/ HearLatest \/ WaitForBlock \/ ReceiveBlocks
               \/ ReceiveLayers \/ ClimbUp \/ UNCHANGED vars
    BY <2>1, <2>3 DEF Produce, HearLatest, WaitForBlock, AddNeeded, ReceiveBlocks,
       ReceiveBlock, ReceiveLayers, ReceiveLayer, ClimbUp, Climb, vars, storeVars
  <2>4. CASE Process
    <3>1. CASE FindsNothing
      BY <2>1, <3>1 DEF FindsNothing, storeVars
    <3>2. ASSUME NEW h \in Height,
                 \/ DropStored(h) \/ AskBlock(h) \/ ExecuteFails(h)
                 \/ AskLayers(h) \/ FinishFails(h)
          PROVE  InStore'
      <4>1. Archives /\ UNCHANGED <<blocks, next>>
        BY <3>2 DEF DropStored, AskBlock, ExecuteFails, AskLayers, FinishFails
      <4> QED
        BY <2>0, <2>2, <4>1 DEF Archives
    <3>3. ASSUME NEW h \in Height, Execute(h) PROVE InStore'
      <4>1. /\ blocks' = blocks \cup {h} /\ next' = h + 1
            /\ archived' = NextToArchive(blocks')
        BY <3>3 DEF Execute
      <4>2. h \in Nat /\ next' \in Nat /\ next' - 1 = h
        BY <4>1 DEF Height
      <4> QED
        BY <2>0, <2>2, <4>1, <4>2
    <3>4. ASSUME NEW h \in Height, FinishState(h) PROVE InStore'
      <4>1. /\ blocks' = blocks \cup {h} /\ next' = Resynced(blocks')
            /\ Archives
        BY <3>4 DEF FinishState
      <4>2. next' \in Nat /\ (next' > 0 => next' - 1 \in blocks')
        BY <2>0, <4>1, ResyncedIsStored
      <4> QED
        BY <2>0, <2>2, <4>1, <4>2 DEF Archives
    <3> QED
      BY <2>4, <3>1, <3>2, <3>3, <3>4 DEF Process
  <2>5. CASE Others
    <3>1. ASSUME NEW l \in Layer, OtherLayer(l) PROVE InStore'
      BY <2>1, <3>1 DEF OtherLayer
    <3>2. ASSUME NEW h \in Height, OtherBlock(h) PROVE InStore'
      <4>1. blocks' = blocks \cup {h} /\ UNCHANGED <<next, archived>>
        BY <3>2 DEF OtherBlock
      <4> QED
        BY <2>0, <2>2, <4>1
    <3>3. CASE Resync
      <4>1. next' = Resynced(blocks) /\ UNCHANGED <<blocks, archived>>
        BY <3>3 DEF Resync
      <4>2. next' \in Nat /\ (next' > 0 => next' - 1 \in blocks)
        BY <2>0, <4>1, ResyncedIsStored
      <4> QED
        BY <2>0, <2>2, <4>1, <4>2
    <3>4. CASE Ingest
      <4>1. PICK h \in 0..tip : /\ h = NextToArchive(blocks) /\ archived' = h
                                /\ blocks' = blocks \cup {h} /\ next' = next
        BY <3>4 DEF Ingest
      <4>2. h \in Height
        BY <1>0 DEF Height, InRange
      <4> QED
        BY <2>0, <2>2, <4>1, <4>2
    <3> QED
      BY <2>5, <3>1, <3>2, <3>3, <3>4 DEF Others
  <2>6. CASE Restart
    <3>1. /\ next' = (IF blocks = {} THEN 0 ELSE Max(blocks) + 1)
          /\ UNCHANGED <<blocks, archived>>
      BY <2>6 DEF Restart
    <3>2. CASE blocks = {}
      BY <2>0, <2>2, <3>1, <3>2
    <3>3. CASE blocks # {}
      <4>1. Max(blocks) \in blocks /\ Max(blocks) \in Nat
        BY <2>0, <3>3, MaxStored
      <4>2. next' = Max(blocks) + 1
        BY <3>1, <3>3
      <4>3. next' \in Nat /\ next' - 1 \in blocks
        BY <4>1, <4>2
      <4> QED
        BY <2>0, <2>2, <3>1, <4>3
    <3> QED
      BY <3>2, <3>3
  <2> QED
    BY <2>3, <2>4, <2>5, <2>6 DEF Next
<1>3. InStore => ArchiveHasNoGaps
  BY DEF InStore
<1> QED
  BY <1>1, <1>2, <1>3, InRangeInvariant, PTL DEF Spec
=============================================================================
