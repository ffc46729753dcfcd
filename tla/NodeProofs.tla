------------------------------ MODULE NodeProofs ------------------------------
(***************************************************************************)
(* Proofs about what a node says of its blocks: that the answer of         *)
(* fork-info is exact, for every chain (ForkInfo); that what one node      *)
(* exports another one can import, for every tree of layers (ImportExport);*)
(* that a client is told in order, for every set of processors and clocks  *)
(* (Notifications); that the cache of locked Merkle values drops nothing   *)
(* under its lock, for every number of threads (MerkleCache); and that the *)
(* listener of an Ethereum contract passes over no event, for every number *)
(* of events and of stops (ChainListeners).                                *)
(***************************************************************************)
EXTENDS ForkInfo, ImportExport, Notifications, MerkleCache, ChainListeners,
        SequenceTheorems, FiniteSetTheorems, WellFoundedInduction, TLAPS

-----------------------------------------------------------------------------
\* The answer of fork-info.

Searches == {"idle", "any", "first", "last", "answered", "failed", "missing"}

ForkTypeOK ==
  /\ nextHeight \in Nat /\ versionAt \in [Heights -> Versions]
  /\ search \in Searches /\ wanted \in Versions
  /\ lower \in Int /\ upper \in Int /\ best \in Int /\ found \in Int
  /\ answer \in [first : Int, last : Int]
  /\ latest \in Int /\ latest < nextHeight

\* What is outside of the range of find_block_height has another version.
AnyRange ==
  search = "any" =>
    /\ 0 <= lower /\ upper <= latest /\ best = NoBlock
    /\ \A h \in 0..latest : h < lower => versionAt[h] < wanted
    /\ \A h \in 0..latest : h > upper => versionAt[h] > wanted

FoundOne == found \in 0..latest /\ versionAt[found] = wanted

\* The range of find_first_block ends below the best block so far.
FirstRange ==
  search = "first" =>
    /\ FoundOne /\ 0 <= lower
    /\ \A h \in 0..latest : h < lower => versionAt[h] < wanted
    /\ best = NoBlock => upper = found
    /\ best # NoBlock =>
         best = upper + 1 /\ best \in 0..found /\ versionAt[best] = wanted

FirstIsExact ==
  /\ answer.first \in 0..latest /\ versionAt[answer.first] = wanted
  /\ \A h \in 0..latest : h < answer.first => versionAt[h] < wanted

\* The range of find_last_block begins above the best block so far.
LastRange ==
  search = "last" =>
    /\ FoundOne /\ FirstIsExact /\ upper <= latest
    /\ \A h \in 0..latest : h > upper => versionAt[h] > wanted
    /\ best = NoBlock => lower = found
    /\ best # NoBlock =>
         best = lower - 1 /\ best \in found..latest /\ versionAt[best] = wanted

LastIsExact ==
  /\ answer.last \in 0..latest /\ versionAt[answer.last] = wanted
  /\ \A h \in 0..latest : h > answer.last => versionAt[h] > wanted

Answered == search = "answered" => FirstIsExact /\ LastIsExact

NotThere ==
  search = "failed" /\ lower # upper => \A h \in 0..latest : versionAt[h] # wanted

SearchIsSound == AnyRange /\ FirstRange /\ LastRange /\ Answered /\ NotThere

ForkInv == ForkTypeOK /\ (NeverLowered => SearchIsSound)

LEMMA MiddleIsBetween ==
  ASSUME NEW a \in Int, NEW b \in Int, HasMiddle(a, b)
  PROVE  IncreasingMiddle(a, b) \in Int /\ a < IncreasingMiddle(a, b)
         /\ IncreasingMiddle(a, b) <= b
BY DEF HasMiddle, IncreasingMiddle

LEMMA ForkInitHolds == ForkInit => ForkInv
<1> SUFFICES ASSUME ForkInit PROVE ForkInv
  OBVIOUS
<1>1. PICK n \in 0..MaxBlocks : versionAt \in [0..(n - 1) -> Versions]
  BY ForkInfoAssumption DEF ForkInit
<1>2. versionAt \in [Heights -> Versions]
  BY <1>1 DEF ForkInit
<1> QED
  BY <1>2, ForkInfoAssumption
  DEF ForkInit, ForkInv, ForkTypeOK, Searches, NoBlock, SearchIsSound, AnyRange, FirstRange,
      LastRange, Answered, NotThere

\* A request leaves the chain alone.
LEMMA SearchKeepsTypes ==
  ASSUME ForkTypeOK, UNCHANGED forkChainVars,
         \/ \E v \in Versions : ForkInfoRequest(v)
         \/ FindBlockHeight \/ FindFirstBlock \/ FirstBlockFound
         \/ FindLastBlock \/ LastBlockFound \/ ForkInfoFails \/ BlockMissing
  PROVE  ForkTypeOK' /\ Heights' = Heights
<1>1. Heights' = Heights
  BY DEF forkChainVars, Heights
<1>2. CASE \E v \in Versions : ForkInfoRequest(v)
  BY <1>1, <1>2 DEF ForkTypeOK, forkChainVars, ForkInfoRequest, Starts, Searches, NoBlock
<1>3. CASE FindBlockHeight
  <2> /\ IncreasingMiddle(lower, upper) \in Int /\ lower \in Int /\ upper \in Int
    BY <1>3, MiddleIsBetween DEF FindBlockHeight, MiddleIsHeld, ForkTypeOK
  <2> QED
    BY <1>1, <1>3 DEF ForkTypeOK, forkChainVars, FindBlockHeight, Starts, Lower, Upper,
       Searches, NoBlock
<1>4. CASE FindFirstBlock \/ FindLastBlock
  <2> /\ IncreasingMiddle(lower, upper) \in Int /\ lower \in Int /\ upper \in Int
    BY <1>4, MiddleIsBetween DEF FindFirstBlock, FindLastBlock, MiddleIsHeld, ForkTypeOK
  <2> QED
    BY <1>1, <1>4 DEF ForkTypeOK, forkChainVars, FindFirstBlock, FindLastBlock, Lower, Upper
<1>5. CASE FirstBlockFound
  BY <1>1, <1>5 DEF ForkTypeOK, forkChainVars, FirstBlockFound, Starts, Searches, NoBlock
<1>6. CASE LastBlockFound \/ ForkInfoFails \/ BlockMissing
  BY <1>1, <1>6 DEF ForkTypeOK, forkChainVars, LastBlockFound, ForkInfoFails, BlockMissing,
     Searches
<1> QED
  BY <1>2, <1>3, <1>4, <1>5, <1>6

LEMMA VersionsAreInts ==
  ASSUME ForkTypeOK
  PROVE  /\ \A h \in Heights : h \in Int /\ versionAt[h] \in Int
         /\ \A h \in 0..latest : h \in Heights /\ versionAt[h] \in Int
         /\ wanted \in Int
<1>1. \A h \in Heights : versionAt[h] \in Versions
  BY DEF ForkTypeOK
<1>2. Versions \subseteq Int
  BY ForkInfoAssumption
<1>3. \A h \in 0..latest : h \in Heights
  BY DEF ForkTypeOK, Heights
<1>4. \A h \in Heights : h \in Int
  BY DEF Heights
<1> QED
  BY <1>1, <1>2, <1>3, <1>4 DEF ForkTypeOK

\* What a turn of a loop knows of the block it reads.
LEMMA TheMiddle ==
  ASSUME ForkTypeOK, HasMiddle(lower, upper), 0 <= lower, upper <= latest
  PROVE  LET middle == IncreasingMiddle(lower, upper)
         IN  /\ middle \in 0..latest /\ middle \in Int
             /\ lower < middle /\ middle <= upper
             /\ versionAt[middle] \in Int
BY MiddleIsBetween, VersionsAreInts DEF ForkTypeOK

LEMMA RequestIsSound ==
  ASSUME ForkTypeOK, NEW v \in Versions, ForkInfoRequest(v)
  PROVE  SearchIsSound'
BY DEF ForkInfoRequest, Starts, forkChainVars, ForkTypeOK, SearchIsSound, AnyRange,
   FirstRange, LastRange, Answered, NotThere, NoBlock

LEMMA AnyIsSound ==
  ASSUME ForkTypeOK, NeverLowered, SearchIsSound, FindBlockHeight
  PROVE  SearchIsSound'
<1> DEFINE middle == IncreasingMiddle(lower, upper)
<1>1. /\ AnyRange /\ search = "any" /\ HasMiddle(lower, upper)
      /\ UNCHANGED <<versionAt, wanted, latest>>
  BY DEF FindBlockHeight, MiddleIsHeld, SearchIsSound, forkChainVars
<1>2. /\ middle \in 0..latest /\ lower < middle /\ middle <= upper /\ versionAt[middle] \in Int
  BY <1>1, TheMiddle DEF AnyRange
<1>3. /\ \A h \in 0..latest : h \in Heights /\ versionAt[h] \in Int
      /\ wanted \in Int /\ lower \in Int /\ upper \in Int /\ latest \in Int
  BY VersionsAreInts DEF ForkTypeOK
<1>4. \A g, h \in 0..latest : g <= h => versionAt[g] <= versionAt[h]
  BY <1>3 DEF NeverLowered
<1>5. CASE versionAt[middle] = wanted /\ found' = middle /\ Starts("first", 0, middle)
  <2>1. /\ search' = "first" /\ lower' = 0 /\ upper' = middle /\ best' = NoBlock
        /\ found' = middle
    BY <1>5 DEF Starts
  <2>2. FirstRange'
    BY <2>1, <1>1, <1>2, <1>3, <1>5 DEF FirstRange, FoundOne, NoBlock
  <2> QED
    BY <2>1, <2>2 DEF SearchIsSound, AnyRange, LastRange, Answered, NotThere
<1>6. CASE wanted < versionAt[middle] /\ Lower(middle) /\ UNCHANGED <<search, best, found>>
  <2>1. /\ search' = "any" /\ lower' = lower /\ upper' = middle - 1 /\ best' = NoBlock
    BY <1>1, <1>6 DEF Lower, AnyRange
  <2>2. \A h \in 0..latest : h > middle - 1 => versionAt[h] > wanted
    BY <1>2, <1>3, <1>4, <1>6
  <2>3. AnyRange'
    BY <2>1, <2>2, <1>1, <1>2, <1>3 DEF AnyRange
  <2> QED
    BY <2>1, <2>3 DEF SearchIsSound, FirstRange, LastRange, Answered, NotThere
<1>7. CASE wanted > versionAt[middle] /\ Upper(middle) /\ UNCHANGED <<search, best, found>>
  <2>1. /\ search' = "any" /\ lower' = middle + 1 /\ upper' = upper /\ best' = NoBlock
    BY <1>1, <1>7 DEF Upper, AnyRange
  <2>2. \A h \in 0..latest : h < middle + 1 => versionAt[h] < wanted
    BY <1>2, <1>3, <1>4, <1>7
  <2>3. AnyRange'
    BY <2>1, <2>2, <1>1, <1>2, <1>3 DEF AnyRange
  <2> QED
    BY <2>1, <2>3 DEF SearchIsSound, FirstRange, LastRange, Answered, NotThere
<1> QED
  BY <1>5, <1>6, <1>7 DEF FindBlockHeight

LEMMA FirstIsSound ==
  ASSUME ForkTypeOK, NeverLowered, SearchIsSound, FindFirstBlock
  PROVE  SearchIsSound'
<1> DEFINE middle == IncreasingMiddle(lower, upper)
<1>1. /\ FirstRange /\ search = "first" /\ HasMiddle(lower, upper) /\ FoundOne
      /\ UNCHANGED <<versionAt, search, wanted, found, latest>>
  BY DEF FindFirstBlock, MiddleIsHeld, SearchIsSound, forkChainVars, FirstRange
<1>2. /\ \A h \in 0..latest : h \in Heights /\ versionAt[h] \in Int
      /\ wanted \in Int /\ lower \in Int /\ upper \in Int /\ latest \in Int
      /\ best \in Int /\ found \in Int
  BY VersionsAreInts DEF ForkTypeOK
<1>3. upper <= found /\ found <= latest /\ 0 <= lower
  BY <1>1, <1>2 DEF FirstRange, FoundOne
<1>4. /\ middle \in 0..latest /\ lower < middle /\ middle <= upper /\ versionAt[middle] \in Int
  BY <1>1, <1>2, <1>3, TheMiddle
<1>5. \A g, h \in 0..latest : g <= h => versionAt[g] <= versionAt[h]
  BY <1>2 DEF NeverLowered
<1>6. versionAt[middle] <= wanted
  BY <1>1, <1>2, <1>3, <1>4, <1>5 DEF FoundOne
<1>7. CASE versionAt[middle] = wanted /\ best' = middle /\ Lower(middle)
  <2>1. lower' = lower /\ upper' = middle - 1 /\ best' = middle
    BY <1>7 DEF Lower
  <2>2. FirstRange'
    BY <2>1, <1>1, <1>2, <1>3, <1>4, <1>7 DEF FirstRange, FoundOne, NoBlock
  <2> QED
    BY <2>2, <1>1 DEF SearchIsSound, AnyRange, LastRange, Answered, NotThere
<1>8. CASE versionAt[middle] < wanted /\ Upper(middle) /\ UNCHANGED best
  <2>1. lower' = middle + 1 /\ upper' = upper /\ best' = best
    BY <1>8 DEF Upper
  <2>2. \A h \in 0..latest : h < middle + 1 => versionAt[h] < wanted
    BY <1>2, <1>4, <1>5, <1>8
  <2>3. FirstRange'
    BY <2>1, <2>2, <1>1, <1>2, <1>3, <1>4 DEF FirstRange, FoundOne, NoBlock
  <2> QED
    BY <2>3, <1>1 DEF SearchIsSound, AnyRange, LastRange, Answered, NotThere
<1> QED
  BY <1>2, <1>4, <1>6, <1>7, <1>8 DEF FindFirstBlock

LEMMA LastIsSound ==
  ASSUME ForkTypeOK, NeverLowered, SearchIsSound, FindLastBlock
  PROVE  SearchIsSound'
<1> DEFINE middle == IncreasingMiddle(lower, upper)
<1>1. /\ LastRange /\ search = "last" /\ HasMiddle(lower, upper) /\ FoundOne /\ FirstIsExact
      /\ UNCHANGED <<versionAt, search, wanted, found, latest, answer>>
  BY DEF FindLastBlock, MiddleIsHeld, SearchIsSound, forkChainVars, LastRange
<1>2. /\ \A h \in 0..latest : h \in Heights /\ versionAt[h] \in Int
      /\ wanted \in Int /\ lower \in Int /\ upper \in Int /\ latest \in Int
      /\ best \in Int /\ found \in Int
  BY VersionsAreInts DEF ForkTypeOK
<1>3. found <= lower /\ 0 <= found /\ upper <= latest
  BY <1>1, <1>2 DEF LastRange, FoundOne
<1>4. /\ middle \in 0..latest /\ lower < middle /\ middle <= upper /\ versionAt[middle] \in Int
  BY <1>1, <1>2, <1>3, TheMiddle
<1>5. \A g, h \in 0..latest : g <= h => versionAt[g] <= versionAt[h]
  BY <1>2 DEF NeverLowered
<1>6. wanted <= versionAt[middle]
  BY <1>1, <1>2, <1>3, <1>4, <1>5 DEF FoundOne
<1>7. CASE versionAt[middle] = wanted /\ best' = middle /\ Upper(middle)
  <2>1. lower' = middle + 1 /\ upper' = upper /\ best' = middle
    BY <1>7 DEF Upper
  <2>2. LastRange'
    BY <2>1, <1>1, <1>2, <1>3, <1>4, <1>7 DEF LastRange, FoundOne, FirstIsExact, NoBlock
  <2> QED
    BY <2>2, <1>1 DEF SearchIsSound, AnyRange, FirstRange, Answered, NotThere
<1>8. CASE versionAt[middle] > wanted /\ Lower(middle) /\ UNCHANGED best
  <2>1. lower' = lower /\ upper' = middle - 1 /\ best' = best
    BY <1>8 DEF Lower
  <2>2. \A h \in 0..latest : h > middle - 1 => versionAt[h] > wanted
    BY <1>2, <1>4, <1>5, <1>8
  <2>3. LastRange'
    BY <2>1, <2>2, <1>1, <1>2, <1>3, <1>4 DEF LastRange, FoundOne, FirstIsExact, NoBlock
  <2> QED
    BY <2>3, <1>1 DEF SearchIsSound, AnyRange, FirstRange, Answered, NotThere
<1> QED
  BY <1>2, <1>4, <1>6, <1>7, <1>8 DEF FindLastBlock

LEMMA FirstFoundIsSound ==
  ASSUME ForkTypeOK, NeverLowered, SearchIsSound, FirstBlockFound
  PROVE  SearchIsSound'
<1>1. /\ FirstRange /\ search = "first" /\ lower > upper /\ best # NoBlock /\ FoundOne
      /\ UNCHANGED <<versionAt, wanted, found>> /\ latest' = nextHeight - 1
      /\ search' = "last" /\ lower' = found /\ upper' = nextHeight - 1 /\ best' = NoBlock
  BY DEF FirstBlockFound, SearchIsSound, forkChainVars, FirstRange, LoopEnds, Starts
<1>2. /\ \A h \in 0..latest' : h \in Heights /\ versionAt[h] \in Int
      /\ wanted \in Int /\ lower \in Int /\ upper \in Int /\ latest \in Int
      /\ best \in Int /\ found \in Int /\ nextHeight \in Int /\ latest <= latest'
  BY <1>1, VersionsAreInts DEF ForkTypeOK, Heights
<1>3. \A g, h \in 0..latest' : g <= h => versionAt[g] <= versionAt[h]
  BY <1>2 DEF NeverLowered
<1>4. answer'.first = best
  BY DEF FirstBlockFound, ForkTypeOK
<1>5. best \in 0..latest /\ versionAt[best] = wanted
  BY <1>1, <1>2 DEF FirstRange, FoundOne
<1>6. \A h \in 0..latest' : h < best => versionAt[h] < wanted
  BY <1>1, <1>2, <1>5 DEF FirstRange
<1>7. FirstIsExact'
  BY <1>1, <1>2, <1>4, <1>5, <1>6 DEF FirstIsExact
<1>8. LastRange'
  BY <1>1, <1>2, <1>7 DEF LastRange, FoundOne
<1> QED
  BY <1>1, <1>8 DEF SearchIsSound, AnyRange, FirstRange, Answered, NotThere

LEMMA LastFoundIsSound ==
  ASSUME ForkTypeOK, NeverLowered, SearchIsSound, LastBlockFound
  PROVE  SearchIsSound'
<1>1. /\ LastRange /\ search = "last" /\ lower > upper /\ best # NoBlock /\ FoundOne
      /\ FirstIsExact
      /\ UNCHANGED <<versionAt, wanted, latest>> /\ search' = "answered"
  BY DEF LastBlockFound, SearchIsSound, forkChainVars, LastRange, LoopEnds
<1>2. answer'.last = best /\ answer'.first = answer.first
  BY DEF LastBlockFound, ForkTypeOK
<1>3. /\ lower \in Int /\ upper \in Int /\ best \in Int /\ found \in Int /\ latest \in Int
  BY DEF ForkTypeOK
<1>4. best \in 0..latest /\ \A h \in 0..latest : h > best => versionAt[h] > wanted
  BY <1>1, <1>3 DEF LastRange, FoundOne
<1>5. LastIsExact' /\ FirstIsExact'
  BY <1>1, <1>2, <1>4 DEF LastRange, LastIsExact, FirstIsExact
<1> QED
  BY <1>1, <1>5 DEF SearchIsSound, AnyRange, FirstRange, LastRange, Answered, NotThere

\* A loop that knows a block of the version does not come to an empty range
\* without it.
LEMMA FailureIsSound ==
  ASSUME ForkTypeOK, NeverLowered, SearchIsSound, ForkInfoFails
  PROVE  SearchIsSound'
<1>1. /\ UNCHANGED <<versionAt, wanted, lower, upper, latest>> /\ search' = "failed"
      /\ search \in {"any", "first", "last"}
      /\ lower # upper => lower > upper /\ best = NoBlock
  BY DEF ForkInfoFails, forkChainVars, LoopFails, LoopEnds
<1>2. /\ lower \in Int /\ upper \in Int /\ found \in Int /\ latest \in Int /\ wanted \in Int
      /\ \A h \in 0..latest : versionAt[h] \in Int
  BY VersionsAreInts DEF ForkTypeOK
<1>3. CASE lower = upper
  BY <1>1, <1>3 DEF SearchIsSound, AnyRange, FirstRange, LastRange, Answered, NotThere
<1>4. CASE lower > upper /\ best = NoBlock /\ search = "any"
  <2>1. \A h \in 0..latest : h < lower \/ h > upper
    BY <1>2, <1>4
  <2>2. \A h \in 0..latest : versionAt[h] # wanted
    BY <2>1, <1>2, <1>4 DEF SearchIsSound, AnyRange
  <2> QED
    BY <2>2, <1>1 DEF SearchIsSound, AnyRange, FirstRange, LastRange, Answered, NotThere
<1>5. CASE lower > upper /\ best = NoBlock /\ search \in {"first", "last"}
  <2> FALSE
    BY <1>2, <1>5 DEF SearchIsSound, FirstRange, LastRange, FoundOne
  <2> QED
    OBVIOUS
<1> QED
  BY <1>1, <1>3, <1>4, <1>5

\* A request that ends at a block the node does not have says nothing.
LEMMA MissingIsSound ==
  ASSUME BlockMissing
  PROVE  SearchIsSound'
BY DEF BlockMissing, SearchIsSound, AnyRange, FirstRange, LastRange, Answered, NotThere

\* The chain only grows.
LEMMA ChainGrows ==
  ASSUME ForkTypeOK, NEW last \in nextHeight..(MaxBlocks - 1), ForkBlockAdded(last)
  PROVE  /\ ForkTypeOK'
         /\ \A h \in Heights : h \in Heights' /\ versionAt'[h] = versionAt[h]
         /\ \A h \in 0..latest : h \in Heights /\ versionAt'[h] = versionAt[h]
<1>1. nextHeight \in Nat /\ last \in Int /\ nextHeight <= last /\ nextHeight' = last + 1
  BY ForkInfoAssumption DEF ForkBlockAdded, ForkTypeOK
<1>2. /\ Heights' = 0..last
      /\ \A h \in 0..last : h \in Heights \/ h \in nextHeight..last
      /\ \A h \in Heights : h \in 0..last /\ h < nextHeight
      /\ \A h \in 0..last : h < nextHeight => h \in Heights
  BY <1>1 DEF Heights
<1>3. PICK newer \in [nextHeight..last -> Versions] :
        versionAt' = [h \in 0..last |-> IF h < nextHeight THEN versionAt[h] ELSE newer[h]]
  BY DEF ForkBlockAdded
<1>4. versionAt' \in [Heights' -> Versions]
  <2>1. ASSUME NEW h \in 0..last
        PROVE  (IF h < nextHeight THEN versionAt[h] ELSE newer[h]) \in Versions
    BY <1>1, <1>2 DEF ForkTypeOK
  <2> QED
    BY <2>1, <1>2, <1>3
<1>6. \A h \in Heights : h \in Heights' /\ versionAt'[h] = versionAt[h]
  BY <1>2, <1>3
<1>7. \A h \in 0..latest : h \in Heights
  BY DEF ForkTypeOK, Heights
<1>8. ForkTypeOK'
  BY <1>1, <1>4 DEF ForkBlockAdded, ForkTypeOK
<1> QED
  BY <1>6, <1>7, <1>8

LEMMA BlockKeepsSearch ==
  ASSUME ForkTypeOK, NeverLowered, SearchIsSound,
         NEW last \in nextHeight..(MaxBlocks - 1), ForkBlockAdded(last)
  PROVE  SearchIsSound'
<1>1. \A h \in 0..latest : versionAt'[h] = versionAt[h]
  BY ChainGrows
<1>2. UNCHANGED <<search, wanted, lower, upper, best, found, answer, latest>>
  BY DEF ForkBlockAdded
<1>3. AnyRange' /\ NotThere'
  BY <1>1, <1>2 DEF AnyRange, NotThere, SearchIsSound
<1>4. FoundOne => FoundOne'
  BY <1>1, <1>2 DEF FoundOne
<1>5. FirstIsExact => FirstIsExact'
  BY <1>1, <1>2 DEF FirstIsExact
<1>6. LastIsExact => LastIsExact'
  BY <1>1, <1>2 DEF LastIsExact
<1>7. found \in 0..latest /\ latest \in Int => \A h \in 0..found : h \in 0..latest
  OBVIOUS
<1>8. found \in 0..latest /\ latest \in Int => \A h \in found..latest : h \in 0..latest
  OBVIOUS
<1>9. FirstRange'
  BY <1>1, <1>2, <1>4, <1>7 DEF FirstRange, SearchIsSound, ForkTypeOK, FoundOne
<1>10. LastRange'
  BY <1>1, <1>2, <1>4, <1>5, <1>8 DEF LastRange, SearchIsSound, ForkTypeOK, FoundOne
<1>11. Answered'
  BY <1>2, <1>5, <1>6 DEF Answered, SearchIsSound
<1> QED
  BY <1>3, <1>9, <1>10, <1>11 DEF SearchIsSound

LEMMA ForkStep == ForkInv /\ [ForkNext]_forkVars => ForkInv'
<1> SUFFICES ASSUME ForkInv, [ForkNext]_forkVars PROVE ForkInv'
  OBVIOUS
<1> USE DEF ForkInv
<1>1. ASSUME NEW last \in nextHeight..(MaxBlocks - 1), ForkBlockAdded(last) PROVE ForkInv'
  <2>1. NeverLowered' => NeverLowered
    BY <1>1, ChainGrows DEF NeverLowered
  <2> QED
    BY <1>1, <2>1, ChainGrows, BlockKeepsSearch
<1>2. ASSUME UNCHANGED forkChainVars,
             \/ \E v \in Versions : ForkInfoRequest(v)
             \/ FindBlockHeight \/ FindFirstBlock \/ FirstBlockFound
             \/ FindLastBlock \/ LastBlockFound \/ ForkInfoFails \/ BlockMissing
      PROVE  ForkInv'
  <2>1. ForkTypeOK' /\ Heights' = Heights
    BY <1>2, SearchKeepsTypes
  <2>2. NeverLowered' => NeverLowered
    BY <2>1, <1>2 DEF NeverLowered, forkChainVars
  <2> QED
    BY <1>2, <2>1, <2>2, RequestIsSound, AnyIsSound, FirstIsSound, FirstFoundIsSound,
       LastIsSound, LastFoundIsSound, FailureIsSound, MissingIsSound
<1>3. ASSUME UNCHANGED <<nextHeight, versionAt, search, wanted, lower, upper, best, found,
                          answer, latest>>
      PROVE  ForkInv'
  <2>1. NeverLowered' = NeverLowered
    BY <1>3 DEF NeverLowered, Heights
  <2>2. ForkTypeOK' = ForkTypeOK
    BY <1>3 DEF ForkTypeOK, Heights
  <2>3. SearchIsSound' = SearchIsSound
    BY <1>3 DEF SearchIsSound, AnyRange, FirstRange, LastRange,
       Answered, NotThere, FoundOne, FirstIsExact, LastIsExact
  <2> QED
    BY <2>1, <2>2, <2>3
<1>4. ASSUME \/ \E v \in Versions : ForkInfoRequest(v)
             \/ FindBlockHeight \/ FindFirstBlock \/ FirstBlockFound
             \/ FindLastBlock \/ LastBlockFound \/ ForkInfoFails \/ BlockMissing
      PROVE  UNCHANGED forkChainVars
  BY <1>4 DEF ForkInfoRequest, FindBlockHeight, FindFirstBlock, FirstBlockFound,
     FindLastBlock, LastBlockFound, ForkInfoFails, BlockMissing
<1>5. CASE UNCHANGED forkVars \/ \E h \in Heights : ForkBlockFetched(h)
  BY <1>3, <1>5 DEF forkVars, forkChainVars, ForkBlockFetched
<1> QED
  BY <1>1, <1>2, <1>4, <1>5 DEF ForkNext

(* What fork-info answers is the range of blocks of the version that was     *)
(* asked for, whatever blocks come meanwhile and whichever the node lacks,   *)
(* unless an upgrade has lowered the version; and a request fails only where *)
(* there is no such block, a loop comes down to a single one, or it comes to *)
(* one that the node does not have.                                          *)
THEOREM ForkInfoAnswersExactly == ForkSpec => []ForkInfoIsExact
<1>1. ForkInv => ForkInfoIsExact
  <2> SUFFICES ASSUME ForkInv, NeverLowered PROVE ForkInfoIsExact
    BY DEF ForkInfoIsExact
  <2>1. Answered /\ NotThere
    BY DEF ForkInv, SearchIsSound
  <2>2. /\ \A h \in 0..latest : h \in Heights /\ h \in Int /\ versionAt[h] \in Int
        /\ wanted \in Int
    BY VersionsAreInts DEF ForkInv
  <2>3. ASSUME search = "answered", NEW h \in 0..latest
        PROVE  versionAt[h] = wanted <=> answer.first <= h /\ h <= answer.last
    <3>1. FirstIsExact /\ LastIsExact
      BY <2>1, <2>3 DEF Answered
    <3>2. answer.first \in 0..latest /\ answer.last \in 0..latest
      BY <3>1 DEF FirstIsExact, LastIsExact
    <3>3. versionAt[h] = wanted => answer.first <= h /\ h <= answer.last
      BY <2>2, <3>1, <3>2 DEF FirstIsExact, LastIsExact
    <3>4. ASSUME answer.first <= h, h <= answer.last PROVE versionAt[h] = wanted
      <4>1. versionAt[answer.first] <= versionAt[h] /\ versionAt[h] <= versionAt[answer.last]
        BY <2>2, <3>2, <3>4 DEF NeverLowered
      <4> QED
        BY <4>1, <2>2, <3>1 DEF FirstIsExact, LastIsExact
    <3> QED
      BY <3>3, <3>4
  <2> QED
    BY <2>1, <2>3 DEF ForkInfoIsExact, NotThere
<1> QED
  BY <1>1, ForkInitHolds, ForkStep, PTL DEF ForkSpec

-----------------------------------------------------------------------------
\* Facts about numbers and sequences.

\* A set of numbers that is bounded has a greatest one.
LEMMA GreatestNat ==
  ASSUME NEW s, s \subseteq Nat, s # {}, NEW bound \in Nat, \A n \in s : n <= bound
  PROVE  \E x \in s : \A y \in s : y <= x
<1> DEFINE R == OpToRel(<, Nat)
           t == {n \in Nat : n <= bound /\ bound - n \in s}
<1>1. IsWellFoundedOn(R, Nat) /\ \A x, y \in Nat : y < x => <<y, x>> \in R
  BY NatLessThanWellFounded DEF OpToRel
<1> HIDE DEF R
<1>2. \A n \in s : n \in Nat /\ n <= bound /\ bound - n \in t
  <2>1. ASSUME NEW n \in s PROVE n \in Nat /\ n <= bound /\ bound - n \in t
    <3>1. n \in Nat /\ n <= bound
      OBVIOUS
    <3>2. bound - n \in Nat /\ bound - n <= bound /\ bound - (bound - n) = n
      BY <3>1
    <3> QED
      BY <3>1, <3>2
  <2> QED
    BY <2>1
<1>3. t \subseteq Nat /\ t # {}
  BY <1>2
<1>4. PICK x \in t : \A y \in t : ~(<<y, x>> \in R)
  BY <1>1, <1>3, WFMin
<1>5. x \in Nat /\ x <= bound /\ bound - x \in s
  OBVIOUS
<1>6. ASSUME NEW y \in s PROVE y <= bound - x
  <2>1. y \in Nat /\ y <= bound /\ bound - y \in t
    BY <1>2
  <2>2. bound - y \in Nat
    BY <2>1
  <2>3. ~(bound - y < x)
    BY <1>1, <1>4, <1>5, <2>1, <2>2
  <2> QED
    BY <1>5, <2>1, <2>3
<1> QED
  BY <1>5, <1>6

LEMMA SetAsSeq ==
  ASSUME NEW S, IsFiniteSet(S)
  PROVE  /\ SetToSeq(S) \in Seq(S)
         /\ \A x \in S : \E i \in 1..Len(SetToSeq(S)) : SetToSeq(S)[i] = x
<1> DEFINE n == Cardinality(S)
<1>1. n \in Nat /\ Bijection(1..n, S) # {}
  BY FS_CardinalityType DEF ExistsBijection
<1>2. \E f \in [1..n -> S] : IsInjective(f)
  BY <1>1 DEF Bijection, Injection
<1>3. SetToSeq(S) \in Injection(1..n, S)
  BY <1>2 DEF SetToSeq, Injection
<1>4. IsFiniteSet(1..n) /\ Cardinality(1..n) = n
  BY <1>1, FS_Interval
<1>5. SetToSeq(S) \in Surjection(1..n, S)
  BY <1>3, <1>4, FS_Injection
<1>6. SetToSeq(S) \in [1..n -> S]
  BY <1>3 DEF Injection
<1>7. SetToSeq(S) \in Seq(S) /\ Len(SetToSeq(S)) = n
  BY <1>1, <1>6, SeqDef
<1> QED
  BY <1>5, <1>7 DEF Surjection

-----------------------------------------------------------------------------
\* Export and import.

FileRecord ==
  [kind : {"layer"}, layer : Layer] \cup [kind : {"block"}, block : DOMAIN ExportChain]
WorkItem == [do : {"process", "write"}, layer : Layer]

FileTypeOK ==
  /\ file \in Seq(FileRecord) /\ work \in Seq(WorkItem)
  /\ written \subseteq Layer
  /\ position \in Nat /\ hashes \subseteq Layer
  /\ layersIn \subseteq Layer /\ blocksIn \subseteq DOMAIN ExportChain
  /\ memory \in Nat

\* A layer is in the file before a place.
IsBefore(f, l, i) == \E j \in 1..Len(f) : j < i /\ f[j] = LayerRecord(l)

FileClosed(f) ==
  \A i \in 1..Len(f) :
    /\ f[i].kind = "layer" => \A c \in ChildrenOf[f[i].layer] : IsBefore(f, c, i)
    /\ f[i].kind = "block" => \A l \in StateOf(f[i].block) : IsBefore(f, l, i)

\* The children of a layer that is to be written are written, or come first.
ChildrenPending(stack, done) ==
  \A i \in 1..Len(stack) : stack[i].do = "write" =>
    \A c \in ChildrenOf[stack[i].layer] :
      c \in done \/ \E j \in 1..Len(stack) : j > i /\ stack[j].layer = c

StatePending(stack, done, h) ==
  \A l \in StateOf(h) : l \in done \/ \E j \in 1..Len(stack) : stack[j].layer = l

Exporting ==
  /\ exporter # "logicError"
  /\ exporter = "running" =>
       /\ curr \in DOMAIN ExportChain /\ until \in DOMAIN ExportChain /\ curr <= until
       /\ \A l \in written : IsBefore(file, l, Len(file) + 1)
       /\ ChildrenPending(work, written)
       /\ StatePending(work, written, curr)

\* What has been read of the file is in the store.
HasRead ==
  /\ hashes \subseteq layersIn
  /\ Reading =>
       /\ exporter # "running"
       /\ position \in 1..(Len(file) + 1)
       /\ \A j \in 1..Len(file) : j < position =>
            /\ file[j].kind = "layer" => file[j].layer \in hashes
            /\ file[j].kind = "block" => file[j].block \in blocksIn
       /\ importer = "adding" => position \in 1..Len(file) /\ file[position].kind = "block"

Importing ==
  /\ importer \notin {"childNotWritten", "childNotStored", "stateNotStored"}
  /\ importer = "done" =>
       /\ exporter # "running"
       /\ \A i \in 1..Len(file) :
            file[i].kind = "block" => file[i].block \in blocksIn /\ file[i].block <= memory

ImportExportInv ==
  FileTypeOK /\ FileClosed(file) /\ Exporting /\ HasRead /\ Importing /\ StoreKeptComplete

LEMMA ChainFacts ==
  /\ DOMAIN ExportChain = 1..Len(ExportChain) /\ Len(ExportChain) \in Nat
  /\ \A h \in DOMAIN ExportChain : h \in Nat \ {0} /\ h <= Len(ExportChain) /\ StateOf(h) \subseteq Layer
  /\ \A l \in Layer : ChildrenOf[l] \subseteq Layer /\ IsFiniteSet(ChildrenOf[l])
<1>1. DOMAIN ExportChain = 1..Len(ExportChain) /\ Len(ExportChain) \in Nat
  BY ImportExportAssumption
<1>2. ASSUME NEW h \in DOMAIN ExportChain PROVE StateOf(h) \subseteq Layer
  <2>1. ExportChain[h] \in [framework : Layer, app : Layer, logs : Layer,
                            signer : STRING, processor : STRING]
    BY ImportExportAssumption, <1>1, ElementOfSeq
  <2> QED
    BY <2>1 DEF StateOf
<1> QED
  BY <1>1, <1>2, ImportExportAssumption

LEMMA FileGrows ==
  ASSUME NEW f \in Seq(FileRecord), FileClosed(f), NEW r \in FileRecord,
         r.kind = "layer" => \A c \in ChildrenOf[r.layer] : IsBefore(f, c, Len(f) + 1),
         r.kind = "block" => \A l \in StateOf(r.block) : IsBefore(f, l, Len(f) + 1)
  PROVE  /\ Append(f, r) \in Seq(FileRecord) /\ FileClosed(Append(f, r))
         /\ Len(Append(f, r)) = Len(f) + 1
         /\ \A l : IsBefore(f, l, Len(f) + 1) => IsBefore(Append(f, r), l, Len(f) + 2)
         /\ \A l : r = LayerRecord(l) => IsBefore(Append(f, r), l, Len(f) + 2)
<1> DEFINE g == Append(f, r)
<1>1. /\ g \in Seq(FileRecord) /\ Len(g) = Len(f) + 1 /\ Len(f) \in Nat
      /\ \A i \in 1..Len(f) : g[i] = f[i]
      /\ g[Len(f) + 1] = r
  BY AppendProperties
<1> HIDE DEF g
<1>2. ASSUME NEW l, NEW i \in Int, i <= Len(f) + 1, IsBefore(f, l, i) PROVE IsBefore(g, l, i)
  BY <1>1, <1>2 DEF IsBefore
<1>3. \A l : IsBefore(f, l, Len(f) + 1) => IsBefore(g, l, Len(f) + 2)
  BY <1>1 DEF IsBefore
<1>4. \A l : r = LayerRecord(l) => IsBefore(g, l, Len(f) + 2)
  BY <1>1 DEF IsBefore
<1>5. ASSUME NEW i \in 1..Len(g)
      PROVE  /\ g[i].kind = "layer" => \A c \in ChildrenOf[g[i].layer] : IsBefore(g, c, i)
             /\ g[i].kind = "block" => \A l \in StateOf(g[i].block) : IsBefore(g, l, i)
  <2>1. CASE i \in 1..Len(f)
    BY <1>1, <1>2, <2>1 DEF FileClosed
  <2>2. CASE i = Len(f) + 1
    BY <1>1, <1>2, <2>2
  <2> QED
    BY <1>1, <2>1, <2>2
<1>6. FileClosed(g)
  BY <1>5 DEF FileClosed
<1> QED
  BY <1>1, <1>3, <1>4, <1>6 DEF g

LEMMA FileCutOff ==
  ASSUME NEW f \in Seq(FileRecord), FileClosed(f), NEW n \in 0..Len(f)
  PROVE  SubSeq(f, 1, n) \in Seq(FileRecord) /\ FileClosed(SubSeq(f, 1, n))
<1> DEFINE g == SubSeq(f, 1, n)
<1>1. \A i \in 1..n : f[i] \in FileRecord /\ i \in 1..Len(f)
  BY ElementOfSeq
<1>2. /\ g \in Seq(FileRecord) /\ Len(g) = n /\ n \in Nat
      /\ \A i \in 1..n : g[i] = f[i]
  BY <1>1, SubSeqProperties
<1> HIDE DEF g
<1>3. ASSUME NEW l, NEW i \in 1..n, IsBefore(f, l, i) PROVE IsBefore(g, l, i)
  BY <1>1, <1>2, <1>3 DEF IsBefore
<1>4. FileClosed(g)
  BY <1>1, <1>2, <1>3 DEF FileClosed
<1> QED
  BY <1>2, <1>4 DEF g

LEMMA WorkBegins ==
  ASSUME NEW h \in DOMAIN ExportChain, NEW done
  PROVE  /\ WorkFor(h) \in Seq(WorkItem)
         /\ ChildrenPending(WorkFor(h), done) /\ StatePending(WorkFor(h), done, h)
<1> DEFINE s == WorkFor(h)
<1>1. {ExportChain[h].framework, ExportChain[h].app, ExportChain[h].logs} \subseteq Layer
  BY ChainFacts DEF StateOf
<1>2. /\ s \in Seq(WorkItem) /\ Len(s) = 3
      /\ s[1] = ToProcess(ExportChain[h].framework) /\ s[2] = ToProcess(ExportChain[h].app)
      /\ s[3] = ToProcess(ExportChain[h].logs)
  BY <1>1 DEF WorkFor, ToProcess, WorkItem
<1> HIDE DEF s
<1>3. ChildrenPending(s, done)
  BY <1>2 DEF ChildrenPending, ToProcess
<1>4. StatePending(s, done, h)
  BY <1>2 DEF StatePending, StateOf, ToProcess
<1> QED
  BY <1>2, <1>3, <1>4 DEF s

LEMMA FrontAndLast ==
  ASSUME NEW s \in Seq(WorkItem), s # << >>
  PROVE  /\ Len(s) \in Nat \ {0}
         /\ Front(s) \in Seq(WorkItem) /\ Len(Front(s)) = Len(s) - 1
         /\ \A i \in 1..(Len(s) - 1) : Front(s)[i] = s[i]
         /\ Last(s) = s[Len(s)] /\ Last(s) \in WorkItem
<1>1. Len(s) \in Nat \ {0} /\ \A i \in 1..Len(s) : s[i] \in WorkItem
  BY EmptySeq, ElementOfSeq
<1> DEFINE n == Len(s) - 1
<1>2. n \in Int /\ \A i \in 1..n : s[i] \in WorkItem
  BY <1>1
<1>3. Front(s) = SubSeq(s, 1, n)
  BY DEF Front
<1> HIDE DEF n
<1>4. /\ SubSeq(s, 1, n) \in Seq(WorkItem)
      /\ Len(SubSeq(s, 1, n)) = IF 1 <= n THEN n - 1 + 1 ELSE 0
      /\ \A i \in 1..(n - 1 + 1) : SubSeq(s, 1, n)[i] = s[1 + i - 1]
  BY <1>2, SubSeqProperties
<1>5. n \in Nat
  BY <1>1 DEF n
<1>6. \A i \in 1..n : SubSeq(s, 1, n)[i] = s[i]
  <2>1. ASSUME NEW i \in 1..n PROVE SubSeq(s, 1, n)[i] = s[i]
    <3>1. i \in 1..(n - 1 + 1) /\ 1 + i - 1 = i
      BY <1>5
    <3> QED
      BY <3>1, <1>4
  <2> QED
    BY <2>1
<1>7. Last(s) = s[Len(s)] /\ Last(s) \in WorkItem
  BY <1>1 DEF Last
<1>8. Len(Front(s)) = n
  BY <1>3, <1>4, <1>5
<1> QED
  BY <1>1, <1>3, <1>4, <1>6, <1>7, <1>8 DEF n

\* The layer on top is written, and taken off.
LEMMA TopIsWritten ==
  ASSUME NEW s \in Seq(WorkItem), s # << >>, NEW done, NEW h, Last(s).layer \in done,
         ChildrenPending(s, done), StatePending(s, done, h)
  PROVE  ChildrenPending(Front(s), done) /\ StatePending(Front(s), done, h)
<1>1. \A j \in 1..Len(s) : s[j].layer \notin done => j \in 1..Len(Front(s))
  BY FrontAndLast
<1>2. \A i \in 1..Len(Front(s)) : i \in 1..Len(s) /\ Front(s)[i] = s[i]
  BY FrontAndLast
<1>3. ChildrenPending(Front(s), done)
  BY <1>1, <1>2 DEF ChildrenPending
<1>4. StatePending(Front(s), done, h)
  BY <1>1, <1>2 DEF StatePending
<1> QED
  BY <1>3, <1>4

LEMMA MoreIsWritten ==
  ASSUME NEW s, NEW done, NEW more, done \subseteq more, NEW h,
         ChildrenPending(s, done), StatePending(s, done, h)
  PROVE  ChildrenPending(s, more) /\ StatePending(s, more, h)
BY DEF ChildrenPending, StatePending

\* The layer on top is put back, below its children.
PutBack(s, children) ==
  Front(s) \o (<<ToWrite(Last(s).layer)>> \o [i \in DOMAIN children |-> ToProcess(children[i])])

LEMMA TopIsPutBack ==
  ASSUME NEW s \in Seq(WorkItem), s # << >>, NEW done, NEW h,
         NEW children \in Seq(Layer),
         \A c \in ChildrenOf[Last(s).layer] :
           c \in done \/ \E i \in 1..Len(children) : children[i] = c,
         ChildrenPending(s, done), StatePending(s, done, h)
  PROVE  /\ PutBack(s, children) \in Seq(WorkItem)
         /\ ChildrenPending(PutBack(s, children), done)
         /\ StatePending(PutBack(s, children), done, h)
<1> DEFINE n == Len(s)
           l == Last(s).layer
           more == [i \in DOMAIN children |-> ToProcess(children[i])]
           top == <<ToWrite(l)>> \o more
           t == PutBack(s, children)
<1>0. t = Front(s) \o top
  BY DEF PutBack
<1> HIDE DEF t
<1>1. /\ n \in Nat \ {0} /\ Front(s) \in Seq(WorkItem) /\ Len(Front(s)) = n - 1
      /\ \A i \in 1..(n - 1) : Front(s)[i] = s[i]
      /\ s[n].layer = l /\ l \in Layer
  BY FrontAndLast DEF WorkItem
<1>2. /\ more \in Seq(WorkItem) /\ Len(more) = Len(children) /\ Len(more) \in Nat
      /\ \A i \in 1..Len(more) : more[i] = ToProcess(children[i])
  <2>1. DOMAIN children = 1..Len(children) /\ Len(children) \in Nat
    OBVIOUS
  <2>2. \A i \in 1..Len(children) : ToProcess(children[i]) \in WorkItem
    BY ElementOfSeq DEF ToProcess, WorkItem
  <2>3. more \in [1..Len(children) -> WorkItem]
    BY <2>1, <2>2
  <2>4. more \in Seq(WorkItem)
    BY <2>1, <2>3, SeqDef
  <2> QED
    BY <2>1, <2>3, <2>4
<1>3. <<ToWrite(l)>> \in Seq(WorkItem) /\ Len(<<ToWrite(l)>>) = 1 /\ <<ToWrite(l)>>[1] = ToWrite(l)
  BY <1>1 DEF ToWrite, WorkItem
<1> HIDE DEF more, n, l
<1>4. /\ top \in Seq(WorkItem) /\ Len(top) = 1 + Len(children) /\ top[1] = ToWrite(l)
      /\ \A i \in 1..Len(children) : top[1 + i] = ToProcess(children[i])
  <2>1. /\ top \in Seq(WorkItem) /\ Len(top) = 1 + Len(more)
        /\ \A i \in 1..(1 + Len(more)) : top[i] = IF i <= 1 THEN <<ToWrite(l)>>[i] ELSE more[i - 1]
    <3> DEFINE one == <<ToWrite(l)>>
    <3>1. one \in Seq(WorkItem) /\ Len(one) = 1
      BY <1>3
    <3> HIDE DEF one
    <3>2. /\ one \o more \in Seq(WorkItem) /\ Len(one \o more) = Len(one) + Len(more)
          /\ \A i \in 1..(Len(one) + Len(more)) :
               (one \o more)[i] = IF i <= Len(one) THEN one[i] ELSE more[i - Len(one)]
      BY <1>2, <3>1, ConcatProperties
    <3> QED
      BY <3>1, <3>2 DEF one
  <2> QED
    BY <2>1, <1>2, <1>3
<1> HIDE DEF top
<1>5. /\ t \in Seq(WorkItem) /\ Len(t) = n + Len(children)
      /\ \A i \in 1..(n - 1) : t[i] = s[i]
      /\ t[n] = ToWrite(l)
      /\ \A i \in 1..Len(children) : t[n + i] = ToProcess(children[i])
  <2>1. /\ t \in Seq(WorkItem) /\ Len(t) = Len(Front(s)) + Len(top)
        /\ \A i \in 1..(Len(Front(s)) + Len(top)) :
             t[i] = IF i <= Len(Front(s)) THEN Front(s)[i] ELSE top[i - Len(Front(s))]
    <3>1. PICK f, g : f = Front(s) /\ g = top
      OBVIOUS
    <3>2. f \in Seq(WorkItem) /\ g \in Seq(WorkItem)
      BY <1>1, <1>4, <3>1
    <3>3. /\ f \o g \in Seq(WorkItem) /\ Len(f \o g) = Len(f) + Len(g)
          /\ \A i \in 1..(Len(f) + Len(g)) :
               (f \o g)[i] = IF i <= Len(f) THEN f[i] ELSE g[i - Len(f)]
      BY <3>2, ConcatProperties
    <3> QED
      BY <1>0, <3>1, <3>3
  <2>2. Len(children) \in Nat
    OBVIOUS
  <2>3. ASSUME NEW i \in 1..Len(children) PROVE t[n + i] = ToProcess(children[i])
    <3>1. PICK p \in Int : p = n + i
      BY <1>1
    <3>2. /\ p \in 1..(Len(Front(s)) + Len(top)) /\ ~(p <= Len(Front(s)))
          /\ p - Len(Front(s)) = 1 + i
      BY <3>1, <2>2, <1>1, <1>4
    <3>3. t[p] = top[p - Len(Front(s))]
      BY <2>1, <3>2
    <3>4. top[1 + i] = ToProcess(children[i])
      BY <1>4, Zenon
    <3> QED
      BY <3>1, <3>2, <3>3, <3>4, Zenon
  <2>4. ASSUME NEW i \in 1..(n - 1) PROVE t[i] = s[i]
    <3>1. i \in 1..(Len(Front(s)) + Len(top)) /\ i <= Len(Front(s))
      BY <2>2, <1>1, <1>4
    <3> QED
      BY <2>1, <3>1, <1>1
  <2>5. t[n] = ToWrite(l)
    <3>1. /\ n \in 1..(Len(Front(s)) + Len(top)) /\ ~(n <= Len(Front(s)))
          /\ n - Len(Front(s)) = 1
      BY <2>2, <1>1, <1>4
    <3> QED
      BY <2>1, <3>1, <1>4
  <2>6. Len(t) = n + Len(children)
    BY <2>1, <2>2, <1>1, <1>4
  <2> QED
    BY <2>1, <2>3, <2>4, <2>5, <2>6
<1>6. Len(children) \in Nat
  OBVIOUS
<1>7. \A j \in 1..n : j \in 1..Len(t) /\ t[j].layer = s[j].layer
  BY <1>1, <1>5, <1>6 DEF ToWrite
<1>8. StatePending(t, done, h)
  BY <1>7 DEF StatePending, n
<1>9. ASSUME NEW i \in 1..Len(t), t[i].do = "write", NEW c \in ChildrenOf[t[i].layer], c \notin done
      PROVE  \E j \in 1..Len(t) : j > i /\ t[j].layer = c
  <2>1. CASE i < n
    <3>1. s[i].do = "write" /\ c \in ChildrenOf[s[i].layer] /\ i \in 1..Len(s)
      BY <2>1, <1>1, <1>5, <1>9 DEF n
    <3>2. PICK j \in 1..n : j > i /\ s[j].layer = c
      BY <3>1, <1>9 DEF ChildrenPending, n
    <3> QED
      BY <3>2, <1>7
  <2>2. CASE i = n
    <3>1. c \in ChildrenOf[l]
      BY <2>2, <1>5, <1>9 DEF ToWrite
    <3>2. PICK j \in 1..Len(children) : children[j] = c
      BY <3>1, <1>9 DEF l
    <3>3. n + j \in 1..Len(t) /\ n + j > i
      BY <2>2, <1>1, <1>5, <1>6
    <3>4. t[n + j] = ToProcess(c)
      BY <3>2, <1>5, Zenon
    <3>5. t[n + j].layer = c
      BY <3>4 DEF ToProcess
    <3> QED
      BY <3>3, <3>5
  <2>3. CASE i > n
    <3>1. i - n \in 1..Len(children) /\ n + (i - n) = i
      BY <2>3, <1>1, <1>5, <1>6
    <3>2. t[n + (i - n)] = ToProcess(children[i - n])
      BY <3>1, <1>5, Zenon
    <3>3. t[i].do = "process"
      BY <3>1, <3>2 DEF ToProcess
    <3> QED
      BY <3>3, <1>9
  <2> QED
    BY <2>1, <2>2, <2>3, <1>1, <1>5, <1>6
<1>10. ChildrenPending(t, done)
  BY <1>9 DEF ChildrenPending
<1> QED
  BY <1>5, <1>8, <1>10 DEF t

\* What an export does not touch.
LEMMA ImportUntouched ==
  ASSUME ImportExportInv, UNCHANGED nodeVars, UNCHANGED hashes,
         \/ exporter = "running" /\ UNCHANGED <<importer, position>>
         \/ ~Reading /\ importer' = "idle"
  PROVE  HasRead' /\ Importing' /\ StoreKeptComplete'
<1>1. StoreKeptComplete'
  BY DEF nodeVars, StoreKeptComplete, ImportExportInv
<1>2. CASE ~Reading /\ importer' = "idle"
  BY <1>1, <1>2 DEF nodeVars, HasRead, Importing, ImportExportInv, Reading
<1>3. CASE exporter = "running" /\ UNCHANGED <<importer, position>>
  BY <1>1, <1>3 DEF nodeVars, HasRead, Importing, ImportExportInv, Reading
<1> QED
  BY <1>2, <1>3

LEMMA ExportStartsIsSound ==
  ASSUME ImportExportInv, NEW first \in DOMAIN ExportChain, NEW last \in DOMAIN ExportChain,
         first <= last, ExportStarts(first, last)
  PROVE  ImportExportInv'
<1>1. /\ exporter' = "running" /\ curr' = first /\ until' = last /\ file' = << >>
      /\ written' = {} /\ work' = WorkFor(first) /\ importer' = "idle" /\ ~Reading
      /\ UNCHANGED <<position, hashes, nodeVars>>
  BY DEF ExportStarts
<1>2. HasRead' /\ Importing' /\ StoreKeptComplete'
  BY <1>1, ImportUntouched
<1>3. FileTypeOK'
  BY <1>1, WorkBegins DEF ImportExportInv, FileTypeOK, nodeVars
<1>4. FileClosed(file')
  BY <1>1 DEF FileClosed
<1>5. Exporting'
  BY <1>1, WorkBegins DEF Exporting
<1> QED
  BY <1>2, <1>3, <1>4, <1>5 DEF ImportExportInv

LEMMA ExportProcessesIsSound ==
  ASSUME ImportExportInv, ExportProcesses
  PROVE  ImportExportInv'
<1> DEFINE l == Last(work).layer
           left == ChildrenOf[l] \ written
<1>1. /\ exporter = "running" /\ work # << >>
      /\ UNCHANGED <<file, exporter, curr, until, written, importer, position, hashes, nodeVars>>
  BY DEF ExportProcesses, Working, readerVars
<1>2. /\ work \in Seq(WorkItem) /\ written \subseteq Layer /\ curr \in DOMAIN ExportChain
      /\ ChildrenPending(work, written) /\ StatePending(work, written, curr)
  BY <1>1 DEF ImportExportInv, FileTypeOK, Exporting
<1>3. l \in Layer
  BY <1>1, <1>2, FrontAndLast DEF WorkItem
<1>4. IsFiniteSet(left) /\ left \subseteq Layer
  BY <1>3, ChainFacts, FS_Difference
<1>5. PICK children \in Seq(Layer) :
        /\ children = SetToSeq(left)
        /\ \A c \in ChildrenOf[l] : c \in written \/ \E i \in 1..Len(children) : children[i] = c
  <2>1. /\ SetToSeq(left) \in Seq(left)
        /\ \A c \in left : \E i \in 1..Len(SetToSeq(left)) : SetToSeq(left)[i] = c
    BY <1>4, SetAsSeq
  <2>2. SetToSeq(left) \in Seq(Layer)
    BY <2>1, <1>4
  <2> QED
    BY <2>1, <2>2
<1>6. work' = Front(work) \o
                 IF l \in written THEN << >>
                 ELSE <<ToWrite(l)>> \o [i \in DOMAIN children |-> ToProcess(children[i])]
  BY <1>5 DEF ExportProcesses
<1>7. /\ work' \in Seq(WorkItem)
      /\ ChildrenPending(work', written) /\ StatePending(work', written, curr)
  <2>1. CASE l \in written
    <3>1. work' = Front(work)
      BY <2>1, <1>1, <1>2, <1>6, FrontAndLast, ConcatEmptySeq
    <3> QED
      BY <2>1, <3>1, <1>1, <1>2, FrontAndLast, TopIsWritten
  <2>2. CASE l \notin written
    <3>1. work' = PutBack(work, children)
      BY <2>2, <1>6 DEF PutBack
    <3> QED
      BY <3>1, <1>1, <1>2, <1>5, TopIsPutBack
  <2> QED
    BY <2>1, <2>2
<1>8. HasRead' /\ Importing' /\ StoreKeptComplete'
  BY <1>1, ImportUntouched
<1>9. FileTypeOK' /\ FileClosed(file')
  BY <1>1, <1>7 DEF ImportExportInv, FileTypeOK, nodeVars
<1>10. Exporting'
  BY <1>1, <1>7 DEF ImportExportInv, Exporting
<1> QED
  BY <1>8, <1>9, <1>10 DEF ImportExportInv

LEMMA ExportWritesIsSound ==
  ASSUME ImportExportInv, ExportWrites
  PROVE  ImportExportInv'
<1> DEFINE l == Last(work).layer
<1>1. /\ exporter = "running" /\ work # << >> /\ Last(work).do = "write"
      /\ work' = Front(work)
      /\ UNCHANGED <<curr, until, importer, position, hashes, nodeVars>>
  BY DEF ExportWrites, Working, readerVars
<1>2. /\ work \in Seq(WorkItem) /\ written \subseteq Layer /\ curr \in DOMAIN ExportChain
      /\ ChildrenPending(work, written) /\ StatePending(work, written, curr)
      /\ \A m \in written : IsBefore(file, m, Len(file) + 1)
      /\ file \in Seq(FileRecord) /\ FileClosed(file)
  BY <1>1 DEF ImportExportInv, FileTypeOK, Exporting
<1>3. /\ l \in Layer /\ work' \in Seq(WorkItem) /\ Len(work) \in Nat \ {0}
      /\ Last(work) = work[Len(work)]
  BY <1>1, <1>2, FrontAndLast DEF WorkItem
<1>4. ChildrenOf[l] \subseteq written
  BY <1>1, <1>2, <1>3 DEF ChildrenPending
<1>5. HasRead' /\ Importing' /\ StoreKeptComplete'
  BY <1>1, ImportUntouched
<1>6. CASE l \in written /\ UNCHANGED <<file, exporter, written>>
  <2>1. ChildrenPending(work', written) /\ StatePending(work', written, curr)
    BY <1>1, <1>2, <1>6, TopIsWritten
  <2>2. FileTypeOK' /\ FileClosed(file')
    BY <1>1, <1>3, <1>6 DEF ImportExportInv, FileTypeOK, nodeVars
  <2>3. Exporting'
    BY <1>1, <1>6, <2>1 DEF ImportExportInv, Exporting
  <2> QED
    BY <1>5, <2>2, <2>3 DEF ImportExportInv
<1>7. CASE /\ l \notin written /\ file' = Append(file, LayerRecord(l))
           /\ written' = written \cup {l} /\ UNCHANGED exporter
  <2>1. LayerRecord(l) \in FileRecord
    BY <1>3 DEF LayerRecord, FileRecord
  <2>2. /\ LayerRecord(l).kind = "layer" /\ LayerRecord(l).layer = l
    BY DEF LayerRecord
  <2>3. /\ file' \in Seq(FileRecord) /\ FileClosed(file') /\ Len(file') = Len(file) + 1
        /\ \A m : IsBefore(file, m, Len(file) + 1) => IsBefore(file', m, Len(file) + 2)
        /\ IsBefore(file', l, Len(file) + 2)
    BY <1>2, <1>4, <1>7, <2>1, <2>2, FileGrows
  <2>4. ChildrenPending(work', written') /\ StatePending(work', written', curr)
    <3>1. ChildrenPending(work, written') /\ StatePending(work, written', curr)
      BY <1>2, <1>7, MoreIsWritten
    <3> QED
      BY <1>1, <1>2, <1>7, <3>1, TopIsWritten
  <2>5. Len(file) + 2 = Len(file') + 1
    BY <1>2, <2>3
  <2>6. \A m \in written' : IsBefore(file', m, Len(file') + 1)
    BY <1>2, <1>7, <2>3, <2>5
  <2>7. Exporting'
    BY <1>1, <1>7, <2>4, <2>6 DEF ImportExportInv, Exporting
  <2>8. FileTypeOK'
    BY <1>1, <1>2, <1>3, <1>7, <2>3 DEF ImportExportInv, FileTypeOK, nodeVars
  <2> QED
    BY <1>5, <2>3, <2>7, <2>8 DEF ImportExportInv
<1> QED
  BY <1>4, <1>6, <1>7 DEF ExportWrites

LEMMA ExportsBlockIsSound ==
  ASSUME ImportExportInv, ExportsBlock
  PROVE  ImportExportInv'
<1>1. /\ exporter = "running" /\ work = << >> /\ file' = Append(file, BlockRecord(curr))
      /\ UNCHANGED <<until, written, importer, position, hashes, nodeVars>>
      /\ \/ exporter' = "done" /\ UNCHANGED <<curr, work>>
         \/ curr < until /\ curr' = curr + 1 /\ work' = WorkFor(curr + 1) /\ UNCHANGED exporter
  BY DEF ExportsBlock, readerVars
<1>2. /\ curr \in DOMAIN ExportChain /\ until \in DOMAIN ExportChain /\ curr <= until
      /\ StatePending(work, written, curr) /\ Len(work) = 0
      /\ \A m \in written : IsBefore(file, m, Len(file) + 1)
      /\ file \in Seq(FileRecord) /\ FileClosed(file)
  BY <1>1 DEF ImportExportInv, FileTypeOK, Exporting
<1>3. \A l \in StateOf(curr) : IsBefore(file, l, Len(file) + 1)
  BY <1>2 DEF StatePending
<1>4. /\ BlockRecord(curr) \in FileRecord /\ BlockRecord(curr).kind = "block"
      /\ BlockRecord(curr).block = curr
  BY <1>2 DEF BlockRecord, FileRecord
<1>5. /\ file' \in Seq(FileRecord) /\ FileClosed(file') /\ Len(file') = Len(file) + 1
      /\ \A m : IsBefore(file, m, Len(file) + 1) => IsBefore(file', m, Len(file) + 2)
  BY <1>1, <1>2, <1>3, <1>4, FileGrows
<1>6. Len(file) + 2 = Len(file') + 1
  BY <1>2, <1>5
<1>7. \A m \in written' : IsBefore(file', m, Len(file') + 1)
  BY <1>1, <1>2, <1>5, <1>6
<1>8. HasRead' /\ Importing' /\ StoreKeptComplete'
  BY <1>1, ImportUntouched
<1>9. CASE exporter' = "done" /\ UNCHANGED <<curr, work>>
  <2>1. FileTypeOK'
    BY <1>1, <1>5, <1>9 DEF ImportExportInv, FileTypeOK, nodeVars
  <2> QED
    BY <1>5, <1>8, <1>9, <2>1 DEF ImportExportInv, Exporting
<1>10. CASE curr < until /\ curr' = curr + 1 /\ work' = WorkFor(curr + 1) /\ UNCHANGED exporter
  <2>1. curr' \in DOMAIN ExportChain /\ curr' <= until
    BY <1>2, <1>10, ChainFacts
  <2>2. /\ work' \in Seq(WorkItem)
        /\ ChildrenPending(work', written') /\ StatePending(work', written', curr')
    BY <1>10, <2>1, WorkBegins
  <2>3. FileTypeOK'
    BY <1>1, <1>5, <2>2 DEF ImportExportInv, FileTypeOK, nodeVars
  <2>4. Exporting'
    BY <1>1, <1>2, <1>7, <1>10, <2>1, <2>2 DEF Exporting
  <2> QED
    BY <1>5, <1>8, <2>3, <2>4 DEF ImportExportInv
<1> QED
  BY <1>1, <1>9, <1>10

LEMMA ExportBreaksOffIsSound ==
  ASSUME ImportExportInv, ExportBreaksOff
  PROVE  ImportExportInv'
<1>1. /\ exporter = "running" /\ exporter' = "stopped" /\ work' = << >>
      /\ UNCHANGED <<written, importer, position, hashes, nodeVars>>
  BY DEF ExportBreaksOff, readerVars
<1>2. PICK n \in 0..Len(file) : file' = SubSeq(file, 1, n)
  BY DEF ExportBreaksOff
<1>3. file' \in Seq(FileRecord) /\ FileClosed(file')
  BY <1>2, FileCutOff DEF ImportExportInv, FileTypeOK
<1>4. HasRead' /\ Importing' /\ StoreKeptComplete'
  BY <1>1, ImportUntouched
<1>5. FileTypeOK'
  BY <1>1, <1>3 DEF ImportExportInv, FileTypeOK, nodeVars
<1>6. Exporting'
  BY <1>1 DEF Exporting
<1> QED
  BY <1>3, <1>4, <1>5, <1>6 DEF ImportExportInv

\* What an import, and the rest of the node, do not touch.
LEMMA ExportUntouched ==
  ASSUME ImportExportInv, UNCHANGED exportVars
  PROVE  /\ FileClosed(file') /\ Exporting'
         /\ file' = file /\ exporter' = exporter /\ work' = work /\ written' = written
BY DEF exportVars, ImportExportInv, Exporting

\* What has been read is in the file, and what it needs was read before.
LEMMA ReadBefore ==
  ASSUME ImportExportInv, Reading, NEW i \in 1..Len(file), i <= position,
         NEW l, IsBefore(file, l, i)
  PROVE  l \in hashes /\ l \in layersIn
<1>1. PICK j \in 1..Len(file) : j < i /\ file[j] = LayerRecord(l)
  BY DEF IsBefore
<1>2. file[j].kind = "layer" /\ file[j].layer = l /\ j < position
  BY <1>1 DEF LayerRecord, ImportExportInv, FileTypeOK
<1> QED
  BY <1>1, <1>2 DEF ImportExportInv, HasRead

LEMMA ReadRecord ==
  ASSUME ImportExportInv, NEW i \in 1..Len(file)
  PROVE  /\ file[i].kind \in {"layer", "block"}
         /\ file[i].kind = "layer" => file[i].layer \in Layer
         /\ file[i].kind = "block" => file[i].block \in DOMAIN ExportChain
<1>1. file[i] \in FileRecord
  BY ElementOfSeq DEF ImportExportInv, FileTypeOK
<1> QED
  BY <1>1 DEF FileRecord

LEMMA ImportsLayerIsSound ==
  ASSUME ImportExportInv, ImportsLayer
  PROVE  ImportExportInv'
<1> DEFINE l == file[position].layer
<1>1. /\ importer = "reading" /\ position \in 1..Len(file) /\ file[position].kind = "layer"
      /\ UNCHANGED exportVars /\ Reading /\ position \in Nat
      /\ hashes \subseteq layersIn
  BY DEF ImportsLayer, Reads, Reading, ImportExportInv, FileTypeOK, HasRead
<1>2. l \in Layer
  BY <1>1, ReadRecord
<1>3. \A c \in ChildrenOf[l] : c \in hashes /\ c \in layersIn
  <2>1. \A c \in ChildrenOf[l] : IsBefore(file, c, position)
    BY <1>1 DEF ImportExportInv, FileClosed
  <2> QED
    BY <1>1, <2>1, ReadBefore
<1>4. /\ layersIn' = layersIn \cup {l} /\ hashes' = hashes \cup {l}
      /\ importer' = "reading" /\ position' = position + 1
      /\ blocksIn' = blocksIn /\ memory' = memory
  BY <1>3 DEF ImportsLayer, Takes, ReadOn
<1>5. /\ FileClosed(file') /\ Exporting'
      /\ file' = file /\ exporter' = exporter /\ work' = work /\ written' = written
  BY <1>1, ExportUntouched
<1>6. FileTypeOK'
  BY <1>2, <1>4, <1>5 DEF ImportExportInv, FileTypeOK
<1>7. StoreKeptComplete'
  BY <1>3, <1>4 DEF ImportExportInv, StoreKeptComplete
<1>8. Importing'
  BY <1>4 DEF Importing
<1>9. HasRead'
  <2>1. \A j \in 1..Len(file) : j < position + 1 => j < position \/ j = position
    BY <1>1
  <2>2. position + 1 \in 1..(Len(file) + 1) /\ exporter # "running"
    BY <1>1 DEF ImportExportInv, FileTypeOK, HasRead
  <2>3. \A j \in 1..Len(file) : j < position + 1 =>
          /\ file[j].kind = "layer" => file[j].layer \in hashes'
          /\ file[j].kind = "block" => file[j].block \in blocksIn'
    BY <1>1, <1>4, <2>1 DEF ImportExportInv, HasRead
  <2> QED
    BY <1>1, <1>4, <1>5, <2>2, <2>3 DEF HasRead
<1> QED
  BY <1>5, <1>6, <1>7, <1>8, <1>9 DEF ImportExportInv

\* A block that is in the store is passed.
LEMMA BlockIsPassed ==
  ASSUME ImportExportInv, Reading, position \in 1..Len(file),
         file[position].kind = "block", file[position].block \in blocksIn',
         UNCHANGED exportVars, UNCHANGED <<hashes, layersIn>>, blocksIn \subseteq blocksIn',
         importer' = "reading", position' = position + 1
  PROVE  HasRead'
<1>1. /\ file' = file /\ exporter' = exporter /\ position \in Nat /\ Len(file) \in Nat
  BY ExportUntouched DEF ImportExportInv, FileTypeOK
<1>2. \A j \in 1..Len(file) : j < position + 1 => j < position \/ j = position
  BY <1>1
<1>3. position + 1 \in 1..(Len(file) + 1) /\ exporter # "running" /\ hashes \subseteq layersIn
  BY <1>1 DEF ImportExportInv, HasRead
<1>4. \A j \in 1..Len(file) : j < position + 1 =>
        /\ file[j].kind = "layer" => file[j].layer \in hashes
        /\ file[j].kind = "block" => file[j].block \in blocksIn'
  BY <1>2 DEF ImportExportInv, HasRead
<1> QED
  BY <1>1, <1>3, <1>4 DEF HasRead

LEMMA ImportLooksIsSound ==
  ASSUME ImportExportInv, ImportLooks
  PROVE  ImportExportInv'
<1>1. /\ importer = "reading" /\ position \in 1..Len(file) /\ file[position].kind = "block"
      /\ UNCHANGED exportVars /\ Reading /\ UNCHANGED <<hashes, nodeVars>> /\ position \in Nat
      /\ \/ file[position].block \in blocksIn /\ ReadOn
         \/ importer' = "adding" /\ position' = position
  BY DEF ImportLooks, Reads, Reading, ImportExportInv, FileTypeOK
<1>2. /\ FileClosed(file') /\ Exporting'
      /\ file' = file /\ exporter' = exporter /\ work' = work /\ written' = written
  BY <1>1, ExportUntouched
<1>3. FileTypeOK' /\ StoreKeptComplete'
  BY <1>1, <1>2 DEF ImportExportInv, FileTypeOK, nodeVars, ReadOn, StoreKeptComplete
<1>4. Importing'
  BY <1>1 DEF Importing, ReadOn
<1>5. HasRead'
  <2>1. CASE file[position].block \in blocksIn /\ ReadOn
    BY <1>1, <2>1, BlockIsPassed DEF ReadOn, nodeVars
  <2>2. CASE importer' = "adding" /\ position' = position
    BY <1>1, <1>2, <2>2 DEF ImportExportInv, HasRead, nodeVars, Reading
  <2> QED
    BY <1>1, <2>1, <2>2
<1> QED
  BY <1>2, <1>3, <1>4, <1>5 DEF ImportExportInv

LEMMA ImportAddsIsSound ==
  ASSUME ImportExportInv, ImportAdds
  PROVE  ImportExportInv'
<1> DEFINE h == file[position].block
<1>1. /\ importer = "adding" /\ UNCHANGED exportVars /\ Reading
      /\ position \in 1..Len(file) /\ file[position].kind = "block"
  BY DEF ImportAdds, Reading, ImportExportInv, HasRead
<1>2. h \in DOMAIN ExportChain
  BY <1>1, ReadRecord
<1>3. StateOf(h) \subseteq layersIn
  <2>1. \A l \in StateOf(h) : IsBefore(file, l, position)
    BY <1>1 DEF ImportExportInv, FileClosed
  <2> QED
    BY <1>1, <2>1, ReadBefore DEF ImportExportInv, FileTypeOK
<1>4. /\ FileClosed(file') /\ Exporting'
      /\ file' = file /\ exporter' = exporter /\ work' = work /\ written' = written
  BY <1>1, ExportUntouched
<1>5. CASE /\ blocksIn' = blocksIn \cup {h} /\ ReadOn
           /\ UNCHANGED <<hashes, layersIn, memory>>
  <2>1. HasRead'
    BY <1>1, <1>5, BlockIsPassed DEF ReadOn
  <2>2. FileTypeOK'
    BY <1>2, <1>4, <1>5 DEF ImportExportInv, FileTypeOK, ReadOn
  <2>3. StoreKeptComplete'
    BY <1>3, <1>5 DEF ImportExportInv, StoreKeptComplete
  <2>4. Importing'
    BY <1>5 DEF Importing, ReadOn
  <2> QED
    BY <1>4, <2>1, <2>2, <2>3, <2>4 DEF ImportExportInv
<1>6. CASE ImportFails("present") \/ ImportFails("otherProcessor")
  <2>1. /\ importer' \in {"present", "otherProcessor"}
        /\ UNCHANGED <<position, hashes, layersIn, blocksIn, memory>>
    BY <1>6 DEF ImportFails, nodeVars
  <2>2. FileTypeOK' /\ StoreKeptComplete'
    BY <1>4, <2>1 DEF ImportExportInv, FileTypeOK, StoreKeptComplete
  <2>3. HasRead' /\ Importing'
    BY <2>1 DEF ImportExportInv, HasRead, Importing, Reading
  <2> QED
    BY <1>4, <2>2, <2>3 DEF ImportExportInv
<1> QED
  BY <1>3, <1>5, <1>6 DEF ImportAdds

\* The current block is the highest that is stored, or was already.
LEMMA ResyncRaises ==
  ASSUME ImportExportInv, Resyncs
  PROVE  memory' \in Nat /\ memory' >= memory /\ \A h \in blocksIn : h <= memory'
<1>1. /\ memory \in Nat /\ blocksIn \subseteq Nat
      /\ Len(ExportChain) \in Nat /\ \A h \in blocksIn : h <= Len(ExportChain)
  BY ChainFacts DEF ImportExportInv, FileTypeOK
<1>2. CASE blocksIn = {}
  BY <1>1, <1>2 DEF Resyncs
<1>3. CASE blocksIn # {}
  <2>1. \E h \in blocksIn : \A g \in blocksIn : g <= h
    BY <1>1, <1>3, GreatestNat
  <2>2. PICK highest \in blocksIn : /\ \A g \in blocksIn : g <= highest
                                    /\ memory' = IF memory < highest THEN highest ELSE memory
    BY <1>3, <2>1 DEF Resyncs
  <2>3. highest \in Nat
    BY <1>1
  <2>4. CASE memory < highest
    BY <1>1, <2>2, <2>3, <2>4
  <2>5. CASE ~(memory < highest)
    <3>1. highest <= memory /\ memory' = memory
      BY <1>1, <2>2, <2>3, <2>5
    <3>2. \A g \in blocksIn : g \in Nat /\ g <= highest
      BY <1>1, <2>2
    <3> QED
      BY <1>1, <2>3, <3>1, <3>2
  <2> QED
    BY <2>4, <2>5
<1> QED
  BY <1>2, <1>3

\* Another task of the node adds to the store.
LEMMA OthersAreSound ==
  ASSUME ImportExportInv, UNCHANGED exportVars, UNCHANGED readerVars,
         layersIn \subseteq layersIn', layersIn' \subseteq Layer,
         blocksIn \subseteq blocksIn', blocksIn' \subseteq DOMAIN ExportChain,
         memory' \in Nat, memory <= memory', StoreKeptComplete'
  PROVE  ImportExportInv'
<1>1. /\ FileClosed(file') /\ Exporting'
      /\ file' = file /\ exporter' = exporter /\ work' = work /\ written' = written
  BY ExportUntouched
<1>2. FileTypeOK'
  BY <1>1 DEF ImportExportInv, FileTypeOK, readerVars
<1>3. HasRead'
  BY <1>1 DEF ImportExportInv, HasRead, readerVars, Reading
<1>4. Importing'
  <2>1. ASSUME importer = "done", NEW i \in 1..Len(file), file[i].kind = "block"
        PROVE  file[i].block \in blocksIn' /\ file[i].block <= memory'
    <3>1. file[i].block \in blocksIn /\ file[i].block <= memory
      BY <2>1 DEF ImportExportInv, Importing
    <3>2. file[i].block \in Nat /\ memory \in Nat
      BY <2>1, ReadRecord, ChainFacts DEF ImportExportInv, FileTypeOK
    <3> QED
      BY <3>1, <3>2
  <2> QED
    BY <1>1, <2>1 DEF ImportExportInv, Importing, readerVars
<1> QED
  BY <1>1, <1>2, <1>3, <1>4 DEF ImportExportInv

LEMMA ImportEndsIsSound ==
  ASSUME ImportExportInv, ImportEnds
  PROVE  ImportExportInv'
<1>1. /\ importer = "reading" /\ position > Len(file) /\ UNCHANGED exportVars
      /\ UNCHANGED <<position, hashes, layersIn, blocksIn>>
      /\ \/ importer' = "torn" /\ memory' = memory
         \/ importer' = "done" /\ Resyncs
  BY DEF ImportEnds, ImportFails, nodeVars
<1>2. /\ FileClosed(file') /\ Exporting'
      /\ file' = file /\ exporter' = exporter /\ work' = work /\ written' = written
  BY <1>1, ExportUntouched
<1>3. FileTypeOK'
  BY <1>1, <1>2, ResyncRaises DEF ImportExportInv, FileTypeOK
<1>4. HasRead' /\ StoreKeptComplete'
  BY <1>1 DEF ImportExportInv, HasRead, StoreKeptComplete, Reading
<1>5. Importing'
  <2>1. \A i \in 1..Len(file) : file[i].kind = "block" => file[i].block \in blocksIn
    <3>1. \A i \in 1..Len(file) : i < position
      BY <1>1 DEF ImportExportInv, FileTypeOK
    <3> QED
      BY <1>1, <3>1 DEF ImportExportInv, HasRead, Reading
  <2>2. exporter # "running"
    BY <1>1 DEF ImportExportInv, HasRead, Reading
  <2>3. CASE importer' = "torn"
    BY <2>3 DEF Importing
  <2>4. CASE importer' = "done" /\ Resyncs
    BY <1>1, <1>2, <2>1, <2>2, <2>4, ResyncRaises DEF Importing
  <2> QED
    BY <1>1, <2>3, <2>4
<1> QED
  BY <1>2, <1>3, <1>4, <1>5 DEF ImportExportInv

LEMMA ImportExportStep ==
  ImportExportInv /\ [ImportExportNext]_importExportVars => ImportExportInv'
<1> SUFFICES ASSUME ImportExportInv, [ImportExportNext]_importExportVars
             PROVE  ImportExportInv'
  OBVIOUS
<1>1. CASE ImportStarts
  <2>1. /\ exporter # "running" /\ importer' = "reading" /\ position' = 1 /\ hashes' = {}
        /\ UNCHANGED <<exportVars, layersIn, blocksIn, memory>>
    BY <1>1 DEF ImportStarts, nodeVars
  <2>2. /\ FileClosed(file') /\ Exporting'
        /\ file' = file /\ exporter' = exporter /\ work' = work /\ written' = written
    BY <2>1, ExportUntouched
  <2>3. FileTypeOK' /\ StoreKeptComplete' /\ Importing'
    BY <2>1, <2>2 DEF ImportExportInv, FileTypeOK, StoreKeptComplete, Importing
  <2>4. HasRead'
    BY <2>1, <2>2 DEF ImportExportInv, FileTypeOK, HasRead
  <2> QED
    BY <2>2, <2>3, <2>4 DEF ImportExportInv
<1>2. CASE ImporterRestarts
  <2>1. /\ importer' = "idle" /\ Resyncs
        /\ UNCHANGED <<exportVars, position, hashes, layersIn, blocksIn>>
    BY <1>2 DEF ImporterRestarts
  <2>2. /\ FileClosed(file') /\ Exporting'
        /\ file' = file /\ exporter' = exporter /\ work' = work /\ written' = written
    BY <2>1, ExportUntouched
  <2>3. FileTypeOK' /\ StoreKeptComplete' /\ Importing'
    BY <2>1, <2>2, ResyncRaises DEF ImportExportInv, FileTypeOK, StoreKeptComplete, Importing
  <2>4. HasRead'
    BY <2>1 DEF ImportExportInv, HasRead, Reading
  <2> QED
    BY <2>2, <2>3, <2>4 DEF ImportExportInv
<1>3. ASSUME NEW l \in Layer, OthersStoreLayer(l) PROVE ImportExportInv'
  BY <1>3, OthersAreSound DEF OthersStoreLayer, ImportExportInv, FileTypeOK, StoreKeptComplete
<1>4. ASSUME NEW h \in DOMAIN ExportChain, OthersAddBlock(h) PROVE ImportExportInv'
  BY <1>4, OthersAreSound
  DEF OthersAddBlock, CanAddWithState, ImportExportInv, FileTypeOK, StoreKeptComplete
<1>5. CASE OthersResync
  BY <1>5, ResyncRaises, OthersAreSound
  DEF OthersResync, ImportExportInv, FileTypeOK, StoreKeptComplete
<1>6. CASE UNCHANGED importExportVars
  BY <1>6, OthersAreSound
  DEF importExportVars, nodeVars, ImportExportInv, FileTypeOK, StoreKeptComplete
<1> QED
  BY <1>1, <1>2, <1>3, <1>4, <1>5, <1>6, ExportStartsIsSound, ExportProcessesIsSound,
     ExportWritesIsSound, ExportsBlockIsSound, ExportBreaksOffIsSound,
     ImportsLayerIsSound, ImportLooksIsSound, ImportAddsIsSound, ImportEndsIsSound
  DEF ImportExportNext

(* Whatever an export has written of any chain, another node can import,      *)
(* although either may stop at any time and other tasks write to the same     *)
(* store: no layer or block is met before what it needs, an import that ends  *)
(* has all blocks, and the store is complete at any time.                     *)
THEOREM ExportsImport == ImportExportSpec => []ImportIsSound
<1>1. ImportExportInit => ImportExportInv
  BY DEF ImportExportInit, ImportExportInv, FileTypeOK, FileClosed, Exporting, HasRead,
     Importing, StoreKeptComplete, Reading
<1>2. ImportExportInv => ImportIsSound
  BY DEF ImportExportInv, ImportIsSound, FileIsImportable, Exporting, Importing, FileTypeOK
<1> QED
  BY <1>1, <1>2, ImportExportStep, PTL DEF ImportExportSpec

-----------------------------------------------------------------------------
\* Notifications.

\* A latest block that there is, when the chain has a length.
Exists(l, length) == l \in LatestBlocks /\ l.height < length

NotifyTypeOK ==
  /\ chainLength \in Nat
  /\ tip \in [Peer -> Nat] /\ \A n \in Peer : tip[n] <= chainLength
  /\ latestBlock \in [Peer -> LatestBlocks \cup {NoLatest}]
  /\ toPublish \subseteq Peer
  /\ failures \in Nat
  /\ toTell \in [block : Nat, failure : Nat, latest : BOOLEAN]
  /\ told \in [block : Nat, failure : Nat, latest : LatestBlocks \cup {NoLatest}]

LatestExist ==
  /\ \A n \in Peer : latestBlock[n] = NoLatest \/ Exists(latestBlock[n], chainLength)
  /\ \A n \in toPublish : latestBlock[n] # NoLatest
  /\ \A l \in onTheWay : Exists(l, chainLength)

\* What the client was told is where its cursors are; its latest block is not
\* ahead of what the server knows.
NotAhead(old, new) == old = NoLatest \/ old = new \/ IsLater(old, new)

InStep ==
  /\ told.block = toTell.block /\ told.failure = toTell.failure
  /\ NotAhead(told.latest, latestBlock[Server])

NotifyInv == NotifyTypeOK /\ LatestExist /\ InStep

LEMMA LaterIsTransitive ==
  ASSUME NEW a \in LatestBlocks \cup {NoLatest}, NEW b \in LatestBlocks \cup {NoLatest},
         NEW c \in LatestBlocks, NotAhead(a, b), Replaces(b, c)
  PROVE  NotAhead(a, c)
<1>1. Times \subseteq Int
  BY NotificationsAssumption
<1>2. CASE a = NoLatest
  BY <1>2 DEF NotAhead
<1>3. CASE a \in LatestBlocks /\ b = NoLatest
  <2>1. a # NoLatest /\ ~IsLater(a, b)
    BY <1>3 DEF LatestBlocks, NoLatest, IsLater
  <2> QED
    BY <2>1, <1>3 DEF NotAhead
<1>4. CASE a \in LatestBlocks /\ b \in LatestBlocks
  <2>1. b # NoLatest /\ a # NoLatest
    BY <1>4 DEF LatestBlocks, NoLatest
  <2>2. IsLater(b, c)
    BY <2>1 DEF Replaces
  <2>3. /\ a.height \in Nat /\ b.height \in Nat /\ c.height \in Nat
        /\ a.when \in Int /\ b.when \in Int /\ c.when \in Int
    BY <1>1, <1>4 DEF LatestBlocks
  <2>4. CASE a = b
    BY <2>2, <2>4 DEF NotAhead
  <2>5. CASE IsLater(a, b)
    BY <2>2, <2>3, <2>5 DEF NotAhead, IsLater
  <2> QED
    BY <2>1, <2>4, <2>5 DEF NotAhead
<1> QED
  BY <1>2, <1>3, <1>4

LEMMA LongerChain ==
  ASSUME NEW l, NEW m \in Nat, NEW n \in Nat, m <= n, Exists(l, m)
  PROVE  Exists(l, n)
BY DEF Exists, LatestBlocks

\* A node is told of a latest block that there is.
LEMMA UpdateIsSound ==
  ASSUME NotifyInv, NEW n \in Peer, NEW l, UpdateLatestBlock(n, l),
         chainLength' \in Nat, chainLength <= chainLength', Exists(l, chainLength'),
         onTheWay' = onTheWay, told' = told
  PROVE  /\ latestBlock' \in [Peer -> LatestBlocks \cup {NoLatest}]
         /\ toPublish' \subseteq Peer
         /\ toTell' \in [block : Nat, failure : Nat, latest : BOOLEAN]
         /\ LatestExist' /\ InStep'
<1>1. /\ latestBlock \in [Peer -> LatestBlocks \cup {NoLatest}] /\ toPublish \subseteq Peer
      /\ chainLength \in Nat
      /\ toTell \in [block : Nat, failure : Nat, latest : BOOLEAN]
      /\ told.latest \in LatestBlocks \cup {NoLatest}
      /\ l \in LatestBlocks /\ l # NoLatest /\ Server \in Peer
  BY NotificationsAssumption DEF NotifyInv, NotifyTypeOK, Exists, LatestBlocks, NoLatest
<1>2. /\ \A m \in Peer : latestBlock[m] = NoLatest \/ Exists(latestBlock[m], chainLength')
      /\ \A m \in onTheWay : Exists(m, chainLength')
  BY <1>1, LongerChain DEF NotifyInv, LatestExist
<1>3. CASE UNCHANGED <<latestBlock, toPublish, toTell>>
  BY <1>1, <1>2, <1>3 DEF NotifyInv, LatestExist, InStep
<1>4. CASE /\ Replaces(latestBlock[n], l)
           /\ latestBlock' = [latestBlock EXCEPT ![n] = l]
           /\ toPublish' = toPublish \cup {n}
           /\ toTell' = [toTell EXCEPT !.latest = @ \/ n = Server]
  <2>1. /\ latestBlock' \in [Peer -> LatestBlocks \cup {NoLatest}]
        /\ \A m \in Peer : latestBlock'[m] = IF m = n THEN l ELSE latestBlock[m]
    BY <1>1, <1>4
  <2>2. toTell.latest \in BOOLEAN
    BY <1>1
  <2>3. /\ toTell'.block = toTell.block /\ toTell'.failure = toTell.failure
    BY <1>1, <1>4
  <2>4. toTell' \in [block : Nat, failure : Nat, latest : BOOLEAN]
    BY <1>1, <1>4, <2>2
  <2>5. LatestExist'
    BY <1>1, <1>2, <1>4, <2>1 DEF NotifyInv, LatestExist
  <2>6. NotAhead(told.latest, latestBlock'[Server])
    <3>1. CASE n = Server
      BY <1>1, <1>4, <2>1, <3>1, LaterIsTransitive DEF NotifyInv, InStep
    <3>2. CASE n # Server
      BY <1>1, <2>1, <3>2 DEF NotifyInv, InStep
    <3> QED
      BY <3>1, <3>2
  <2>7. InStep'
    BY <2>3, <2>6 DEF NotifyInv, InStep
  <2> QED
    BY <1>1, <1>4, <2>1, <2>4, <2>5, <2>7
<1> QED
  BY <1>3, <1>4 DEF UpdateLatestBlock

LEMMA EmitIsSound ==
  ASSUME NotifyInv, NEW p \in Peer, NEW h \in Nat, Emit(p, h),
         chainLength' \in Nat, chainLength <= chainLength', h < chainLength',
         onTheWay' = onTheWay, told' = told
  PROVE  /\ latestBlock' \in [Peer -> LatestBlocks \cup {NoLatest}]
         /\ toPublish' \subseteq Peer
         /\ toTell' \in [block : Nat, failure : Nat, latest : BOOLEAN]
         /\ LatestExist' /\ InStep'
<1>1. PICK t \in Times : UpdateLatestBlock(p, [height |-> h, when |-> t])
  BY DEF Emit
<1>2. Exists([height |-> h, when |-> t], chainLength')
  BY DEF Exists, LatestBlocks
<1> QED
  BY <1>1, <1>2, UpdateIsSound

\* Nothing new about latest blocks.
LEMMA LatestKept ==
  ASSUME NotifyInv, chainLength' = chainLength, latestBlock' = latestBlock,
         toPublish' \subseteq toPublish,
         \A l \in onTheWay' : l \in onTheWay \/ \E n \in Peer : l = latestBlock[n] /\ l # NoLatest
  PROVE  LatestExist'
BY DEF NotifyInv, NotifyTypeOK, LatestExist

LEMMA NotifyStep == NotifyInv /\ [NotifyNext]_notifyVars => NotifyInv'
<1> SUFFICES ASSUME NotifyInv, [NotifyNext]_notifyVars PROVE NotifyInv'
  OBVIOUS
<1> USE DEF NotifyInv
<1>0. Server \in Peer /\ BlockProducer \subseteq Peer
  BY NotificationsAssumption
<1>1. ASSUME NEW p \in BlockProducer, ProduceBlock(p) PROVE NotifyInv'
  <2>1. /\ p \in Peer /\ chainLength \in Nat /\ chainLength' = chainLength + 1
        /\ tip' = [tip EXCEPT ![p] = @ + 1] /\ tip[p] = chainLength
        /\ Emit(p, chainLength)
        /\ onTheWay' = onTheWay /\ told' = told /\ failures' = failures
    BY <1>0, <1>1 DEF ProduceBlock, NotifyTypeOK
  <2>2. /\ chainLength' \in Nat /\ chainLength <= chainLength' /\ chainLength < chainLength'
    BY <2>1
  <2>3. tip' \in [Peer -> Nat] /\ \A n \in Peer : tip'[n] <= chainLength'
    BY <2>1 DEF NotifyTypeOK
  <2>4. /\ latestBlock' \in [Peer -> LatestBlocks \cup {NoLatest}]
        /\ toPublish' \subseteq Peer
        /\ toTell' \in [block : Nat, failure : Nat, latest : BOOLEAN]
        /\ LatestExist' /\ InStep'
    BY <2>1, <2>2, EmitIsSound
  <2> QED
    BY <2>1, <2>2, <2>3, <2>4 DEF NotifyTypeOK
<1>2. ASSUME NEW p \in BlockProducer, EmitLatest(p) PROVE NotifyInv'
  <2>1. /\ p \in Peer /\ chainLength \in Nat /\ tip[p] \in Nat /\ tip[p] <= chainLength
        /\ tip[p] > 0 /\ Emit(p, tip[p] - 1) /\ chainLength' = chainLength
        /\ tip' = tip /\ onTheWay' = onTheWay /\ told' = told /\ failures' = failures
    BY <1>0, <1>2 DEF EmitLatest, NotifyTypeOK
  <2>2. tip[p] - 1 \in Nat /\ tip[p] - 1 < chainLength' /\ chainLength <= chainLength'
    BY <2>1
  <2>3. /\ latestBlock' \in [Peer -> LatestBlocks \cup {NoLatest}]
        /\ toPublish' \subseteq Peer
        /\ toTell' \in [block : Nat, failure : Nat, latest : BOOLEAN]
        /\ LatestExist' /\ InStep'
    BY <2>1, <2>2, EmitIsSound
  <2> QED
    BY <2>1, <2>3 DEF NotifyTypeOK
<1>3. ASSUME NEW n \in Peer, ReceiveLatest(n) PROVE NotifyInv'
  <2>1. PICK l \in onTheWay : UpdateLatestBlock(n, l)
    BY <1>3 DEF ReceiveLatest
  <2>2. /\ chainLength \in Nat /\ chainLength' = chainLength /\ chainLength <= chainLength'
        /\ tip' = tip /\ onTheWay' = onTheWay /\ told' = told /\ failures' = failures
        /\ Exists(l, chainLength')
    BY <1>3 DEF ReceiveLatest, NotifyTypeOK, LatestExist
  <2>3. /\ latestBlock' \in [Peer -> LatestBlocks \cup {NoLatest}]
        /\ toPublish' \subseteq Peer
        /\ toTell' \in [block : Nat, failure : Nat, latest : BOOLEAN]
        /\ LatestExist' /\ InStep'
    BY <2>1, <2>2, UpdateIsSound
  <2> QED
    BY <2>2, <2>3 DEF NotifyTypeOK
<1>4. ASSUME NEW n \in Peer, GetsBlocks(n) PROVE NotifyInv'
  <2>1. PICK h \in 1..chainLength : tip' = [tip EXCEPT ![n] = h]
    BY <1>4 DEF GetsBlocks
  <2>2. UNCHANGED <<chainLength, latestBlock, toPublish, onTheWay, failures, toTell, told>>
    BY <1>4 DEF GetsBlocks, clientVars
  <2>3. tip' \in [Peer -> Nat] /\ \A m \in Peer : tip'[m] <= chainLength
    BY <2>1 DEF NotifyTypeOK
  <2> QED
    BY <2>2, <2>3, LatestKept DEF NotifyTypeOK, InStep
<1>5. ASSUME NEW n \in Peer, PublishLatest(n) \/ PeerConnects(n) PROVE NotifyInv'
  <2>1. /\ UNCHANGED <<chainLength, tip, latestBlock, failures, toTell, told>>
        /\ onTheWay' = onTheWay \cup {latestBlock[n]} /\ toPublish' \subseteq toPublish
        /\ latestBlock[n] # NoLatest
    BY <1>5 DEF PublishLatest, PeerConnects, clientVars, LatestExist
  <2>2. LatestExist'
    BY <2>1, LatestKept
  <2> QED
    BY <2>1, <2>2 DEF NotifyTypeOK, InStep
<1>6. ASSUME UNCHANGED networkVars, failures' \in Nat,
             toTell' \in [block : Nat, failure : Nat, latest : BOOLEAN],
             told' \in [block : Nat, failure : Nat, latest : LatestBlocks \cup {NoLatest}],
             told'.block = toTell'.block, told'.failure = toTell'.failure,
             told'.latest \in {told.latest, latestBlock[Server], NoLatest}
      PROVE  NotifyInv'
  <2>1. LatestExist'
    BY <1>6, LatestKept DEF networkVars
  <2>2. InStep'
    BY <1>6 DEF networkVars, InStep, NotAhead
  <2> QED
    BY <1>6, <2>1, <2>2 DEF networkVars, NotifyTypeOK
<1>7. CASE FailureAnnounced \/ ClientCloses \/ NoticeLatest \/ UNCHANGED notifyVars
  <2>1. /\ UNCHANGED networkVars /\ failures' \in Nat /\ told' = told
        /\ toTell' = toTell \/ toTell' = [toTell EXCEPT !.latest = FALSE]
    BY <1>7 DEF FailureAnnounced, ClientCloses, NoticeLatest, notifyVars, clientVars, NotifyTypeOK
  <2>2. /\ toTell' \in [block : Nat, failure : Nat, latest : BOOLEAN]
        /\ toTell'.block = toTell.block /\ toTell'.failure = toTell.failure
    BY <2>1 DEF NotifyTypeOK
  <2> QED
    BY <1>6, <2>1, <2>2 DEF NotifyTypeOK, InStep
<1>8. CASE ClientConnects
  <2>1. tip[Server] \in Nat /\ failures \in Nat
    BY <1>0 DEF NotifyTypeOK
  <2> QED
    BY <1>6, <1>8, <2>1 DEF ClientConnects
<1>9. CASE TellBlock \/ TellFailure
  <2>1. /\ UNCHANGED <<networkVars, failures>>
        /\ \/ /\ toTell' = [toTell EXCEPT !.block = @ + 1]
              /\ told' = [told EXCEPT !.block = toTell.block + 1]
           \/ /\ toTell' = [toTell EXCEPT !.failure = @ + 1]
              /\ told' = [told EXCEPT !.failure = toTell.failure + 1]
    BY <1>9 DEF TellBlock, TellFailure
  <2>2. /\ toTell' \in [block : Nat, failure : Nat, latest : BOOLEAN]
        /\ told' \in [block : Nat, failure : Nat, latest : LatestBlocks \cup {NoLatest}]
        /\ told'.block = toTell'.block /\ told'.failure = toTell'.failure
        /\ told'.latest = told.latest
    BY <2>1 DEF NotifyTypeOK, InStep
  <2> QED
    BY <1>6, <2>1, <2>2 DEF NotifyTypeOK
<1>10. CASE TellLatest
  <2>1. /\ UNCHANGED <<networkVars, failures, toTell>>
        /\ told' = [told EXCEPT !.latest = latestBlock[Server]]
    BY <1>10 DEF TellLatest
  <2>2. latestBlock[Server] \in LatestBlocks \cup {NoLatest}
    BY <1>0 DEF NotifyTypeOK
  <2>3. /\ told' \in [block : Nat, failure : Nat, latest : LatestBlocks \cup {NoLatest}]
        /\ told'.block = told.block /\ told'.failure = told.failure
        /\ told'.latest = latestBlock[Server]
    BY <2>1, <2>2 DEF NotifyTypeOK
  <2> QED
    BY <1>6, <2>1, <2>3 DEF NotifyTypeOK, InStep
<1> QED
  BY <1>1, <1>2, <1>3, <1>4, <1>5, <1>7, <1>8, <1>9, <1>10 DEF NotifyNext

LEMMA NotifyInvariant == NotifySpec => []NotifyInv
<1>1. NotifyInit => NotifyInv
  BY NotificationsAssumption
  DEF NotifyInit, NotifyInv, NotifyTypeOK, LatestExist, InStep, NotAhead
<1> QED
  BY <1>1, NotifyStep, PTL DEF NotifySpec

\* What a step tells a client that stays.
LEMMA StepTellsInOrder ==
  ASSUME NotifyInv, NotifyNext, client = "open", client' = "open"
  PROVE  Follows(told, told')
<1>1. Server \in Peer /\ told \in [block : Nat, failure : Nat, latest : LatestBlocks \cup {NoLatest}]
  BY NotificationsAssumption DEF NotifyInv, NotifyTypeOK
<1>2. CASE TellBlock \/ TellFailure
  <2>1. /\ \/ told' = [told EXCEPT !.block = toTell.block + 1]
           \/ told' = [told EXCEPT !.failure = toTell.failure + 1]
        /\ told.block = toTell.block /\ told.failure = toTell.failure
    BY <1>2 DEF TellBlock, TellFailure, NotifyInv, InStep
  <2> QED
    BY <1>1, <2>1 DEF Follows
<1>3. CASE TellLatest
  <2>1. /\ told' = [told EXCEPT !.latest = latestBlock[Server]] /\ chainLength' = chainLength
    BY <1>3 DEF TellLatest, networkVars
  <2>2. /\ told'.block = told.block /\ told'.failure = told.failure
        /\ told'.latest = latestBlock[Server]
    BY <1>1, <2>1
  <2>3. NotAhead(told.latest, latestBlock[Server])
    BY DEF NotifyInv, InStep
  <2>4. latestBlock[Server] = NoLatest \/ Exists(latestBlock[Server], chainLength)
    BY <1>1 DEF NotifyInv, LatestExist
  <2>5. CASE latestBlock[Server] = NoLatest
    <3>1. told.latest = NoLatest
      BY <1>1, <2>3, <2>5 DEF NotAhead, IsLater, NoLatest, LatestBlocks
    <3> QED
      BY <2>2, <2>5, <3>1 DEF Follows
  <2>6. CASE Exists(latestBlock[Server], chainLength)
    <3>1. latestBlock[Server].height < chainLength'
      BY <2>1, <2>6 DEF Exists
    <3> QED
      BY <2>2, <2>3, <3>1 DEF NotAhead, Follows
  <2> QED
    BY <2>4, <2>5, <2>6
<1>4. ASSUME told' = told PROVE Follows(told, told')
  BY <1>4 DEF Follows
<1>5. ASSUME ~TellBlock, ~TellFailure, ~TellLatest PROVE told' = told
  BY <1>5 DEF NotifyNext, ProduceBlock, EmitLatest, GetsBlocks, PublishLatest, PeerConnects,
     ReceiveLatest, FailureAnnounced, ClientConnects, ClientCloses, NoticeLatest, clientVars
<1> QED
  BY <1>2, <1>3, <1>4, <1>5

(* As long as a client stays, it is told of every block and failure in turn,   *)
(* and of latest blocks that exist and go back neither in height nor in time,  *)
(* for every set of nodes and processors, with clocks that show anything, and  *)
(* in whatever order and how often what they say arrives.                      *)
THEOREM TellsInOrder == NotifySpec => ToldInOrder
<1>1. NotifyInv /\ [NotifyNext]_notifyVars =>
        [client = "open" /\ client' = "open" => Follows(told, told')]_notifyVars
  BY StepTellsInOrder
<1> QED
  BY <1>1, NotifyInvariant, PTL DEF NotifySpec, ToldInOrder

-----------------------------------------------------------------------------
\* The cache of locked values.

\* A set of numbers has a least one.
LEMMA LeastNat ==
  ASSUME NEW s, s \subseteq Nat, s # {}
  PROVE  \E x \in s : \A y \in s : x <= y
<1> DEFINE R == OpToRel(<, Nat)
<1>1. IsWellFoundedOn(R, Nat) /\ \A x, y \in Nat : y < x => <<y, x>> \in R
  BY NatLessThanWellFounded DEF OpToRel
<1> HIDE DEF R
<1>2. PICK x \in s : \A y \in s : ~(<<y, x>> \in R)
  BY <1>1, WFMin
<1>3. ASSUME NEW y \in s PROVE x <= y
  <2>1. x \in Nat /\ y \in Nat
    OBVIOUS
  <2>2. ~(y < x)
    BY <1>1, <1>2, <2>1
  <2> QED
    BY <2>1, <2>2
<1> QED
  BY <1>3

\* A number for a new cell is free.
LEMMA FirstFreeIsFree ==
  ASSUME NEW taken, IsFiniteSet(taken)
  PROVE  FirstFree(taken) \in Nat /\ FirstFree(taken) \notin taken
<1>1. PICK n \in Nat : n = Cardinality(taken)
  BY FS_CardinalityType
<1>2. PICK free : free = {a \in 1..(n + 1) : a \notin taken}
  OBVIOUS
<1>3. free # {}
  <2>1. CASE free = {}
    <3>1. 1..(n + 1) \in SUBSET taken
      BY <1>2, <2>1
    <3>2. Cardinality(1..(n + 1)) <= n
      BY <1>1, <3>1, FS_Subset
    <3>3. Cardinality(1..(n + 1)) = n + 1
      BY FS_Interval
    <3> QED
      BY <3>2, <3>3
  <2> QED
    BY <2>1
<1>4. PICK a \in free : \A b \in free : a <= b
  BY <1>2, <1>3, LeastNat
<1>5. \A b \in 1..(a - 1) : b \in taken
  BY <1>2, <1>4
<1>6. \E c \in 1..(n + 1) : c \notin taken /\ \A b \in 1..(c - 1) : b \in taken
  BY <1>2, <1>4, <1>5
<1> QED
  BY <1>1, <1>6 DEF FirstFree

KeyAndValue == [key : Nat \cup {NoArc}, value : Nat]

CacheTypeOK ==
  /\ entry \in [key : Nat, value : Nat] \cup {NoEntry}
  /\ at \in [Threads -> {"idle", "open", "missed", "locked", "removing", "releasing"}]
  /\ inner \in [Threads -> Nat \cup {NoArc}]
  /\ lock \in [Threads -> KeyAndValue \cup {NoLock}]

HasKey(t, k) == lock[t] # NoLock /\ lock[t].key = k

\* What a thread has of its Locked.
StagesOK ==
  \A t \in Threads :
    /\ at[t] \in {"idle", "open", "missed"} => lock[t] = NoLock
    /\ at[t] = "locked" => lock[t] # NoLock /\ lock[t].key \in Nat
    /\ at[t] \in {"removing", "releasing"} => HasKey(t, NoArc)
    /\ at[t] \in {"open", "missed"} => inner[t] \in Nat

\* A key comes with one value.
KeysOK ==
  /\ \A t, u \in Threads :
       lock[t] # NoLock /\ lock[t].key \in Nat /\ HasKey(u, lock[t].key)
         => lock[t].value = lock[u].value
  /\ entry # NoEntry =>
       \A t \in Threads : HasKey(t, entry.key) => lock[t].value = entry.value

\* Somebody holds the key of the entry, or is about to remove it and holds its value.
Held ==
  entry # NoEntry =>
    \E t \in Threads : HasKey(t, entry.key) \/ (at[t] = "removing" /\ lock[t].value = entry.value)

CacheInv == CacheTypeOK /\ StagesOK /\ KeysOK /\ Held

LEMMA NewKeyIsNew ==
  ASSUME CacheTypeOK
  PROVE  /\ NewKey \in Nat
         /\ \A t \in Threads : lock[t] # NoLock => lock[t].key # NewKey
<1>1. PICK f : f = [t \in Threads |-> IF lock[t] = NoLock THEN NoArc ELSE lock[t].key]
  OBVIOUS
<1>2. PICK T : T = {f[t] : t \in Threads}
  OBVIOUS
<1>3. IsFiniteSet(T)
  <2>1. f \in Surjection(Threads, T)
    BY <1>1, <1>2 DEF Surjection
  <2> QED
    BY <2>1, FS_Surjection, MerkleCacheAssumption
<1>4. PICK ks : ks = {l.key : l \in Locks} \ {NoArc}
  OBVIOUS
<1>5. IsFiniteSet(T \cup {entry.key})
  BY <1>3, FS_AddElement
<1>6. ks \in SUBSET (T \cup {entry.key})
  <2>1. ASSUME NEW l \in Locks PROVE l.key \in T \cup {entry.key}
    <3>1. CASE \E t \in Threads : lock[t] # NoLock /\ l = lock[t]
      BY <1>1, <1>2, <3>1
    <3>2. CASE l = entry
      BY <3>2
    <3> QED
      BY <3>1, <3>2 DEF Locks
  <2> QED
    BY <1>4, <2>1
<1>7. IsFiniteSet(ks)
  BY <1>5, <1>6, FS_Subset
<1>8. NewKey \in Nat /\ NewKey \notin ks
  BY <1>4, <1>7, FirstFreeIsFree DEF NewKey
<1>9. ASSUME NEW t \in Threads, lock[t] # NoLock PROVE lock[t].key # NewKey
  <2>1. lock[t] \in Locks
    BY <1>9 DEF Locks
  <2> QED
    BY <1>4, <1>8, <2>1, MerkleCacheAssumption
<1> QED
  BY <1>8, <1>9

LEMMA NewValueIsNumber ==
  ASSUME CacheTypeOK
  PROVE  NewValue \in Nat
<1>1. PICK f : f = [t \in Threads |-> IF lock[t] = NoLock THEN NoArc ELSE lock[t].value]
  OBVIOUS
<1>2. PICK T, I : T = {f[t] : t \in Threads} /\ I = {inner[t] : t \in Threads}
  OBVIOUS
<1>3. IsFiniteSet(T) /\ IsFiniteSet(I)
  <2>1. f \in Surjection(Threads, T) /\ inner \in Surjection(Threads, I)
    BY <1>1, <1>2 DEF Surjection, CacheTypeOK
  <2> QED
    BY <2>1, FS_Surjection, MerkleCacheAssumption
<1>4. PICK vs : vs = ({l.value : l \in Locks} \cup {inner[t] : t \in Threads}) \ {NoArc}
  OBVIOUS
<1>5. IsFiniteSet((T \cup {entry.value}) \cup I)
  BY <1>3, FS_AddElement, FS_Union
<1>6. vs \in SUBSET ((T \cup {entry.value}) \cup I)
  <2>1. ASSUME NEW l \in Locks PROVE l.value \in T \cup {entry.value}
    <3>1. CASE \E t \in Threads : lock[t] # NoLock /\ l = lock[t]
      BY <1>1, <1>2, <3>1
    <3>2. CASE l = entry
      BY <3>2
    <3> QED
      BY <3>1, <3>2 DEF Locks
  <2> QED
    BY <1>2, <1>4, <2>1
<1> QED
  BY <1>4, <1>5, <1>6, FS_Subset, FirstFreeIsFree DEF NewValue

LEMMA CacheStarts == CacheInit => CacheInv
<1> SUFFICES ASSUME CacheInit PROVE CacheInv
  OBVIOUS
<1> USE DEF CacheInit
<1>1. CacheTypeOK
  BY DEF CacheTypeOK
<1>2. StagesOK
  BY DEF StagesOK
<1>3. KeysOK
  BY DEF KeysOK
<1>4. Held
  BY DEF Held
<1> QED
  BY <1>1, <1>2, <1>3, <1>4 DEF CacheInv

\* Neither of the two marks for nothing is a key with a value.
LEMMA NotALock == NoLock \notin KeyAndValue /\ NoEntry \notin KeyAndValue /\ NoArc \notin Nat
  BY MerkleCacheAssumption DEF KeyAndValue

LEMMA MakeIsSound ==
  ASSUME CacheInv, NEW t \in Threads, Make(t) PROVE CacheInv'
<1>1. NewValue \in Nat
  BY NewValueIsNumber DEF CacheInv
<1>2. CacheTypeOK'
  BY <1>1 DEF CacheInv, CacheTypeOK, Make
<1>3. StagesOK'
  BY <1>1 DEF CacheInv, CacheTypeOK, StagesOK, HasKey, Make
<1>4. KeysOK'
  BY DEF CacheInv, KeysOK, HasKey, Make
<1>5. Held'
  BY DEF CacheInv, CacheTypeOK, Held, HasKey, Make
<1> QED
  BY <1>2, <1>3, <1>4, <1>5 DEF CacheInv

LEMMA RemoveEntryIsSound ==
  ASSUME CacheInv, NEW t \in Threads, RemoveEntry(t) PROVE CacheInv'
<1>1. CacheTypeOK'
  BY DEF CacheInv, CacheTypeOK, RemoveEntry
<1>2. StagesOK'
  BY DEF CacheInv, CacheTypeOK, StagesOK, HasKey, RemoveEntry
<1>3. KeysOK'
  BY DEF CacheInv, KeysOK, HasKey, RemoveEntry
<1>4. Held'
  BY DEF Held, RemoveEntry
<1> QED
  BY <1>1, <1>2, <1>3, <1>4 DEF CacheInv

LEMMA ReleaseIsSound ==
  ASSUME CacheInv, NEW t \in Threads, Release(t) PROVE CacheInv'
<1>1. lock[t] # NoLock /\ lock[t].key = NoArc
  BY DEF CacheInv, StagesOK, HasKey, Release
<1>2. CacheTypeOK'
  BY DEF CacheInv, CacheTypeOK, Release
<1>3. StagesOK'
  BY DEF CacheInv, CacheTypeOK, StagesOK, HasKey, Release
<1>4. KeysOK'
  BY DEF CacheInv, CacheTypeOK, KeysOK, HasKey, Release
<1>5. Held'
  BY <1>1, NotALock DEF CacheInv, CacheTypeOK, Held, HasKey, Release
<1> QED
  BY <1>2, <1>3, <1>4, <1>5 DEF CacheInv

\* A thread takes the entry, whose key somebody holds.
LEMMA TakingEntryIsSound ==
  ASSUME CacheInv, NEW t \in Threads, Hit, lock[t] = NoLock,
         lock' = [lock EXCEPT ![t] = entry], at' = [at EXCEPT ![t] = "locked"],
         entry' = entry, inner' \in [Threads -> Nat \cup {NoArc}],
         \A u \in Threads \ {t} : inner'[u] = inner[u]
  PROVE  CacheInv'
<1>1. entry # NoEntry /\ entry \in KeyAndValue /\ entry.key \in Nat
  BY DEF CacheInv, CacheTypeOK, Hit, KeyAndValue
<1>2. entry # NoLock
  BY <1>1, NotALock
<1>3. CacheTypeOK'
  BY <1>1 DEF CacheInv, CacheTypeOK
<1>4. StagesOK'
  BY <1>1, <1>2 DEF CacheInv, CacheTypeOK, StagesOK, HasKey
<1>5. PICK v \in Threads : HasKey(v, entry.key)
  BY DEF Hit, KeyIsHeld, HasKey
<1>6. KeysOK'
  BY <1>1, <1>2, <1>5 DEF CacheInv, CacheTypeOK, KeysOK, HasKey
<1>7. Held'
  BY <1>1, <1>2 DEF CacheInv, CacheTypeOK, Held, HasKey
<1> QED
  BY <1>3, <1>4, <1>6, <1>7 DEF CacheInv

LEMMA LoadCachedIsSound ==
  ASSUME CacheInv, NEW t \in Threads, LoadCached(t) PROVE CacheInv'
<1>1. lock[t] = NoLock /\ inner \in [Threads -> Nat \cup {NoArc}]
  BY DEF CacheInv, CacheTypeOK, StagesOK, LoadCached
<1> QED
  BY <1>1, TakingEntryIsSound DEF LoadCached

LEMMA LookUpIsSound ==
  ASSUME CacheInv, NEW t \in Threads, LookUp(t) PROVE CacheInv'
<1>1. lock[t] = NoLock /\ inner[t] \in Nat /\ inner \in [Threads -> Nat \cup {NoArc}]
      /\ lock \in [Threads -> KeyAndValue \cup {NoLock}]
  BY DEF CacheInv, CacheTypeOK, StagesOK, LookUp
<1>2. CASE Hit
  <2>1. inner' = [inner EXCEPT ![t] = NoArc] /\ lock' = [lock EXCEPT ![t] = entry]
        /\ at' = [at EXCEPT ![t] = "locked"] /\ entry' = entry
    BY <1>2 DEF LookUp
  <2>2. inner' \in [Threads -> Nat \cup {NoArc}] /\ \A u \in Threads \ {t} : inner'[u] = inner[u]
    BY <1>1, <2>1
  <2> QED
    BY <1>1, <1>2, <2>1, <2>2, TakingEntryIsSound
<1>3. CASE ~Hit
  <2>1. inner' = inner /\ lock' = lock /\ at' = [at EXCEPT ![t] = "missed"] /\ entry' = entry
    BY <1>1, <1>3 DEF LookUp
  <2>2. CacheTypeOK'
    BY <2>1 DEF CacheInv, CacheTypeOK
  <2>3. StagesOK'
    BY <1>1, <2>1 DEF CacheInv, CacheTypeOK, StagesOK, HasKey
  <2>4. KeysOK'
    BY <2>1 DEF CacheInv, KeysOK, HasKey
  <2>5. Held'
    BY <2>1 DEF CacheInv, CacheTypeOK, Held, HasKey, LookUp
  <2> QED
    BY <2>2, <2>3, <2>4, <2>5 DEF CacheInv
<1> QED
  BY <1>2, <1>3

LEMMA EnterIsSound ==
  ASSUME CacheInv, NEW t \in Threads, Enter(t) PROVE CacheInv'
<1>1. /\ lock[t] = NoLock /\ inner[t] \in Nat /\ inner \in [Threads -> Nat \cup {NoArc}]
      /\ lock \in [Threads -> KeyAndValue \cup {NoLock}]
  BY DEF CacheInv, CacheTypeOK, StagesOK, Enter
<1>2. inner' \in [Threads -> Nat \cup {NoArc}] /\ \A u \in Threads \ {t} : inner'[u] = inner[u]
  BY <1>1 DEF Enter
<1>3. CASE Hit
  <2>1. entry' = entry
    BY <1>3 DEF Enter
  <2> QED
    BY <1>1, <1>2, <1>3, <2>1, TakingEntryIsSound DEF Enter
<1>4. CASE ~Hit
  <2>1. PICK e : e = [key |-> NewKey, value |-> inner[t]]
    OBVIOUS
  <2>2. entry' = e /\ lock' = [lock EXCEPT ![t] = e] /\ at' = [at EXCEPT ![t] = "locked"]
    BY <1>4, <2>1 DEF Enter
  <2>3. NewKey \in Nat /\ \A u \in Threads : lock[u] # NoLock => lock[u].key # NewKey
    BY NewKeyIsNew DEF CacheInv
  <2>4. e \in [key : Nat, value : Nat] /\ e \in KeyAndValue /\ e.key = NewKey
    BY <1>1, <2>1, <2>3 DEF KeyAndValue
  <2>5. e # NoLock /\ e # NoEntry
    BY <2>4, NotALock
  <2>6. \A u \in Threads : lock'[u] = IF u = t THEN e ELSE lock[u]
    BY <1>1, <2>2
  <2>7. CacheTypeOK'
    BY <1>1, <1>2, <2>2, <2>4 DEF CacheInv, CacheTypeOK
  <2>8. StagesOK'
    BY <1>2, <2>2, <2>3, <2>4, <2>5, <2>6 DEF CacheInv, CacheTypeOK, StagesOK, HasKey
  <2>9. KeysOK'
    BY <2>2, <2>3, <2>4, <2>6 DEF CacheInv, KeysOK, HasKey
  <2>10. Held'
    BY <2>2, <2>4, <2>5, <2>6 DEF Held, HasKey
  <2> QED
    BY <2>7, <2>8, <2>9, <2>10 DEF CacheInv
<1> QED
  BY <1>3, <1>4

LEMMA DropKeyIsSound ==
  ASSUME CacheInv, NEW t \in Threads, DropKey(t) PROVE CacheInv'
<1>1. PICK old : old = lock[t]
  OBVIOUS
<1>2. PICK new : new = [old EXCEPT !.key = NoArc]
  OBVIOUS
<1>3. PICK stage : /\ stage = IF \E u \in Threads \ {t} : HasKey(u, old.key)
                               THEN "releasing" ELSE "removing"
                   /\ at' = [at EXCEPT ![t] = stage]
  BY <1>1 DEF DropKey, HasKey
<1>4. /\ old \in KeyAndValue /\ old # NoLock /\ old.key \in Nat
      /\ lock \in [Threads -> KeyAndValue \cup {NoLock}]
  BY <1>1 DEF CacheInv, CacheTypeOK, StagesOK, DropKey
<1>5. new \in KeyAndValue /\ new.key = NoArc /\ new.value = old.value
  BY <1>2, <1>4 DEF KeyAndValue
<1>6. new # NoLock /\ NoArc \notin Nat
  BY <1>5, NotALock
<1>7. lock' = [lock EXCEPT ![t] = new]
  BY <1>1, <1>2 DEF DropKey
<1>8. \A u \in Threads : lock'[u] = IF u = t THEN new ELSE lock[u]
  BY <1>4, <1>7
<1>9. stage \in {"releasing", "removing"} /\ entry' = entry /\ inner' = inner
  BY <1>3 DEF DropKey
<1>10. CacheTypeOK'
  BY <1>3, <1>4, <1>5, <1>7, <1>9 DEF CacheInv, CacheTypeOK
<1>11. \A u \in Threads : at'[u] = IF u = t THEN stage ELSE at[u]
  BY <1>3 DEF CacheInv, CacheTypeOK
<1>12. StagesOK'
  BY <1>5, <1>6, <1>8, <1>9, <1>11 DEF CacheInv, StagesOK, HasKey
<1>13. entry # NoEntry => entry.key \in Nat
  BY DEF CacheInv, CacheTypeOK
<1>14. KeysOK'
  BY <1>5, <1>6, <1>8, <1>9, <1>13 DEF CacheInv, KeysOK, HasKey
<1>15. Held'
  <2> SUFFICES ASSUME entry # NoEntry
               PROVE  \E u \in Threads : \/ HasKey(u, entry.key)'
                                         \/ at'[u] = "removing" /\ lock'[u].value = entry.value
    BY <1>9 DEF Held
  <2>1. PICK u \in Threads : HasKey(u, entry.key)
                             \/ (at[u] = "removing" /\ lock[u].value = entry.value)
    BY DEF CacheInv, Held
  <2>2. CASE u # t
    BY <1>8, <1>9, <1>11, <2>1, <2>2 DEF HasKey
  <2>3. CASE u = t
    <3>1. old.key = entry.key /\ old.value = entry.value
      BY <1>1, <2>1, <2>3 DEF CacheInv, KeysOK, HasKey, DropKey
    <3>2. CASE \E w \in Threads \ {t} : HasKey(w, old.key)
      BY <1>8, <1>9, <3>1, <3>2 DEF HasKey
    <3>3. CASE ~\E w \in Threads \ {t} : HasKey(w, old.key)
      BY <1>3, <1>5, <1>8, <1>11, <3>1, <3>3
    <3> QED
      BY <3>2, <3>3
  <2> QED
    BY <2>2, <2>3
<1> QED
  BY <1>10, <1>12, <1>14, <1>15 DEF CacheInv

LEMMA CacheStep == CacheInv /\ [CacheNext]_cacheVars => CacheInv'
<1> SUFFICES ASSUME CacheInv, [CacheNext]_cacheVars PROVE CacheInv'
  OBVIOUS
<1>1. CASE UNCHANGED cacheVars
  BY <1>1 DEF cacheVars, CacheInv, CacheTypeOK, StagesOK, KeysOK, Held, HasKey
<1>2. CASE CacheNext
  BY <1>2, MakeIsSound, LoadCachedIsSound, LookUpIsSound, EnterIsSound, DropKeyIsSound,
     RemoveEntryIsSound, ReleaseIsSound DEF CacheNext
<1> QED
  BY <1>1, <1>2

\* A step that removes or replaces the entry leaves a holder of its value.
LEMMA StepLeavesHolder ==
  ASSUME CacheInv, CacheNext, entry # NoEntry, entry' # entry
  PROVE  \E t \in Threads : lock'[t] # NoLock /\ lock'[t].value = entry.value
<1>1. PICK t \in Threads : Enter(t) \/ RemoveEntry(t)
  BY DEF CacheNext, Make, LoadCached, LookUp, DropKey, Release
<1>2. PICK u \in Threads : HasKey(u, entry.key)
                           \/ (at[u] = "removing" /\ lock[u].value = entry.value)
  BY DEF CacheInv, Held
<1>3. lock[u] # NoLock /\ lock[u].value = entry.value
  BY <1>2 DEF CacheInv, StagesOK, KeysOK, HasKey
<1>4. CASE RemoveEntry(t)
  BY <1>3, <1>4 DEF RemoveEntry
<1>5. CASE Enter(t)
  <2>1. lock[t] = NoLock
    BY <1>5 DEF CacheInv, StagesOK, Enter
  <2>2. u # t
    BY <1>3, <2>1
  <2>3. lock'[u] = lock[u]
    BY <1>5, <2>2 DEF CacheInv, CacheTypeOK, Enter
  <2> QED
    BY <1>3, <2>3
<1> QED
  BY <1>1, <1>4, <1>5

\* An entry of the cache that is removed or replaced is never the last holder of its
\* value, for every number of threads (locked.rs: the order of the fields of Locked,
\* CleanupLockKey::drop): nothing is dropped while the lock it may need is held.
THEOREM DropsNothingUnderLock == CacheSpec => NoDropUnderLock
<1>1. CacheSpec => []CacheInv
  BY CacheStarts, CacheStep, PTL DEF CacheSpec
<1>2. CacheInv /\ [CacheNext]_cacheVars =>
        [entry # NoEntry /\ entry' # entry =>
           \E t \in Threads : lock'[t] # NoLock /\ lock'[t].value = entry.value]_cacheVars
  BY StepLeavesHolder DEF cacheVars
<1> QED
  BY <1>1, <1>2, PTL DEF CacheSpec, NoDropUnderLock

-----------------------------------------------------------------------------
\* The listener of an Ethereum contract.

Event == [kind : {"regular"}, block : Nat]
EventIds == 1..Len(log)

\* A contract on Ethereum has deposits only: see MCEventKinds.
DepositsOnly == "ethereum" \in Platforms => EventKinds["ethereum"] \subseteq {"regular"}

ChainOK ==
  /\ log \in Seq(Event) /\ height \in Nat
  /\ \A i \in EventIds : log[i].block <= height
  /\ \A i, j \in EventIds : i <= j => log[i].block <= log[j].block

OneEvent(ids) == ids = << >> \/ \E id \in EventIds : ids = <<id>>

AttestedOK ==
  /\ settled \in Nat /\ mine \in Nat
  /\ OneEvent(sending) /\ OneEvent(adrift)
  /\ Busy => mode \in {"ws", "polling"} /\ sending = <<next>>

LoopOK ==
  /\ mode \in {"down", "try", "ws", "poll", "polling", "idle"}
  /\ next \in Nat \ {0}
  /\ stream \in Seq(EventIds) /\ todo \subseteq EventIds
  /\ upto \in Nat /\ upto <= height

CursorOK ==
  /\ cursor \in [block : Nat, first : Nat]
  /\ cursor.block <= height + 1 /\ cursor.first <= Len(log) + 1

\* A poll still has in hand what it has found and not attested to.
PollOK ==
  mode = "polling" =>
    \A id \in EventIds : id >= next /\ log[id].block <= upto => id \in todo \/ sending = <<id>>

\* What the listener has still to attest to is at its cursor or behind it.
Ahead ==
  mode # "down" =>
    \A id \in EventIds : id >= next =>
      /\ log[id].block >= cursor.block
      /\ log[id].block = cursor.block => id >= cursor.first

EthereumInv == ChainOK /\ AttestedOK /\ LoopOK /\ CursorOK /\ PollOK /\ Ahead

ListenerInv ==
  platform \in Platforms /\ (platform = "ethereum" => EthereumInv)

\* The positions of the log and what is known of them.
LEMMA LogFacts ==
  ASSUME ChainOK
  PROVE  /\ Len(log) \in Nat /\ DOMAIN log = EventIds /\ EventIds \subseteq Nat \ {0}
         /\ \A i \in EventIds : /\ log[i].kind = "regular" /\ log[i].block \in Nat
                                /\ log[i].block <= height
<1>1. log \in Seq(Event) /\ \A i \in EventIds : log[i].block <= height
  BY DEF ChainOK
<1>2. Len(log) \in Nat /\ DOMAIN log = EventIds /\ log \in [EventIds -> Event]
  BY <1>1, LenProperties DEF EventIds
<1>3. EventIds \subseteq Nat \ {0}
  BY <1>2 DEF EventIds
<1>4. ASSUME NEW i \in EventIds PROVE log[i].kind = "regular" /\ log[i].block \in Nat
  <2>1. log[i] \in Event
    BY <1>2
  <2> QED
    BY <2>1 DEF Event
<1> QED
  BY <1>1, <1>2, <1>3, <1>4

LEMMA ListenerStartsSound == Init => ListenerInv
<1> SUFFICES ASSUME Init PROVE ListenerInv
  OBVIOUS
<1>1. Len(log) = 0 /\ log \in Seq(Event) /\ EventIds = {}
  BY EmptySeq DEF Init, EventIds
<1>2. ChainOK /\ AttestedOK
  BY <1>1 DEF Init, ChainOK, AttestedOK, OneEvent, Busy
<1>3. LoopOK /\ CursorOK /\ PollOK /\ Ahead
  BY <1>1 DEF Init, LoopOK, CursorOK, PollOK, Ahead, Cursor
<1> QED
  BY <1>2, <1>3 DEF Init, ListenerInv, EthereumInv

LEMMA ShortSequences ==
  ASSUME NEW S
  PROVE  /\ << >> \in Seq(S)
         /\ \A a \in S : <<a>> \in Seq(S)
         /\ \A a, b \in S : <<a, b>> \in Seq(S)
  OBVIOUS

\* A block with events: none of them is before the cursor or in the poll's range.
LEMMA EmitsIsSound ==
  ASSUME EthereumInv, Emits, EventKinds[platform] \subseteq {"regular"}
  PROVE  EthereumInv'
<1>0. PICK n \in 1..2, kinds \in [1..2 -> EventKinds[platform]] :
        /\ height' = height + 1
        /\ log' = log \o [i \in 1..n |-> [kind |-> kinds[i], block |-> height']]
        /\ \E pushed \in Arriving(n) : stream' = stream \o pushed
  BY DEF Emits
<1>1. PICK pushed \in Arriving(n) : stream' = stream \o pushed
  BY <1>0
<1>2. PICK new : new = [i \in 1..n |-> [kind |-> kinds[i], block |-> height']]
  OBVIOUS
<1>3. /\ log \in Seq(Event) /\ height \in Nat /\ Len(log) \in Nat
      /\ stream \in Seq(EventIds)
  BY LogFacts DEF EthereumInv, ChainOK, LoopOK
<1>4. /\ new \in Seq(Event) /\ Len(new) = n
      /\ \A i \in 1..n : new[i].block = height + 1
  <2>1. ASSUME NEW i \in 1..n PROVE new[i] \in Event /\ new[i].block = height + 1
    <3>1. kinds[i] \in {"regular"} /\ new[i] = [kind |-> kinds[i], block |-> height + 1]
      BY <1>0, <1>2
    <3> QED
      BY <1>0, <1>3, <3>1 DEF Event
  <2>2. new \in [1..n -> Event]
    BY <1>2, <2>1
  <2>3. n \in Nat
    OBVIOUS
  <2> QED
    BY <2>1, <2>2, <2>3
<1>5. /\ log' \in Seq(Event) /\ Len(log') = Len(log) + n
      /\ \A i \in 1..(Len(log) + n) :
           log'[i] = IF i <= Len(log) THEN log[i] ELSE new[i - Len(log)]
  BY <1>0, <1>2, <1>3, <1>4, ConcatProperties
<1>6. EventIds' = 1..(Len(log) + n)
  BY <1>5 DEF EventIds
<1>7. ASSUME NEW i \in EventIds'
      PROVE  \/ i \in EventIds /\ log'[i] = log[i] /\ log[i].block \in Nat /\ log[i].block <= height
             \/ i \notin EventIds /\ i > Len(log) /\ log'[i].block = height + 1
  <2>1. CASE i <= Len(log)
    <3>1. i \in EventIds
      BY <1>3, <1>6, <2>1 DEF EventIds
    <3> QED
      BY <1>5, <1>6, <2>1, <3>1, LogFacts DEF EthereumInv
  <2>2. CASE ~(i <= Len(log))
    <3>1. i - Len(log) \in 1..n /\ i > Len(log) /\ i \notin EventIds
      BY <1>3, <1>6, <2>2 DEF EventIds
    <3> QED
      BY <1>4, <1>5, <1>6, <2>2, <3>1
  <2> QED
    BY <2>1, <2>2
<1>17. height' = height + 1 /\ height' \in Nat
  BY <1>0, <1>3
<1>8. EventIds \subseteq EventIds'
  BY <1>3, <1>6 DEF EventIds
<1>9. ChainOK'
  <2>1. \A i \in EventIds' : log'[i].block <= height'
    BY <1>3, <1>7, <1>17
  <2>2. ASSUME NEW i \in EventIds', NEW j \in EventIds', i <= j
        PROVE  log'[i].block <= log'[j].block
    <3>1. i \in Nat /\ j \in Nat
      BY <1>3, <1>6
    <3>2. CASE j \in EventIds
      <4>1. i \in EventIds
        BY <1>3, <2>2, <3>1, <3>2, <1>7 DEF EventIds
      <4> QED
        BY <1>7, <2>2, <3>2, <4>1 DEF EthereumInv, ChainOK
    <3>3. CASE j \notin EventIds
      BY <1>3, <1>7, <2>1, <1>17, <3>3
    <3> QED
      BY <3>2, <3>3
  <2> QED
    BY <1>5, <1>17, <2>1, <2>2 DEF ChainOK
<1>10. /\ UNCHANGED <<settled, mine, adrift, mode, next, cursor, todo, upto, sending>>
  BY DEF Emits, kolmeVars
<1>11. AttestedOK'
  BY <1>8, <1>10 DEF EthereumInv, AttestedOK, OneEvent, Busy
<1>12. stream' \in Seq(EventIds')
  <2>1. pushed \in Seq(EventIds')
    <3>1. Len(log) + 1 \in EventIds' /\ (n = 2 => Len(log) + 2 \in EventIds')
      BY <1>3, <1>6
    <3>2. \/ pushed = << >> \/ pushed = <<Len(log) + 1>>
          \/ n = 2 /\ (pushed = <<Len(log) + 2>> \/ pushed = <<Len(log) + 1, Len(log) + 2>>)
      BY <1>1 DEF Arriving
    <3> QED
      BY <3>1, <3>2, ShortSequences
  <2>2. stream \in Seq(EventIds')
    BY <1>3, <1>8
  <2> QED
    BY <1>1, <2>1, <2>2, ConcatProperties
<1>13. LoopOK'
  BY <1>0, <1>3, <1>8, <1>10, <1>12 DEF EthereumInv, LoopOK
<1>14. CursorOK'
  BY <1>0, <1>3, <1>5, <1>10 DEF EthereumInv, CursorOK
<1>15. PollOK'
  BY <1>3, <1>7, <1>10 DEF EthereumInv, PollOK, LoopOK
<1>16. Ahead'
  <2> SUFFICES ASSUME mode # "down", NEW id \in EventIds', id >= next
               PROVE  /\ log'[id].block >= cursor.block
                      /\ log'[id].block = cursor.block => id >= cursor.first
    BY <1>10 DEF Ahead
  <2>1. CASE id \in EventIds
    BY <1>7, <2>1 DEF EthereumInv, Ahead
  <2>2. CASE id \notin EventIds
    <3>1. id > Len(log) /\ log'[id].block = height + 1 /\ id \in Nat
      BY <1>3, <1>6, <1>7, <2>2
    <3>2. /\ cursor.block \in Nat /\ cursor.first \in Nat
          /\ cursor.block <= height + 1 /\ cursor.first <= Len(log) + 1
      BY DEF EthereumInv, CursorOK
    <3> QED
      BY <1>3, <3>1, <3>2
  <2> QED
    BY <2>1, <2>2
<1> QED
  BY <1>9, <1>11, <1>13, <1>14, <1>15, <1>16 DEF EthereumInv

LEMMA KolmeIsSound ==
  ASSUME EthereumInv, OthersAttest \/ Processes \/ LandsLater
  PROVE  EthereumInv'
<1>1. UNCHANGED <<chainVars, listenerVars>>
  BY DEF OthersAttest, Processes, LandsLater
<1>2. settled' \in Nat
  BY DEF OthersAttest, Processes, LandsLater, EthereumInv, AttestedOK
<1>3. OneEvent(adrift)' /\ mine' \in Nat
  <2>1. CASE OthersAttest \/ Processes
    BY <2>1 DEF OthersAttest, Processes, chainVars, EthereumInv, AttestedOK, OneEvent, EventIds
  <2>2. CASE LandsLater
    <3>1. PICK id \in EventIds : adrift = <<id>>
      BY <2>2 DEF LandsLater, EthereumInv, AttestedOK, OneEvent
    <3>2. Last(adrift) = id /\ id \in Nat
      BY <3>1, LogFacts DEF Last, EthereumInv
    <3> QED
      BY <2>2, <3>2 DEF LandsLater, Records, OneEvent, EthereumInv, AttestedOK
  <2> QED
    BY <2>1, <2>2
<1> USE <1>1 DEF chainVars, listenerVars, EthereumInv
<1>4. AttestedOK'
  BY <1>2, <1>3 DEF AttestedOK, OneEvent, Busy, EventIds
<1>5. ChainOK' /\ LoopOK' /\ CursorOK' /\ PollOK' /\ Ahead'
  BY DEF ChainOK, LoopOK, CursorOK, PollOK, Ahead, EventIds
<1> QED
  BY <1>4, <1>5

LEMMA EthereumStartsIsSound ==
  ASSUME EthereumInv, EthereumStarts
  PROVE  EthereumInv'
<1> USE DEF EthereumInv
<1>1. /\ UNCHANGED <<log, height, settled, mine, adrift, stream, todo, upto, sending>>
      /\ mode = "down" /\ mode' = "try"
      /\ next' = NextBridgeEvent /\ cursor' = ResumeCursor
  BY DEF EthereumStarts, chainVars, kolmeVars
<1>2. NextBridgeEvent \in Nat \ {0}
  BY DEF NextBridgeEvent, Larger, AttestedOK
<1>3. ~Busy /\ EventIds' = EventIds
  BY <1>1 DEF AttestedOK, EventIds
<1>4. ChainOK' /\ AttestedOK' /\ LoopOK' /\ PollOK'
  BY <1>1, <1>2, <1>3 DEF ChainOK, AttestedOK, OneEvent, Busy, LoopOK, PollOK
<1>5. CASE NextBridgeEvent \in EventIds
  <2>1. Found # {}
    BY <1>5, LogFacts DEF Found
  <2>2. cursor' = [block |-> log[NextBridgeEvent].block, first |-> NextBridgeEvent]
    BY <1>1, <2>1 DEF ResumeCursor, Cursor
  <2>3. CursorOK'
    BY <1>1, <1>2, <1>5, <2>2, LogFacts DEF CursorOK, EventIds, ChainOK
  <2>4. Ahead'
    BY <1>1, <1>3, <1>5, <2>2, LogFacts DEF Ahead, ChainOK
  <2> QED
    BY <1>4, <2>3, <2>4
<1>6. CASE NextBridgeEvent \notin EventIds
  <2>1. Found = {}
    BY <1>6, LogFacts DEF Found
  <2>2. cursor' = [block |-> height + 1, first |-> 0]
    BY <1>1, <2>1 DEF ResumeCursor, Cursor
  <2>3. CursorOK'
    BY <1>1, <2>2, LogFacts DEF CursorOK, ChainOK
  <2>4. \A id \in EventIds : ~(id >= NextBridgeEvent)
    BY <1>2, <1>6, LogFacts DEF EventIds
  <2>5. Ahead'
    BY <1>1, <1>3, <2>4 DEF Ahead
  <2> QED
    BY <1>4, <2>3, <2>5
<1> QED
  BY <1>5, <1>6

\* The loop changes what it is doing, and nothing it has found out.
LEMMA ModeChanges ==
  ASSUME EthereumInv, mode # "down", ~Busy,
         UNCHANGED <<chainVars, kolmeVars, next, cursor, upto, sending>>,
         mode' \in {"down", "try", "ws", "poll", "idle"},
         stream' \in Seq(EventIds), todo' \subseteq EventIds
  PROVE  EthereumInv'
<1> USE DEF EthereumInv, chainVars, kolmeVars
<1>1. EventIds' = EventIds
  BY DEF EventIds
<1>2. ChainOK' /\ AttestedOK' /\ LoopOK' /\ CursorOK'
  BY <1>1 DEF ChainOK, AttestedOK, OneEvent, Busy, LoopOK, CursorOK
<1>3. PollOK' /\ Ahead'
  BY <1>1 DEF PollOK, Ahead
<1> QED
  BY <1>2, <1>3

LEMMA StreamFacts ==
  ASSUME LoopOK, stream # << >>
  PROVE  Head(stream) \in EventIds /\ Tail(stream) \in Seq(EventIds)
  BY HeadTailProperties DEF LoopOK

\* An event is taken from the subscription or from a poll.
LEMMA SendingIsSound ==
  ASSUME EthereumInv, NEW id \in EventIds, id = next, sending = << >>,
         mode \in {"ws", "polling"},
         UNCHANGED <<chainVars, kolmeVars, mode, next, cursor, upto>>, sending' = <<id>>,
         stream' \in Seq(EventIds), todo' = todo \/ todo' = todo \ {id}
  PROVE  EthereumInv'
<1> USE DEF EthereumInv, chainVars, kolmeVars
<1>1. EventIds' = EventIds
  BY DEF EventIds
<1>2. ChainOK' /\ LoopOK' /\ CursorOK' /\ Ahead'
  BY <1>1 DEF ChainOK, LoopOK, CursorOK, Ahead
<1>3. AttestedOK'
  BY <1>1 DEF AttestedOK, OneEvent
<1>4. PollOK'
  BY <1>1 DEF PollOK
<1> QED
  BY <1>2, <1>3, <1>4

LEMMA SubscriptionPushesIsSound ==
  ASSUME EthereumInv, SubscriptionPushes
  PROVE  EthereumInv'
<1>1. PICK id : id = Head(stream)
  OBVIOUS
<1>2. /\ mode = "ws" /\ ~Busy /\ stream # << >> /\ sending = << >>
      /\ UNCHANGED <<chainVars, kolmeVars, next, cursor, todo, upto>>
  BY DEF SubscriptionPushes, Busy
<1>3. id \in EventIds /\ Tail(stream) \in Seq(EventIds) /\ << >> \in Seq(EventIds)
      /\ todo \subseteq EventIds
  BY <1>1, <1>2, StreamFacts DEF EthereumInv, LoopOK
<1>4. \/ stream' = Tail(stream) /\ UNCHANGED <<mode, sending>>
      \/ mode' = Fallback /\ stream' = << >> /\ UNCHANGED sending
      \/ id = next /\ sending' = <<id>> /\ stream' = Tail(stream) /\ UNCHANGED mode
  BY <1>1 DEF SubscriptionPushes
<1>5. Fallback \in {"poll", "down"}
  BY DEF Fallback
<1>6. CASE stream' = Tail(stream) /\ UNCHANGED <<mode, sending>>
  BY <1>2, <1>3, <1>6, ModeChanges
<1>7. CASE mode' = Fallback /\ stream' = << >> /\ UNCHANGED sending
  BY <1>2, <1>3, <1>5, <1>7, ModeChanges
<1>8. CASE id = next /\ sending' = <<id>> /\ stream' = Tail(stream) /\ UNCHANGED mode
  BY <1>2, <1>3, <1>8, SendingIsSound
<1> QED
  BY <1>4, <1>6, <1>7, <1>8

LEMMA PollsIsSound ==
  ASSUME EthereumInv, Polls
  PROVE  EthereumInv'
<1> USE DEF EthereumInv
<1>1. mode = "poll" /\ UNCHANGED <<chainVars, kolmeVars, next, cursor, stream, sending>>
  BY DEF Polls
<1>2. ~Busy /\ stream \in Seq(EventIds)
  BY <1>1 DEF AttestedOK, LoopOK
<1>3. CASE mode' = "idle" /\ UNCHANGED <<todo, upto>>
  <2>1. todo' \subseteq EventIds
    BY <1>3 DEF LoopOK
  <2> QED
    BY <1>1, <1>2, <1>3, <2>1, ModeChanges
<1>4. CASE todo' = FromCursor /\ upto' = height /\ mode' = "polling"
  <2>1. EventIds' = EventIds
    BY <1>1 DEF chainVars, EventIds
  <2>2. FromCursor \subseteq EventIds /\ \A id \in EventIds : id >= next => id \in FromCursor
    BY <1>1, LogFacts DEF FromCursor, Skipped, Ahead, CursorOK
  <2>3. ChainOK' /\ AttestedOK' /\ CursorOK'
    BY <1>1, <1>2, <1>4, <2>1 DEF ChainOK, AttestedOK, OneEvent, Busy, CursorOK, chainVars, kolmeVars
  <2>4. LoopOK'
    BY <1>1, <1>4, <2>1, <2>2 DEF ChainOK, LoopOK, chainVars
  <2>5. PollOK' /\ Ahead'
    BY <1>1, <1>4, <2>1, <2>2 DEF PollOK, Ahead, chainVars
  <2> QED
    BY <2>3, <2>4, <2>5
<1> QED
  BY <1>3, <1>4 DEF Polls

LEMMA PollTakesIsSound ==
  ASSUME EthereumInv, PollTakes
  PROVE  EthereumInv'
<1>1. /\ mode = "polling" /\ ~Busy /\ sending = << >>
      /\ UNCHANGED <<chainVars, kolmeVars, next, cursor, stream, upto>>
  BY DEF PollTakes, Busy
<1>2. PICK id \in todo :
        \/ log[id].kind = "signed"
        \/ log[id].kind = "regular" /\ mode' = "down" /\ todo' = {} /\ UNCHANGED sending
        \/ id = next /\ sending' = <<id>> /\ todo' = todo \ {id} /\ UNCHANGED mode
  BY DEF PollTakes
<1>3. id \in EventIds /\ log[id].kind = "regular" /\ stream \in Seq(EventIds)
  BY LogFacts DEF EthereumInv, LoopOK
<1>4. CASE mode' = "down" /\ todo' = {} /\ UNCHANGED sending
  BY <1>1, <1>3, <1>4, ModeChanges
<1>5. CASE id = next /\ sending' = <<id>> /\ todo' = todo \ {id} /\ UNCHANGED mode
  BY <1>1, <1>3, <1>5, SendingIsSound
<1> QED
  BY <1>2, <1>3, <1>4, <1>5

LEMMA PollEndsIsSound ==
  ASSUME EthereumInv, PollEnds
  PROVE  EthereumInv'
<1> USE DEF EthereumInv
<1>1. /\ mode = "polling" /\ ~Busy /\ todo = {} /\ mode' = "idle"
      /\ cursor' = [block |-> upto + 1, first |-> 0]
      /\ UNCHANGED <<chainVars, kolmeVars, next, stream, todo, upto, sending>>
  BY DEF PollEnds, Cursor
<1>2. EventIds' = EventIds /\ sending = << >>
  BY <1>1 DEF chainVars, EventIds, Busy
<1>3. ChainOK' /\ AttestedOK' /\ LoopOK' /\ PollOK'
  BY <1>1, <1>2 DEF ChainOK, AttestedOK, OneEvent, Busy, LoopOK, PollOK, chainVars, kolmeVars
<1>4. CursorOK'
  BY <1>1, LogFacts DEF ChainOK, LoopOK, CursorOK, chainVars
<1>5. \A id \in EventIds : id >= next => log[id].block >= upto + 1
  BY <1>1, <1>2, LogFacts DEF PollOK, LoopOK
<1>6. Ahead'
  BY <1>1, <1>2, <1>5, LogFacts DEF Ahead, chainVars
<1> QED
  BY <1>3, <1>4, <1>6

\* An attestation lands: what comes after it is the next event.
LEMMA LandIsSound ==
  ASSUME EthereumInv, Land
  PROVE  EthereumInv'
<1> USE DEF EthereumInv
<1>1. Busy /\ mode \in {"ws", "polling"} /\ sending = <<next>>
  BY DEF Land, AttestedOK
<1>2. next \in EventIds /\ Last(sending) = next
  BY <1>1 DEF AttestedOK, OneEvent, Last, Busy
<1>3. /\ sending' = << >> /\ next' = next + 1 /\ mode' = mode /\ mine' = next
      /\ cursor' = IF mode = "ws" THEN [block |-> log[next].block, first |-> next + 1]
                   ELSE cursor
      /\ UNCHANGED <<chainVars, settled, adrift, stream, todo, upto>>
  BY <1>1, <1>2 DEF Land, Records, Cursor
<1>4. EventIds' = EventIds
  BY <1>3 DEF chainVars, EventIds
<1>5. next \in Nat \ {0} /\ next <= Len(log) /\ Len(log) \in Nat
  BY <1>2, LogFacts DEF EventIds
<1>6. ChainOK' /\ AttestedOK' /\ LoopOK'
  BY <1>3, <1>4, <1>5 DEF ChainOK, AttestedOK, OneEvent, Busy, LoopOK, chainVars
<1>7. CursorOK'
  <2>1. log' = log /\ height' = height /\ height \in Nat
    BY <1>3 DEF ChainOK, chainVars
  <2>2. CASE mode = "ws"
    <3>1. log[next].block \in Nat /\ log[next].block <= height
      BY <1>2, LogFacts
    <3>2. cursor' = [block |-> log[next].block, first |-> next + 1]
      BY <1>3, <2>2
    <3> QED
      BY <1>5, <2>1, <3>1, <3>2 DEF CursorOK
  <2>3. CASE mode # "ws"
    BY <1>3, <2>1, <2>3 DEF CursorOK
  <2> QED
    BY <2>2, <2>3
<1>8. \A id \in EventIds : id >= next + 1 => id >= next /\ id # next
  BY <1>5, LogFacts
<1>9. PollOK'
  BY <1>1, <1>3, <1>4, <1>8 DEF PollOK, chainVars
<1>10. Ahead'
  <2>1. CASE mode = "ws"
    BY <1>2, <1>3, <1>4, <1>8, <2>1, LogFacts DEF Ahead, ChainOK, chainVars
  <2>2. CASE mode = "polling"
    BY <1>3, <1>4, <1>8, <2>2 DEF Ahead, chainVars
  <2> QED
    BY <1>1, <2>1, <2>2
<1> QED
  BY <1>6, <1>7, <1>9, <1>10

\* The transaction is refused, or the listener stops.
LEMMA BreakingOffIsSound ==
  ASSUME EthereumInv, mode # "down", mode' \in {"down", "poll"},
         UNCHANGED <<chainVars, settled, mine, next, cursor, upto>>,
         sending' = << >>, stream' = << >>, todo' = {}, adrift' \in {adrift, sending}
  PROVE  EthereumInv'
<1> USE DEF EthereumInv, chainVars
<1>1. EventIds' = EventIds
  BY DEF EventIds
<1>2. ChainOK' /\ CursorOK' /\ PollOK' /\ Ahead'
  BY <1>1 DEF ChainOK, CursorOK, PollOK, Ahead
<1>3. AttestedOK'
  BY <1>1 DEF AttestedOK, OneEvent, Busy
<1>4. LoopOK'
  BY <1>1 DEF LoopOK
<1> QED
  BY <1>2, <1>3, <1>4

LEMMA EthereumStep ==
  ASSUME EthereumInv, [Next]_vars, platform = "ethereum", EventKinds[platform] \subseteq {"regular"}
  PROVE  EthereumInv'
<1>1. mode \notin {"catchUp", "missed", "stream"}
  BY DEF EthereumInv, LoopOK
<1>2. CASE Emits
  BY <1>2, EmitsIsSound
<1>3. CASE OthersAttest \/ Processes \/ LandsLater
  BY <1>3, KolmeIsSound
<1>4. CASE ListenerStarts
  BY <1>4, EthereumStartsIsSound DEF ListenerStarts, SolanaStarts
<1>5. CASE Connects \/ SubscriptionEnds \/ Wakes
  <2>1. /\ mode \in {"try", "ws", "idle"} /\ ~Busy
        /\ UNCHANGED <<chainVars, kolmeVars, next, cursor, upto, sending, todo>>
        /\ stream' \in {stream, << >>}
    BY <1>5 DEF Connects, SubscriptionEnds, Wakes, EthereumInv, AttestedOK
  <2>2. mode' \in {"down", "try", "ws", "poll", "idle"}
    BY <1>5 DEF Connects, SubscriptionEnds, Wakes, Fallback
  <2>3. stream' \in Seq(EventIds) /\ todo' \subseteq EventIds
    <3>1. stream \in Seq(EventIds) /\ << >> \in Seq(EventIds) /\ todo \subseteq EventIds
      BY EmptySeq DEF EthereumInv, LoopOK
    <3> QED
      BY <2>1, <3>1
  <2> QED
    BY <2>1, <2>2, <2>3, ModeChanges
<1>6. CASE SubscriptionPushes
  BY <1>6, SubscriptionPushesIsSound
<1>7. CASE Polls
  BY <1>7, PollsIsSound
<1>8. CASE PollTakes
  BY <1>8, PollTakesIsSound
<1>9. CASE PollEnds
  BY <1>9, PollEndsIsSound
<1>10. CASE CatchesUp \/ LogArrives \/ StreamEnds
  BY <1>1, <1>10 DEF CatchesUp, LogArrives, StreamEnds
<1>11. CASE Land
  BY <1>11, LandIsSound
<1>12. CASE Refused
  <2>1. mode \in {"ws", "polling"}
    BY <1>12 DEF Refused, EthereumInv, AttestedOK
  <2>2. mode' \in {"down", "poll"}
    BY <1>12 DEF Refused, Fallback
  <2> QED
    BY <1>12, <2>1, <2>2, BreakingOffIsSound DEF Refused, kolmeVars
<1>13. CASE Stops
  BY <1>13, BreakingOffIsSound DEF Stops
<1>14. CASE UNCHANGED vars
  BY <1>14 DEF vars, chainVars, kolmeVars, listenerVars, EthereumInv, ChainOK, AttestedOK,
     OneEvent, Busy, LoopOK, CursorOK, PollOK, Ahead, EventIds
<1> QED
  BY <1>2, <1>3, <1>4, <1>5, <1>6, <1>7, <1>8, <1>9, <1>10, <1>11, <1>12, <1>13, <1>14
  DEF Next, Steps, Ends

LEMMA PlatformStays == [Next]_vars => platform' = platform
  BY DEF Next, Emits, OthersAttest, Processes, ListenerStarts, EthereumStarts, SolanaStarts,
     Steps, Connects, SubscriptionPushes, Polls, PollTakes, PollEnds, Wakes, CatchesUp,
     LogArrives, Ends, SubscriptionEnds, StreamEnds, Land, Refused, Stops, LandsLater,
     chainVars, vars

\* A listener of an Ethereum contract that has deposits only finds whatever it has
\* still to attest to from its cursor on, for every number of events and of stops,
\* whatever its subscription has lost (listener/ethereum.rs get_resume_cursor,
\* should_skip_log, listen_polling_once).
THEOREM ListenerPassesNothing ==
  ASSUME DepositsOnly
  PROVE  Spec => []NothingPassed
<1>1. ListenerInv /\ [Next]_vars => ListenerInv'
  <2> SUFFICES ASSUME ListenerInv, [Next]_vars PROVE ListenerInv'
    OBVIOUS
  <2>1. platform' = platform
    BY PlatformStays
  <2>2. platform = "ethereum" => EthereumInv'
    BY EthereumStep DEF ListenerInv, DepositsOnly
  <2> QED
    BY <2>1, <2>2 DEF ListenerInv
<1>2. ListenerInv => NothingPassed
  <2> SUFFICES ASSUME ListenerInv, NEW id \in DOMAIN log,
                      platform = "ethereum", mode # "down", id >= next
               PROVE  log[id].block >= cursor.block /\ ~Skipped(id)
    BY DEF NothingPassed
  <2>1. EthereumInv /\ id \in EventIds
    BY LogFacts DEF ListenerInv, EthereumInv
  <2>2. id \in Nat /\ cursor.first \in Nat
    BY <2>1, LogFacts DEF EthereumInv, CursorOK
  <2> QED
    BY <2>1, <2>2 DEF EthereumInv, Ahead, Skipped
<1> QED
  BY <1>1, <1>2, ListenerStartsSound, PTL DEF Spec
===============================================================================
