------------------------------- MODULE ForkInfo -------------------------------
(***************************************************************************)
(* The API server's answer to "which blocks have this chain version?",     *)
(* while the chain goes on: three bisections, for any block of the version,*)
(* for the first one and for the last one, which read one block of the     *)
(* store in each turn of their loops.  A node that takes over states from  *)
(* its peers does not have every block below its latest one; a block that  *)
(* it does not have ends the request.                                      *)
(*                                                                         *)
(* A block stands for the chain version of its framework state.  Upgrades  *)
(* set the version to what the validators have agreed on, so that nothing  *)
(* keeps it from being lowered.                                            *)
(***************************************************************************)
EXTENDS Integers

CONSTANTS
  Versions,      \* chain versions, as numbers in their order
  EarlierChains, \* what the chain may be when the first request comes: for
                 \* each block the chain version of its state
  EarlierGaps,   \* sets of blocks that the node may lack then
  MaxBlocks      \* bound on the chain's height

ASSUME ForkInfoAssumption ==
  /\ Versions \subseteq Int /\ MaxBlocks \in Nat
  /\ \A c \in EarlierChains : \E n \in 0..MaxBlocks : c \in [0..(n - 1) -> Versions]

VARIABLES
  nextHeight,  \* the height of the next block
  versionAt,   \* for each block, the chain version of its state
  held,        \* the blocks in the node's store
  search,      \* the loop that runs, or how the request has ended
  wanted,      \* the version that is asked for
  lower,       \* start_block of the loop
  upper,       \* end_block of the loop
  best,        \* first_block or last_block of the loop
  found,       \* the block that find_block_height has found
  answer,      \* first_block and last_block of the answer
  latest       \* the last block when the loop began

forkChainVars == <<nextHeight, versionAt, held>>
forkVars == <<forkChainVars, search, wanted, lower, upper, best, found, answer, latest>>

NoBlock == -1
Heights == 0..(nextHeight - 1)

-----------------------------------------------------------------------------

\* The middle, rounded up; there is none when the range is a single block.
HasMiddle(start, end) == start < end
IncreasingMiddle(start, end) == start + (end - start + 1) \div 2

\* block_response has the block in the middle of the range.
MiddleIsHeld == HasMiddle(lower, upper) /\ IncreasingMiddle(lower, upper) \in held

\* A loop ends when it is below the first block or when its range is empty.  It
\* also ends, with an error, when the range has no middle.
LoopEnds == lower > upper
LoopFails == lower = upper

\* Turns of the loops.  Below the first block is NoBlock, so that the range is
\* empty where the code breaks because the middle is the start of the chain.
Lower(middle) == upper' = middle - 1 /\ UNCHANGED lower
Upper(middle) == lower' = middle + 1 /\ UNCHANGED upper

Starts(loop, start, end) ==
  /\ search' = loop /\ lower' = start /\ upper' = end
  /\ best' = NoBlock

-----------------------------------------------------------------------------

ForkInfoRequest(v) ==
  /\ search \in {"idle", "answered", "failed", "missing"}
  /\ nextHeight > 0
  /\ Starts("any", 0, nextHeight - 1)
  /\ wanted' = v /\ latest' = nextHeight - 1
  /\ UNCHANGED <<forkChainVars, found, answer>>

FindBlockHeight ==
  /\ search = "any" /\ MiddleIsHeld
  /\ LET middle == IncreasingMiddle(lower, upper)
     IN  \/ /\ versionAt[middle] = wanted
            /\ found' = middle
            /\ Starts("first", 0, middle)
         \/ /\ wanted < versionAt[middle]
            /\ Lower(middle)
            /\ UNCHANGED <<search, best, found>>
         \/ /\ wanted > versionAt[middle]
            /\ Upper(middle)
            /\ UNCHANGED <<search, best, found>>
  /\ UNCHANGED <<forkChainVars, wanted, answer, latest>>

FindFirstBlock ==
  /\ search = "first" /\ MiddleIsHeld
  /\ LET middle == IncreasingMiddle(lower, upper)
     IN  \/ versionAt[middle] = wanted /\ best' = middle /\ Lower(middle)
         \/ versionAt[middle] < wanted /\ Upper(middle) /\ UNCHANGED best
         \/ versionAt[middle] > wanted /\ Lower(middle) /\ UNCHANGED best
  /\ UNCHANGED <<forkChainVars, search, wanted, found, answer, latest>>

FirstBlockFound_AnyBlock ==
  /\ search = "first" /\ LoopEnds /\ best # NoBlock
  /\ answer' = [answer EXCEPT !.first = found]
  /\ latest' = nextHeight - 1
  /\ Starts("last", found, nextHeight - 1)
  /\ UNCHANGED <<forkChainVars, wanted, found>>

\* The last block is looked for in what the chain has become meanwhile.
FirstBlockFound ==
  /\ search = "first" /\ LoopEnds /\ best # NoBlock
  /\ answer' = [answer EXCEPT !.first = best]
  /\ latest' = nextHeight - 1
  /\ Starts("last", found, nextHeight - 1)
  /\ UNCHANGED <<forkChainVars, wanted, found>>

FindLastBlock ==
  /\ search = "last" /\ MiddleIsHeld
  /\ LET middle == IncreasingMiddle(lower, upper)
     IN  \/ versionAt[middle] = wanted /\ best' = middle /\ Upper(middle)
         \/ versionAt[middle] > wanted /\ Lower(middle) /\ UNCHANGED best
         \/ versionAt[middle] < wanted /\ Upper(middle) /\ UNCHANGED best
  /\ UNCHANGED <<forkChainVars, search, wanted, found, answer, latest>>

LastBlockFound ==
  /\ search = "last" /\ LoopEnds /\ best # NoBlock
  /\ answer' = [answer EXCEPT !.last = best]
  /\ search' = "answered"
  /\ UNCHANGED <<forkChainVars, wanted, lower, upper, best, found, latest>>

\* The range has no middle, or the version was not found.
ForkInfoFails ==
  /\ search \in {"any", "first", "last"}
  /\ \/ LoopFails
     \/ LoopEnds /\ best = NoBlock
  /\ search' = "failed"
  /\ UNCHANGED <<forkChainVars, wanted, lower, upper, best, found, answer, latest>>

\* A turn of any of the loops comes to a block that the node does not have.
BlockMissing ==
  /\ search \in {"any", "first", "last"}
  /\ HasMiddle(lower, upper) /\ ~MiddleIsHeld
  /\ search' = "missing"
  /\ UNCHANGED <<forkChainVars, wanted, lower, upper, best, found, answer, latest>>

\* The node gets a later block of the chain, the next one or, with its state, one
\* further on.  The transactions up to it may have completed upgrades.
ForkBlockAdded(last) ==
  /\ \E newer \in [nextHeight..last -> Versions] :
       versionAt' = [h \in 0..last |-> IF h < nextHeight THEN versionAt[h] ELSE newer[h]]
  /\ nextHeight' = last + 1
  /\ held' = held \cup {last}
  /\ UNCHANGED <<search, wanted, lower, upper, best, found, answer, latest>>

\* The node gets an earlier block, which some task of it has asked for.
ForkBlockFetched(h) ==
  /\ held' = held \cup {h}
  /\ UNCHANGED <<nextHeight, versionAt, search, wanted, lower, upper, best, found,
                 answer, latest>>

-----------------------------------------------------------------------------

ForkInit ==
  /\ versionAt \in EarlierChains
  /\ nextHeight \in 0..MaxBlocks /\ DOMAIN versionAt = Heights
  /\ held \in {Heights \ gap : gap \in EarlierGaps}
  /\ nextHeight > 0 => nextHeight - 1 \in held
  /\ search = "idle" /\ wanted \in Versions
  /\ lower = 0 /\ upper = NoBlock /\ best = NoBlock /\ found = 0 /\ latest = NoBlock
  /\ answer = [first |-> 0, last |-> 0]

ForkNext ==
  \/ \E v \in Versions : ForkInfoRequest(v)
  \/ \E last \in nextHeight..(MaxBlocks - 1) : ForkBlockAdded(last)
  \/ \E h \in Heights : ForkBlockFetched(h)
  \/ FindBlockHeight \/ FindFirstBlock \/ FirstBlockFound
  \/ FindLastBlock \/ LastBlockFound
  \/ ForkInfoFails \/ BlockMissing

ForkSpec == ForkInit /\ [][ForkNext]_forkVars

-----------------------------------------------------------------------------

NeverLowered == \A g, h \in Heights : g <= h => versionAt[g] <= versionAt[h]

\* Unless an upgrade has lowered the chain version, the blocks from the first to
\* the last of the answer are the blocks of the version that was asked for, out
\* of those of the chain up to the node's latest when the last one was looked
\* for, whether the node has them or not; and where the request fails although
\* there are such blocks, it is because a loop came to a block that the node does
\* not have (the request ends as "missing"), or because it has come down to a
\* single block, of which increasing_middle does not know the middle
\* (api_server.rs block_response, find_first_block, find_last_block, fork_info).
ForkInfoIsExact ==
  NeverLowered =>
    /\ search = "answered" =>
         \A h \in 0..latest :
           versionAt[h] = wanted <=> answer.first <= h /\ h <= answer.last
    /\ search = "failed" /\ lower # upper =>
         \A h \in 0..latest : versionAt[h] # wanted
=============================================================================
