----------------------------- MODULE MCStateSync -----------------------------
(* Values of StateSync's constants for TLC: three blocks, whose states     *)
(* share layers; the processor's key is rotated twice, and block 1 raises  *)
(* the version.                                                            *)
EXTENDS StateSync
CONSTANTS p1, p2, v1, v2

Layers == 1..4
ChildrenOf == <<{}, {}, {1, 2}, {1, 3}>>
RootsOf == [h \in 0..2 |-> <<{1}, {3}, {2, 4}>>[h + 1]]
Signers == [h \in 0..2 |-> <<p1, p2, p1>>[h + 1]]
Processors == [h \in 0..2 |-> <<p2, p1, p1>>[h + 1]]
Versions == [h \in 0..2 |-> <<v1, v2, v2>>[h + 1]]
\* Two blocks; the state of the second refers to the whole state of the first.
TwoLayers == 1..2
Chained == <<{}, {1}>>
OneRoot == [h \in 0..1 |-> {h + 1}]

SameVersion == [h \in 0..2 |-> v1]
SameProcessor == [h \in 0..2 |-> p1]

Run(mode, others, code) == [mode |-> mode, others |-> others, code |-> code]
AllSetups ==
  {Run("StateTransfer", "none", v1), Run("StateTransfer", "none", v2),
   Run("StateTransfer", "shared", v1), Run("Archive", "none", v2),
   Run("Archive", "ingest", v1), Run("BlockTransfer", "none", v1),
   Run("ValidateFrom", "none", v1), Run("ValidateFrom", "none", v2)}
StateTransfer == {Run("StateTransfer", "none", v1)}
=============================================================================
