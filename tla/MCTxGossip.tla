----------------------------- MODULE MCTxGossip -----------------------------
(* Values of TxGossip's constants for TLC. *)
EXTENDS TxGossip
CONSTANTS p, c1, i1, i2, k1

AtClient == [i \in Call |-> c1]
OneKey == [i \in Call |-> k1]
=============================================================================
