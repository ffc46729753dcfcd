-------------------------- MODULE MCBlockProduction -------------------------
(* A small cluster: two instances, a client's transaction for the block     *)
(* after genesis, a key rotation, an upgrade, an approval.                  *)
EXTENDS BlockProduction

CONSTANTS p1, p2, k1, k2, v1, v2, alice, proc, g1, g2, a0, rot, up, app

Plain(s, n) == [sender |-> s, nonce |-> n, maxHeight |-> None,
                setsKey |-> None, setsVersion |-> None]

MCProcessor == {p1, p2}
MCGenesisTx == [p \in {p1, p2} |-> IF p = p1 THEN g1 ELSE g2]
MCTxInfo ==
  [t \in Tx |->
     CASE t \in {g1, g2} -> Plain(proc, 0)
       [] t = a0 -> [Plain(alice, 0) EXCEPT !.maxHeight = 1]
       [] t = rot -> [Plain(proc, 1) EXCEPT !.setsKey = k2]
       [] t = up -> [Plain(alice, 0) EXCEPT !.setsVersion = v2]
       [] t = app -> Plain(proc, 1)]
MCGenesisState == [key |-> k1, version |-> v1, nonce |-> [x \in Account |-> 0]]
AllRunV1 == [p \in Processor |-> v1]

BothHaveBothKeys == [p \in Processor |-> {k1, k2}]
P1LacksNewKey == [p \in Processor |-> IF p = p1 THEN {k1} ELSE {k1, k2}]
=============================================================================
