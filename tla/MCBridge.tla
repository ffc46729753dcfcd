------------------------------- MODULE MCBridge -----------------------------
(* Values of Bridge's constants for TLC. *)
EXTENDS Bridge, TLC

CONSTANTS p, l1, l2, a1, a2, f1, v1, c1, c2, u1, s1, s2

Keys == {p, l1, l2, a1, a2, f1}

\* Both listeners must agree; then one is left, and the approver is another.
Strict ==
  [processor |-> p, listeners |-> {l1, l2}, neededListeners |-> 2,
   approvers |-> {a1}, neededApprovers |-> 1]
Lenient ==
  [Strict EXCEPT !.listeners = {l2}, !.neededListeners = 1, !.approvers = {a2}]

\* One listener is enough.
Single == [Strict EXCEPT !.listeners = {l1}, !.neededListeners = 1]

LenientPayload == {NewSetPayload(Lenient)}
NoPayloads == {}
NoReplacements == {}
NoUpgraders == {}
NoDesired == [u \in {} |-> v1]

BothListeners == {l1, l2}
OneListener == {l1}
OneApprover == {a1}
BothApprovers == {a1, a2}
OneChain == <<c1>>
TwoChains == <<c1, c2>>

\* Submitters differ in nothing but their names.
Interchangeable == Permutations({s1, s2})
=============================================================================
