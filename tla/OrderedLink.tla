----------------------------- MODULE OrderedLink ----------------------------
(***************************************************************************)
(* What the bridge promises of either direction, for each external chain:  *)
(* everything that is sent is taken at most once, in the order in which it *)
(* was sent.                                                               *)
(***************************************************************************)
EXTENDS Naturals, Sequences

CONSTANT Link

VARIABLES sent, taken   \* by link: what was sent, what was taken, in order

Init ==
  /\ sent = [l \in Link |-> << >>]
  /\ taken = [l \in Link |-> << >>]

Idle(l) == sent'[l] = sent[l] /\ taken'[l] = taken[l]

Send(l) ==
  /\ Len(sent'[l]) = Len(sent[l]) + 1
  /\ SubSeq(sent'[l], 1, Len(sent[l])) = sent[l]
  /\ taken'[l] = taken[l]

\* Whoever takes may take several at once.
Take(l) ==
  /\ sent'[l] = sent[l]
  /\ \E n \in (Len(taken[l]) + 1)..Len(sent[l]) :
       taken'[l] = SubSeq(sent[l], 1, n)

\* The same may be sent on several links at once.
Next == \A l \in Link : Idle(l) \/ Send(l) \/ Take(l)

Spec == Init /\ [][Next]_<<sent, taken>>
=============================================================================
