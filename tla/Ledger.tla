------------------------------- MODULE Ledger -------------------------------
(***************************************************************************)
(* What block production promises to everyone who reads the chain: a log   *)
(* that only grows at its end, holds one transaction per height, and never *)
(* holds a transaction twice.                                              *)
(***************************************************************************)
EXTENDS Naturals

CONSTANT Tx        \* transaction hashes

VARIABLE entries   \* the log, as a set of [height, tx] records

Init == entries = {}

\* h is the first height that has no entry, and every lower height has one.
IsNextHeight(h) ==
  /\ \A e \in entries : e.height < h
  /\ \A k \in 0..(h - 1) : \E e \in entries : e.height = k

Append(h, t) ==
  /\ IsNextHeight(h)
  /\ \A e \in entries : e.tx # t
  /\ entries' = entries \cup {[height |-> h, tx |-> t]}

CandidateHeights == {0} \cup {e.height + 1 : e \in entries}

Next == \E h \in CandidateHeights, t \in Tx : Append(h, t)

Spec == Init /\ [][Next]_entries
=============================================================================
