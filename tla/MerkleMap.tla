----------------------------- MODULE MerkleMap -----------------------------
(***************************************************************************)
(* The Merkle map every state of Kolme is kept in: a base-16 tree whose    *)
(* nodes are leaves of at most 16 entries or trees of 16 branches, each    *)
(* carrying a cell (an Arc<OnceLock<..>>) that remembers what the node was *)
(* serialized to, so that what did not change is never hashed again.       *)
(*                                                                         *)
(* A hash is collision free, so serialized contents stand for it.  A clone *)
(* shares the cells of its original: that is what makes the cells, and     *)
(* when a write replaces one, part of the state.  The base and the         *)
(* capacity are constants, smaller than 16 in the runs.                    *)
(***************************************************************************)
EXTENDS Integers, FiniteSets, SequencesExt

CONSTANTS Handles,           \* the variables that hold a map
          Entries,           \* pairs of a key (bytes) and a value
          Base,              \* branches of a tree (16); a byte has two digits
          Capacity,          \* entries of a leaf (16)
          CloneUnserialized, \* whether a map may be cloned before it is serialized
          Ranges,            \* the ranges IteratesInOrder looks at
          None

ASSUME MapAssumption == /\ Base \in Nat \ {0, 1} /\ Capacity \in Nat \ {0}
                        /\ CloneUnserialized \in BOOLEAN

Keys == {e[1] : e \in Entries}
Digits == 0 .. Base - 1

VARIABLES maps,      \* handle -> root node
          content    \* handle -> the plain map its users rely on, for the properties

mapVars == <<maps, content>>

\* The order of keys: bytes, lexicographically.
Less(a, b) ==
  \/ IsStrictPrefix(a, b)
  \/ \E i \in 1 .. Len(a) : /\ i <= Len(b) /\ a[i] < b[i]
                            /\ \A j \in 1 .. i - 1 : a[j] = b[j]

\* A byte gives the digits of two depths, the high one first.
IndexAt(key, depth) ==
  IF depth \div 2 >= Len(key) THEN None
  ELSE LET byte == key[depth \div 2 + 1]
       IN IF depth % 2 = 0 THEN byte \div Base ELSE byte % Base

(***************************************************************************)
(* Nodes.  filled is what a node was serialized to.  As long as there is   *)
(* nothing, cell says which cell it would go to: two nodes share an open   *)
(* cell when they give the same one.  A node never moves to another path,  *)
(* so a cell is named by the path and by one of the handles.               *)
(***************************************************************************)
RECURSIVE Nodes(_)

Children(branches) == SelectSeq([i \in 1 .. Base |-> branches[i - 1]],
                               LAMBDA b : b # None)

Nodes(n) == {n} \cup
  IF n.kind = "leaf" THEN {}
  ELSE UNION {Nodes(b) : b \in ToSet(Children(n.branches))}

NewCell(h, path) ==
  LET taken == {n.cell : n \in UNION {Nodes(maps[g]) : g \in Handles \ {h}}}
  IN IF <<path, h>> \notin taken THEN <<path, h>>
     ELSE <<path, CHOOSE g \in Handles : <<path, g>> \notin taken>>

NewLeaf(h, path, values) ==
  [kind |-> "leaf", values |-> values, cell |-> NewCell(h, path), filled |-> None]

NewTree(h, path, t) ==
  [kind |-> "tree", len |-> t.len, leaf |-> t.leaf, branches |-> t.branches,
   cell |-> NewCell(h, path), filled |-> None]

EmptyTree == [len |-> 0, leaf |-> None, branches |-> [i \in Digits |-> None]]

IsEmptyNode(n) == n.kind = "leaf" /\ n.values = <<>>

RECURSIVE Drain(_)
Drain(n) ==
  IF n.kind = "leaf" THEN n.values
  ELSE (IF n.leaf = None THEN <<>> ELSE <<n.leaf>>) \o
       FlattenSeq([i \in 1 .. Len(Children(n.branches)) |->
                     Drain(Children(n.branches)[i])])

\* A mutant: a write does not forget the hash.
AsMut_KeepsHash(h, path, n) == n

\* MerkleLockable::as_mut: a node that was serialized gets a new cell, any other
\* keeps the one it has, whoever else holds it.
AsMut(h, path, n) ==
  IF n.filled # None THEN [n EXCEPT !.cell = NewCell(h, path), !.filled = None] ELSE n

(***************************************************************************)
(* Insertion.  A full leaf becomes a tree its entries are inserted into.   *)
(***************************************************************************)
RECURSIVE NodeInsert(_, _, _, _)

\* TreeContents::insert
TreeInsert(h, path, t, e) ==
  LET i == IndexAt(e.key, Len(path))
      below == Append(path, i)
      branch == IF t.branches[i] = None THEN NewLeaf(h, below, <<>>) ELSE t.branches[i]
      step == NodeInsert(h, below, branch, e)
  IN IF i = None
     THEN [tree |-> [t EXCEPT !.leaf = e, !.len = IF t.leaf = None THEN @ + 1 ELSE @],
           old |-> t.leaf]
     ELSE [tree |-> [t EXCEPT !.branches[i] = step.node,
                              !.len = IF step.old = None THEN @ + 1 ELSE @],
           old |-> step.old]

\* LeafContents::insert
LeafInsert(h, path, values, e) ==
  LET at == SelectInSeq(values, LAMBDA x : x.key = e.key)
      split == FoldLeft(LAMBDA t, x : TreeInsert(h, path, t, x).tree,
                        EmptyTree, <<e>> \o values)
  IN IF at # 0
     THEN [node |-> NewLeaf(h, path, [values EXCEPT ![at] = e]), old |-> values[at]]
     ELSE [node |-> IF Len(values) < Capacity
                    THEN NewLeaf(h, path, SortSeq(Append(values, e),
                                                  LAMBDA x, y : Less(x.key, y.key)))
                    ELSE NewTree(h, path, split),
           old |-> None]

NodeInsert(h, path, n, e) ==
  IF n.kind = "leaf" THEN LeafInsert(h, path, n.values, e)
  ELSE LET step == TreeInsert(h, path, AsMut(h, path, n), e)
       IN [node |-> step.tree, old |-> step.old]

(***************************************************************************)
(* Writing through get_mut: every node on the way is made writable, also   *)
(* when the key turns out to be absent.                                    *)
(***************************************************************************)
\* LeafContents::get_mut
LeafGetMut(values, key, v) ==
  [j \in DOMAIN values |-> IF values[j].key = key THEN [values[j] EXCEPT !.value = v]
                           ELSE values[j]]

RECURSIVE NodeGetMut(_, _, _, _, _)

\* TreeContents::get_mut
TreeGetMut(h, path, t, key, v) ==
  LET i == IndexAt(key, Len(path))
  IN IF i = None
     THEN IF t.leaf = None THEN t ELSE [t EXCEPT !.leaf.value = v]
     ELSE IF t.branches[i] = None THEN t
     ELSE [t EXCEPT !.branches[i] = NodeGetMut(h, Append(path, i), @, key, v)]

NodeGetMut(h, path, n, key, v) ==
  LET m == AsMut(h, path, n)
  IN IF n.kind = "leaf" THEN [m EXCEPT !.values = LeafGetMut(@, key, v)]
     ELSE TreeGetMut(h, path, m, key, v)

(***************************************************************************)
(* Removal.  Every node on the way is rebuilt, and a tree that is down to  *)
(* what a leaf can hold becomes one.                                       *)
(***************************************************************************)
RECURSIVE NodeRemove(_, _, _, _)

IntoNodeAfterRemoval(h, path, t) ==
  IF t.len <= Capacity THEN NewLeaf(h, path, Drain(t)) ELSE NewTree(h, path, t)

\* LeafContents::remove
LeafRemove(h, path, values, key) ==
  LET at == SelectInSeq(values, LAMBDA x : x.key = key)
  IN IF at = 0 THEN [node |-> NewLeaf(h, path, values), old |-> None]
     ELSE [node |-> NewLeaf(h, path, RemoveAt(values, at)), old |-> values[at]]

\* TreeContents::remove
TreeRemove(h, path, t, key) ==
  LET i == IndexAt(key, Len(path))
      below == NodeRemove(h, Append(path, i), t.branches[i], key)
      old == IF i = None THEN t.leaf
             ELSE IF t.branches[i] = None THEN None ELSE below.old
      rest == IF i = None THEN [t EXCEPT !.leaf = None]
              ELSE IF t.branches[i] = None THEN t
              ELSE [t EXCEPT !.branches[i] = IF IsEmptyNode(below.node) THEN None
                                             ELSE below.node]
  IN [node |-> IF old = None THEN NewTree(h, path, rest)
               ELSE IntoNodeAfterRemoval(h, path, [rest EXCEPT !.len = @ - 1]),
      old |-> old]

NodeRemove(h, path, n, key) ==
  IF n.kind = "leaf" THEN LeafRemove(h, path, n.values, key)
  ELSE TreeRemove(h, path, n, key)

(***************************************************************************)
(* Serialization: a node that was serialized is not looked into again.     *)
(***************************************************************************)
RECURSIVE Contents(_), Visited(_), PureContents(_)

EmptyContents == [kind |-> "leaf", values |-> <<>>]

LeafPayload(n) == [kind |-> "leaf", values |-> n.values]

TreePayload(n, below) ==
  [kind |-> "tree", len |-> n.len, leaf |-> n.leaf,
   branches |-> [i \in Digits |-> IF n.branches[i] = None THEN EmptyContents
                                  ELSE below[i]]]

RawContents(n, below) ==
  IF n.kind = "leaf" THEN LeafPayload(n) ELSE TreePayload(n, below)

Contents(n) ==
  IF n.filled # None THEN n.filled
  ELSE RawContents(n, [i \in Digits |-> Contents(n.branches[i])])

Visited(n) == IF n.filled # None THEN {}
              ELSE {n} \cup IF n.kind = "leaf" THEN {}
                            ELSE UNION {Visited(b) : b \in ToSet(Children(n.branches))}

\* What a node serializes to when nothing is remembered.
PureContents(n) == RawContents(n, [i \in Digits |-> PureContents(n.branches[i])])

\* A node after the cells in w were filled with what w gives for them.
RECURSIVE Fill(_, _)
Fill(n, w) ==
  LET m == IF n.kind = "leaf" THEN n
           ELSE [n EXCEPT !.branches = [i \in Digits |->
                   IF @[i] = None THEN None ELSE Fill(@[i], w)]]
  IN IF n.cell \in DOMAIN w THEN [m EXCEPT !.cell = None, !.filled = w[n.cell]] ELSE m

\* A node read back, filled with what it was read from: an empty branch is none.
RECURSIVE Decode(_)

DecodeLeaf(c) == [kind |-> "leaf", values |-> c.values, cell |-> None, filled |-> c]

DecodeTree(c) ==
  [kind |-> "tree", len |-> c.len, leaf |-> c.leaf,
   branches |-> [i \in Digits |-> IF c.branches[i] = EmptyContents THEN None
                                  ELSE Decode(c.branches[i])],
   cell |-> None, filled |-> c]

Decode(c) == IF c.kind = "leaf" THEN DecodeLeaf(c) ELSE DecodeTree(c)

(***************************************************************************)
(* Reading: look-up, and the neighbours an iterator moves to.              *)
(***************************************************************************)
First(entries) == IF entries = <<>> THEN None ELSE Head(entries)
Final(entries) == IF entries = <<>> THEN None ELSE Last(entries)

RECURSIVE Get(_, _, _), EntryAfter(_, _, _), EntryBefore(_, _, _)
RECURSIVE FirstEntry(_), LastEntry(_)

Get(n, depth, key) ==
  LET i == IndexAt(key, depth)
  IN IF n.kind = "leaf" THEN First(SelectSeq(n.values, LAMBDA e : e.key = key))
     ELSE IF i = None THEN n.leaf
     ELSE IF n.branches[i] = None THEN None ELSE Get(n.branches[i], depth + 1, key)

FirstEntry(n) ==
  IF n.kind = "leaf" THEN First(n.values)
  ELSE IF n.leaf # None THEN n.leaf
  ELSE LET bs == Children(n.branches) IN IF bs = <<>> THEN None ELSE FirstEntry(Head(bs))

LastEntry(n) ==
  IF n.kind = "leaf" THEN Final(n.values)
  ELSE LET bs == Children(n.branches) IN IF bs = <<>> THEN n.leaf ELSE LastEntry(Last(bs))

\* The branch a search goes down: the first one when the key has ended.
BranchFor(key, depth) == IF IndexAt(key, depth) = None THEN 0 ELSE IndexAt(key, depth)

\* A mutant: when a branch has nothing after the key, the others are not tried.
EntryAfter_SameBranchOnly(n, depth, key) ==
  IF n.kind = "leaf" THEN First(SelectSeq(n.values, LAMBDA e : Less(key, e.key)))
  ELSE LET i == BranchFor(key, depth)
       IN IF n.leaf # None /\ Less(key, n.leaf.key) THEN n.leaf
          ELSE IF n.branches[i] = None THEN None
          ELSE EntryAfter(n.branches[i], depth + 1, key)

EntryAfter(n, depth, key) ==
  IF n.kind = "leaf" THEN First(SelectSeq(n.values, LAMBDA e : Less(key, e.key)))
  ELSE LET i == BranchFor(key, depth)
           below == IF n.branches[i] = None THEN None
                    ELSE EntryAfter(n.branches[i], depth + 1, key)
           later == {j \in Digits : j > i /\ n.branches[j] # None}
       IN IF n.leaf # None /\ Less(key, n.leaf.key) THEN n.leaf
          ELSE IF below # None THEN below
          ELSE IF later = {} THEN None ELSE FirstEntry(n.branches[Min(later)])

EntryBefore(n, depth, key) ==
  IF n.kind = "leaf" THEN Final(SelectSeq(n.values, LAMBDA e : Less(e.key, key)))
  ELSE LET i == BranchFor(key, depth)
           below == IF n.branches[i] = None THEN None
                    ELSE EntryBefore(n.branches[i], depth + 1, key)
           earlier == {j \in Digits : j < i /\ n.branches[j] # None}
       IN IF below # None THEN below
          ELSE IF earlier # {} THEN LastEntry(n.branches[Max(earlier)])
          ELSE IF n.leaf # None /\ Less(n.leaf.key, key) THEN n.leaf
          ELSE None

(***************************************************************************)
(* An iterator is a range with two bounds, each "included", "excluded" or  *)
(* "unbounded"; every item it gives moves the bound it came from.          *)
(***************************************************************************)
IsComplete(r) ==
  /\ r.start.kind # "unbounded" /\ r.end.kind # "unbounded"
  /\ \/ Less(r.end.key, r.start.key)
     \/ /\ r.start.key = r.end.key
        /\ r.start.kind = "excluded" /\ r.end.kind = "excluded"

\* Whether a key is on the right side of a bound.
AboveStart(b, key) == \/ b.kind = "unbounded" \/ Less(b.key, key)
                      \/ b.kind = "included" /\ b.key = key
BelowEnd(b, key) == \/ b.kind = "unbounded" \/ Less(key, b.key)
                    \/ b.kind = "included" /\ b.key = key

\* The entry the next call looks at, and the one after a call from the back.
NextItem(n, r) ==
  LET key == IF r.start.kind = "unbounded" THEN <<>> ELSE r.start.key
      here == IF r.start.kind = "excluded" THEN None ELSE Get(n, 0, key)
      e == IF here # None THEN here ELSE EntryAfter(n, 0, key)
  IN IF IsComplete(r) \/ e = None \/ ~BelowEnd(r.end, e.key) THEN None ELSE e

NextBackItem(n, r) ==
  LET here == CASE r.end.kind = "included" -> Get(n, 0, r.end.key)
                [] r.end.kind = "excluded" -> None
                [] OTHER -> LastEntry(n)
      e == IF here # None \/ r.end.kind = "unbounded" THEN here
           ELSE EntryBefore(n, 0, r.end.key)
  IN IF IsComplete(r) \/ e = None \/ ~AboveStart(r.start, e.key) THEN None ELSE e

(***************************************************************************)
(* Iterating to the end: from the front, from the back, or by turns.  The  *)
(* two sequences are what came from the front and from the back.           *)
(***************************************************************************)
RECURSIVE Iterate(_, _, _, _, _)
Iterate(n, r, turns, front, back) ==
  LET forward == Head(turns) = "next"
      e == IF forward THEN NextItem(n, r) ELSE NextBackItem(n, r)
      moved == [kind |-> "excluded", key |-> e.key]
      later == Append(Tail(turns), Head(turns))
  IN IF e = None THEN front \o Reverse(back)
     ELSE IF forward
     THEN Iterate(n, [r EXCEPT !.start = moved], later, Append(front, e), back)
     ELSE Iterate(n, [r EXCEPT !.end = moved], later, front, Append(back, e))

(***************************************************************************)
(* The operations.                                                         *)
(***************************************************************************)
Insert(h, k, v) ==
  /\ maps' = [maps EXCEPT ![h] = NodeInsert(h, <<>>, @, [key |-> k, value |-> v]).node]
  /\ content' = [content EXCEPT ![h] = (k :> v) @@ @]

GetMut(h, k, v) ==
  /\ maps' = [maps EXCEPT ![h] = NodeGetMut(h, <<>>, @, k, v)]
  /\ content' = [content EXCEPT ![h] = IF k \in DOMAIN @ THEN (k :> v) @@ @ ELSE @]

MapRemove(h, k) ==
  /\ maps' = [maps EXCEPT ![h] = NodeRemove(h, <<>>, @, k).node]
  /\ content' = [content EXCEPT ![h] = Restrict(@, DOMAIN @ \ {k})]

\* clone: the nodes are shared, and their cells with them.
Clone(h, g) ==
  /\ h # g
  /\ CloneUnserialized \/ maps[g].filled # None
  /\ maps' = [maps EXCEPT ![h] = maps[g]]
  /\ content' = [content EXCEPT ![h] = content[g]]

\* serialize: every open cell on the way is filled, for all who share it.
Serialize(h) ==
  LET seen == [c \in {n.cell : n \in Visited(maps[h])} |->
                Contents(CHOOSE n \in Visited(maps[h]) : n.cell = c)]
  IN /\ maps' = [g \in Handles |-> Fill(maps[g], seen)]
     /\ UNCHANGED content

\* deserialize or load: from what g was serialized to.
Load(h, g) ==
  /\ h # g /\ maps[g].filled # None
  /\ maps' = [maps EXCEPT ![h] = Decode(maps[g].filled)]
  /\ content' = [content EXCEPT ![h] = content[g]]

MapInit ==
  /\ maps = [h \in Handles |-> [kind |-> "leaf", values |-> <<>>,
                                cell |-> <<<<>>, h>>, filled |-> None]]
  /\ content = [h \in Handles |-> <<>>]

MapNext ==
  \/ \E h \in Handles, e \in Entries : Insert(h, e[1], e[2]) \/ GetMut(h, e[1], e[2])
  \/ \E h \in Handles, k \in Keys : MapRemove(h, k)
  \/ \E h, g \in Handles : Clone(h, g) \/ Load(h, g)
  \/ \E h \in Handles : Serialize(h)

MapSpec == MapInit /\ [][MapNext]_mapVars

-----------------------------------------------------------------------------
(***************************************************************************)
(* Properties                                                              *)
(***************************************************************************)
EntriesOf(h) == {[key |-> k, value |-> content[h][k]] : k \in DOMAIN content[h]}

SortedKeys == SetToSortSeq(Keys, Less)

SortedEntries(es) ==
  LET ks == SelectSeq(SortedKeys, LAMBDA k : \E e \in es : e.key = k)
  IN [i \in 1 .. Len(ks) |-> CHOOSE e \in es : e.key = ks[i]]

\* The one tree for a set of entries: a leaf when they fit, and else a tree
\* with the entry that ends here and the others parted by their next digit.
RECURSIVE TheTree(_, _)
TheTree(es, depth) ==
  IF Cardinality(es) <= Capacity
  THEN [kind |-> "leaf", values |-> SortedEntries(es)]
  ELSE LET part(i) == {e \in es : IndexAt(e.key, depth) = i}
       IN [kind |-> "tree", len |-> Cardinality(es),
           leaf |-> IF part(None) = {} THEN None ELSE CHOOSE e \in part(None) : TRUE,
           branches |-> [i \in Digits |-> TheTree(part(i), depth + 1)]]

\* A map holds what was written to it, nothing else and nothing written to
\* another one that shares its nodes, and its tree depends on these entries
\* alone, not on the insertions and removals that led to them (tree_contents.rs
\* insert, remove and into_node_after_removal, the split of a full leaf, clone,
\* load).
TreeIsCanonical == \A h \in Handles : PureContents(maps[h]) = TheTree(EntriesOf(h), 0)

\* What a node remembers to have been serialized to is what it would be
\* serialized to now (lockable.rs as_mut, set_merkle_contents_raw): a write never
\* leaves a stale hash behind, in the map written to or in one it shares with.
LockedIsCurrent ==
  \A h \in Handles : \A n \in Nodes(maps[h]) :
    n.filled # None => n.filled = PureContents(n)

\* Two validators that hold the same entries compute the same hash, whichever
\* insertions, removals, clones and saves have led there.
SameEntriesSameHash == TreeIsCanonical /\ LockedIsCurrent

\* An iterator over a range gives its entries once each and in the order of
\* their keys, from the front, from the back and by turns (iter.rs next,
\* next_back, find_entry_after, find_entry_before), also when a bound is absent
\* from the map or ends inside the tree.
IteratesInOrder ==
  \A h \in Handles, r \in Ranges :
    LET inside == {e \in EntriesOf(h) : AboveStart(r.start, e.key) /\ BelowEnd(r.end, e.key)}
    IN \A turns \in {<<"next">>, <<"back">>, <<"next", "back">>} :
         Iterate(maps[h], r, turns, <<>>, <<>>) = SortedEntries(inside)
=============================================================================
