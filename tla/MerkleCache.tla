---------------------------- MODULE MerkleCache ----------------------------
(***************************************************************************)
(* The process-wide cache of locked Merkle values, for the entry of one    *)
(* hash.  A thread that serializes or reads a node makes a Locked, which   *)
(* holds a counted key and the node's value; the cache holds the value and *)
(* a weak reference to the key.  Dropping the last reference to the key    *)
(* takes the cache's write lock and removes the entry, and what the entry  *)
(* holds is dropped while the lock is still held.                          *)
(*                                                                         *)
(* The lock is not reentrant: were the entry the last holder of the value, *)
(* the nodes below it would be dropped under the lock, and the first of    *)
(* them that is the last of its own hash would wait for the lock for ever. *)
(*                                                                         *)
(* The node keeps its value beside its Locked and drops it later: that     *)
(* could only help, and is left out.                                       *)
(***************************************************************************)
EXTENDS Naturals, FiniteSets

CONSTANTS
  Threads,
  NoLock,    \* a thread that has no Locked
  NoEntry,   \* a hash that is not in the cache
  NoArc      \* a reference that has been dropped

ASSUME MerkleCacheAssumption ==
  /\ IsFiniteSet(Threads)
  /\ NoArc \notin Nat
  /\ {NoLock, NoEntry} \cap [key : Nat \cup {NoArc}, value : Nat] = {}

VARIABLES entry,   \* what the cache has for the hash: a key and a value
          at,      \* where a thread is
          inner,   \* the value a thread is about to lock
          lock     \* the thread's Locked: a key and a value

cacheVars == <<entry, at, inner, lock>>

\* Reference counted cells have numbers: a new one has the first free one.
Locks == {lock[t] : t \in {u \in Threads : lock[u] # NoLock}}
           \cup (IF entry = NoEntry THEN {} ELSE {entry})

FirstFree(taken) == CHOOSE a \in 1 .. Cardinality(taken) + 1 :
                      a \notin taken /\ \A b \in 1 .. a - 1 : b \in taken

NewKey == FirstFree({l.key : l \in Locks} \ {NoArc})
NewValue == FirstFree(({l.value : l \in Locks} \cup {inner[t] : t \in Threads}) \ {NoArc})

KeyIsHeld(k) == \E t \in Threads : lock[t] # NoLock /\ lock[t].key = k

\* Weak::upgrade works as long as somebody holds the key.
Hit == entry # NoEntry /\ KeyIsHeld(entry.key)

\* A node is made, or read from its bytes.
Make(t) ==
  /\ at[t] = "idle"
  /\ inner' = [inner EXCEPT ![t] = NewValue] /\ at' = [at EXCEPT ![t] = "open"]
  /\ UNCHANGED <<entry, lock>>

\* load_merkle_by_hash: the value comes from the cache.
LoadCached(t) ==
  /\ at[t] = "idle" /\ Hit
  /\ lock' = [lock EXCEPT ![t] = entry] /\ at' = [at EXCEPT ![t] = "locked"]
  /\ UNCHANGED <<entry, inner>>

\* Locked::new, first under the read lock.
LookUp(t) ==
  /\ at[t] = "open"
  /\ lock' = [lock EXCEPT ![t] = IF Hit THEN entry ELSE NoLock]
  /\ at' = [at EXCEPT ![t] = IF Hit THEN "locked" ELSE "missed"]
  /\ inner' = [inner EXCEPT ![t] = IF Hit THEN NoArc ELSE @]
  /\ UNCHANGED entry

\* Then under the write lock, where it may have appeared.  An entry whose key is
\* gone is replaced.
Enter(t) ==
  /\ at[t] = "missed"
  /\ entry' = IF Hit THEN entry ELSE [key |-> NewKey, value |-> inner[t]]
  /\ lock' = [lock EXCEPT ![t] = entry'] /\ at' = [at EXCEPT ![t] = "locked"]
  /\ inner' = [inner EXCEPT ![t] = NoArc]

\* A mutant: the fields of Locked are dropped in the other order.
DropKey_ValueFirst(t) ==
  /\ at[t] = "locked"
  /\ lock' = [lock EXCEPT ![t] = NoLock]
  /\ LET shared == \E u \in Threads \ {t} : lock[u] # NoLock /\ lock[u].key = lock[t].key
     IN at' = [at EXCEPT ![t] = IF shared THEN "releasing" ELSE "removing"]
  /\ UNCHANGED <<entry, inner>>

\* The Locked is dropped, its key first.
DropKey(t) ==
  /\ at[t] = "locked"
  /\ lock' = [lock EXCEPT ![t].key = NoArc]
  /\ LET shared == \E u \in Threads \ {t} : lock[u] # NoLock /\ lock[u].key = lock[t].key
     IN at' = [at EXCEPT ![t] = IF shared THEN "releasing" ELSE "removing"]
  /\ UNCHANGED <<entry, inner>>

\* CleanupLockKey::drop: whatever the cache has for the hash is removed.
RemoveEntry(t) ==
  /\ at[t] = "removing"
  /\ entry' = NoEntry /\ at' = [at EXCEPT ![t] = "releasing"]
  /\ UNCHANGED <<inner, lock>>

\* Then its value, and the node is dropped or changed.
Release(t) ==
  /\ at[t] = "releasing"
  /\ lock' = [lock EXCEPT ![t] = NoLock] /\ at' = [at EXCEPT ![t] = "idle"]
  /\ UNCHANGED <<entry, inner>>

CacheInit ==
  /\ entry = NoEntry
  /\ at = [t \in Threads |-> "idle"]
  /\ inner = [t \in Threads |-> NoArc]
  /\ lock = [t \in Threads |-> NoLock]

CacheNext == \E t \in Threads :
  \/ Make(t) \/ LoadCached(t) \/ LookUp(t) \/ Enter(t)
  \/ DropKey(t) \/ RemoveEntry(t) \/ Release(t)

CacheSpec == CacheInit /\ [][CacheNext]_cacheVars
-----------------------------------------------------------------------------
(***************************************************************************)
(* Properties                                                              *)
(***************************************************************************)
\* An entry that is removed or replaced is not the last holder of its value, in
\* whatever order threads look up, enter and drop (locked.rs: the order of the
\* fields of Locked, CleanupLockKey::drop): no node is ever dropped while the lock
\* it may need is held.
NoDropUnderLock ==
  [][entry # NoEntry /\ entry' # entry =>
       \E t \in Threads : lock'[t] # NoLock /\ lock'[t].value = entry.value]_cacheVars
=============================================================================
