----------------------------- MODULE MCNodeStore -----------------------------
(* Values for TLC of the constants of what one node stores, and what it says *)
(* of it: the stores, with the accounts and the six-sigma application as     *)
(* what is stored (NodeStore), the map whose hash stands for it (MerkleMap), *)
(* the cache of such values (MerkleCache), a search in its blocks            *)
(* (ForkInfo), their export to another node (ImportExport) and what its      *)
(* clients are told (Notifications).  These share no state: each is explored *)
(* with the others at rest.  Bytes have two binary digits and leaves take    *)
(* two entries, so that five keys make trees in trees, an entry at a tree    *)
(* itself, leaves that split and trees that become leaves again.             *)
EXTENDS NodeStore, MerkleMap, MerkleCache, ForkInfo, ImportExport, Notifications

CONSTANTS v, k, j, w, m1

\* A bet on the favourite only pays back the stake.
MCOdds == [o \in {1, 2} |-> IF o = 1 THEN 1 ELSE 3]

Dep(keys, n) == [type |-> "deposit", wallet |-> w, keys |-> keys, amount |-> n]
Put(o) == [type |-> "bet", market |-> m1, outcome |-> o, amount |-> 2]

\* Keys and wallets come and go.
Auth ==
  { <<Dep({k}, 0)>>,
    <<[type |-> "addKey", key |-> j], [type |-> "addWallet", wallet |-> w]>>,
    <<[type |-> "sendFunds", amount |-> 1]>>,
    <<[type |-> "removeKey", key |-> k]>>,
    <<[type |-> "removeKey", key |-> j]>>,
    <<[type |-> "removeWallet", wallet |-> w]>> }

\* The house is opened, and bet at.
House ==
  { <<[type |-> "init"], [type |-> "sendFunds", amount |-> 6],
      [type |-> "addMarket", market |-> m1]>>,
    <<Dep({k}, 4)>>,
    <<Put(1)>>, <<Put(2)>>,
    <<[type |-> "settle", market |-> m1, outcome |-> 1]>>,
    <<[type |-> "settle", market |-> m1, outcome |-> 2]>>,
    <<[type |-> "withdraw", amount |-> 3]>>,
    <<[type |-> "transfer", dest |-> 5, amount |-> 1]>> }

MCUses == {[bodies |-> Auth, height |-> 4], [bodies |-> House, height |-> 5]}

bound(kind, key) == [kind |-> kind, key |-> key]
all == bound("unbounded", None)

FiveKeys == {<<>>, <<0>>, <<1>>, <<2>>, <<0, 1>>}
SomeEntries == {<<key, 1>> : key \in FiveKeys} \cup {<<<<0>>, 2>>}

SomeRanges == {
  [start |-> all, end |-> all],
  [start |-> bound("included", <<0>>), end |-> bound("excluded", <<2>>)],
  [start |-> bound("excluded", <<0>>), end |-> bound("included", <<1>>)],
  [start |-> bound("included", <<0, 0>>), end |-> all],
  [start |-> all, end |-> bound("included", <<3, 1>>)],
  [start |-> bound("excluded", <<1>>), end |-> bound("excluded", <<1>>)] }

\* Chains with their versions in order, and one whose version was lowered.
ChainOf(versions) == [h \in 0..(Len(versions) - 1) |-> versions[h + 1]]
SomeChains ==
  {ChainOf(c) : c \in { <<1, 1, 2, 2, 2, 3, 3>>, <<2, 2, 3, 3, 3, 3, 3, 3>>,
                       <<1, 1, 2, 1, 1, 2, 2, 2>> }}
SomeGaps == {{}, {4}, {0, 1, 3, 5}}

\* A state whose layers share layers, and a processor that is replaced.
SomeChildren ==
  [l \in {"a", "b", "ab", "abb"} |->
    CASE l = "ab" -> {"a", "b"} [] l = "abb" -> {"ab", "b"} [] OTHER -> {}]
Block(framework, app, logs, signer, processor) ==
  [framework |-> framework, app |-> app, logs |-> logs,
   signer |-> signer, processor |-> processor]
ThreeBlocks ==
  << Block("ab", "a", "a", "k1", "k1"), Block("abb", "a", "b", "k1", "k2"),
     Block("abb", "a", "a", "k2", "k2") >>

VARIABLE part   \* what is explored, the rest staying as it starts

MCVars == <<vars, mapVars, cacheVars, forkVars, importExportVars, notifyVars, part>>

MCInit ==
  /\ Init /\ MapInit /\ CacheInit /\ ForkInit /\ ImportExportInit /\ NotifyInit
  /\ part \in {"app", "map", "cache", "fork", "file", "notify"}
  /\ part # "app" => store = "fjall" /\ use.height = 4
  /\ part # "fork" => wanted = 1 /\ nextHeight = 7 /\ held = Heights

MCNext ==
  /\ \/ /\ part = "app" /\ Next
        /\ UNCHANGED <<mapVars, cacheVars, forkVars, importExportVars, notifyVars>>
     \/ /\ part = "map" /\ MapNext
        /\ UNCHANGED <<vars, cacheVars, forkVars, importExportVars, notifyVars>>
     \/ /\ part = "cache" /\ CacheNext
        /\ UNCHANGED <<vars, mapVars, forkVars, importExportVars, notifyVars>>
     \/ /\ part = "fork" /\ ForkNext
        /\ UNCHANGED <<vars, mapVars, cacheVars, importExportVars, notifyVars>>
     \/ /\ part = "file" /\ ImportExportNext
        /\ UNCHANGED <<vars, mapVars, cacheVars, forkVars, notifyVars>>
     \/ /\ part = "notify" /\ NotifyNext
        /\ UNCHANGED <<vars, mapVars, cacheVars, forkVars, importExportVars>>
  /\ UNCHANGED part

MCSpec == MCInit /\ [][MCNext]_MCVars
=============================================================================
