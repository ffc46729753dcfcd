------------------------------ MODULE Accounts ------------------------------
(***************************************************************************)
(* The accounts of the framework state.  An account has a nonce, public    *)
(* keys, wallets and coins; two lookup maps, which are not serialized,     *)
(* lead from a key or a wallet to its account and are rebuilt when a node  *)
(* loads the state.  The operators here say what each operation needs and  *)
(* what it does to the state s; a transaction applies them to a copy of    *)
(* the state, which is dropped when one of them fails.                     *)
(*                                                                         *)
(* There is one asset, and amounts are in Kolme's finer units.             *)
(***************************************************************************)
EXTENDS Integers, Sequences, FiniteSets, SequencesExt, FiniteSetsExt, Functions

CONSTANTS
  Key, Wallet,
  IdSpace,   \* account ids are modulo this (2^64)
  Scale      \* Kolme's units in one of the external chain's

ASSUME AccountsAssumption == IdSpace \in Nat \ {0} /\ Scale \in Nat \ {0}

\* A partial function with one more entry, and with one less.
Entry(f, x, y) == [z \in DOMAIN f \cup {x} |-> IF z = x THEN y ELSE f[z]]
Minus(f, x) == [z \in DOMAIN f \ {x} |-> f[z]]

Fresh == [nonce |-> 0, keys |-> {}, wallets |-> {}, coins |-> 0]

NoAccounts == [all |-> << >>, keyOf |-> << >>, walletOf |-> << >>]

-----------------------------------------------------------------------------
\* New accounts.

NextId(s) == IF DOMAIN s.all = {} THEN 0 ELSE (Max(DOMAIN s.all) + 1) % IdSpace

\* get_or_default
Opened(s, id) == IF id \in DOMAIN s.all THEN s.all[id] ELSE Fresh

AccountForKey(s, k) ==
  LET id == NextId(s)
  IN  IF k \in DOMAIN s.keyOf THEN s
      ELSE [s EXCEPT !.keyOf = Entry(@, k, id),
                     !.all = Entry(@, id, [Opened(s, id) EXCEPT !.keys = @ \cup {k}])]

AccountForWallet(s, w) ==
  LET id == NextId(s)
  IN  IF w \in DOMAIN s.walletOf THEN s
      ELSE [s EXCEPT !.walletOf = Entry(@, w, id),
                     !.all = Entry(@, id, [Opened(s, id) EXCEPT !.wallets = @ \cup {w}])]

-----------------------------------------------------------------------------
\* The nonce of whoever signs.

Sender(s, k) == AccountForKey(s, k).keyOf[k]
NonceFits(s, k, n) == AccountForKey(s, k).all[Sender(s, k)].nonce = n
UseNonce(s, k) ==
  [AccountForKey(s, k) EXCEPT !.all[Sender(s, k)].nonce = @ + 1]

-----------------------------------------------------------------------------
\* Keys and wallets of the sender's account.  A key that signs the transaction
\* cannot be removed in it.

CanAddKey(s, k) == k \notin DOMAIN s.keyOf
AddKey(s, id, k) ==
  [s EXCEPT !.keyOf = Entry(@, k, id), !.all[id].keys = @ \cup {k}]

\* A deposit names keys to add; those in use are passed over.
AddKeyIfNew(s, id, k) == IF CanAddKey(s, k) THEN AddKey(s, id, k) ELSE s
AddKeys(s, id, keys) == FoldSet(LAMBDA k, a : AddKeyIfNew(a, id, k), s, keys)

CanRemoveKey(s, by, k) ==
  k # by.key /\ k \in DOMAIN s.keyOf /\ s.keyOf[k] = by.id
RemoveKey(s, id, k) ==
  [s EXCEPT !.keyOf = Minus(@, k), !.all[id].keys = @ \ {k}]

CanAddWallet(s, w) == w \notin DOMAIN s.walletOf
AddWallet(s, id, w) ==
  [s EXCEPT !.walletOf = Entry(@, w, id), !.all[id].wallets = @ \cup {w}]

CanRemoveWallet(s, by, w) == w \in DOMAIN s.walletOf /\ s.walletOf[w] = by.id
RemoveWallet_KeepsLookup(s, id, w) == [s EXCEPT !.all[id].wallets = @ \ {w}]
RemoveWallet(s, id, w) ==
  [s EXCEPT !.walletOf = Minus(@, w), !.all[id].wallets = @ \ {w}]

-----------------------------------------------------------------------------
\* Coins.  Minting opens the account it is for.

Mint(s, id, n) ==
  [s EXCEPT !.all = Entry(@, id, [Opened(s, id) EXCEPT !.coins = @ + n])]

CanBurn(s, id, n) == n > 0 /\ id \in DOMAIN s.all /\ s.all[id].coins >= n
Burn(s, id, n) == [s EXCEPT !.all[id].coins = @ - n]

Transfer(s, from, to, n) == Mint(Burn(s, from, n), to, n)

\* What of an amount the external chain can express.
Expressible(n) == Scale * (n \div Scale)

-----------------------------------------------------------------------------
\* What a node has after it has loaded the accounts.

Owners(s, x, field) == {id \in DOMAIN s.all : x \in s.all[id][field]}

CanLoad(all) ==
  \A i, j \in DOMAIN all :
    i # j => all[i].keys \cap all[j].keys = {} /\ all[i].wallets \cap all[j].wallets = {}

Loaded(s) ==
  LET of(X, field) == [x \in {y \in X : Owners(s, y, field) # {}} |->
                         CHOOSE id \in DOMAIN s.all : x \in s.all[id][field]]
  IN  [s EXCEPT !.keyOf = of(Key, "keys"), !.walletOf = of(Wallet, "wallets")]
=============================================================================
