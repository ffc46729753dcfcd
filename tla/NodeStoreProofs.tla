--------------------------- MODULE NodeStoreProofs ---------------------------
(***************************************************************************)
(* Proofs about NodeStore, for every set of keys and of markets, every     *)
(* transaction and every number of crashes: no transaction is executed     *)
(* twice, whatever is lost in a crash a node can start from what is left,  *)
(* and no coin is made or lost.                                            *)
(*                                                                         *)
(* A state is well formed when its lookups lead both ways and its amounts  *)
(* are numbers. What a message adds to its surplus, the coins that are in  *)
(* it over those that came in, is what the message is said to add, and no  *)
(* message that succeeds adds any; so every state that a node computes is  *)
(* well formed and has surplus 0. The store is closed under what an entry  *)
(* refers to, however many of the writes that are under way are done.      *)
(***************************************************************************)
EXTENDS NodeStore, SequenceTheorems, FiniteSetTheorems, WellFoundedInduction,
        TLAPS

-----------------------------------------------------------------------------
\* Folds.

\* A set of numbers has a least one.
LEMMA LeastNat ==
  ASSUME NEW s, s \subseteq Nat, s # {}
  PROVE  \E x \in s : \A y \in s : x <= y
<1> DEFINE R == OpToRel(<, Nat)
<1>1. IsWellFoundedOn(R, Nat) /\ \A x, y \in Nat : y < x => <<y, x>> \in R
  BY NatLessThanWellFounded DEF OpToRel
<1> HIDE DEF R
<1>2. PICK x \in s : \A y \in s : ~(<<y, x>> \in R)
  BY <1>1, WFMin
<1>3. ASSUME NEW y \in s PROVE x <= y
  <2>1. x \in Nat /\ y \in Nat
    OBVIOUS
  <2>2. ~(y < x)
    BY <1>1, <1>2, <2>1
  <2> QED
    BY <2>1, <2>2
<1> QED
  BY <1>3

\* A set of numbers that has 0 and what follows each of its numbers.
LEMMA AllNumbers ==
  ASSUME NEW Q, Q \subseteq Nat, 0 \in Q, \A n \in Q : n + 1 \in Q
  PROVE  Q = Nat
<1> SUFFICES ASSUME Nat \ Q # {} PROVE FALSE
  OBVIOUS
<1>1. PICK x \in Nat \ Q : \A y \in Nat \ Q : x <= y
  BY LeastNat
<1>2. x - 1 \in Nat /\ ~(x <= x - 1)
  BY <1>1
<1>3. x - 1 \in Q /\ (x - 1) + 1 = x
  BY <1>1, <1>2
<1> QED
  BY <1>1, <1>3

Chosen(s) == CHOOSE x \in s : TRUE

LEMMA ChosenIsIn == \A s : s # {} => Chosen(s) \in s
  BY DEF Chosen

\* What the folds of the application, and a sum, do with each element.
Step(k, r, x) ==
  CASE k.does = "message" -> Message(r, x, k.by)
    [] k.does = "pay" -> Pay(r, x, k.outcome)
    [] k.does = "sum" -> Paid(r, x, k.outcome)
    [] k.does = "key" -> AddKeyIfNew(r, k.id, x)
    [] k.does = "add" -> x + r

\* g is the iteration over the parts of S that a fold is defined by: f gives the
\* elements and c chooses one.
Iterates(g, k, base, f, c, S) ==
  g = [s \in SUBSET S |-> IF s = {} THEN base ELSE Step(k, g[s \ {c[s]}], f[c[s]])]

\* The parts of S with at most n elements.
UpTo(S, n) == {s \in SUBSET S : Cardinality(s) <= n}

LEMMA IterationExists ==
  ASSUME NEW k, NEW base, NEW f, NEW c, NEW S, IsFiniteSet(S),
         \A s \in SUBSET S : s # {} => c[s] \in s
  PROVE  \E g : Iterates(g, k, base, f, c, S)
<1> DEFINE Q == {n \in Nat : \E g : g =
             [s \in UpTo(S, n) |-> IF s = {} THEN base ELSE Step(k, g[s \ {c[s]}], f[c[s]])]}
<1> HIDE DEF Q
<1>1. ASSUME NEW s \in SUBSET S
      PROVE  /\ IsFiniteSet(s) /\ Cardinality(s) \in Nat /\ (Cardinality(s) = 0 <=> s = {})
             /\ s # {} => /\ s \ {c[s]} \in SUBSET S
                          /\ Cardinality(s \ {c[s]}) = Cardinality(s) - 1
  <2>1. IsFiniteSet(s)
    BY FS_Subset
  <2>2. Cardinality(s) \in Nat /\ (Cardinality(s) = 0 <=> s = {})
    BY <2>1, FS_CardinalityType, FS_EmptySet
  <2>3. s # {} => Cardinality(s \ {c[s]}) = Cardinality(s) - 1
    BY <2>1, FS_RemoveElement
  <2> QED
    BY <2>1, <2>2, <2>3
<1>2. 0 \in Q
  <2>1. ASSUME NEW s \in UpTo(S, 0) PROVE s = {}
    <3>1. s \in SUBSET S /\ Cardinality(s) <= 0
      BY DEF UpTo
    <3>2. Cardinality(s) \in Nat /\ (Cardinality(s) = 0 <=> s = {})
      BY <1>1, <3>1
    <3> QED
      BY <3>1, <3>2
  <2> DEFINE g == [s \in UpTo(S, 0) |-> base]
  <2>2. g = [s \in UpTo(S, 0) |-> IF s = {} THEN base ELSE Step(k, g[s \ {c[s]}], f[c[s]])]
    BY <2>1
  <2> QED
    BY <2>2 DEF Q
<1>3. ASSUME NEW n \in Nat, n \in Q PROVE n + 1 \in Q
  <2>1. PICK g : g = [s \in UpTo(S, n) |->
                        IF s = {} THEN base ELSE Step(k, g[s \ {c[s]}], f[c[s]])]
    BY <1>3 DEF Q
  <2> DEFINE h == [s \in UpTo(S, n + 1) |->
                     IF s = {} THEN base ELSE Step(k, g[s \ {c[s]}], f[c[s]])]
  <2>2. ASSUME NEW s \in UpTo(S, n) PROVE s \in UpTo(S, n + 1) /\ h[s] = g[s]
    <3>1. s \in UpTo(S, n + 1)
      <4>1. s \in SUBSET S /\ Cardinality(s) <= n
        BY DEF UpTo
      <4>2. Cardinality(s) \in Nat
        BY <1>1, <4>1
      <4>3. Cardinality(s) <= n + 1
        BY <4>1, <4>2
      <4> QED
        BY <4>1, <4>3 DEF UpTo
    <3>2. g[s] = IF s = {} THEN base ELSE Step(k, g[s \ {c[s]}], f[c[s]])
      BY <2>1
    <3> QED
      BY <3>1, <3>2
  <2>3. ASSUME NEW s \in UpTo(S, n + 1), s # {} PROVE s \ {c[s]} \in UpTo(S, n)
    <3>1. s \in SUBSET S /\ Cardinality(s) <= n + 1
      BY DEF UpTo
    <3>2. /\ s \ {c[s]} \in SUBSET S /\ Cardinality(s) \in Nat
          /\ Cardinality(s \ {c[s]}) = Cardinality(s) - 1
      BY <1>1, <2>3, <3>1
    <3>3. Cardinality(s \ {c[s]}) <= n
      BY <3>1, <3>2
    <3> QED
      BY <3>2, <3>3 DEF UpTo
  <2>4. ASSUME NEW s \in UpTo(S, n + 1)
        PROVE  h[s] = IF s = {} THEN base ELSE Step(k, h[s \ {c[s]}], f[c[s]])
    BY <2>2, <2>3
  <2>5. h = [s \in UpTo(S, n + 1) |->
               IF s = {} THEN base ELSE Step(k, h[s \ {c[s]}], f[c[s]])]
    <3>1. h = [s \in UpTo(S, n + 1) |-> h[s]]
      OBVIOUS
    <3> HIDE DEF h
    <3> QED
      BY <2>4, <3>1
  <2> HIDE DEF h
  <2> QED
    BY <2>5 DEF Q
<1>4. Q = Nat
  <2>1. Q \subseteq Nat
    BY DEF Q
  <2> QED
    BY <1>2, <1>3, <2>1, AllNumbers
<1>5. Cardinality(S) \in Nat
  BY <1>1
<1>6. UpTo(S, Cardinality(S)) = SUBSET S
  BY FS_Subset DEF UpTo
<1>7. Cardinality(S) \in Q
  BY <1>4, <1>5
<1>8. PICK g : g = [s \in UpTo(S, Cardinality(S)) |->
                      IF s = {} THEN base ELSE Step(k, g[s \ {c[s]}], f[c[s]])]
  BY <1>7 DEF Q
<1> QED
  BY <1>6, <1>8 DEF Iterates

\* g is the successive results of a fold over the sequence from left to right.
Runs(g, k, base, seq) ==
  g[0] = base /\ \A i \in 1..Len(seq) : g[i] = Step(k, g[i - 1], seq[i])

LEMMA MaxOfInterval ==
  ASSUME NEW n \in Nat, NEW s, s \subseteq 1..n, s # {}
  PROVE  Max(s) \in s /\ \A i \in s : i <= Max(s)
<1> DEFINE gaps == {n - i : i \in s}
<1>0. gaps \subseteq Nat /\ gaps # {} /\ \A i \in s : n - i \in gaps
  <2>1. \A i \in s : n - i \in Nat
    OBVIOUS
  <2>2. \A i \in s : n - i \in gaps
    OBVIOUS
  <2> QED
    BY <2>1, <2>2
<1> HIDE DEF gaps
<1>1. PICK d \in gaps : \A e \in gaps : d <= e
  BY <1>0, LeastNat
<1>2. PICK x \in s : d = n - x
  BY <1>1 DEF gaps
<1>3. \A i \in s : x >= i
  BY <1>0, <1>1, <1>2
<1>4. Max(s) = CHOOSE y \in s : \A i \in s : y >= i
  BY DEF Max
<1>5. Max(s) \in s /\ \A i \in s : Max(s) >= i
  BY <1>2, <1>3, <1>4
<1> QED
  BY <1>5

\* g is the iteration that a fold from left to right is defined by.
IteratesLeft(g, k, base, seq) ==
  g = [s \in SUBSET DOMAIN seq |->
         IF s = {} THEN base ELSE Step(k, g[s \ {Max(s)}], seq[Max(s)])]

LEMMA LeftIterationExists ==
  ASSUME NEW k, NEW base, NEW S, NEW seq \in Seq(S)
  PROVE  \E g : IteratesLeft(g, k, base, seq)
<1>1. PICK D, c : D = DOMAIN seq /\ c = [s \in SUBSET D |-> Max(s)]
  OBVIOUS
<1>2. D = 1..Len(seq) /\ Len(seq) \in Nat
  BY <1>1
<1>3. IsFiniteSet(D)
  BY <1>2, FS_Interval
<1>4. \A s \in SUBSET D : s # {} => c[s] \in s
  BY <1>1, <1>2, MaxOfInterval
<1>5. PICK g : Iterates(g, k, base, seq, c, D)
  BY <1>3, <1>4, IterationExists
<1>6. g = [s \in SUBSET D |-> IF s = {} THEN base ELSE Step(k, g[s \ {Max(s)}], seq[Max(s)])]
  BY <1>1, <1>5 DEF Iterates
<1> QED
  BY <1>1, <1>6 DEF IteratesLeft

LEMMA LeftIteration ==
  ASSUME NEW k, NEW base, NEW S, NEW seq \in Seq(S), NEW g, IteratesLeft(g, k, base, seq)
  PROVE  \E h : Runs(h, k, base, seq) /\ h[Len(seq)] = g[DOMAIN seq]
<1> DEFINE h == [i \in 0..Len(seq) |-> g[1..i]]
<1>1. DOMAIN seq = 1..Len(seq) /\ Len(seq) \in Nat
  OBVIOUS
<1>2. h[0] = base
  <2>1. 1..0 = {} /\ 0 \in 0..Len(seq)
    BY <1>1
  <2> QED
    BY <2>1 DEF IteratesLeft
<1>3. ASSUME NEW i \in 1..Len(seq) PROVE h[i] = Step(k, h[i - 1], seq[i])
  <2>1. 1..i \in SUBSET DOMAIN seq /\ 1..i # {} /\ i \in 1..i
    BY <1>1
  <2>2. Max(1..i) \in 1..i /\ i <= Max(1..i)
    BY <1>1, <2>1, MaxOfInterval
  <2>3. Max(1..i) = i
    BY <1>1, <2>2
  <2>4. (1..i) \ {i} = 1..(i - 1) /\ i \in 0..Len(seq) /\ i - 1 \in 0..Len(seq)
    BY <1>1
  <2>5. g[1..i] = Step(k, g[(1..i) \ {Max(1..i)}], seq[Max(1..i)])
    BY <2>1 DEF IteratesLeft
  <2> QED
    BY <2>3, <2>4, <2>5
<1>4. h[Len(seq)] = g[DOMAIN seq]
  BY <1>1
<1> HIDE DEF h
<1> QED
  BY <1>2, <1>3, <1>4 DEF Runs

LEMMA PayRuns ==
  ASSUME NEW o, NEW base, NEW S, NEW seq \in Seq(S)
  PROVE  \E h : /\ Runs(h, [does |-> "pay", outcome |-> o], base, seq)
                /\ h[Len(seq)] = PayAll(base, seq, o)
<1>1. PICK k : k = [does |-> "pay", outcome |-> o]
  OBVIOUS
<1>2. \A r, x : Step(k, r, x) = Pay(r, x, o)
  BY <1>1 DEF Step
<1>3. PICK f : IteratesLeft(f, k, base, seq)
  BY LeftIterationExists
<1>4. f = [s \in SUBSET DOMAIN seq |->
             IF s = {} THEN base ELSE Pay(f[s \ {Max(s)}], seq[Max(s)], o)]
  BY <1>2, <1>3 DEF IteratesLeft
<1> DEFINE g == CHOOSE h : h = [s \in SUBSET DOMAIN seq |->
                   IF s = {} THEN base ELSE Pay(h[s \ {Max(s)}], seq[Max(s)], o)]
<1>5. PayAll(base, seq, o) = g[DOMAIN seq]
  BY DEF PayAll, FoldLeft, MapThenFoldSet
<1>6. g = [s \in SUBSET DOMAIN seq |->
             IF s = {} THEN base ELSE Pay(g[s \ {Max(s)}], seq[Max(s)], o)]
  BY <1>4
<1> HIDE DEF g
<1>7. IteratesLeft(g, k, base, seq)
  BY <1>2, <1>6 DEF IteratesLeft
<1>8. PICK h : Runs(h, k, base, seq) /\ h[Len(seq)] = g[DOMAIN seq]
  BY <1>7, LeftIteration
<1> QED
  BY <1>1, <1>5, <1>8

\* What a transaction does, message by message.
LEMMA MessagesRun ==
  ASSUME NEW by, NEW base, NEW S, NEW seq \in Seq(S)
  PROVE  \E h : /\ Runs(h, [does |-> "message", by |-> by], base, seq)
                /\ h[Len(seq)] = DoesAll(base, seq, by)
<1>1. PICK k : k = [does |-> "message", by |-> by]
  OBVIOUS
<1>2. \A r, x : Step(k, r, x) = Message(r, x, by)
  BY <1>1 DEF Step
<1>3. PICK f : IteratesLeft(f, k, base, seq)
  BY LeftIterationExists
<1>4. f = [s \in SUBSET DOMAIN seq |->
             IF s = {} THEN base ELSE Message(f[s \ {Max(s)}], seq[Max(s)], by)]
  BY <1>2, <1>3 DEF IteratesLeft
<1> DEFINE g == CHOOSE h : h = [s \in SUBSET DOMAIN seq |->
                   IF s = {} THEN base ELSE Message(h[s \ {Max(s)}], seq[Max(s)], by)]
<1>5. DoesAll(base, seq, by) = g[DOMAIN seq]
  BY DEF DoesAll, FoldLeft, MapThenFoldSet
<1>6. g = [s \in SUBSET DOMAIN seq |->
             IF s = {} THEN base ELSE Message(g[s \ {Max(s)}], seq[Max(s)], by)]
  BY <1>4
<1> HIDE DEF g
<1>7. IteratesLeft(g, k, base, seq)
  BY <1>2, <1>6 DEF IteratesLeft
<1>8. PICK h : Runs(h, k, base, seq) /\ h[Len(seq)] = g[DOMAIN seq]
  BY <1>7, LeftIteration
<1> QED
  BY <1>1, <1>5, <1>8

\* What the winners of a market get, bet by bet.
LEMMA PaidRuns ==
  ASSUME NEW o, NEW S, NEW seq \in Seq(S)
  PROVE  \E h : /\ Runs(h, [does |-> "sum", outcome |-> o], 0, seq)
                /\ h[Len(seq)] = Payouts(seq, o)
<1>1. PICK k : k = [does |-> "sum", outcome |-> o]
  OBVIOUS
<1>2. \A r, x : Step(k, r, x) = Paid(r, x, o)
  BY <1>1 DEF Step
<1>3. PICK f : IteratesLeft(f, k, 0, seq)
  BY LeftIterationExists
<1>4. f = [s \in SUBSET DOMAIN seq |->
             IF s = {} THEN 0 ELSE Paid(f[s \ {Max(s)}], seq[Max(s)], o)]
  BY <1>2, <1>3 DEF IteratesLeft
<1> DEFINE g == CHOOSE h : h = [s \in SUBSET DOMAIN seq |->
                   IF s = {} THEN 0 ELSE Paid(h[s \ {Max(s)}], seq[Max(s)], o)]
<1>5. Payouts(seq, o) = g[DOMAIN seq]
  BY DEF Payouts, FoldLeft, MapThenFoldSet
<1>6. g = [s \in SUBSET DOMAIN seq |->
             IF s = {} THEN 0 ELSE Paid(g[s \ {Max(s)}], seq[Max(s)], o)]
  BY <1>4
<1> HIDE DEF g
<1>7. IteratesLeft(g, k, 0, seq)
  BY <1>2, <1>6 DEF IteratesLeft
<1>8. PICK h : Runs(h, k, 0, seq) /\ h[Len(seq)] = g[DOMAIN seq]
  BY <1>7, LeftIteration
<1> QED
  BY <1>1, <1>5, <1>8

\* The keys a deposit names are added one by one, in some order.
KeysAdded(g, base, id, S) ==
  \A s \in SUBSET S :
    g[s] = IF s = {} THEN base ELSE AddKeyIfNew(g[s \ {Chosen(s)}], id, Chosen(s))

LEMMA KeysRun ==
  ASSUME NEW id, NEW base, NEW S, IsFiniteSet(S)
  PROVE  \E g : KeysAdded(g, base, id, S) /\ g[S] = AddKeys(base, id, S)
<1>1. PICK k, c, e : /\ k = [does |-> "key", id |-> id]
                     /\ c = [s \in SUBSET S |-> Chosen(s)] /\ e = [x \in S |-> x]
  OBVIOUS
<1>2. \A r, x : Step(k, r, x) = AddKeyIfNew(r, id, x)
  BY <1>1 DEF Step
<1>3. \A s \in SUBSET S : s # {} => c[s] = Chosen(s) /\ c[s] \in s /\ e[c[s]] = c[s]
  BY <1>1, ChosenIsIn
<1>4. PICK f : Iterates(f, k, base, e, c, S)
  BY <1>3, IterationExists
<1>5. f = [s \in SUBSET S |->
             IF s = {} THEN base ELSE AddKeyIfNew(f[s \ {Chosen(s)}], id, Chosen(s))]
  <2>1. \A s \in SUBSET S :
          f[s] = IF s = {} THEN base ELSE Step(k, f[s \ {c[s]}], e[c[s]])
    BY <1>4 DEF Iterates
  <2>2. f = [s \in SUBSET S |-> f[s]]
    BY <1>4 DEF Iterates
  <2>3. ASSUME NEW s \in SUBSET S
        PROVE  f[s] = IF s = {} THEN base ELSE AddKeyIfNew(f[s \ {Chosen(s)}], id, Chosen(s))
    <3>1. CASE s = {}
      BY <2>1, <3>1
    <3>2. CASE s # {}
      <4>1. c[s] = Chosen(s) /\ e[c[s]] = c[s]
        BY <1>3, <3>2
      <4>2. f[s] = Step(k, f[s \ {Chosen(s)}], Chosen(s))
        BY <2>1, <3>2, <4>1
      <4> QED
        BY <1>2, <3>2, <4>2
    <3> QED
      BY <3>1, <3>2
  <2> QED
    BY <2>2, <2>3
<1> DEFINE g == CHOOSE h : h = [s \in SUBSET S |->
                   IF s = {} THEN base ELSE AddKeyIfNew(h[s \ {Chosen(s)}], id, Chosen(s))]
<1>6. AddKeys(base, id, S) = g[S]
  BY DEF AddKeys, FoldSet, MapThenFoldSet, Chosen
<1>7. g = [s \in SUBSET S |->
             IF s = {} THEN base ELSE AddKeyIfNew(g[s \ {Chosen(s)}], id, Chosen(s))]
  BY <1>5
<1> HIDE DEF g
<1> QED
  BY <1>6, <1>7 DEF KeysAdded

-----------------------------------------------------------------------------
\* Accounts.

Account == [nonce : Nat, keys : SUBSET Key, wallets : SUBSET Wallet, coins : Int]

KeysOf(all) == [id \in DOMAIN all |-> all[id].keys]
WalletsOf(all) == [id \in DOMAIN all |-> all[id].wallets]

\* A lookup leads from what an account owns to the account, and from nothing else.
Leads(L, own, X) ==
  /\ DOMAIN L \subseteq X /\ L \in [DOMAIN L -> DOMAIN own]
  /\ \A id \in DOMAIN own : own[id] \subseteq X
  /\ \A x \in X, id \in DOMAIN own : x \in own[id] <=> x \in DOMAIN L /\ L[x] = id

IsAccounts(a) ==
  /\ a = [all |-> a.all, keyOf |-> a.keyOf, walletOf |-> a.walletOf]
  /\ IsFiniteSet(DOMAIN a.all) /\ a.all \in [DOMAIN a.all -> Account]
  /\ Leads(a.keyOf, KeysOf(a.all), Key) /\ Leads(a.walletOf, WalletsOf(a.all), Wallet)

Had(own, id) == IF id \in DOMAIN own THEN own[id] ELSE {}

\* What one account owns changes.
Replaces(own, new, id, owned) ==
  /\ DOMAIN new = DOMAIN own \cup {id} /\ new[id] = owned
  /\ \A i \in DOMAIN own \ {id} : new[i] = own[i]

LEMMA LeadAdded ==
  ASSUME NEW X, NEW L, NEW own, Leads(L, own, X), NEW x \in X, x \notin DOMAIN L, NEW id,
         NEW new, Replaces(own, new, id, Had(own, id) \cup {x})
  PROVE  Leads(Entry(L, x, id), new, X)
<1>0. /\ DOMAIN new = DOMAIN own \cup {id} /\ new[id] = Had(own, id) \cup {x}
      /\ \A i \in DOMAIN own \ {id} : new[i] = own[i]
  BY DEF Replaces
<1> DEFINE M == Entry(L, x, id)
<1>1. DOMAIN M = DOMAIN L \cup {x} /\ M[x] = id /\ \A y \in DOMAIN L : M[y] = L[y]
  BY DEF Entry
<1>2. M = [y \in DOMAIN M |-> M[y]]
  BY DEF Entry
<1> HIDE DEF M
<1>3. \A y \in DOMAIN M : M[y] \in DOMAIN new
  BY <1>0, <1>1 DEF Leads
<1>4. M \in [DOMAIN M -> DOMAIN new]
  BY <1>2, <1>3
<1>5. \A i \in DOMAIN new : new[i] \subseteq X
  BY <1>0 DEF Leads, Had
<1>6. ASSUME NEW y \in X, NEW i \in DOMAIN new PROVE y \in new[i] <=> y \in DOMAIN M /\ M[y] = i
  <2>1. CASE i # id
    BY <1>0, <1>1, <2>1 DEF Leads
  <2>2. CASE i = id /\ id \in DOMAIN own
    BY <1>0, <1>1, <2>2 DEF Leads, Had
  <2>3. CASE i = id /\ id \notin DOMAIN own
    BY <1>0, <1>1, <2>3 DEF Leads, Had
  <2> QED
    BY <2>1, <2>2, <2>3
<1> QED
  BY <1>1, <1>4, <1>5, <1>6 DEF Leads, M

LEMMA LeadDropped ==
  ASSUME NEW X, NEW L, NEW own, Leads(L, own, X), NEW x \in DOMAIN L, NEW id, L[x] = id,
         NEW new, Replaces(own, new, id, Had(own, id) \ {x})
  PROVE  Leads(Minus(L, x), new, X)
<1>0. /\ DOMAIN new = DOMAIN own /\ new[id] = own[id] \ {x}
      /\ \A i \in DOMAIN own \ {id} : new[i] = own[i]
  BY DEF Replaces, Leads, Had
<1> DEFINE M == Minus(L, x)
<1>1. DOMAIN M = DOMAIN L \ {x} /\ \A y \in DOMAIN M : M[y] = L[y]
  BY DEF Minus
<1>2. M = [y \in DOMAIN M |-> M[y]]
  BY DEF Minus
<1> HIDE DEF M
<1>3. M \in [DOMAIN M -> DOMAIN new]
  BY <1>0, <1>1, <1>2 DEF Leads
<1>4. \A i \in DOMAIN new : new[i] \subseteq X
  BY <1>0 DEF Leads
<1>5. ASSUME NEW y \in X, NEW i \in DOMAIN new PROVE y \in new[i] <=> y \in DOMAIN M /\ M[y] = i
  BY <1>0, <1>1 DEF Leads
<1> QED
  BY <1>1, <1>3, <1>4, <1>5 DEF Leads, M

\* An account that is opened owns nothing yet.
LEMMA LeadKept ==
  ASSUME NEW X, NEW L, NEW own, Leads(L, own, X), NEW id,
         NEW new, Replaces(own, new, id, Had(own, id))
  PROVE  Leads(L, new, X)
<1>0. /\ DOMAIN new = DOMAIN own \cup {id} /\ new[id] = Had(own, id)
      /\ \A i \in DOMAIN own \ {id} : new[i] = own[i]
  BY DEF Replaces
<1>1. L \in [DOMAIN L -> DOMAIN new]
  BY <1>0 DEF Leads
<1>2. \A i \in DOMAIN new : new[i] \subseteq X
  BY <1>0 DEF Leads, Had
<1>3. ASSUME NEW y \in X, NEW i \in DOMAIN new PROVE y \in new[i] <=> y \in DOMAIN L /\ L[y] = i
  <2>1. CASE i \in DOMAIN own
    BY <1>0, <2>1 DEF Leads, Had
  <2>2. CASE i \notin DOMAIN own
    BY <1>0, <2>2 DEF Leads, Had
  <2> QED
    BY <2>1, <2>2
<1> QED
  BY <1>1, <1>2, <1>3 DEF Leads

\* The accounts b are the accounts a with n more coins in one of them, which is
\* opened if need be.
Gives(a, b, id, n) ==
  /\ IsAccounts(b) /\ DOMAIN b.all = DOMAIN a.all \cup {id}
  /\ b.all[id].coins = (IF id \in DOMAIN a.all THEN a.all[id].coins ELSE 0) + n
  /\ \A i \in DOMAIN a.all \ {id} : b.all[i].coins = a.all[i].coins

\* One account is replaced or opened, and the lookups change with it.
LEMMA OneChanges ==
  ASSUME NEW a, IsAccounts(a), NEW id, NEW account \in Account, NEW n, NEW K, NEW W,
         Leads(K, KeysOf(Entry(a.all, id, account)), Key),
         Leads(W, WalletsOf(Entry(a.all, id, account)), Wallet),
         account.coins = Opened(a, id).coins + n
  PROVE  Gives(a, [all |-> Entry(a.all, id, account), keyOf |-> K, walletOf |-> W], id, n)
<1>1. PICK all : all = Entry(a.all, id, account)
  OBVIOUS
<1>2. /\ DOMAIN all = DOMAIN a.all \cup {id} /\ all[id] = account
      /\ \A i \in DOMAIN a.all \ {id} : all[i] = a.all[i]
      /\ all = [i \in DOMAIN all |-> all[i]]
  BY <1>1 DEF Entry
<1>3. IsFiniteSet(DOMAIN all)
  BY <1>2, FS_AddElement DEF IsAccounts
<1>4. \A i \in DOMAIN all : all[i] \in Account
  BY <1>2 DEF IsAccounts
<1>5. all \in [DOMAIN all -> Account]
  BY <1>2, <1>4
<1>6. IsAccounts([all |-> all, keyOf |-> K, walletOf |-> W])
  BY <1>1, <1>3, <1>5 DEF IsAccounts
<1>7. Opened(a, id).coins = IF id \in DOMAIN a.all THEN a.all[id].coins ELSE 0
  BY DEF Opened, Fresh
<1> QED
  BY <1>1, <1>2, <1>6, <1>7 DEF Gives

LEMMA OpenedType ==
  ASSUME NEW a, IsAccounts(a), NEW id
  PROVE  /\ Opened(a, id) \in Account
         /\ Opened(a, id).keys = Had(KeysOf(a.all), id)
         /\ Opened(a, id).wallets = Had(WalletsOf(a.all), id)
<1>1. CASE id \in DOMAIN a.all
  BY <1>1 DEF IsAccounts, Opened, Had, KeysOf, WalletsOf
<1>2. CASE id \notin DOMAIN a.all
  BY <1>2 DEF Opened, Fresh, Account, Had, KeysOf, WalletsOf
<1> QED
  BY <1>1, <1>2

LEMMA OwnedAfter ==
  ASSUME NEW all, NEW id, NEW account
  PROVE  /\ Replaces(KeysOf(all), KeysOf(Entry(all, id, account)), id, account.keys)
         /\ Replaces(WalletsOf(all), WalletsOf(Entry(all, id, account)), id, account.wallets)
BY DEF Entry, KeysOf, WalletsOf, Replaces

\* Nothing but the coins and the nonce of an account changes.
LEMMA OwnsAsBefore ==
  ASSUME NEW a, IsAccounts(a), NEW id, NEW account \in Account, NEW n,
         account.keys = Opened(a, id).keys, account.wallets = Opened(a, id).wallets,
         account.coins = Opened(a, id).coins + n
  PROVE  Gives(a, [all |-> Entry(a.all, id, account), keyOf |-> a.keyOf,
                   walletOf |-> a.walletOf], id, n)
<1>1. Leads(a.keyOf, KeysOf(a.all), Key) /\ Leads(a.walletOf, WalletsOf(a.all), Wallet)
  BY DEF IsAccounts
<1>2. Leads(a.keyOf, KeysOf(Entry(a.all, id, account)), Key)
  <2>1. Replaces(KeysOf(a.all), KeysOf(Entry(a.all, id, account)), id, Had(KeysOf(a.all), id))
    BY OwnedAfter, OpenedType
  <2> QED
    BY <1>1, <2>1, LeadKept
<1>3. Leads(a.walletOf, WalletsOf(Entry(a.all, id, account)), Wallet)
  <2>1. Replaces(WalletsOf(a.all), WalletsOf(Entry(a.all, id, account)), id,
                 Had(WalletsOf(a.all), id))
    BY OwnedAfter, OpenedType
  <2> QED
    BY <1>1, <2>1, LeadKept
<1> QED
  BY <1>2, <1>3, OneChanges
LEMMA MintGives ==
  ASSUME NEW a, IsAccounts(a), NEW id, NEW n \in Int
  PROVE  Gives(a, Mint(a, id, n), id, n)
<1>1. PICK account : account = [Opened(a, id) EXCEPT !.coins = @ + n]
  OBVIOUS
<1>2. /\ account \in Account /\ account.keys = Opened(a, id).keys
      /\ account.wallets = Opened(a, id).wallets /\ account.coins = Opened(a, id).coins + n
  BY <1>1, OpenedType DEF Account
<1>3. Mint(a, id, n) = [a EXCEPT !.all = Entry(a.all, id, account)]
  BY <1>1 DEF Mint
<1>4. a = [all |-> a.all, keyOf |-> a.keyOf, walletOf |-> a.walletOf]
  BY DEF IsAccounts
<1>5. PICK all, K, W : /\ all = Entry(a.all, id, account) /\ K = a.keyOf /\ W = a.walletOf
  OBVIOUS
<1>6. Mint(a, id, n) = [all |-> all, keyOf |-> K, walletOf |-> W]
  BY <1>3, <1>4, <1>5
<1> QED
  BY <1>2, <1>5, <1>6, OwnsAsBefore

\* A field of an account that is there is changed.
LEMMA ExceptIsEntry ==
  ASSUME NEW a, IsAccounts(a), NEW id \in DOMAIN a.all, NEW account
  PROVE  [a.all EXCEPT ![id] = account] = Entry(a.all, id, account)
<1>1. a.all \in [DOMAIN a.all -> Account]
  BY DEF IsAccounts
<1>2. DOMAIN a.all \cup {id} = DOMAIN a.all
  OBVIOUS
<1> QED
  BY <1>1, <1>2 DEF Entry

LEMMA BurnGives ==
  ASSUME NEW a, IsAccounts(a), NEW id \in DOMAIN a.all, NEW n \in Int
  PROVE  Gives(a, Burn(a, id, n), id, 0 - n)
<1>0. a.all[id] \in Account /\ Opened(a, id) = a.all[id]
  BY DEF IsAccounts, Opened
<1>1. PICK account : account = [a.all[id] EXCEPT !.coins = @ - n]
  OBVIOUS
<1>2. /\ account \in Account /\ account.keys = Opened(a, id).keys
      /\ account.wallets = Opened(a, id).wallets /\ account.coins = Opened(a, id).coins + (0 - n)
  BY <1>0, <1>1 DEF Account
<1>3. Burn(a, id, n) = [a EXCEPT !.all = [a.all EXCEPT ![id] = account]]
  BY <1>1 DEF Burn
<1>4. a = [all |-> a.all, keyOf |-> a.keyOf, walletOf |-> a.walletOf]
  BY DEF IsAccounts
<1>5. PICK all, K, W : /\ all = Entry(a.all, id, account) /\ K = a.keyOf /\ W = a.walletOf
  OBVIOUS
<1>6. Burn(a, id, n) = [all |-> all, keyOf |-> K, walletOf |-> W]
  BY <1>3, <1>4, <1>5, ExceptIsEntry
<1> QED
  BY <1>2, <1>5, <1>6, OwnsAsBefore

\* The keys of one account change, or its wallets.
LEMMA KeysChange ==
  ASSUME NEW a, IsAccounts(a), NEW id, NEW account \in Account, NEW K,
         account.wallets = Opened(a, id).wallets, account.coins = Opened(a, id).coins,
         Leads(K, KeysOf(Entry(a.all, id, account)), Key)
  PROVE  Gives(a, [all |-> Entry(a.all, id, account), keyOf |-> K, walletOf |-> a.walletOf],
               id, 0)
<1>1. Replaces(WalletsOf(a.all), WalletsOf(Entry(a.all, id, account)), id,
               Had(WalletsOf(a.all), id))
  BY OwnedAfter, OpenedType
<1>2. Leads(a.walletOf, WalletsOf(Entry(a.all, id, account)), Wallet)
  BY <1>1, LeadKept DEF IsAccounts
<1>3. account.coins = Opened(a, id).coins + 0
  BY OpenedType DEF Account
<1> QED
  BY <1>2, <1>3, OneChanges

LEMMA WalletsChange ==
  ASSUME NEW a, IsAccounts(a), NEW id, NEW account \in Account, NEW W,
         account.keys = Opened(a, id).keys, account.coins = Opened(a, id).coins,
         Leads(W, WalletsOf(Entry(a.all, id, account)), Wallet)
  PROVE  Gives(a, [all |-> Entry(a.all, id, account), keyOf |-> a.keyOf, walletOf |-> W],
               id, 0)
<1>1. Replaces(KeysOf(a.all), KeysOf(Entry(a.all, id, account)), id, Had(KeysOf(a.all), id))
  BY OwnedAfter, OpenedType
<1>2. Leads(a.keyOf, KeysOf(Entry(a.all, id, account)), Key)
  BY <1>1, LeadKept DEF IsAccounts
<1>3. account.coins = Opened(a, id).coins + 0
  BY OpenedType DEF Account
<1> QED
  BY <1>2, <1>3, OneChanges

LEMMA AddKeyGives ==
  ASSUME NEW a, IsAccounts(a), NEW id \in DOMAIN a.all, NEW k \in Key, CanAddKey(a, k)
  PROVE  Gives(a, AddKey(a, id, k), id, 0)
<1>0. a.all[id] \in Account /\ Opened(a, id) = a.all[id]
  BY DEF IsAccounts, Opened
<1>1. PICK account : account = [a.all[id] EXCEPT !.keys = @ \cup {k}]
  OBVIOUS
<1>2. /\ account \in Account /\ account.keys = Opened(a, id).keys \cup {k}
      /\ account.wallets = Opened(a, id).wallets /\ account.coins = Opened(a, id).coins
  BY <1>0, <1>1 DEF Account
<1>3. AddKey(a, id, k) = [a EXCEPT !.keyOf = Entry(a.keyOf, k, id),
                                   !.all = [a.all EXCEPT ![id] = account]]
  BY <1>1 DEF AddKey
<1>4. PICK all, L : all = Entry(a.all, id, account) /\ L = Entry(a.keyOf, k, id)
  OBVIOUS
<1>5. AddKey(a, id, k) = [all |-> all, keyOf |-> L, walletOf |-> a.walletOf]
  <2>1. all = [a.all EXCEPT ![id] = account]
    BY <1>4, ExceptIsEntry
  <2>2. AddKey(a, id, k) = [a EXCEPT !.keyOf = L, !.all = all]
    BY <1>3, <1>4, <2>1, Zenon
  <2>3. a = [all |-> a.all, keyOf |-> a.keyOf, walletOf |-> a.walletOf]
    BY DEF IsAccounts
  <2> QED
    BY <2>2, <2>3
<1>6. Leads(L, KeysOf(all), Key)
  <2>1. account.keys = Had(KeysOf(a.all), id) \cup {k}
    BY <1>2, OpenedType
  <2>2. Replaces(KeysOf(a.all), KeysOf(all), id, account.keys)
    BY <1>4, OwnedAfter
  <2> QED
    BY <1>4, <2>1, <2>2, LeadAdded DEF IsAccounts, CanAddKey
<1> QED
  BY <1>2, <1>4, <1>5, <1>6, KeysChange

LEMMA AddWalletGives ==
  ASSUME NEW a, IsAccounts(a), NEW id \in DOMAIN a.all, NEW w \in Wallet, CanAddWallet(a, w)
  PROVE  Gives(a, AddWallet(a, id, w), id, 0)
<1>0. a.all[id] \in Account /\ Opened(a, id) = a.all[id]
  BY DEF IsAccounts, Opened
<1>1. PICK account : account = [a.all[id] EXCEPT !.wallets = @ \cup {w}]
  OBVIOUS
<1>2. /\ account \in Account /\ account.wallets = Opened(a, id).wallets \cup {w}
      /\ account.keys = Opened(a, id).keys /\ account.coins = Opened(a, id).coins
  BY <1>0, <1>1 DEF Account
<1>3. AddWallet(a, id, w) = [a EXCEPT !.walletOf = Entry(a.walletOf, w, id),
                                   !.all = [a.all EXCEPT ![id] = account]]
  BY <1>1 DEF AddWallet
<1>4. PICK all, L : all = Entry(a.all, id, account) /\ L = Entry(a.walletOf, w, id)
  OBVIOUS
<1>5. AddWallet(a, id, w) = [all |-> all, keyOf |-> a.keyOf, walletOf |-> L]
  <2>1. all = [a.all EXCEPT ![id] = account]
    BY <1>4, ExceptIsEntry
  <2>2. AddWallet(a, id, w) = [a EXCEPT !.walletOf = L, !.all = all]
    BY <1>3, <1>4, <2>1, Zenon
  <2>3. a = [all |-> a.all, keyOf |-> a.keyOf, walletOf |-> a.walletOf]
    BY DEF IsAccounts
  <2> QED
    BY <2>2, <2>3
<1>6. Leads(L, WalletsOf(all), Wallet)
  <2>1. account.wallets = Had(WalletsOf(a.all), id) \cup {w}
    BY <1>2, OpenedType
  <2>2. Replaces(WalletsOf(a.all), WalletsOf(all), id, account.wallets)
    BY <1>4, OwnedAfter
  <2> QED
    BY <1>4, <2>1, <2>2, LeadAdded DEF IsAccounts, CanAddWallet
<1> QED
  BY <1>2, <1>4, <1>5, <1>6, WalletsChange

LEMMA RemoveKeyGives ==
  ASSUME NEW a, IsAccounts(a), NEW id \in DOMAIN a.all, NEW k \in Key, k \in DOMAIN a.keyOf, a.keyOf[k] = id
  PROVE  Gives(a, RemoveKey(a, id, k), id, 0)
<1>0. a.all[id] \in Account /\ Opened(a, id) = a.all[id]
  BY DEF IsAccounts, Opened
<1>1. PICK account : account = [a.all[id] EXCEPT !.keys = @ \ {k}]
  OBVIOUS
<1>2. /\ account \in Account /\ account.keys = Opened(a, id).keys \ {k}
      /\ account.wallets = Opened(a, id).wallets /\ account.coins = Opened(a, id).coins
  BY <1>0, <1>1 DEF Account
<1>3. RemoveKey(a, id, k) = [a EXCEPT !.keyOf = Minus(a.keyOf, k),
                                   !.all = [a.all EXCEPT ![id] = account]]
  BY <1>1 DEF RemoveKey
<1>4. PICK all, L : all = Entry(a.all, id, account) /\ L = Minus(a.keyOf, k)
  OBVIOUS
<1>5. RemoveKey(a, id, k) = [all |-> all, keyOf |-> L, walletOf |-> a.walletOf]
  <2>1. all = [a.all EXCEPT ![id] = account]
    BY <1>4, ExceptIsEntry
  <2>2. RemoveKey(a, id, k) = [a EXCEPT !.keyOf = L, !.all = all]
    BY <1>3, <1>4, <2>1, Zenon
  <2>3. a = [all |-> a.all, keyOf |-> a.keyOf, walletOf |-> a.walletOf]
    BY DEF IsAccounts
  <2> QED
    BY <2>2, <2>3
<1>6. Leads(L, KeysOf(all), Key)
  <2>1. account.keys = Had(KeysOf(a.all), id) \ {k}
    BY <1>2, OpenedType
  <2>2. Replaces(KeysOf(a.all), KeysOf(all), id, account.keys)
    BY <1>4, OwnedAfter
  <2> QED
    BY <1>4, <2>1, <2>2, LeadDropped DEF IsAccounts
<1> QED
  BY <1>2, <1>4, <1>5, <1>6, KeysChange

LEMMA RemoveWalletGives ==
  ASSUME NEW a, IsAccounts(a), NEW id \in DOMAIN a.all, NEW w \in Wallet, w \in DOMAIN a.walletOf, a.walletOf[w] = id
  PROVE  Gives(a, RemoveWallet(a, id, w), id, 0)
<1>0. a.all[id] \in Account /\ Opened(a, id) = a.all[id]
  BY DEF IsAccounts, Opened
<1>1. PICK account : account = [a.all[id] EXCEPT !.wallets = @ \ {w}]
  OBVIOUS
<1>2. /\ account \in Account /\ account.wallets = Opened(a, id).wallets \ {w}
      /\ account.keys = Opened(a, id).keys /\ account.coins = Opened(a, id).coins
  BY <1>0, <1>1 DEF Account
<1>3. RemoveWallet(a, id, w) = [a EXCEPT !.walletOf = Minus(a.walletOf, w),
                                   !.all = [a.all EXCEPT ![id] = account]]
  BY <1>1 DEF RemoveWallet
<1>4. PICK all, L : all = Entry(a.all, id, account) /\ L = Minus(a.walletOf, w)
  OBVIOUS
<1>5. RemoveWallet(a, id, w) = [all |-> all, keyOf |-> a.keyOf, walletOf |-> L]
  <2>1. all = [a.all EXCEPT ![id] = account]
    BY <1>4, ExceptIsEntry
  <2>2. RemoveWallet(a, id, w) = [a EXCEPT !.walletOf = L, !.all = all]
    BY <1>3, <1>4, <2>1, Zenon
  <2>3. a = [all |-> a.all, keyOf |-> a.keyOf, walletOf |-> a.walletOf]
    BY DEF IsAccounts
  <2> QED
    BY <2>2, <2>3
<1>6. Leads(L, WalletsOf(all), Wallet)
  <2>1. account.wallets = Had(WalletsOf(a.all), id) \ {w}
    BY <1>2, OpenedType
  <2>2. Replaces(WalletsOf(a.all), WalletsOf(all), id, account.wallets)
    BY <1>4, OwnedAfter
  <2> QED
    BY <1>4, <2>1, <2>2, LeadDropped DEF IsAccounts
<1> QED
  BY <1>2, <1>4, <1>5, <1>6, WalletsChange

LEMMA AccountForKeyOpens ==
  ASSUME NEW a, IsAccounts(a), NEW k \in Key
  PROVE  /\ k \in DOMAIN AccountForKey(a, k).keyOf
         /\ AccountForKey(a, k).keyOf[k] \in DOMAIN AccountForKey(a, k).all
         /\ Gives(a, AccountForKey(a, k), AccountForKey(a, k).keyOf[k], 0)
<1>1. CASE k \in DOMAIN a.keyOf
  <2>1. AccountForKey(a, k) = a /\ a.keyOf[k] \in DOMAIN a.all
    BY <1>1 DEF AccountForKey, IsAccounts, Leads, KeysOf
  <2>2. a.all[a.keyOf[k]] \in Account
    BY <2>1 DEF IsAccounts
  <2>3. a.all[a.keyOf[k]].coins \in Int
    BY <2>2 DEF Account
  <2>4. Gives(a, a, a.keyOf[k], 0)
    BY <2>1, <2>3 DEF Gives
  <2> QED
    BY <1>1, <2>1, <2>4
<1>2. CASE k \notin DOMAIN a.keyOf
  <2>0. PICK id : id = NextId(a)
    OBVIOUS
  <2>1. PICK account : account = [Opened(a, id) EXCEPT !.keys = @ \cup {k}]
    OBVIOUS
  <2>2. /\ account \in Account /\ account.keys = Opened(a, id).keys \cup {k}
        /\ account.wallets = Opened(a, id).wallets /\ account.coins = Opened(a, id).coins
    BY <2>1, OpenedType DEF Account
  <2>3. PICK all, L : all = Entry(a.all, id, account) /\ L = Entry(a.keyOf, k, id)
    OBVIOUS
  <2>4. AccountForKey(a, k) = [all |-> all, keyOf |-> L, walletOf |-> a.walletOf]
    <3>1. AccountForKey(a, k) = [a EXCEPT !.keyOf = L, !.all = all]
      BY <1>2, <2>0, <2>1, <2>3 DEF AccountForKey
    <3>2. a = [all |-> a.all, keyOf |-> a.keyOf, walletOf |-> a.walletOf]
      BY DEF IsAccounts
    <3> QED
      BY <3>1, <3>2
  <2>5. Leads(L, KeysOf(all), Key)
    <3>1. account.keys = Had(KeysOf(a.all), id) \cup {k}
      BY <2>2, OpenedType
    <3>2. Replaces(KeysOf(a.all), KeysOf(all), id, account.keys)
      BY <2>3, OwnedAfter
    <3> QED
      BY <1>2, <2>3, <3>1, <3>2, LeadAdded DEF IsAccounts
  <2>6. Gives(a, AccountForKey(a, k), id, 0)
    BY <2>2, <2>3, <2>4, <2>5, KeysChange
  <2>7. /\ AccountForKey(a, k).keyOf = L /\ k \in DOMAIN L /\ L[k] = id
        /\ AccountForKey(a, k).all = all /\ id \in DOMAIN all
    BY <2>3, <2>4 DEF Entry
  <2> QED
    BY <2>6, <2>7
<1> QED
  BY <1>1, <1>2

LEMMA AccountForWalletOpens ==
  ASSUME NEW a, IsAccounts(a), NEW w \in Wallet
  PROVE  /\ w \in DOMAIN AccountForWallet(a, w).walletOf
         /\ AccountForWallet(a, w).walletOf[w] \in DOMAIN AccountForWallet(a, w).all
         /\ Gives(a, AccountForWallet(a, w), AccountForWallet(a, w).walletOf[w], 0)
<1>1. CASE w \in DOMAIN a.walletOf
  <2>1. AccountForWallet(a, w) = a /\ a.walletOf[w] \in DOMAIN a.all
    BY <1>1 DEF AccountForWallet, IsAccounts, Leads, WalletsOf
  <2>2. a.all[a.walletOf[w]] \in Account
    BY <2>1 DEF IsAccounts
  <2>3. a.all[a.walletOf[w]].coins \in Int
    BY <2>2 DEF Account
  <2>4. Gives(a, a, a.walletOf[w], 0)
    BY <2>1, <2>3 DEF Gives
  <2> QED
    BY <1>1, <2>1, <2>4
<1>2. CASE w \notin DOMAIN a.walletOf
  <2>0. PICK id : id = NextId(a)
    OBVIOUS
  <2>1. PICK account : account = [Opened(a, id) EXCEPT !.wallets = @ \cup {w}]
    OBVIOUS
  <2>2. /\ account \in Account /\ account.wallets = Opened(a, id).wallets \cup {w}
        /\ account.keys = Opened(a, id).keys /\ account.coins = Opened(a, id).coins
    BY <2>1, OpenedType DEF Account
  <2>3. PICK all, L : all = Entry(a.all, id, account) /\ L = Entry(a.walletOf, w, id)
    OBVIOUS
  <2>4. AccountForWallet(a, w) = [all |-> all, keyOf |-> a.keyOf, walletOf |-> L]
    <3>1. AccountForWallet(a, w) = [a EXCEPT !.walletOf = L, !.all = all]
      BY <1>2, <2>0, <2>1, <2>3 DEF AccountForWallet
    <3>2. a = [all |-> a.all, keyOf |-> a.keyOf, walletOf |-> a.walletOf]
      BY DEF IsAccounts
    <3> QED
      BY <3>1, <3>2
  <2>5. Leads(L, WalletsOf(all), Wallet)
    <3>1. account.wallets = Had(WalletsOf(a.all), id) \cup {w}
      BY <2>2, OpenedType
    <3>2. Replaces(WalletsOf(a.all), WalletsOf(all), id, account.wallets)
      BY <2>3, OwnedAfter
    <3> QED
      BY <1>2, <2>3, <3>1, <3>2, LeadAdded DEF IsAccounts
  <2>6. Gives(a, AccountForWallet(a, w), id, 0)
    BY <2>2, <2>3, <2>4, <2>5, WalletsChange
  <2>7. /\ AccountForWallet(a, w).walletOf = L /\ w \in DOMAIN L /\ L[w] = id
        /\ AccountForWallet(a, w).all = all /\ id \in DOMAIN all
    BY <2>3, <2>4 DEF Entry
  <2> QED
    BY <2>6, <2>7
<1> QED
  BY <1>1, <1>2

LEMMA GivesTwice ==
  ASSUME NEW a, IsAccounts(a), NEW b, NEW c, NEW id, NEW m \in Int, NEW n \in Int,
         Gives(a, b, id, m), Gives(b, c, id, n)
  PROVE  Gives(a, c, id, m + n)
<1>1. id \in DOMAIN a.all => a.all[id].coins \in Int
  BY DEF IsAccounts, Account
<1> QED
  BY <1>1 DEF Gives

\* A nonce is used by an account that is there, opened for the key if need be.
LEMMA UseNonceGives ==
  ASSUME NEW a, IsAccounts(a), NEW k \in Key
  PROVE  Gives(a, UseNonce(a, k), Sender(a, k), 0)
<1>1. PICK b, id : b = AccountForKey(a, k) /\ id = Sender(a, k)
  OBVIOUS
<1>2. id \in DOMAIN b.all /\ Gives(a, b, id, 0)
  BY <1>1, AccountForKeyOpens DEF Sender
<1>3. IsAccounts(b)
  BY <1>2 DEF Gives
<1>4. b.all[id] \in Account /\ Opened(b, id) = b.all[id]
  BY <1>2, <1>3 DEF IsAccounts, Opened
<1>5. PICK account : account = [b.all[id] EXCEPT !.nonce = @ + 1]
  OBVIOUS
<1>6. /\ account \in Account /\ account.keys = Opened(b, id).keys
      /\ account.wallets = Opened(b, id).wallets /\ account.coins = Opened(b, id).coins + 0
  BY <1>4, <1>5 DEF Account
<1>7. UseNonce(a, k) = [b EXCEPT !.all = [b.all EXCEPT ![id] = account]]
  BY <1>1, <1>5 DEF UseNonce
<1>8. PICK all : all = Entry(b.all, id, account)
  OBVIOUS
<1>9. UseNonce(a, k) = [all |-> all, keyOf |-> b.keyOf, walletOf |-> b.walletOf]
  <2>1. all = [b.all EXCEPT ![id] = account]
    BY <1>2, <1>3, <1>8, ExceptIsEntry
  <2>2. UseNonce(a, k) = [b EXCEPT !.all = all]
    BY <1>7, <2>1, Zenon
  <2>3. b = [all |-> b.all, keyOf |-> b.keyOf, walletOf |-> b.walletOf]
    BY <1>3 DEF IsAccounts
  <2> QED
    BY <2>2, <2>3
<1>10. Gives(b, UseNonce(a, k), id, 0)
  BY <1>3, <1>6, <1>8, <1>9, OwnsAsBefore
<1>11. Gives(a, UseNonce(a, k), id, 0 + 0)
  BY <1>2, <1>10, GivesTwice
<1> QED
  BY <1>1, <1>11

LEMMA AddKeyIfNewGives ==
  ASSUME NEW a, IsAccounts(a), NEW id \in DOMAIN a.all, NEW k \in Key
  PROVE  Gives(a, AddKeyIfNew(a, id, k), id, 0)
<1>1. CASE CanAddKey(a, k)
  BY <1>1, AddKeyGives DEF AddKeyIfNew
<1>2. CASE ~CanAddKey(a, k)
  <2>1. AddKeyIfNew(a, id, k) = a
    BY <1>2 DEF AddKeyIfNew
  <2>2. a.all[id].coins \in Int
    BY DEF IsAccounts, Account
  <2> QED
    BY <2>1, <2>2 DEF Gives
<1> QED
  BY <1>1, <1>2

LEMMA AddKeysGives ==
  ASSUME NEW a, IsAccounts(a), NEW id \in DOMAIN a.all,
         NEW keys, keys \subseteq Key, IsFiniteSet(keys)
  PROVE  Gives(a, AddKeys(a, id, keys), id, 0)
<1>0. PICK g : KeysAdded(g, a, id, keys) /\ g[keys] = AddKeys(a, id, keys)
  BY KeysRun
<1>1. /\ g[keys] = AddKeys(a, id, keys)
      /\ \A s \in SUBSET keys :
           g[s] = IF s = {} THEN a ELSE AddKeyIfNew(g[s \ {Chosen(s)}], id, Chosen(s))
  BY <1>0 DEF KeysAdded
<1> DEFINE Q == {n \in Nat : \A s \in SUBSET keys : Cardinality(s) = n => Gives(a, g[s], id, 0)}
<1>2. ASSUME NEW s \in SUBSET keys
      PROVE  /\ Cardinality(s) \in Nat /\ (Cardinality(s) = 0 <=> s = {})
             /\ s # {} => /\ s \ {Chosen(s)} \in SUBSET keys /\ Chosen(s) \in Key
                          /\ Cardinality(s \ {Chosen(s)}) = Cardinality(s) - 1
  <2>1. IsFiniteSet(s)
    BY FS_Subset
  <2>2. Cardinality(s) \in Nat /\ (Cardinality(s) = 0 <=> s = {})
    BY <2>1, FS_CardinalityType, FS_EmptySet
  <2>3. s # {} => Cardinality(s \ {Chosen(s)}) = Cardinality(s) - 1
    BY <2>1, ChosenIsIn, FS_RemoveElement
  <2>4. s # {} => Chosen(s) \in Key
    BY ChosenIsIn
  <2> QED
    BY <2>2, <2>3, <2>4
<1>3. 0 \in Q
  <2>1. ASSUME NEW s \in SUBSET keys, Cardinality(s) = 0 PROVE Gives(a, g[s], id, 0)
    <3>1. g[s] = a
      BY <1>1, <1>2, <2>1
    <3>2. a.all[id].coins \in Int
      BY DEF IsAccounts, Account
    <3> QED
      BY <3>1, <3>2 DEF Gives
  <2> QED
    BY <2>1
<1>4. ASSUME NEW n \in Q PROVE n + 1 \in Q
  <2> SUFFICES ASSUME NEW s \in SUBSET keys, Cardinality(s) = n + 1
               PROVE  Gives(a, g[s], id, 0)
    OBVIOUS
  <2>1. /\ s # {} /\ s \ {Chosen(s)} \in SUBSET keys /\ Chosen(s) \in Key
        /\ Cardinality(s \ {Chosen(s)}) = n
    BY <1>2
  <2>2. PICK b : b = g[s \ {Chosen(s)}]
    OBVIOUS
  <2>3. Gives(a, b, id, 0)
    BY <2>1, <2>2
  <2>4. IsAccounts(b) /\ id \in DOMAIN b.all
    BY <2>3 DEF Gives
  <2>5. g[s] = AddKeyIfNew(b, id, Chosen(s))
    BY <1>1, <2>1, <2>2
  <2>6. Gives(b, g[s], id, 0)
    BY <2>1, <2>4, <2>5, AddKeyIfNewGives
  <2>7. Gives(a, g[s], id, 0 + 0)
    BY <2>3, <2>6, GivesTwice
  <2> QED
    BY <2>7
<1>5. Q = Nat
  <2>1. Q \subseteq Nat
    OBVIOUS
  <2> HIDE DEF Q
  <2> QED
    BY <1>3, <1>4, <2>1, AllNumbers
<1>6. Cardinality(keys) \in Q
  BY <1>2, <1>5
<1> QED
  BY <1>1, <1>6

\* What a node loads is what it had stored, the lookups included.
LEMMA LoadsAsStored ==
  ASSUME NEW a, IsAccounts(a)
  PROVE  CanLoad(a.all) /\ Loaded(a) = a
<1>1. /\ DOMAIN a.keyOf \subseteq Key /\ a.keyOf \in [DOMAIN a.keyOf -> DOMAIN a.all]
      /\ \A id \in DOMAIN a.all : a.all[id].keys \subseteq Key
      /\ \A x \in Key, id \in DOMAIN a.all :
           x \in a.all[id].keys <=> x \in DOMAIN a.keyOf /\ a.keyOf[x] = id
  BY DEF IsAccounts, Leads, KeysOf
<1>2. /\ DOMAIN a.walletOf \subseteq Wallet /\ a.walletOf \in [DOMAIN a.walletOf -> DOMAIN a.all]
      /\ \A id \in DOMAIN a.all : a.all[id].wallets \subseteq Wallet
      /\ \A x \in Wallet, id \in DOMAIN a.all :
           x \in a.all[id].wallets <=> x \in DOMAIN a.walletOf /\ a.walletOf[x] = id
  BY DEF IsAccounts, Leads, WalletsOf
<1>3. CanLoad(a.all)
  <2> SUFFICES ASSUME NEW i \in DOMAIN a.all, NEW j \in DOMAIN a.all, i # j
               PROVE  /\ a.all[i].keys \cap a.all[j].keys = {}
                      /\ a.all[i].wallets \cap a.all[j].wallets = {}
    BY DEF CanLoad
  <2>1. \A x \in Key : ~(x \in a.all[i].keys /\ x \in a.all[j].keys)
    BY <1>1
  <2>2. \A x \in Wallet : ~(x \in a.all[i].wallets /\ x \in a.all[j].wallets)
    BY <1>2
  <2> QED
    BY <1>1, <1>2, <2>1, <2>2
<1>4. [x \in {y \in Key : Owners(a, y, "keys") # {}} |->
         CHOOSE id \in DOMAIN a.all : x \in a.all[id]["keys"]] = a.keyOf
  <2>1. {y \in Key : Owners(a, y, "keys") # {}} = DOMAIN a.keyOf
    BY <1>1 DEF Owners
  <2>2. ASSUME NEW x \in DOMAIN a.keyOf
        PROVE  (CHOOSE id \in DOMAIN a.all : x \in a.all[id]["keys"]) = a.keyOf[x]
    <3>1. x \in Key /\ a.keyOf[x] \in DOMAIN a.all
      BY <1>1
    <3>2. \A id \in DOMAIN a.all : x \in a.all[id]["keys"] <=> a.keyOf[x] = id
      BY <1>1, <3>1
    <3> QED
      BY <3>1, <3>2
  <2> QED
    BY <1>1, <2>1, <2>2
<1>5. [x \in {y \in Wallet : Owners(a, y, "wallets") # {}} |->
         CHOOSE id \in DOMAIN a.all : x \in a.all[id]["wallets"]] = a.walletOf
  <2>1. {y \in Wallet : Owners(a, y, "wallets") # {}} = DOMAIN a.walletOf
    BY <1>2 DEF Owners
  <2>2. ASSUME NEW x \in DOMAIN a.walletOf
        PROVE  (CHOOSE id \in DOMAIN a.all : x \in a.all[id]["wallets"]) = a.walletOf[x]
    <3>1. x \in Wallet /\ a.walletOf[x] \in DOMAIN a.all
      BY <1>2
    <3>2. \A id \in DOMAIN a.all : x \in a.all[id]["wallets"] <=> a.walletOf[x] = id
      BY <1>2, <3>1
    <3> QED
      BY <3>1, <3>2
  <2> QED
    BY <1>2, <2>1, <2>2
<1>6. Loaded(a) = [a EXCEPT !.keyOf = a.keyOf, !.walletOf = a.walletOf]
  BY <1>4, <1>5 DEF Loaded
<1>7. Loaded(a) = a
  BY <1>6 DEF IsAccounts
<1> QED
  BY <1>3, <1>7
-----------------------------------------------------------------------------
\* Sums over finite sets.

SumsUp(g, f, S) ==
  g = [s \in SUBSET S |-> IF s = {} THEN 0 ELSE f[Chosen(s)] + g[s \ {Chosen(s)}]]

LEMMA SumExists ==
  ASSUME NEW f, NEW S, IsFiniteSet(S)
  PROVE  \E g : SumsUp(g, f, S) /\ SumFunctionOnSet(f, S) = g[S]
<1>1. PICK k, c : k = [does |-> "add"] /\ c = [s \in SUBSET S |-> Chosen(s)]
  OBVIOUS
<1>2. \A r, x : Step(k, r, x) = x + r
  BY <1>1 DEF Step
<1>3. \A s \in SUBSET S : s # {} => c[s] = Chosen(s) /\ c[s] \in s
  BY <1>1, ChosenIsIn
<1>4. PICK g : Iterates(g, k, 0, f, c, S)
  BY <1>3, IterationExists
<1>5. SumsUp(g, f, S)
  <2>1. \A s \in SUBSET S : g[s] = IF s = {} THEN 0 ELSE Step(k, g[s \ {c[s]}], f[c[s]])
    BY <1>4 DEF Iterates
  <2>2. g = [s \in SUBSET S |-> g[s]]
    BY <1>4 DEF Iterates
  <2>3. \A s \in SUBSET S : g[s] = IF s = {} THEN 0 ELSE f[Chosen(s)] + g[s \ {Chosen(s)}]
    BY <1>2, <1>3, <2>1
  <2> QED
    BY <2>2, <2>3 DEF SumsUp
<1>6. SumFunctionOnSet(f, S) = (CHOOSE h : SumsUp(h, f, S))[S]
  BY DEF SumFunctionOnSet, FoldFunctionOnSet, MapThenFoldSet, SumsUp, Chosen
<1>7. SumsUp(CHOOSE h : SumsUp(h, f, S), f, S)
  BY <1>5
<1> QED
  BY <1>6, <1>7

\* It does not matter of which larger set a set is a part.
LEMMA SumsAgree ==
  ASSUME NEW f, NEW S, IsFiniteSet(S), NEW T, T \subseteq S,
         NEW g, SumsUp(g, f, S), NEW h, SumsUp(h, f, T)
  PROVE  g[T] = h[T]
<1> DEFINE Q == {n \in Nat : \A s \in SUBSET T : Cardinality(s) = n => g[s] = h[s]}
<1>1. ASSUME NEW s \in SUBSET T
      PROVE  /\ Cardinality(s) \in Nat /\ (Cardinality(s) = 0 <=> s = {})
             /\ s # {} => /\ s \ {Chosen(s)} \in SUBSET T
                          /\ Cardinality(s \ {Chosen(s)}) = Cardinality(s) - 1
             /\ g[s] = IF s = {} THEN 0 ELSE f[Chosen(s)] + g[s \ {Chosen(s)}]
             /\ h[s] = IF s = {} THEN 0 ELSE f[Chosen(s)] + h[s \ {Chosen(s)}]
  <2>1. IsFiniteSet(s)
    BY FS_Subset
  <2>2. Cardinality(s) \in Nat /\ (Cardinality(s) = 0 <=> s = {})
    BY <2>1, FS_CardinalityType, FS_EmptySet
  <2>3. s # {} => Cardinality(s \ {Chosen(s)}) = Cardinality(s) - 1
    BY <2>1, ChosenIsIn, FS_RemoveElement
  <2>4. s \in SUBSET S
    OBVIOUS
  <2>5. g[s] = IF s = {} THEN 0 ELSE f[Chosen(s)] + g[s \ {Chosen(s)}]
    BY <2>4 DEF SumsUp
  <2>6. h[s] = IF s = {} THEN 0 ELSE f[Chosen(s)] + h[s \ {Chosen(s)}]
    BY DEF SumsUp
  <2> QED
    BY <2>2, <2>3, <2>5, <2>6
<1>2. 0 \in Q
  BY <1>1
<1>3. ASSUME NEW n \in Q PROVE n + 1 \in Q
  <2> SUFFICES ASSUME NEW s \in SUBSET T, Cardinality(s) = n + 1 PROVE g[s] = h[s]
    OBVIOUS
  <2>1. s # {} /\ s \ {Chosen(s)} \in SUBSET T /\ Cardinality(s \ {Chosen(s)}) = n
    BY <1>1
  <2>2. g[s \ {Chosen(s)}] = h[s \ {Chosen(s)}]
    BY <2>1
  <2> QED
    BY <1>1, <2>1, <2>2
<1>4. Q = Nat
  <2>1. Q \subseteq Nat
    OBVIOUS
  <2> HIDE DEF Q
  <2> QED
    BY <1>2, <1>3, <2>1, AllNumbers
<1> QED
  BY <1>1, <1>4

LEMMA SumStep ==
  ASSUME NEW f, NEW S, IsFiniteSet(S)
  PROVE  SumFunctionOnSet(f, S) =
           IF S = {} THEN 0 ELSE f[Chosen(S)] + SumFunctionOnSet(f, S \ {Chosen(S)})
<1>1. PICK g : SumsUp(g, f, S) /\ SumFunctionOnSet(f, S) = g[S]
  BY SumExists
<1>2. g[S] = IF S = {} THEN 0 ELSE f[Chosen(S)] + g[S \ {Chosen(S)}]
  BY <1>1 DEF SumsUp
<1>3. ASSUME S # {} PROVE SumFunctionOnSet(f, S \ {Chosen(S)}) = g[S \ {Chosen(S)}]
  <2> DEFINE T == S \ {Chosen(S)}
  <2>1. T \subseteq S /\ IsFiniteSet(T)
    BY FS_Subset
  <2> HIDE DEF T
  <2>2. PICK h : SumsUp(h, f, T) /\ SumFunctionOnSet(f, T) = h[T]
    BY <2>1, SumExists
  <2>3. g[T] = h[T]
    BY <1>1, <2>1, <2>2, SumsAgree
  <2> QED
    BY <2>2, <2>3 DEF T
<1> QED
  BY <1>1, <1>2, <1>3

LEMMA SumType ==
  ASSUME NEW f, NEW S, IsFiniteSet(S), \A x \in S : f[x] \in Int
  PROVE  SumFunctionOnSet(f, S) \in Int
<1> DEFINE Q == {n \in Nat : \A T \in SUBSET S :
                   Cardinality(T) = n => SumFunctionOnSet(f, T) \in Int}
<1>1. ASSUME NEW T \in SUBSET S
      PROVE  /\ IsFiniteSet(T) /\ Cardinality(T) \in Nat /\ (Cardinality(T) = 0 <=> T = {})
             /\ T # {} => /\ Chosen(T) \in T
                          /\ Cardinality(T \ {Chosen(T)}) = Cardinality(T) - 1
  <2>1. IsFiniteSet(T)
    BY FS_Subset
  <2> QED
    BY <2>1, FS_CardinalityType, FS_EmptySet, ChosenIsIn, FS_RemoveElement
<1>2. 0 \in Q
  <2>1. SumFunctionOnSet(f, {}) = 0
    BY SumStep, FS_EmptySet
  <2>2. \A T \in SUBSET S : Cardinality(T) = 0 => T = {}
    BY <1>1
  <2> QED
    BY <2>1, <2>2
<1>3. ASSUME NEW n \in Q PROVE n + 1 \in Q
  <2> SUFFICES ASSUME NEW T \in SUBSET S, Cardinality(T) = n + 1
               PROVE  SumFunctionOnSet(f, T) \in Int
    OBVIOUS
  <2>1. T # {} /\ Cardinality(T \ {Chosen(T)}) = n /\ Chosen(T) \in S
    BY <1>1
  <2>2. SumFunctionOnSet(f, T \ {Chosen(T)}) \in Int
    BY <2>1
  <2>3. SumFunctionOnSet(f, T) = f[Chosen(T)] + SumFunctionOnSet(f, T \ {Chosen(T)})
    BY <1>1, <2>1, SumStep
  <2> QED
    BY <2>1, <2>2, <2>3
<1>4. Q = Nat
  <2>1. Q \subseteq Nat
    OBVIOUS
  <2> HIDE DEF Q
  <2> QED
    BY <1>2, <1>3, <2>1, AllNumbers
<1> QED
  BY <1>1, <1>4

\* Chosen element can be the first.
LEMMA SumWithout ==
  ASSUME NEW f, NEW S, IsFiniteSet(S), \A x \in S : f[x] \in Int, NEW x \in S
  PROVE  SumFunctionOnSet(f, S) = f[x] + SumFunctionOnSet(f, S \ {x})
<1> DEFINE Q == {n \in Nat : \A T \in SUBSET S : Cardinality(T) = n =>
                   \A y \in T : SumFunctionOnSet(f, T) = f[y] + SumFunctionOnSet(f, T \ {y})}
<1>1. ASSUME NEW T \in SUBSET S
      PROVE  /\ IsFiniteSet(T) /\ Cardinality(T) \in Nat /\ (Cardinality(T) = 0 <=> T = {})
             /\ \A y \in T : Cardinality(T \ {y}) = Cardinality(T) - 1
             /\ SumFunctionOnSet(f, T) \in Int
  <2>1. IsFiniteSet(T)
    BY FS_Subset
  <2>2. \A y \in T : Cardinality(T \ {y}) = Cardinality(T) - 1
    BY <2>1, FS_RemoveElement
  <2>3. SumFunctionOnSet(f, T) \in Int
    BY <2>1, SumType
  <2> QED
    BY <2>1, <2>2, <2>3, FS_CardinalityType, FS_EmptySet
<1>2. 0 \in Q
  BY <1>1
<1>3. ASSUME NEW n \in Q PROVE n + 1 \in Q
  <2> SUFFICES ASSUME NEW T \in SUBSET S, Cardinality(T) = n + 1, NEW y \in T
               PROVE  SumFunctionOnSet(f, T) = f[y] + SumFunctionOnSet(f, T \ {y})
    OBVIOUS
  <2>1. PICK c : c = Chosen(T)
    OBVIOUS
  <2>2. c \in T /\ SumFunctionOnSet(f, T) = f[c] + SumFunctionOnSet(f, T \ {c})
    BY <1>1, <2>1, SumStep, ChosenIsIn
  <2>3. CASE y = c
    BY <2>2, <2>3
  <2>4. CASE y # c
    <3>0. Cardinality(T \ {c}) = n /\ Cardinality(T \ {y}) = n
      <4>1. \A z \in T : Cardinality(T \ {z}) = Cardinality(T) - 1
        BY <1>1
      <4>2. (n + 1) - 1 = n
        OBVIOUS
      <4> QED
        BY <2>2, <4>1, <4>2
    <3>1. SumFunctionOnSet(f, T \ {c}) = f[y] + SumFunctionOnSet(f, (T \ {c}) \ {y})
      BY <2>2, <2>4, <3>0
    <3>2. SumFunctionOnSet(f, T \ {y}) = f[c] + SumFunctionOnSet(f, (T \ {y}) \ {c})
      BY <2>2, <2>4, <3>0
    <3>3. (T \ {c}) \ {y} = (T \ {y}) \ {c}
      OBVIOUS
    <3>4. PICK rest, a, b :
            rest = SumFunctionOnSet(f, (T \ {c}) \ {y}) /\ a = f[c] /\ b = f[y]
      OBVIOUS
    <3>5. rest \in Int /\ a \in Int /\ b \in Int
      BY <1>1, <2>2, <3>4
    <3>6. SumFunctionOnSet(f, T) = a + (b + rest) /\ SumFunctionOnSet(f, T \ {y}) = a + rest
      BY <2>2, <3>1, <3>2, <3>3, <3>4
    <3>7. a + (b + rest) = b + (a + rest)
      BY <3>5
    <3> QED
      BY <3>4, <3>6, <3>7
  <2> QED
    BY <2>3, <2>4
<1>4. Q = Nat
  <2>1. Q \subseteq Nat
    OBVIOUS
  <2> HIDE DEF Q
  <2> QED
    BY <1>2, <1>3, <2>1, AllNumbers
<1> QED
  BY <1>1, <1>4

LEMMA SumSame ==
  ASSUME NEW f, NEW g, NEW S, IsFiniteSet(S), \A x \in S : g[x] = f[x]
  PROVE  SumFunctionOnSet(g, S) = SumFunctionOnSet(f, S)
<1>1. PICK h : SumsUp(h, f, S) /\ SumFunctionOnSet(f, S) = h[S]
  BY SumExists
<1>2. PICK i : SumsUp(i, g, S) /\ SumFunctionOnSet(g, S) = i[S]
  BY SumExists
<1>3. SumsUp(i, f, S)
  <2>1. \A s \in SUBSET S : i[s] = IF s = {} THEN 0 ELSE g[Chosen(s)] + i[s \ {Chosen(s)}]
    BY <1>2 DEF SumsUp
  <2>2. i = [s \in SUBSET S |-> i[s]]
    BY <1>2 DEF SumsUp
  <2>3. \A s \in SUBSET S : s # {} => g[Chosen(s)] = f[Chosen(s)]
    BY ChosenIsIn
  <2>4. \A s \in SUBSET S : i[s] = IF s = {} THEN 0 ELSE f[Chosen(s)] + i[s \ {Chosen(s)}]
    BY <2>1, <2>3
  <2> QED
    BY <2>2, <2>4 DEF SumsUp
<1> QED
  BY <1>1, <1>2, <1>3, SumsAgree

\* One value changes, or is added.
LEMMA SumChanges ==
  ASSUME NEW S, IsFiniteSet(S), NEW f, \A x \in S : f[x] \in Int, NEW y, NEW n \in Int,
         NEW g, g[y] = (IF y \in S THEN f[y] ELSE 0) + n, \A x \in S \ {y} : g[x] = f[x]
  PROVE  SumFunctionOnSet(g, S \cup {y}) = SumFunctionOnSet(f, S) + n
<1>1. PICK rest : rest = SumFunctionOnSet(f, S \ {y})
  OBVIOUS
<1>2. IsFiniteSet(S \ {y}) /\ IsFiniteSet(S \cup {y})
  BY FS_Subset, FS_AddElement
<1>3. rest \in Int /\ SumFunctionOnSet(g, S \ {y}) = rest
  BY <1>1, <1>2, SumType, SumSame
<1>4. /\ (S \cup {y}) \ {y} = S \ {y} /\ y \in S \cup {y}
      /\ \A x \in S \cup {y} : g[x] \in Int
  OBVIOUS
<1>5. SumFunctionOnSet(g, S \cup {y}) = g[y] + SumFunctionOnSet(g, (S \cup {y}) \ {y})
  BY <1>2, <1>4, SumWithout
<1>6. SumFunctionOnSet(g, S \cup {y}) = g[y] + rest
  BY <1>3, <1>4, <1>5
<1>7. CASE y \in S
  <2>1. SumFunctionOnSet(f, S) = f[y] + rest
    BY <1>1, <1>7, SumWithout
  <2>2. f[y] \in Int /\ g[y] = f[y] + n
    BY <1>7
  <2>3. (f[y] + n) + rest = (f[y] + rest) + n
    BY <1>3, <2>2
  <2> QED
    BY <1>6, <2>1, <2>2, <2>3
<1>8. CASE y \notin S
  <2>1. S \ {y} = S /\ g[y] = n
    BY <1>8
  <2> QED
    <3>1. SumFunctionOnSet(f, S) = rest
      BY <1>1, <2>1
    <3>2. n + rest = rest + n
      BY <1>3
    <3> QED
      BY <1>6, <2>1, <3>1, <3>2
<1> QED
  BY <1>7, <1>8

-----------------------------------------------------------------------------
\* The coins of the accounts.

LEMMA CoinsGiven ==
  ASSUME NEW a, IsAccounts(a), NEW b, NEW id, NEW n \in Int, Gives(a, b, id, n)
  PROVE  Coins(b) = Coins(a) + n /\ Coins(a) \in Int
<1>1. PICK f, g : /\ f = [i \in DOMAIN a.all |-> a.all[i].coins]
                  /\ g = [i \in DOMAIN b.all |-> b.all[i].coins]
  OBVIOUS
<1>2. PICK S, T : S = DOMAIN a.all /\ T = DOMAIN b.all
  OBVIOUS
<1>3. Coins(a) = SumFunctionOnSet(f, S) /\ Coins(b) = SumFunctionOnSet(g, T)
  BY <1>1, <1>2 DEF Coins, SumFunction
<1>4. IsFiniteSet(S) /\ T = S \cup {id} /\ \A i \in S : f[i] \in Int
  BY <1>1, <1>2 DEF IsAccounts, Account, Gives
<1>5. /\ g[id] = (IF id \in S THEN f[id] ELSE 0) + n
      /\ \A i \in S \ {id} : g[i] = f[i]
  BY <1>1, <1>2 DEF Gives
<1>6. SumFunctionOnSet(g, T) = SumFunctionOnSet(f, S) + n
  BY <1>4, <1>5, SumChanges
<1>7. SumFunctionOnSet(f, S) \in Int
  BY <1>4, SumType
<1> QED
  BY <1>3, <1>6, <1>7
-----------------------------------------------------------------------------
\* The states of the application.

\* Whoever wins a bet gets something that can be withdrawn.
NoDust ==
  \A u \in Uses : \A body \in u.bodies : \A i \in DOMAIN body :
    body[i].type = "bet" => Expressible(Returns(body[i].amount, body[i].outcome)) > 0

IsBets(bets) ==
  /\ \E S : bets \in Seq(S)
  /\ \A i \in DOMAIN bets :
       bets[i].returns \in Int /\ (NoDust => Expressible(bets[i].returns) > 0)

\* The liability of a market is what its bets return, and the house covers it.
IsMarket(market) ==
  /\ market = [open |-> market.open, bets |-> market.bets, funds |-> market.funds,
               liability |-> market.liability]
  /\ market.open \in BOOLEAN /\ IsBets(market.bets)
  /\ market.funds \in Int /\ HouseFunds <= market.funds
  /\ market.liability \in [Outcome -> Int]
  /\ \A o \in Outcome :
       market.liability[o] = Payouts(market.bets, o) /\ market.liability[o] <= HouseFunds

IsState(s) ==
  /\ s = [accounts |-> s.accounts, open |-> s.open, reserve |-> s.reserve,
          markets |-> s.markets, deposited |-> s.deposited, sent |-> s.sent,
          withdrawn |-> s.withdrawn, late |-> s.late]
  /\ IsAccounts(s.accounts) /\ s.open \in BOOLEAN
  /\ s.reserve \in Int /\ s.deposited \in Int /\ s.sent \in Int
  /\ s.withdrawn \in Int /\ s.late \in Int
  /\ IsFiniteSet(DOMAIN s.markets) /\ \A m \in DOMAIN s.markets : IsMarket(s.markets[m])
  /\ DOMAIN s.markets # {} => s.open

\* What there is beyond what came in.
Surplus(s) ==
  Coins(s.accounts) + s.reserve + Staked(s.markets) + s.withdrawn + s.late
    - s.deposited - s.sent

\* The state t may follow on the state s, with n more in it.
Follows(s, t, n) ==
  /\ IsState(t) /\ Surplus(t) = Surplus(s) + n
  /\ DOMAIN s.accounts.all \subseteq DOMAIN t.accounts.all

\* The markets are the same but for one, which is new or changes by n.
MarketMoves(markets, new, m, n) ==
  /\ DOMAIN new = DOMAIN markets \cup {m} /\ IsMarket(new[m])
  /\ \A i \in DOMAIN markets \ {m} : new[i] = markets[i]
  /\ (IF new[m].open THEN new[m].funds ELSE 0)
       = (IF m \in DOMAIN markets /\ markets[m].open THEN markets[m].funds ELSE 0) + n

LEMMA StakedMoved ==
  ASSUME NEW markets, IsFiniteSet(DOMAIN markets),
         \A m \in DOMAIN markets : IsMarket(markets[m]),
         NEW new, NEW m, NEW n \in Int, MarketMoves(markets, new, m, n)
  PROVE  /\ Staked(new) = Staked(markets) + n
         /\ IsFiniteSet(DOMAIN new) /\ \A i \in DOMAIN new : IsMarket(new[i])
<1>1. PICK f, g :
        /\ f = [i \in DOMAIN markets |-> IF markets[i].open THEN markets[i].funds ELSE 0]
        /\ g = [i \in DOMAIN new |-> IF new[i].open THEN new[i].funds ELSE 0]
  OBVIOUS
<1>2. PICK S, T : S = DOMAIN markets /\ T = DOMAIN new
  OBVIOUS
<1>3. Staked(markets) = SumFunctionOnSet(f, S) /\ Staked(new) = SumFunctionOnSet(g, T)
  BY <1>1, <1>2 DEF Staked, SumFunction
<1>4. IsFiniteSet(S) /\ T = S \cup {m}
  BY <1>2 DEF MarketMoves
<1>5. \A i \in S : f[i] \in Int
  BY <1>1, <1>2 DEF IsMarket
<1>6. g[m] = (IF m \in S THEN f[m] ELSE 0) + n
  <2>1. m \in T /\ g[m] = (IF new[m].open THEN new[m].funds ELSE 0)
    BY <1>1, <1>2, <1>4
  <2>2. CASE m \in S
    BY <1>1, <1>2, <2>1, <2>2 DEF MarketMoves
  <2>3. CASE m \notin S
    BY <1>1, <1>2, <2>1, <2>3 DEF MarketMoves
  <2> QED
    BY <2>2, <2>3
<1>7. \A i \in S \ {m} : g[i] = f[i]
  BY <1>1, <1>2 DEF MarketMoves
<1>8. SumFunctionOnSet(g, T) = SumFunctionOnSet(f, S) + n
  BY <1>4, <1>5, <1>6, <1>7, SumChanges
<1>9. IsFiniteSet(T)
  BY <1>4, FS_AddElement
<1>10. \A i \in T : IsMarket(new[i])
  BY <1>2 DEF MarketMoves
<1> QED
  BY <1>2, <1>3, <1>8, <1>9, <1>10

LEMMA StakedType ==
  ASSUME NEW markets, IsFiniteSet(DOMAIN markets),
         \A m \in DOMAIN markets : IsMarket(markets[m])
  PROVE  Staked(markets) \in Int
<1>1. PICK f :
        f = [i \in DOMAIN markets |-> IF markets[i].open THEN markets[i].funds ELSE 0]
  OBVIOUS
<1>2. \A i \in DOMAIN markets : f[i] \in Int
  BY <1>1 DEF IsMarket
<1>3. SumFunctionOnSet(f, DOMAIN markets) \in Int
  BY <1>2, SumType
<1> QED
  BY <1>1, <1>3 DEF Staked, SumFunction

LEMMA CoinsType ==
  ASSUME NEW a, IsAccounts(a)
  PROVE  Coins(a) \in Int
<1>1. PICK f : f = [i \in DOMAIN a.all |-> a.all[i].coins]
  OBVIOUS
<1>2. \A i \in DOMAIN a.all : f[i] \in Int
  BY <1>1 DEF IsAccounts, Account
<1>3. SumFunctionOnSet(f, DOMAIN a.all) \in Int
  BY <1>2, SumType DEF IsAccounts
<1> QED
  BY <1>1, <1>3 DEF Coins, SumFunction

LEMMA ExpressibleType ==
  ASSUME NEW n \in Int
  PROVE  Expressible(n) \in Int
BY AccountsAssumption DEF Expressible

LEMMA FollowsOn ==
  ASSUME NEW s, NEW t, NEW u, IsState(s), NEW m \in Int, NEW n \in Int,
         Follows(s, t, m), Follows(t, u, n)
  PROVE  Follows(s, u, m + n)
<1>1. Surplus(s) \in Int
  BY CoinsType, StakedType DEF IsState, Surplus
<1> QED
  BY <1>1 DEF Follows
-----------------------------------------------------------------------------
\* What each message does to the books.

LEMMA StateFollows ==
  ASSUME NEW s, IsState(s), NEW t, IsState(t),
         DOMAIN s.accounts.all \subseteq DOMAIN t.accounts.all,
         NEW n \in Int, Coins(t.accounts) = Coins(s.accounts) + n,
         NEW k \in Int, Staked(t.markets) = Staked(s.markets) + k,
         NEW m \in Int, m = n + k + (t.reserve - s.reserve) + (t.withdrawn - s.withdrawn)
                          + (t.late - s.late) - (t.deposited - s.deposited) - (t.sent - s.sent)
  PROVE  Follows(s, t, m)
<1>1. PICK c, d : c = Coins(s.accounts) /\ d = Staked(s.markets)
  OBVIOUS
<1>2. c \in Int /\ d \in Int
  BY <1>1, CoinsType, StakedType DEF IsState
<1>3. /\ s.reserve \in Int /\ s.deposited \in Int /\ s.sent \in Int
      /\ s.withdrawn \in Int /\ s.late \in Int
      /\ t.reserve \in Int /\ t.deposited \in Int /\ t.sent \in Int
      /\ t.withdrawn \in Int /\ t.late \in Int
  BY DEF IsState
<1>4. Surplus(t) = (c + n) + t.reserve + (d + k) + t.withdrawn + t.late - t.deposited - t.sent
  BY <1>1 DEF Surplus
<1>5. Surplus(s) = c + s.reserve + d + s.withdrawn + s.late - s.deposited - s.sent
  BY <1>1 DEF Surplus
<1>6. Surplus(t) = Surplus(s) + m
  BY <1>2, <1>3, <1>4, <1>5
<1> QED
  BY <1>6 DEF Follows

\* Only the accounts change, and what was withdrawn or deposited.
LEMMA AccountsFollow ==
  ASSUME NEW s, IsState(s), NEW a, NEW id, NEW n \in Int, Gives(s.accounts, a, id, n),
         NEW deposited \in Int, NEW withdrawn \in Int
  PROVE  Follows(s, [s EXCEPT !.accounts = a, !.deposited = deposited,
                              !.withdrawn = withdrawn],
                 n + (withdrawn - s.withdrawn) - (deposited - s.deposited))
<1>1. IsAccounts(a) /\ DOMAIN s.accounts.all \subseteq DOMAIN a.all
  BY DEF Gives
<1>2. Coins(a) = Coins(s.accounts) + n
  BY CoinsGiven DEF IsState
<1>3. PICK t : t = [s EXCEPT !.accounts = a, !.deposited = deposited,
                             !.withdrawn = withdrawn]
  OBVIOUS
<1>4. t = [accounts |-> a, open |-> s.open, reserve |-> s.reserve, markets |-> s.markets,
           deposited |-> deposited, sent |-> s.sent, withdrawn |-> withdrawn,
           late |-> s.late]
  BY <1>3 DEF IsState
<1>5. /\ IsState(t) /\ t.accounts = a /\ t.markets = s.markets /\ t.reserve = s.reserve
      /\ t.sent = s.sent /\ t.late = s.late /\ t.deposited = deposited /\ t.withdrawn = withdrawn
  BY <1>1, <1>4 DEF IsState
<1>6. /\ s.reserve \in Int /\ s.sent \in Int /\ s.late \in Int
      /\ s.withdrawn \in Int /\ s.deposited \in Int /\ Staked(s.markets) \in Int
  BY StakedType DEF IsState
<1>7. PICK m, k : m = n + (withdrawn - s.withdrawn) - (deposited - s.deposited) /\ k = 0
  OBVIOUS
<1>8. /\ m \in Int /\ k \in Int /\ Staked(t.markets) = Staked(s.markets) + k
      /\ m = n + k + (t.reserve - s.reserve) + (t.withdrawn - s.withdrawn)
               + (t.late - s.late) - (t.deposited - s.deposited) - (t.sent - s.sent)
  BY <1>5, <1>6, <1>7
<1>9. Follows(s, t, m)
  BY <1>1, <1>2, <1>5, <1>8, StateFollows
<1> QED
  BY <1>3, <1>7, <1>9

LEMMA OwnersFollow ==
  ASSUME NEW s, IsState(s), NEW a, NEW id, NEW n \in Int, Gives(s.accounts, a, id, n)
  PROVE  Follows(s, [s EXCEPT !.accounts = a], n)
<1>1. PICK deposited, withdrawn : deposited = s.deposited /\ withdrawn = s.withdrawn
  OBVIOUS
<1>2. [s EXCEPT !.accounts = a]
        = [s EXCEPT !.accounts = a, !.deposited = deposited, !.withdrawn = withdrawn]
  BY <1>1 DEF IsState
<1>3. deposited \in Int /\ withdrawn \in Int
  BY <1>1 DEF IsState
<1>4. Follows(s, [s EXCEPT !.accounts = a, !.deposited = deposited, !.withdrawn = withdrawn],
              n + (withdrawn - s.withdrawn) - (deposited - s.deposited))
  BY <1>3, AccountsFollow
<1>5. n + (withdrawn - s.withdrawn) - (deposited - s.deposited) = n
  BY <1>1, <1>3
<1> QED
  BY <1>2, <1>4, <1>5

LEMMA WithdrawFollows ==
  ASSUME NEW s, IsState(s), NEW id \in DOMAIN s.accounts.all, NEW n \in Int
  PROVE  Follows(s, Withdraw(s, id, n), 0)
<1>1. PICK e : e = Expressible(n)
  OBVIOUS
<1>2. e \in Int /\ s.withdrawn \in Int /\ s.deposited \in Int /\ IsAccounts(s.accounts)
  BY <1>1, ExpressibleType DEF IsState
<1>3. PICK a : a = Burn(s.accounts, id, e)
  OBVIOUS
<1>4. Gives(s.accounts, a, id, 0 - e)
  BY <1>2, <1>3, BurnGives
<1>5. Withdraw(s, id, n) = [s EXCEPT !.accounts = a, !.withdrawn = s.withdrawn + e]
  BY <1>1, <1>3 DEF Withdraw
<1>6. Withdraw(s, id, n) = [s EXCEPT !.accounts = a, !.deposited = s.deposited,
                                     !.withdrawn = s.withdrawn + e]
  BY <1>5 DEF IsState
<1>7. 0 - e \in Int /\ s.withdrawn + e \in Int
      /\ (0 - e) + ((s.withdrawn + e) - s.withdrawn) - (s.deposited - s.deposited) = 0
  BY <1>2
<1>8. Follows(s, [s EXCEPT !.accounts = a, !.deposited = s.deposited,
                           !.withdrawn = s.withdrawn + e],
              (0 - e) + ((s.withdrawn + e) - s.withdrawn) - (s.deposited - s.deposited))
  BY <1>2, <1>4, <1>7, AccountsFollow
<1> QED
  BY <1>6, <1>7, <1>8

LEMMA PayFollows ==
  ASSUME NEW s, IsState(s), NEW bet, bet.returns \in Int, NEW o
  PROVE  Follows(s, Pay(s, bet, o), IF bet.outcome = o THEN bet.returns ELSE 0)
<1>1. CASE bet.outcome = o
  <2>1. PICK id, n : id = bet.bettor /\ n = bet.returns
    OBVIOUS
  <2>2. PICK a, t : a = Mint(s.accounts, id, n) /\ t = [s EXCEPT !.accounts = a]
    OBVIOUS
  <2>3. n \in Int /\ IsAccounts(s.accounts)
    BY <2>1 DEF IsState
  <2>4. Gives(s.accounts, a, id, n)
    BY <2>2, <2>3, MintGives
  <2>5. Follows(s, t, n)
    BY <2>2, <2>3, <2>4, OwnersFollow
  <2>6. IsState(t) /\ id \in DOMAIN t.accounts.all
    <3>1. t.accounts = a
      BY <2>2 DEF IsState
    <3> QED
      BY <2>4, <2>5, <3>1 DEF Follows, Gives
  <2>7. Follows(t, Withdraw(t, id, n), 0)
    BY <2>3, <2>6, WithdrawFollows
  <2>8. Follows(s, Withdraw(t, id, n), n + 0)
    BY <2>3, <2>5, <2>7, FollowsOn
  <2>9. Pay(s, bet, o) = Withdraw(t, id, n)
    BY <1>1, <2>1, <2>2 DEF Pay
  <2> QED
    BY <1>1, <2>1, <2>3, <2>8, <2>9
<1>2. CASE bet.outcome # o
  <2>1. Pay(s, bet, o) = s
    BY <1>2 DEF Pay
  <2>2. Surplus(s) = Surplus(s) + 0
    BY CoinsType, StakedType DEF IsState, Surplus
  <2> QED
    BY <1>2, <2>1, <2>2 DEF Follows
<1> QED
  BY <1>1, <1>2

LEMMA FollowsItself ==
  ASSUME NEW s, IsState(s)
  PROVE  Follows(s, s, 0)
<1>1. Surplus(s) \in Int
  BY CoinsType, StakedType DEF IsState, Surplus
<1> QED
  BY <1>1 DEF Follows

\* The winners get what the house set aside for them.
LEMMA PayAllFollows ==
  ASSUME NEW s, IsState(s), NEW bets, IsBets(bets), NEW o
  PROVE  Follows(s, PayAll(s, bets, o), Payouts(bets, o)) /\ Payouts(bets, o) \in Int
<1>1. PICK S : bets \in Seq(S)
  BY DEF IsBets
<1>2. PICK k, h : /\ k = [does |-> "pay", outcome |-> o] /\ Runs(h, k, s, bets)
                  /\ h[Len(bets)] = PayAll(s, bets, o)
  BY <1>1, PayRuns
<1>3. PICK l, p : /\ l = [does |-> "sum", outcome |-> o] /\ Runs(p, l, 0, bets)
                  /\ p[Len(bets)] = Payouts(bets, o)
  BY <1>1, PaidRuns
<1>4. h[0] = s /\ \A i \in 1..Len(bets) : h[i] = Pay(h[i - 1], bets[i], o)
  <2>1. \A r, x : Step(k, r, x) = Pay(r, x, o)
    BY <1>2 DEF Step
  <2> QED
    BY <1>2, <2>1 DEF Runs
<1>5. p[0] = 0 /\ \A i \in 1..Len(bets) : p[i] = Paid(p[i - 1], bets[i], o)
  <2>1. \A r, x : Step(l, r, x) = Paid(r, x, o)
    BY <1>3 DEF Step
  <2> QED
    BY <1>3, <2>1 DEF Runs
<1>6. Len(bets) \in Nat /\ \A i \in 1..Len(bets) : bets[i].returns \in Int
  BY <1>1 DEF IsBets
<1> DEFINE Q == {i \in Nat : i <= Len(bets) => Follows(s, h[i], p[i]) /\ p[i] \in Int}
<1>7. 0 \in Q
  BY <1>4, <1>5, FollowsItself
<1>8. ASSUME NEW i \in Q PROVE i + 1 \in Q
  <2> SUFFICES ASSUME i + 1 <= Len(bets)
               PROVE  Follows(s, h[i + 1], p[i + 1]) /\ p[i + 1] \in Int
    OBVIOUS
  <2>1. i \in Nat /\ i + 1 \in 1..Len(bets) /\ i <= Len(bets) /\ (i + 1) - 1 = i
    BY <1>6
  <2>2. Follows(s, h[i], p[i]) /\ p[i] \in Int
    BY <2>1
  <2>3. PICK bet, n : bet = bets[i + 1] /\ n = IF bet.outcome = o THEN bet.returns ELSE 0
    OBVIOUS
  <2>4. bet.returns \in Int /\ n \in Int
    BY <1>6, <2>1, <2>3
  <2>5. IsState(h[i])
    BY <2>2 DEF Follows
  <2>6. h[i + 1] = Pay(h[i], bet, o) /\ p[i + 1] = Paid(p[i], bet, o)
    BY <1>4, <1>5, <2>1, <2>3
  <2>7. Follows(h[i], h[i + 1], n)
    BY <2>3, <2>4, <2>5, <2>6, PayFollows
  <2>8. Follows(s, h[i + 1], p[i] + n)
    BY <2>2, <2>4, <2>7, FollowsOn
  <2>9. p[i + 1] = p[i] + n
    BY <2>2, <2>3, <2>4, <2>6 DEF Paid
  <2> QED
    BY <2>2, <2>4, <2>8, <2>9
<1>9. Q = Nat
  <2>1. Q \subseteq Nat
    OBVIOUS
  <2> HIDE DEF Q
  <2> QED
    BY <1>7, <1>8, <2>1, AllNumbers
<1>10. Len(bets) \in Q
  BY <1>6, <1>9
<1> QED
  BY <1>2, <1>3, <1>6, <1>10

\* Only what the house has changes.
LEMMA HouseFollows ==
  ASSUME NEW s, IsState(s), NEW open \in BOOLEAN, s.open => open,
         NEW reserve \in Int, NEW sent \in Int,
         NEW markets, IsFiniteSet(DOMAIN markets),
         \A m \in DOMAIN markets : IsMarket(markets[m]), DOMAIN markets # {} => open,
         NEW k \in Int, Staked(markets) = Staked(s.markets) + k,
         NEW t, t = [accounts |-> s.accounts, open |-> open, reserve |-> reserve,
                     markets |-> markets, deposited |-> s.deposited, sent |-> sent,
                     withdrawn |-> s.withdrawn, late |-> s.late]
  PROVE  Follows(s, t, k + (reserve - s.reserve) - (sent - s.sent))
<1>1. /\ IsState(t) /\ t.accounts = s.accounts /\ t.markets = markets /\ t.reserve = reserve
      /\ t.sent = sent /\ t.late = s.late /\ t.deposited = s.deposited
      /\ t.withdrawn = s.withdrawn
  BY DEF IsState
<1>2. /\ s.reserve \in Int /\ s.sent \in Int /\ s.late \in Int
      /\ s.withdrawn \in Int /\ s.deposited \in Int /\ Coins(s.accounts) \in Int
  BY CoinsType DEF IsState
<1>3. PICK m, n : m = k + (reserve - s.reserve) - (sent - s.sent) /\ n = 0
  OBVIOUS
<1>4. /\ m \in Int /\ n \in Int /\ Coins(t.accounts) = Coins(s.accounts) + n
      /\ m = n + k + (t.reserve - s.reserve) + (t.withdrawn - s.withdrawn)
               + (t.late - s.late) - (t.deposited - s.deposited) - (t.sent - s.sent)
  BY <1>1, <1>2, <1>3
<1>5. DOMAIN s.accounts.all \subseteq DOMAIN t.accounts.all /\ Staked(t.markets) = Staked(s.markets) + k
  BY <1>1
<1>6. Follows(s, t, m)
  BY <1>1, <1>4, <1>5, StateFollows
<1> QED
  BY <1>3, <1>6

LEMMA StateParts ==
  ASSUME NEW s, IsState(s)
  PROVE  /\ s = [accounts |-> s.accounts, open |-> s.open, reserve |-> s.reserve,
                 markets |-> s.markets, deposited |-> s.deposited, sent |-> s.sent,
                 withdrawn |-> s.withdrawn, late |-> s.late]
         /\ IsAccounts(s.accounts) /\ s.open \in BOOLEAN
         /\ s.reserve \in Int /\ s.deposited \in Int /\ s.sent \in Int
         /\ s.withdrawn \in Int /\ s.late \in Int
         /\ IsFiniteSet(DOMAIN s.markets)
         /\ \A m \in DOMAIN s.markets : IsMarket(s.markets[m])
         /\ DOMAIN s.markets # {} => s.open
         /\ Coins(s.accounts) \in Int /\ Staked(s.markets) \in Int
BY CoinsType, StakedType DEF IsState

LEMMA InitFollows ==
  ASSUME NEW s, IsState(s)
  PROVE  Follows(s, [s EXCEPT !.open = TRUE], 0)
<1>1. PICK open, k, reserve, sent, markets :
        /\ open = TRUE /\ k = 0 /\ reserve = s.reserve /\ sent = s.sent /\ markets = s.markets
  OBVIOUS
<1>2. PICK t : t = [s EXCEPT !.open = TRUE]
  OBVIOUS
<1>3. t = [accounts |-> s.accounts, open |-> open, reserve |-> reserve,
           markets |-> markets, deposited |-> s.deposited, sent |-> sent,
           withdrawn |-> s.withdrawn, late |-> s.late]
  BY <1>1, <1>2 DEF IsState
<1>4. /\ open \in BOOLEAN /\ open /\ k \in Int /\ reserve \in Int /\ sent \in Int
      /\ IsFiniteSet(DOMAIN markets) /\ \A m \in DOMAIN markets : IsMarket(markets[m])
      /\ Staked(markets) = Staked(s.markets) + k
  BY <1>1, StateParts
<1>5. Follows(s, t, k + (reserve - s.reserve) - (sent - s.sent))
  BY <1>3, <1>4, HouseFollows
<1>6. k + (reserve - s.reserve) - (sent - s.sent) = 0
  BY <1>1, <1>4
<1> QED
  BY <1>2, <1>5, <1>6

LEMMA SendFundsFollows ==
  ASSUME NEW s, IsState(s), NEW n \in Int,
         NEW t, t = [s EXCEPT !.reserve = @ + n, !.sent = @ + n]
  PROVE  Follows(s, t, 0)
<1>1. PICK open, k, reserve, sent, markets :
        /\ open = s.open /\ k = 0 /\ reserve = s.reserve + n /\ sent = s.sent + n
        /\ markets = s.markets
  OBVIOUS
<1>2. t = [accounts |-> s.accounts, open |-> open, reserve |-> reserve,
           markets |-> markets, deposited |-> s.deposited, sent |-> sent,
           withdrawn |-> s.withdrawn, late |-> s.late]
  BY <1>1 DEF IsState
<1>3. /\ open \in BOOLEAN /\ (s.open => open) /\ k \in Int /\ reserve \in Int /\ sent \in Int
      /\ IsFiniteSet(DOMAIN markets) /\ \A m \in DOMAIN markets : IsMarket(markets[m])
      /\ DOMAIN markets # {} => open
      /\ Staked(markets) = Staked(s.markets) + k
  BY <1>1, StateParts
<1>4. Follows(s, t, k + (reserve - s.reserve) - (sent - s.sent))
  BY <1>2, <1>3, HouseFollows
<1>5. k + (reserve - s.reserve) - (sent - s.sent) = 0
  <2>1. s.reserve \in Int /\ s.sent \in Int
    BY StateParts
  <2> QED
    BY <1>1, <2>1
<1> QED
  BY <1>4, <1>5

\* Nothing has been bet on a new market.
LEMMA NewMarketIsMarket == IsMarket(NewMarket) /\ NewMarket.funds = HouseFunds /\ NewMarket.open
<1>1. << >> \in Seq({}) /\ Len(<< >>) = 0
  OBVIOUS
<1>2. ASSUME NEW o \in Outcome PROVE Payouts(<< >>, o) = 0
  <2>1. PICK h : /\ Runs(h, [does |-> "sum", outcome |-> o], 0, << >>)
                 /\ h[Len(<< >>)] = Payouts(<< >>, o)
    BY <1>1, PaidRuns
  <2> QED
    BY <1>1, <2>1 DEF Runs
<1>3. IsBets(<< >>)
  BY <1>1 DEF IsBets
<1>4. HouseFunds \in Int /\ 0 <= HouseFunds
  BY SixSigmaAssumption
<1>5. PICK market : market = NewMarket
  OBVIOUS
<1>6. /\ market = [open |-> TRUE, bets |-> << >>, funds |-> HouseFunds,
                   liability |-> [o \in Outcome |-> 0]]
  BY <1>5 DEF NewMarket
<1>7. IsMarket(market)
  BY <1>2, <1>3, <1>4, <1>6 DEF IsMarket
<1> QED
  BY <1>5, <1>6, <1>7

LEMMA AddMarketFollows ==
  ASSUME NEW s, IsState(s), NEW m, CanAddMarket(s, m)
  PROVE  Follows(s, AddMarket(s, m), 0)
<1>1. PICK open, k, reserve, sent, markets :
        /\ open = s.open /\ k = HouseFunds /\ reserve = s.reserve - HouseFunds /\ sent = s.sent
        /\ markets = Entry(s.markets, m, NewMarket)
  OBVIOUS
<1>2. PICK t : t = AddMarket(s, m)
  OBVIOUS
<1>3. t = [accounts |-> s.accounts, open |-> open, reserve |-> reserve,
           markets |-> markets, deposited |-> s.deposited, sent |-> sent,
           withdrawn |-> s.withdrawn, late |-> s.late]
  <2>1. t = [s EXCEPT !.reserve = reserve, !.markets = markets]
    BY <1>1, <1>2 DEF AddMarket
  <2> QED
    BY <1>1, <2>1 DEF IsState
<1>4. HouseFunds \in Int /\ s.open /\ m \notin DOMAIN s.markets
  BY SixSigmaAssumption DEF CanAddMarket
<1>5. /\ DOMAIN markets = DOMAIN s.markets \cup {m} /\ markets[m] = NewMarket
      /\ \A i \in DOMAIN s.markets : markets[i] = s.markets[i]
  BY <1>1, <1>4 DEF Entry
<1>6. MarketMoves(s.markets, markets, m, k)
  <2>1. (IF markets[m].open THEN markets[m].funds ELSE 0) = 0 + k
    BY <1>1, <1>4, <1>5, NewMarketIsMarket
  <2> QED
    BY <1>4, <1>5, <2>1, NewMarketIsMarket DEF MarketMoves
<1>7. /\ Staked(markets) = Staked(s.markets) + k
      /\ IsFiniteSet(DOMAIN markets) /\ \A i \in DOMAIN markets : IsMarket(markets[i])
  BY <1>1, <1>4, <1>6, StakedMoved, StateParts
<1>8. open \in BOOLEAN /\ open /\ k \in Int /\ reserve \in Int /\ sent \in Int
  BY <1>1, <1>4, StateParts
<1>9. Follows(s, t, k + (reserve - s.reserve) - (sent - s.sent))
  BY <1>3, <1>7, <1>8, HouseFollows
<1>10. k + (reserve - s.reserve) - (sent - s.sent) = 0
  <2>1. s.reserve \in Int /\ s.sent \in Int
    BY StateParts
  <2> QED
    BY <1>1, <1>4, <2>1
<1> QED
  BY <1>2, <1>9, <1>10

\* The market m is settled.
LEMMA SettleFollows ==
  ASSUME NEW s, IsState(s), NEW m, NEW o, CanSettle(s, m, o)
  PROVE  Follows(s, Settle(s, m, o), 0)
<1>1. PICK old : old = s.markets[m]
  OBVIOUS
<1>2. m \in DOMAIN s.markets /\ old.open /\ IsMarket(old) /\ s.open
  BY <1>1, StateParts DEF CanSettle
<1>3. PICK paid : paid = Payouts(old.bets, o)
  OBVIOUS
<1>4. IsBets(old.bets) /\ paid \in Int /\ old.funds \in Int
  BY <1>2, <1>3, PayAllFollows DEF IsMarket
<1>5. PICK new : new = [old EXCEPT !.open = FALSE]
  OBVIOUS
<1>6. IsMarket(new) /\ ~new.open
  BY <1>2, <1>5 DEF IsMarket
<1>7. PICK open, k, reserve, sent, markets :
        /\ open = s.open /\ k = 0 - old.funds /\ reserve = s.reserve + old.funds - paid
        /\ sent = s.sent /\ markets = [s.markets EXCEPT ![m] = new]
  OBVIOUS
<1>8. PICK t : t = [s EXCEPT !.reserve = reserve, !.markets = markets]
  OBVIOUS
<1>9. t = [accounts |-> s.accounts, open |-> open, reserve |-> reserve,
           markets |-> markets, deposited |-> s.deposited, sent |-> sent,
           withdrawn |-> s.withdrawn, late |-> s.late]
  BY <1>7, <1>8 DEF IsState
<1>10. /\ DOMAIN markets = DOMAIN s.markets \cup {m} /\ markets[m] = new
       /\ \A i \in DOMAIN s.markets \ {m} : markets[i] = s.markets[i]
  BY <1>2, <1>7
<1>11. MarketMoves(s.markets, markets, m, k)
  <2>1. (IF markets[m].open THEN markets[m].funds ELSE 0)
          = (IF m \in DOMAIN s.markets /\ s.markets[m].open THEN s.markets[m].funds ELSE 0) + k
    BY <1>1, <1>2, <1>4, <1>6, <1>7, <1>10
  <2> QED
    BY <1>6, <1>10, <2>1 DEF MarketMoves
<1>12. /\ Staked(markets) = Staked(s.markets) + k
       /\ IsFiniteSet(DOMAIN markets) /\ \A i \in DOMAIN markets : IsMarket(markets[i])
  BY <1>4, <1>7, <1>11, StakedMoved, StateParts
<1>13. open \in BOOLEAN /\ open /\ k \in Int /\ reserve \in Int /\ sent \in Int
  BY <1>2, <1>4, <1>7, StateParts
<1>14. Follows(s, t, k + (reserve - s.reserve) - (sent - s.sent))
  BY <1>9, <1>12, <1>13, HouseFollows
<1>15. k + (reserve - s.reserve) - (sent - s.sent) = 0 - paid
  <2>1. s.reserve \in Int /\ s.sent \in Int
    BY StateParts
  <2> QED
    BY <1>4, <1>7, <2>1
<1>16. Follows(s, t, 0 - paid) /\ IsState(t)
  BY <1>14, <1>15 DEF Follows
<1>17. Settle(s, m, o) = PayAll(t, old.bets, o)
  <2>1. Settle(s, m, o) =
          PayAll([s EXCEPT !.reserve = s.reserve + old.funds - paid,
                           !.markets = [s.markets EXCEPT ![m] = [old EXCEPT !.open = FALSE]]],
                 old.bets, o)
    BY <1>1, <1>3 DEF Settle
  <2> QED
    BY <1>5, <1>7, <1>8, <2>1, Zenon
<1>18. Follows(t, Settle(s, m, o), paid)
  BY <1>3, <1>4, <1>16, <1>17, PayAllFollows
<1>19. Follows(s, Settle(s, m, o), (0 - paid) + paid)
  <2>1. 0 - paid \in Int
    BY <1>4
  <2> QED
    BY <1>4, <1>16, <1>18, <2>1, FollowsOn
<1> QED
  BY <1>4, <1>19

\* One more bet.
Grows(bets, more, x, o) == Payouts(more, o) = Paid(Payouts(bets, o), x, o)

LEMMA PayoutsAppend ==
  ASSUME NEW S, NEW bets \in Seq(S), NEW x, NEW more, more = Append(bets, x), NEW o
  PROVE  Grows(bets, more, x, o) /\ more \in Seq(S \cup {x})
<1>1. PICK n : n = Len(bets)
  OBVIOUS
<1>2. bets \in Seq(S \cup {x})
  BY SeqDef
<1>3. /\ more \in Seq(S \cup {x}) /\ n \in Nat /\ Len(more) = n + 1 /\ more[n + 1] = x
      /\ \A i \in 1..n : more[i] = bets[i]
  BY <1>1, <1>2
<1>4. PICK k : k = [does |-> "sum", outcome |-> o]
  OBVIOUS
<1>5. \A r, y : Step(k, r, y) = Paid(r, y, o)
  BY <1>4 DEF Step
<1>6. PICK h : Runs(h, k, 0, more) /\ h[n + 1] = Payouts(more, o)
  BY <1>3, <1>4, PaidRuns
<1>7. PICK p : Runs(p, k, 0, bets) /\ p[n] = Payouts(bets, o)
  BY <1>1, <1>4, PaidRuns
<1>8. h[0] = 0 /\ \A i \in 1..(n + 1) : h[i] = Paid(h[i - 1], more[i], o)
  BY <1>3, <1>5, <1>6 DEF Runs
<1>9. p[0] = 0 /\ \A i \in 1..n : p[i] = Paid(p[i - 1], bets[i], o)
  BY <1>1, <1>5, <1>7 DEF Runs
<1> DEFINE Q == {i \in Nat : i <= n => h[i] = p[i]}
<1>10. 0 \in Q
  BY <1>8, <1>9
<1>11. ASSUME NEW i \in Q PROVE i + 1 \in Q
  <2> SUFFICES ASSUME i + 1 <= n PROVE h[i + 1] = p[i + 1]
    OBVIOUS
  <2>1. i \in Nat /\ i + 1 \in 1..n /\ i + 1 \in 1..(n + 1) /\ (i + 1) - 1 = i /\ i <= n
    BY <1>3
  <2>2. h[i] = p[i] /\ more[i + 1] = bets[i + 1]
    BY <1>3, <2>1
  <2> QED
    BY <1>8, <1>9, <2>1, <2>2
<1>12. Q = Nat
  <2>1. Q \subseteq Nat
    OBVIOUS
  <2> HIDE DEF Q
  <2> QED
    BY <1>10, <1>11, <2>1, AllNumbers
<1>13. h[n] = p[n]
  <2>1. n \in Q
    BY <1>3, <1>12
  <2> QED
    BY <1>3, <2>1
<1>14. h[n + 1] = Paid(h[n], x, o)
  <2>1. n + 1 \in 1..(n + 1) /\ (n + 1) - 1 = n
    BY <1>3
  <2> QED
    BY <1>3, <1>8, <2>1
<1> QED
  BY <1>3, <1>6, <1>7, <1>13, <1>14 DEF Grows

\* What users send; a bet wins something that can be withdrawn if none is dust.
IsSent(m) ==
  /\ m \in Messages
  /\ m.type = "bet" /\ NoDust => Expressible(Returns(m.amount, m.outcome)) > 0

LEMMA BetFollows ==
  ASSUME NEW s, IsState(s), NEW id, NEW b, CanBet(s, id, b), b.amount \in Int,
         b.outcome \in Outcome,
         NoDust => Expressible(Returns(b.amount, b.outcome)) > 0
  PROVE  Follows(s, Bet(s, id, b), 0)
<1>1. PICK m, o, amount, n : /\ m = b.market /\ o = b.outcome /\ amount = b.amount
                             /\ n = Returns(amount, o)
  OBVIOUS
<1>2. PICK old : old = s.markets[m]
  OBVIOUS
<1>3. /\ m \in DOMAIN s.markets /\ s.open /\ old.liability[o] + n <= HouseFunds
      /\ id \in DOMAIN s.accounts.all /\ amount \in Int /\ 0 < amount /\ IsMarket(old)
  BY <1>1, <1>2, StateParts DEF CanBet, CanBurn
<1>4. n \in Int
  <2>1. Odds[o] \in Int
    BY <1>1, SixSigmaAssumption
  <2> QED
    BY <1>1, <1>3, <2>1 DEF Returns
<1>5. PICK placed : placed = [bettor |-> id, outcome |-> o, returns |-> n]
  OBVIOUS
<1>6. PICK bets, liability : /\ bets = Append(old.bets, placed)
                             /\ liability = [old.liability EXCEPT ![o] = @ + n]
  OBVIOUS
<1>7. PICK new : new = [open |-> old.open, bets |-> bets, funds |-> old.funds + amount,
                        liability |-> liability]
  OBVIOUS
<1>8. IsBets(bets) /\ \A p \in Outcome : Payouts(bets, p) = Paid(Payouts(old.bets, p), placed, p)
  <2>1. IsBets(old.bets)
    BY <1>3 DEF IsMarket
  <2>2. PICK S : old.bets \in Seq(S)
    BY <2>1 DEF IsBets
  <2>3. bets \in Seq(S \cup {placed})
    BY <1>6, <2>2, PayoutsAppend
  <2>4. \A p \in Outcome : Payouts(bets, p) = Paid(Payouts(old.bets, p), placed, p)
    <3>1. ASSUME NEW p \in Outcome
          PROVE  Payouts(bets, p) = Paid(Payouts(old.bets, p), placed, p)
      <4>1. Grows(old.bets, bets, placed, p)
        BY <1>6, <2>2, PayoutsAppend
      <4> QED
        BY <4>1 DEF Grows
    <3> QED
      BY <3>1
  <2>5. ASSUME NEW i \in DOMAIN bets
        PROVE  bets[i].returns \in Int /\ (NoDust => Expressible(bets[i].returns) > 0)
    <3>1. CASE i \in DOMAIN old.bets
      <4>1. bets[i] = old.bets[i]
        BY <1>6, <2>2, <3>1
      <4> QED
        BY <2>1, <3>1, <4>1 DEF IsBets
    <3>2. CASE i \notin DOMAIN old.bets
      <4>1. bets[i] = placed
        BY <1>6, <2>2, <3>2
      <4> QED
        BY <1>1, <1>4, <1>5, <4>1
    <3> QED
      BY <3>1, <3>2
  <2> QED
    BY <2>3, <2>4, <2>5 DEF IsBets
<1>9. /\ liability \in [Outcome -> Int]
      /\ \A p \in Outcome : /\ liability[p] = Payouts(bets, p)
                            /\ liability[p] <= HouseFunds
  <2>1. old.liability \in [Outcome -> Int] /\ \A p \in Outcome :
          old.liability[p] = Payouts(old.bets, p) /\ old.liability[p] <= HouseFunds
    BY <1>3 DEF IsMarket
  <2>2. liability \in [Outcome -> Int]
    BY <1>1, <1>4, <1>6, <2>1
  <2>3. liability[o] = old.liability[o] + n /\ \A p \in Outcome \ {o} : liability[p] = old.liability[p]
    BY <1>1, <1>6, <2>1
  <2>4. Paid(Payouts(old.bets, o), placed, o) = Payouts(old.bets, o) + n
    BY <1>5 DEF Paid
  <2>5. \A p \in Outcome \ {o} : Paid(Payouts(old.bets, p), placed, p) = Payouts(old.bets, p)
    BY <1>5 DEF Paid
  <2>6. liability[o] = Payouts(bets, o) /\ liability[o] <= HouseFunds
    BY <1>1, <1>3, <1>8, <2>1, <2>3, <2>4
  <2>7. \A p \in Outcome \ {o} : liability[p] = Payouts(bets, p) /\ liability[p] <= HouseFunds
    BY <1>8, <2>1, <2>3, <2>5
  <2> QED
    BY <2>2, <2>6, <2>7
<1>10. IsMarket(new) /\ new.open = old.open /\ new.funds = old.funds + amount
  <2>1. /\ old.open \in BOOLEAN /\ old.funds \in Int /\ HouseFunds <= old.funds
    BY <1>3 DEF IsMarket
  <2>2. old.funds + amount \in Int /\ HouseFunds <= old.funds + amount
    BY <1>3, <2>1, SixSigmaAssumption
  <2>3. /\ new.open = old.open /\ new.funds = old.funds + amount /\ new.bets = bets
        /\ new.liability = liability
    BY <1>7
  <2> QED
    BY <1>7, <1>8, <1>9, <2>1, <2>2, <2>3 DEF IsMarket
<1>11. PICK k, late : /\ k = IF old.open THEN amount ELSE 0
                      /\ late = IF old.open THEN s.late ELSE s.late + amount
  OBVIOUS
<1>12. PICK markets : markets = [s.markets EXCEPT ![m] = new]
  OBVIOUS
<1>13. /\ DOMAIN markets = DOMAIN s.markets \cup {m} /\ markets[m] = new
       /\ \A i \in DOMAIN s.markets \ {m} : markets[i] = s.markets[i]
  BY <1>3, <1>12
<1>14. MarketMoves(s.markets, markets, m, k)
  <2>1. old.funds \in Int /\ old.open \in BOOLEAN
    BY <1>3 DEF IsMarket
  <2>2. (IF markets[m].open THEN markets[m].funds ELSE 0)
          = (IF m \in DOMAIN s.markets /\ s.markets[m].open THEN s.markets[m].funds ELSE 0) + k
    BY <1>2, <1>3, <1>10, <1>11, <1>13, <2>1
  <2> QED
    BY <1>10, <1>13, <2>2 DEF MarketMoves
<1>15. k \in Int /\ late \in Int /\ late - s.late = amount - k
  <2>1. s.late \in Int
    BY StateParts
  <2> QED
    BY <1>3, <1>11, <2>1
<1>16. /\ Staked(markets) = Staked(s.markets) + k
       /\ IsFiniteSet(DOMAIN markets) /\ \A i \in DOMAIN markets : IsMarket(markets[i])
  BY <1>14, <1>15, StakedMoved, StateParts
<1>17. PICK a : a = Burn(s.accounts, id, amount)
  OBVIOUS
<1>18. Gives(s.accounts, a, id, 0 - amount)
  BY <1>3, <1>17, BurnGives, StateParts
<1>19. /\ IsAccounts(a) /\ DOMAIN s.accounts.all \subseteq DOMAIN a.all
       /\ Coins(a) = Coins(s.accounts) + (0 - amount) /\ 0 - amount \in Int
  <2>1. 0 - amount \in Int
    BY <1>3
  <2> QED
    BY <1>18, <2>1, CoinsGiven, StateParts DEF Gives
<1>20. PICK t : t = [s EXCEPT !.accounts = a, !.markets = markets, !.late = late]
  OBVIOUS
<1>21. Taken(old, placed, amount) = new
  <2>1. placed.outcome = o /\ placed.returns = n
    BY <1>5
  <2> QED
    BY <1>6, <1>7, <2>1 DEF Taken
<1>22. Bet(s, id, b) = t
  <2>1. Bet(s, id, b) =
          [s EXCEPT !.accounts = Burn(@, id, b.amount),
             !.markets[b.market] =
               Taken(@, [bettor |-> id, outcome |-> b.outcome,
                         returns |-> Returns(b.amount, b.outcome)], b.amount),
             !.late = IF s.markets[b.market].open THEN @ ELSE @ + b.amount]
    BY Zenon DEF Bet
  <2>2. Bet(s, id, b) =
          [s EXCEPT !.accounts = Burn(@, id, amount),
             !.markets[m] = Taken(@, placed, amount),
             !.late = IF s.markets[m].open THEN @ ELSE @ + amount]
    BY <1>1, <1>5, <2>1, Zenon
  <2>3. Burn(s.accounts, id, amount) = a /\ Taken(s.markets[m], placed, amount) = new
    BY <1>2, <1>17, <1>21
  <2>4. late = IF s.markets[m].open THEN s.late ELSE s.late + amount
    BY <1>2, <1>11
  <2>5. Bet(s, id, b) = [s EXCEPT !.accounts = a, !.markets[m] = new, !.late = late]
    BY <2>2, <2>3, <2>4
  <2>6. Bet(s, id, b) = [s EXCEPT !.accounts = a, !.markets = [s.markets EXCEPT ![m] = new],
                                  !.late = late]
    BY <2>5
  <2> QED
    BY <1>12, <1>20, <2>6, Zenon
<1>23. t = [accounts |-> a, open |-> s.open, reserve |-> s.reserve, markets |-> markets,
            deposited |-> s.deposited, sent |-> s.sent, withdrawn |-> s.withdrawn,
            late |-> late]
  BY <1>20 DEF IsState
<1>24. /\ IsState(t) /\ t.accounts = a /\ t.markets = markets /\ t.reserve = s.reserve
       /\ t.sent = s.sent /\ t.late = late /\ t.deposited = s.deposited
       /\ t.withdrawn = s.withdrawn
  BY <1>3, <1>15, <1>16, <1>19, <1>23 DEF IsState
<1>25. 0 = (0 - amount) + k + (t.reserve - s.reserve) + (t.withdrawn - s.withdrawn)
             + (t.late - s.late) - (t.deposited - s.deposited) - (t.sent - s.sent)
  BY <1>3, <1>15, <1>24, StateParts
<1>26. Follows(s, t, 0)
  BY <1>15, <1>16, <1>19, <1>24, <1>25, StateFollows
<1> QED
  BY <1>22, <1>26

LEMMA TransferFollows ==
  ASSUME NEW s, IsState(s), NEW id \in DOMAIN s.accounts.all, NEW dest, NEW n \in Int,
         NEW u, u = [s EXCEPT !.accounts = Transfer(@, id, dest, n)]
  PROVE  Follows(s, u, 0)
<1>1. PICK a, b : a = Burn(s.accounts, id, n) /\ b = Mint(a, dest, n)
  OBVIOUS
<1>2. PICK t : t = [s EXCEPT !.accounts = a]
  OBVIOUS
<1>3. 0 - n \in Int /\ (0 - n) + n = 0
  OBVIOUS
<1>4. Gives(s.accounts, a, id, 0 - n)
  BY <1>1, BurnGives, StateParts
<1>5. Follows(s, t, 0 - n) /\ t.accounts = a
  <2>1. Follows(s, t, 0 - n)
    BY <1>2, <1>3, <1>4, OwnersFollow
  <2> QED
    BY <1>2, <2>1, StateParts
<1>6. IsState(t) /\ IsAccounts(a)
  BY <1>5, StateParts DEF Follows
<1>7. Gives(a, b, dest, n)
  BY <1>1, <1>6, MintGives
<1>8. Follows(t, [t EXCEPT !.accounts = b], n)
  BY <1>5, <1>6, <1>7, OwnersFollow
<1>9. Follows(s, [t EXCEPT !.accounts = b], (0 - n) + n)
  BY <1>3, <1>5, <1>8, FollowsOn
<1>10. u = [t EXCEPT !.accounts = b]
  <2>1. Transfer(s.accounts, id, dest, n) = b
    BY <1>1 DEF Transfer
  <2>2. [s EXCEPT !.accounts = b] = [t EXCEPT !.accounts = b]
    BY <1>2 DEF IsState
  <2> QED
    BY <2>1, <2>2, Zenon
<1> QED
  BY <1>3, <1>9, <1>10

LEMMA DepositFollows ==
  ASSUME NEW s, IsState(s), NEW d, d.wallet \in Wallet, d.amount \in Nat,
         d.keys \subseteq Key, IsFiniteSet(d.keys)
  PROVE  Follows(s, Deposit(s, d), 0)
<1>1. PICK a, n : a = s.accounts /\ n = d.amount
  OBVIOUS
<1>2. PICK opened : opened = AccountForWallet(a, d.wallet)
  OBVIOUS
<1>3. PICK id : id = opened.walletOf[d.wallet]
  OBVIOUS
<1>4. PICK keyed : keyed = AddKeys(opened, id, d.keys)
  OBVIOUS
<1>5. PICK b : b = IF n = 0 THEN keyed ELSE Mint(keyed, id, n)
  OBVIOUS
<1>6. IsAccounts(a) /\ n \in Int /\ s.deposited \in Int /\ s.withdrawn \in Int
  BY <1>1, StateParts
<1>7. Gives(a, opened, id, 0) /\ id \in DOMAIN opened.all
  BY <1>2, <1>3, <1>6, AccountForWalletOpens
<1>8. Gives(opened, keyed, id, 0)
  BY <1>4, <1>7, AddKeysGives DEF Gives
<1>9. Gives(a, keyed, id, 0)
  <2>1. Gives(a, keyed, id, 0 + 0)
    BY <1>6, <1>7, <1>8, GivesTwice
  <2> QED
    BY <2>1
<1>10. Gives(a, b, id, n)
  <2>1. CASE n = 0
    BY <1>5, <1>9, <2>1
  <2>2. CASE n # 0
    <3>1. b = Mint(keyed, id, n) /\ IsAccounts(keyed)
      BY <1>5, <1>9, <2>2 DEF Gives
    <3>2. Gives(keyed, b, id, n)
      BY <1>6, <3>1, MintGives
    <3>3. Gives(a, b, id, 0 + n)
      BY <1>6, <1>9, <3>2, GivesTwice
    <3>4. 0 + n = n
      BY <1>6
    <3> QED
      BY <3>3, <3>4
  <2> QED
    BY <2>1, <2>2
<1>11. PICK deposited, withdrawn : deposited = s.deposited + n /\ withdrawn = s.withdrawn
  OBVIOUS
<1>12. deposited \in Int /\ withdrawn \in Int
       /\ n + (withdrawn - s.withdrawn) - (deposited - s.deposited) = 0
  BY <1>6, <1>11
<1>13. Follows(s, [s EXCEPT !.accounts = b, !.deposited = deposited, !.withdrawn = withdrawn],
               n + (withdrawn - s.withdrawn) - (deposited - s.deposited))
  BY <1>1, <1>6, <1>10, <1>12, AccountsFollow
<1>14. Deposit(s, d) = [s EXCEPT !.accounts = b, !.deposited = deposited]
  BY <1>1, <1>2, <1>3, <1>4, <1>5, <1>11 DEF Deposit
<1>15. Deposit(s, d) = [s EXCEPT !.accounts = b, !.deposited = deposited,
                                 !.withdrawn = withdrawn]
  BY <1>11, <1>14 DEF IsState
<1> QED
  BY <1>12, <1>13, <1>15

LEMMA MessageTypes ==
  ASSUME NEW m \in Messages
  PROVE  /\ m.type \in {"addKey", "removeKey"} => m.key \in Key
         /\ m.type \in {"addWallet", "removeWallet"} => m.wallet \in Wallet
         /\ m.type \in {"transfer", "withdraw", "sendFunds", "bet"} => m.amount \in Int
         /\ m.type = "deposit" => /\ m.wallet \in Wallet /\ m.amount \in Nat
                                  /\ m.keys \subseteq Key /\ IsFiniteSet(m.keys)
         /\ m.type = "bet" => m.outcome \in Outcome
         /\ m.type \in {"addKey", "removeKey", "addWallet", "removeWallet", "transfer",
                        "withdraw", "deposit", "init", "sendFunds", "addMarket", "bet",
                        "settle"}
BY DEF Messages

LEMMA MessageFollows ==
  ASSUME NEW s, IsState(s), NEW m, IsSent(m), NEW by, by.id \in DOMAIN s.accounts.all,
         Can(s, m, by)
  PROVE  Follows(s, Does(s, m, by), 0)
<1>1. m \in Messages
  BY DEF IsSent
<1>2. IsAccounts(s.accounts)
  BY StateParts
<1>3. CASE m.type = "addKey"
  <2>1. Gives(s.accounts, AddKey(s.accounts, by.id, m.key), by.id, 0)
    BY <1>1, <1>2, <1>3, MessageTypes, AddKeyGives DEF Can
  <2>2. Does(s, m, by) = [s EXCEPT !.accounts = AddKey(s.accounts, by.id, m.key)]
    BY <1>3 DEF Does
  <2> QED
    BY <2>1, <2>2, OwnersFollow
<1>4. CASE m.type = "removeKey"
  <2>1. Gives(s.accounts, RemoveKey(s.accounts, by.id, m.key), by.id, 0)
    BY <1>1, <1>2, <1>4, MessageTypes, RemoveKeyGives DEF Can, CanRemoveKey
  <2>2. Does(s, m, by) = [s EXCEPT !.accounts = RemoveKey(s.accounts, by.id, m.key)]
    BY <1>4 DEF Does
  <2> QED
    BY <2>1, <2>2, OwnersFollow
<1>5. CASE m.type = "addWallet"
  <2>1. Gives(s.accounts, AddWallet(s.accounts, by.id, m.wallet), by.id, 0)
    BY <1>1, <1>2, <1>5, MessageTypes, AddWalletGives DEF Can
  <2>2. Does(s, m, by) = [s EXCEPT !.accounts = AddWallet(s.accounts, by.id, m.wallet)]
    BY <1>5 DEF Does
  <2> QED
    BY <2>1, <2>2, OwnersFollow
<1>6. CASE m.type = "removeWallet"
  <2>1. Gives(s.accounts, RemoveWallet(s.accounts, by.id, m.wallet), by.id, 0)
    BY <1>1, <1>2, <1>6, MessageTypes, RemoveWalletGives DEF Can, CanRemoveWallet
  <2>2. Does(s, m, by) = [s EXCEPT !.accounts = RemoveWallet(s.accounts, by.id, m.wallet)]
    BY <1>6 DEF Does
  <2> QED
    BY <2>1, <2>2, OwnersFollow
<1>7. CASE m.type = "transfer"
  <2>1. Does(s, m, by) = [s EXCEPT !.accounts = Transfer(@, by.id, m.dest, m.amount)]
    BY <1>7 DEF Does
  <2>2. m.amount \in Int
    BY <1>1, <1>7, MessageTypes
  <2> QED
    BY <2>1, <2>2, TransferFollows
<1>8. CASE m.type = "withdraw"
  BY <1>1, <1>8, MessageTypes, WithdrawFollows DEF Does
<1>9. CASE m.type = "deposit"
  BY <1>1, <1>9, MessageTypes, DepositFollows DEF Does
<1>10. CASE m.type = "init"
  BY <1>10, InitFollows DEF Does
<1>11. CASE m.type = "sendFunds"
  <2>1. Does(s, m, by) = [s EXCEPT !.reserve = @ + m.amount, !.sent = @ + m.amount]
    BY <1>11 DEF Does
  <2>2. m.amount \in Int
    BY <1>1, <1>11, MessageTypes
  <2> QED
    BY <2>1, <2>2, SendFundsFollows
<1>12. CASE m.type = "addMarket"
  BY <1>12, AddMarketFollows DEF Does, Can
<1>13. CASE m.type = "bet"
  BY <1>1, <1>13, MessageTypes, BetFollows DEF Does, Can, IsSent
<1>14. CASE m.type = "settle"
  BY <1>14, SettleFollows DEF Does, Can
<1> QED
  BY <1>1, <1>3, <1>4, <1>5, <1>6, <1>7, <1>8, <1>9, <1>10, <1>11, <1>12, <1>13, <1>14,
     MessageTypes

\* A transaction of users.
IsTx(tx) ==
  tx.key \in Key /\ tx.body \in Seq(Messages) /\ \A i \in DOMAIN tx.body : IsSent(tx.body[i])

LEMMA SentFollows ==
  ASSUME NEW s, IsState(s), NEW tx, tx.key \in Key
  PROVE  /\ Sent(s, tx) = [ok |-> Sent(s, tx).ok, state |-> Sent(s, tx).state]
         /\ Follows(s, Sent(s, tx).state, 0)
         /\ Sender(s.accounts, tx.key) \in DOMAIN Sent(s, tx).state.accounts.all
<1>1. PICK a, id, t : /\ a = UseNonce(s.accounts, tx.key) /\ id = Sender(s.accounts, tx.key)
                      /\ t = [s EXCEPT !.accounts = a]
  OBVIOUS
<1>2. Gives(s.accounts, a, id, 0)
  BY <1>1, UseNonceGives, StateParts
<1>3. Follows(s, t, 0)
  BY <1>1, <1>2, OwnersFollow
<1>4. t.accounts = a
  BY <1>1 DEF IsState
<1>5. id \in DOMAIN t.accounts.all
  BY <1>2, <1>4 DEF Gives
<1>6. Sent(s, tx) = [ok |-> TRUE, state |-> t]
  BY <1>1 DEF Sent
<1>7. Sent(s, tx).state = t /\ Sent(s, tx).ok = TRUE
  BY <1>6
<1>8. Sent(s, tx) = [ok |-> Sent(s, tx).ok, state |-> Sent(s, tx).state]
  BY <1>6, <1>7, Zenon
<1> QED
  BY <1>1, <1>3, <1>5, <1>7, <1>8, Zenon

\* What a transaction does, whether it fails on the way or not.
LEMMA ExecutedFollows ==
  ASSUME NEW s, IsState(s), NEW tx, IsTx(tx)
  PROVE  Follows(s, Executed(s, tx).state, 0)
<1>1. PICK by : by = [id |-> Sender(s.accounts, tx.key), key |-> tx.key]
  OBVIOUS
<1>2. PICK body, base : body = tx.body /\ base = Sent(s, tx)
  OBVIOUS
<1>3. body \in Seq(Messages) /\ Len(body) \in Nat /\ \A i \in 1..Len(body) : IsSent(body[i])
  BY <1>2 DEF IsTx
<1>4. PICK k : k = [does |-> "message", by |-> by]
  OBVIOUS
<1>5. PICK h : Runs(h, k, base, body) /\ h[Len(body)] = DoesAll(base, body, by)
  BY <1>3, <1>4, MessagesRun
<1>6. \A r, x : Step(k, r, x) = Message(r, x, by)
  BY <1>4 DEF Step
<1>7. h[0] = base /\ \A i \in 1..Len(body) : h[i] = Message(h[i - 1], body[i], by)
  BY <1>5, <1>6 DEF Runs
<1>8. Executed(s, tx) = h[Len(body)]
  BY <1>1, <1>2, <1>5 DEF Executed
<1> DEFINE
  Fits(r) == /\ r = [ok |-> r.ok, state |-> r.state] /\ Follows(s, r.state, 0)
             /\ by.id \in DOMAIN r.state.accounts.all
  Q == {i \in Nat : i <= Len(body) => Fits(h[i])}
<1> HIDE DEF Fits
<1>9. 0 \in Q
  <2>1. Fits(base)
    BY <1>1, <1>2, SentFollows DEF IsTx, Fits
  <2> QED
    BY <1>7, <2>1
<1>10. ASSUME NEW i \in Q PROVE i + 1 \in Q
  <2> SUFFICES ASSUME i + 1 <= Len(body) PROVE Fits(h[i + 1])
    OBVIOUS
  <2>1. i \in Nat /\ i + 1 \in 1..Len(body) /\ i <= Len(body) /\ (i + 1) - 1 = i
    BY <1>3
  <2>2. PICK r, m : r = h[i] /\ m = body[i + 1]
    OBVIOUS
  <2>3. Fits(r) /\ h[i + 1] = Message(r, m, by) /\ IsSent(m)
    BY <1>3, <1>7, <2>1, <2>2
  <2>4. /\ r = [ok |-> r.ok, state |-> r.state] /\ Follows(s, r.state, 0)
        /\ by.id \in DOMAIN r.state.accounts.all
    BY <2>3 DEF Fits
  <2>5. CASE r.ok /\ Can(r.state, m, by)
    <3>1. PICK t : t = Does(r.state, m, by)
      OBVIOUS
    <3>2. Follows(r.state, t, 0)
      BY <2>3, <2>4, <2>5, <3>1, MessageFollows DEF Follows
    <3>3. Follows(s, t, 0 + 0)
      BY <2>4, <3>2, FollowsOn
    <3>4. by.id \in DOMAIN t.accounts.all
      BY <2>4, <3>2 DEF Follows
    <3>5. Message(r, m, by) = [r EXCEPT !.state = t]
      BY <2>5, <3>1 DEF Message
    <3>6. Message(r, m, by) = [ok |-> r.ok, state |-> t]
      BY <2>4, <3>5
    <3> QED
      BY <2>3, <3>3, <3>4, <3>6 DEF Fits
  <2>6. CASE ~(r.ok /\ Can(r.state, m, by))
    <3>1. Message(r, m, by) = [r EXCEPT !.ok = FALSE]
      BY <2>6 DEF Message
    <3>2. Message(r, m, by) = [ok |-> FALSE, state |-> r.state]
      BY <2>4, <3>1
    <3> QED
      BY <2>3, <2>4, <3>2 DEF Fits
  <2> QED
    BY <2>5, <2>6
<1>11. Q = Nat
  <2>1. Q \subseteq Nat
    OBVIOUS
  <2> HIDE DEF Q
  <2> QED
    BY <1>9, <1>10, <2>1, AllNumbers
<1>12. Fits(h[Len(body)])
  <2>1. Len(body) \in Q
    BY <1>3, <1>11
  <2> QED
    BY <1>3, <2>1
<1> QED
  BY <1>8, <1>12 DEF Fits

\* At genesis there is nothing.
LEMMA GenesisIsState == IsState(Genesis) /\ Surplus(Genesis) = 0
<1>1. DOMAIN << >> = {} /\ IsFiniteSet({})
  BY FS_EmptySet
<1>2. IsAccounts(NoAccounts) /\ NoAccounts.all = << >>
  <2>1. PICK e : e = << >>
    OBVIOUS
  <2>2. DOMAIN e = {} /\ e = [x \in {} |-> 0]
    BY <1>1, <2>1
  <2>3. NoAccounts = [all |-> e, keyOf |-> e, walletOf |-> e]
    BY <2>1 DEF NoAccounts
  <2>4. KeysOf(e) = [x \in {} |-> 0] /\ WalletsOf(e) = [x \in {} |-> 0]
    BY <2>2 DEF KeysOf, WalletsOf
  <2>5. Leads(e, KeysOf(e), Key) /\ Leads(e, WalletsOf(e), Wallet)
    BY <2>2, <2>4 DEF Leads
  <2>6. e \in [DOMAIN e -> Account] /\ IsFiniteSet(DOMAIN e)
    BY <1>1, <2>2
  <2> QED
    BY <2>1, <2>3, <2>5, <2>6 DEF IsAccounts
<1>3. Coins(NoAccounts) = 0
  <2>1. \A f : SumFunctionOnSet(f, {}) = 0
    BY <1>1, SumStep
  <2> QED
    BY <1>1, <1>2, <2>1 DEF Coins, SumFunction
<1>4. Staked(<< >>) = 0
  <2>1. \A f : SumFunctionOnSet(f, {}) = 0
    BY <1>1, SumStep
  <2> QED
    BY <1>1, <2>1 DEF Staked, SumFunction
<1>5. PICK a : a = UseNonce(NoAccounts, Validator)
  OBVIOUS
<1>6. Gives(NoAccounts, a, Sender(NoAccounts, Validator), 0)
  BY <1>2, <1>5, UseNonceGives, SixSigmaAssumption
<1>7. IsAccounts(a) /\ Coins(a) = 0
  <2>1. IsAccounts(a)
    BY <1>6 DEF Gives
  <2>2. Coins(a) = Coins(NoAccounts) + 0
    BY <1>2, <1>6, CoinsGiven
  <2> QED
    BY <1>3, <2>1, <2>2
<1>8. PICK e : e = << >>
  OBVIOUS
<1>9. DOMAIN e = {} /\ Staked(e) = 0
  BY <1>1, <1>4, <1>8
<1>10. PICK s : s = Genesis
  OBVIOUS
<1>11. s = [accounts |-> a, open |-> FALSE, reserve |-> 0, markets |-> e,
            deposited |-> 0, sent |-> 0, withdrawn |-> 0, late |-> 0]
  BY <1>5, <1>8, <1>10 DEF Genesis
<1>12. IsState(s)
  BY <1>1, <1>7, <1>9, <1>11 DEF IsState
<1>13. Surplus(s) = 0
  BY <1>7, <1>9, <1>11 DEF Surplus
<1> QED
  BY <1>10, <1>12, <1>13

\* What a state promises of its books.
LEMMA StateBalances ==
  ASSUME NEW s, IsState(s), Surplus(s) = 0
  PROVE  Coins(s.accounts) + s.reserve + Staked(s.markets) + s.withdrawn + s.late
           = s.deposited + s.sent
<1>1. PICK c, d : c = Coins(s.accounts) /\ d = Staked(s.markets)
  OBVIOUS
<1>2. c \in Int /\ d \in Int
  BY <1>1, StateParts
<1>3. c + s.reserve + d + s.withdrawn + s.late - s.deposited - s.sent = 0
  BY <1>1 DEF Surplus
<1> QED
  BY <1>1, <1>2, <1>3, StateParts

LEMMA StateSettles ==
  ASSUME NEW s, IsState(s), NoDust, NEW m \in DOMAIN s.markets, s.markets[m].open,
         NEW o \in Outcome
  PROVE  /\ CanSettle(s, m, o)
         /\ Payouts(s.markets[m].bets, o) = s.markets[m].liability[o]
         /\ Payouts(s.markets[m].bets, o) <= s.markets[m].funds
<1>1. PICK market : market = s.markets[m]
  OBVIOUS
<1>2. IsMarket(market) /\ s.open
  BY <1>1, StateParts
<1>3. /\ market.liability[o] = Payouts(market.bets, o) /\ market.liability[o] <= HouseFunds
      /\ market.liability[o] \in Int /\ HouseFunds <= market.funds /\ market.funds \in Int
      /\ IsBets(market.bets)
  BY <1>2 DEF IsMarket
<1>4. Payouts(market.bets, o) <= market.funds
  BY <1>3, SixSigmaAssumption
<1>5. CanPay(s, m, o)
  BY <1>1, <1>3 DEF CanPay, IsBets
<1> QED
  BY <1>1, <1>2, <1>3, <1>4, <1>5 DEF CanSettle
-----------------------------------------------------------------------------
\* What is written, and in what order.

IsBlock(w) == w.op = "block"

\* What an entry of the store needs to be there with it.
Supported(w, P) ==
  /\ IsBlock(w) => /\ w.height \in Nat /\ IsState(w.state) /\ Surplus(w.state) = 0
                   /\ Root(w.state) \in P
                   /\ w.height = 0 \/ \E b \in P : IsBlock(b) /\ b.height = w.height - 1
  /\ \A s : w = Root(s) => Leaves(s) \subseteq P

Closed(P) == \A w \in P : Supported(w, P)

First(q, n) == {q[i] : i \in 1..n}

\* The store is closed however many of the writes q are done.
Sound(D, q) == \A n \in 0..Len(q) : Closed(D \cup First(q, n))

\* No transaction is executed twice, but for the exception.
OnceIn(P) ==
  \A b, c \in P :
    IsBlock(b) /\ IsBlock(c) /\ b.tx = c.tx /\ b.height < c.height
      => store = "fjall" /\ TxAt(b.tx, b.height) \notin P

All == durable \cup Range(tail) \cup Range(todo)

StoreInv ==
  /\ store \in {"postgres", "fjall"} /\ use \in Uses /\ height \in Nat
  /\ \E S : tail \in Seq(S) /\ todo \in Seq(S)
  /\ ~Running => adding = Nothing
  /\ adding = Nothing => tail = << >> /\ todo = << >>
  /\ store = "postgres" => tail = << >>
  /\ Running => IsState(state) /\ Surplus(state) = 0
  /\ Running => \E b \in durable : IsBlock(b) /\ b.height = height
  /\ adding # Nothing => IsState(adding) /\ Surplus(adding) = 0
  /\ adding # Nothing => \E b \in All : IsBlock(b) /\ b.height = height + 1
  /\ \A b \in All : IsBlock(b) => b.height <= height + 1
  /\ Running /\ adding = Nothing => \A b \in All : IsBlock(b) => b.height <= height
  /\ \E b \in durable : IsBlock(b)
  /\ OnceIn(All)
  /\ Sound(durable, tail \o todo)

-----------------------------------------------------------------------------

LEMMA StateIsNotDown ==
  ASSUME NEW s, IsState(s)
  PROVE  s # Down /\ s # Nothing
<1>1. PICK t : t = s.accounts
  OBVIOUS
<1>2. "accounts" \in DOMAIN s
  BY DEF IsState
<1>3. DOMAIN Down = {"down"} /\ DOMAIN Nothing = {"nothing"}
  BY DEF Down, Nothing
<1> QED
  BY <1>2, <1>3

LEMMA Kinds ==
  /\ \A id, account : ~IsBlock(Leaf(id, account)) /\ \A s : Leaf(id, account) # Root(s)
  /\ \A s : ~IsBlock(Root(s)) /\ \A t : Root(s) = Root(t) => s = t
  /\ \A h, tx, s : /\ IsBlock(BlockAt(h, tx, s)) /\ \A t : BlockAt(h, tx, s) # Root(t)
                   /\ BlockAt(h, tx, s).height = h /\ BlockAt(h, tx, s).tx = tx
                   /\ BlockAt(h, tx, s).state = s
  /\ \A tx, h : ~IsBlock(TxAt(tx, h)) /\ \A s : TxAt(tx, h) # Root(s)
<1>1. ASSUME NEW id, NEW account
      PROVE  ~IsBlock(Leaf(id, account)) /\ \A s : Leaf(id, account) # Root(s)
  <2>1. Leaf(id, account).op = "layer" /\ DOMAIN Leaf(id, account) = {"op", "leaf"}
    BY DEF Leaf
  <2>2. \A s : DOMAIN Root(s) = {"op", "root"}
    BY DEF Root
  <2> QED
    BY <2>1, <2>2 DEF IsBlock
<1>2. ASSUME NEW s
      PROVE  ~IsBlock(Root(s)) /\ \A t : Root(s) = Root(t) => s = t
  BY DEF Root, IsBlock
<1>3. ASSUME NEW h, NEW tx, NEW s
      PROVE  /\ IsBlock(BlockAt(h, tx, s)) /\ \A t : BlockAt(h, tx, s) # Root(t)
             /\ BlockAt(h, tx, s).height = h /\ BlockAt(h, tx, s).tx = tx
             /\ BlockAt(h, tx, s).state = s
  <2>1. BlockAt(h, tx, s).op = "block"
    BY DEF BlockAt
  <2>2. \A t : Root(t).op = "layer"
    BY DEF Root
  <2>3. /\ BlockAt(h, tx, s).height = h /\ BlockAt(h, tx, s).tx = tx
        /\ BlockAt(h, tx, s).state = s
    BY DEF BlockAt
  <2> QED
    BY <2>1, <2>2, <2>3 DEF IsBlock
<1>4. ASSUME NEW tx, NEW h
      PROVE  ~IsBlock(TxAt(tx, h)) /\ \A s : TxAt(tx, h) # Root(s)
  <2>1. TxAt(tx, h).op = "tx"
    BY DEF TxAt
  <2>2. \A t : Root(t).op = "layer"
    BY DEF Root
  <2> QED
    BY <2>1, <2>2 DEF IsBlock
<1> QED
  BY <1>1, <1>2, <1>3, <1>4

LEMMA LeavesAreNot ==
  ASSUME NEW s, NEW w \in Leaves(s)
  PROVE  ~IsBlock(w) /\ \A t : w # Root(t)
BY Kinds DEF Leaves

LEMMA LeavesFinite ==
  ASSUME NEW s, IsState(s)
  PROVE  IsFiniteSet(Leaves(s)) /\ IsFiniteSet(NewLayers(s))
<1>1. IsFiniteSet(DOMAIN s.accounts.all)
  BY DEF IsState, IsAccounts
<1>2. IsFiniteSet(Leaves(s))
  <2>1. PICK f : f = [id \in DOMAIN s.accounts.all |-> Leaf(id, s.accounts.all[id])]
    OBVIOUS
  <2>2. f \in Surjection(DOMAIN s.accounts.all, Leaves(s))
    BY <2>1 DEF Leaves, Surjection
  <2> QED
    BY <1>1, <2>2, FS_Surjection
<1> QED
  BY <1>2, FS_Subset DEF NewLayers

LEMMA SetAsSeq ==
  ASSUME NEW S, IsFiniteSet(S)
  PROVE  /\ SetToSeq(S) \in Seq(S)
         /\ \A x \in S : \E i \in 1..Len(SetToSeq(S)) : SetToSeq(S)[i] = x
<1> DEFINE n == Cardinality(S)
<1>1. n \in Nat /\ Bijection(1..n, S) # {}
  BY FS_CardinalityType DEF ExistsBijection
<1>2. \E f \in [1..n -> S] : IsInjective(f)
  BY <1>1 DEF Bijection, Injection
<1>3. SetToSeq(S) \in Injection(1..n, S)
  BY <1>2 DEF SetToSeq, Injection
<1>4. IsFiniteSet(1..n) /\ Cardinality(1..n) = n
  BY <1>1, FS_Interval
<1>5. SetToSeq(S) \in Surjection(1..n, S)
  BY <1>3, <1>4, FS_Injection
<1>6. SetToSeq(S) \in [1..n -> S]
  BY <1>3 DEF Injection
<1>7. SetToSeq(S) \in Seq(S) /\ Len(SetToSeq(S)) = n
  BY <1>1, <1>6, SeqDef
<1> QED
  BY <1>5, <1>7 DEF Surjection

\* The layers of a new state, those below before those above.
LEMMA LayersInOrder ==
  ASSUME NEW s, IsState(s)
  PROVE  /\ \E S : Layers(s) \in Seq(S)
         /\ \A i \in 1..Len(Layers(s)) :
              \/ Layers(s)[i] \in Leaves(s)
              \/ /\ Layers(s)[i] = Root(s)
                 /\ Leaves(s) \subseteq Present \cup First(Layers(s), i - 1)
         /\ Root(s) \in Present \cup First(Layers(s), Len(Layers(s)))
<1>1. CASE HasLayer(Root(s))
  <2>1. Layers(s) = << >> /\ Root(s) \in Present
    BY <1>1 DEF Layers, HasLayer
  <2>2. << >> \in Seq({}) /\ Len(<< >>) = 0
    OBVIOUS
  <2> QED
    BY <2>1, <2>2
<1>2. CASE ~HasLayer(Root(s))
  <2>1. PICK new, r, S : /\ new = SetToSeq(NewLayers(s)) /\ r = Root(s)
                         /\ S = NewLayers(s) \cup {Root(s)}
    OBVIOUS
  <2>2. new \in Seq(NewLayers(s)) /\ \A x \in NewLayers(s) : \E i \in 1..Len(new) : new[i] = x
    BY <2>1, LeavesFinite, SetAsSeq
  <2>3. new \in Seq(S) /\ r \in S
    BY <2>1, <2>2, SeqDef
  <2>4. PICK n, q : n = Len(new) /\ q = new \o <<r>>
    OBVIOUS
  <2>5. /\ q \in Seq(S) /\ n \in Nat /\ Len(q) = n + 1 /\ q[n + 1] = r
        /\ \A i \in 1..n : q[i] = new[i]
    BY <2>3, <2>4
  <2>6. Layers(s) = q
    BY <1>2, <2>1, <2>4 DEF Layers
  <2>7. \A i \in 1..n : q[i] \in Leaves(s)
    BY <2>2, <2>4, <2>5 DEF NewLayers
  <2>8. Leaves(s) \subseteq Present \cup First(q, n)
    BY <2>2, <2>4, <2>5 DEF NewLayers, HasLayer, First
  <2>9. (n + 1) - 1 = n /\ \A i \in 1..(n + 1) : i \in 1..n \/ i = n + 1
    BY <2>5
  <2>10. r \in First(q, n + 1)
    BY <2>5 DEF First
  <2> QED
    BY <2>1, <2>5, <2>6, <2>7, <2>8, <2>9, <2>10
<1> QED
  BY <1>1, <1>2

\* The writes of a block, each after what it needs.
LEMMA WritesInOrder ==
  ASSUME NEW s, IsState(s), NEW h, NEW tx, NEW w, w = Writes(h, tx, s)
  PROVE  /\ \E S : w \in Seq(S)
         /\ \A i \in 1..Len(w) :
              \/ w[i] \in Leaves(s)
              \/ w[i] = Root(s) /\ Leaves(s) \subseteq Present \cup First(w, i - 1)
              \/ w[i] = BlockAt(h, tx, s) /\ Root(s) \in Present \cup First(w, i - 1)
              \/ w[i] = TxAt(tx, h)
         /\ BlockAt(h, tx, s) \in Range(w)
<1>1. PICK layers, b, t : /\ layers = Layers(s) /\ b = BlockAt(h, tx, s)
                          /\ t = IF store = "fjall" THEN <<TxAt(tx, h)>> ELSE << >>
  OBVIOUS
<1>2. PICK R : layers \in Seq(R)
  BY <1>1, LayersInOrder
<1>3. PICK S : S = R \cup {b, TxAt(tx, h)}
  OBVIOUS
<1>4. layers \in Seq(S) /\ <<b>> \in Seq(S)
  BY <1>2, <1>3, SeqDef
<1>5. t \in Seq(S) /\ Len(t) \in {0, 1} /\ (Len(t) = 1 => t[1] = TxAt(tx, h))
  <2>1. PICK x : x = TxAt(tx, h)
    OBVIOUS
  <2>2. CASE store = "fjall"
    <3>1. t = <<x>> /\ x \in S
      BY <1>1, <1>3, <2>1, <2>2
    <3> QED
      BY <2>1, <3>1
  <2>3. CASE store # "fjall"
    BY <1>1, <2>3
  <2> QED
    BY <2>2, <2>3
<1>6. w = (layers \o <<b>>) \o t
  BY <1>1 DEF Writes
<1>7. PICK k : k = Len(layers)
  OBVIOUS
<1>8. k \in Nat
  BY <1>4, <1>7
<1>9. PICK u : u = layers \o <<b>>
  OBVIOUS
<1>10. /\ u \in Seq(S) /\ Len(u) = k + 1 /\ u[k + 1] = b /\ \A i \in 1..k : u[i] = layers[i]
  BY <1>4, <1>7, <1>9
<1>11. /\ w \in Seq(S) /\ Len(w) = (k + 1) + Len(t) /\ \A i \in 1..(k + 1) : w[i] = u[i]
       /\ (Len(t) = 1 => w[(k + 1) + 1] = t[1])
  <2>1. w = u \o t
    BY <1>6, <1>9
  <2>2. w \in Seq(S) /\ Len(w) = Len(u) + Len(t) /\ \A i \in 1..Len(u) : w[i] = u[i]
    BY <1>5, <1>10, <2>1
  <2>3. Len(t) = 1 => w[Len(u) + 1] = t[1]
    <3>1. ASSUME Len(t) = 1 PROVE w[Len(u) + 1] = t[1]
      <4>1. 1 \in 1..Len(t) /\ Len(u) + 1 \in 1..(Len(u) + Len(t)) /\ (Len(u) + 1) - Len(u) = 1
            /\ ~(Len(u) + 1 <= Len(u))
        BY <1>8, <1>10, <3>1
      <4> QED
        BY <1>5, <1>10, <2>1, <4>1
    <3> QED
      BY <3>1
  <2> QED
    BY <1>10, <2>2, <2>3
<1>12. w[k + 1] = b /\ \A i \in 1..k : w[i] = layers[i]
  BY <1>8, <1>10, <1>11
<1>13. \A n \in 0..k : First(w, n) = First(layers, n)
  BY <1>8, <1>12 DEF First
<1>14. ASSUME NEW i \in 1..Len(w)
       PROVE  \/ w[i] \in Leaves(s)
              \/ w[i] = Root(s) /\ Leaves(s) \subseteq Present \cup First(w, i - 1)
              \/ w[i] = BlockAt(h, tx, s) /\ Root(s) \in Present \cup First(w, i - 1)
              \/ w[i] = TxAt(tx, h)
  <2>1. i \in 1..k \/ i = k + 1 \/ (Len(t) = 1 /\ i = (k + 1) + 1)
    <3>1. i \in Int /\ 1 <= i /\ i <= (k + 1) + Len(t)
      BY <1>5, <1>8, <1>11
    <3>2. CASE Len(t) = 0
      BY <1>8, <3>1, <3>2
    <3>3. CASE Len(t) = 1
      BY <1>8, <3>1, <3>3
    <3> QED
      BY <1>5, <3>2, <3>3
  <2>2. CASE i \in 1..k
    <3>1. w[i] = layers[i] /\ i - 1 \in 0..k
      BY <1>8, <1>12, <2>2
    <3>2. First(w, i - 1) = First(layers, i - 1)
      BY <1>13, <3>1
    <3>3. \/ layers[i] \in Leaves(s)
          \/ layers[i] = Root(s) /\ Leaves(s) \subseteq Present \cup First(layers, i - 1)
      BY <1>1, <1>7, <2>2, LayersInOrder
    <3> QED
      BY <3>1, <3>2, <3>3
  <2>3. CASE i = k + 1
    <3>1. i - 1 = k /\ k \in 0..k
      BY <1>8, <2>3
    <3>2. Root(s) \in Present \cup First(layers, k)
      BY <1>1, <1>7, LayersInOrder
    <3> QED
      BY <1>1, <1>12, <1>13, <2>3, <3>1, <3>2
  <2>4. CASE Len(t) = 1 /\ i = (k + 1) + 1
    BY <1>5, <1>11, <2>4
  <2> QED
    BY <2>1, <2>2, <2>3, <2>4
<1>15. b \in Range(w)
  <2>1. k + 1 \in 1..Len(w)
    BY <1>5, <1>8, <1>11
  <2> QED
    BY <1>11, <1>12, <2>1 DEF Range
<1> QED
  BY <1>1, <1>11, <1>14, <1>15

\* Sequences of writes.

LEMMA FirstIsRange ==
  ASSUME NEW S, NEW q \in Seq(S)
  PROVE  First(q, Len(q)) = Range(q)
BY DEF First, Range

LEMMA FirstOf ==
  ASSUME NEW S, NEW a \in Seq(S), NEW b \in Seq(S), NEW n \in 0..Len(a)
  PROVE  /\ n \in 0..Len(a \o b) /\ First(a \o b, n) = First(a, n)
         /\ First(a, n) \subseteq Range(a)
<1>1. PICK q : q = a \o b
  OBVIOUS
<1>2. Len(q) = Len(a) + Len(b) /\ Len(a) \in Nat /\ Len(b) \in Nat
      /\ \A i \in 1..Len(a) : q[i] = a[i]
  BY <1>1
<1>3. \A i \in 1..n : i \in 1..Len(a)
  BY <1>2
<1>4. First(q, n) = First(a, n)
  BY <1>2, <1>3 DEF First
<1>5. First(a, n) \subseteq Range(a)
  BY <1>2, <1>3 DEF First, Range
<1>6. n \in 0..Len(q)
  BY <1>2
<1> QED
  BY <1>1, <1>4, <1>5, <1>6

\* Whatever part of the writes in the journal is done, the store is closed.
LEMMA ClosedNow ==
  ASSUME StoreInv, NEW n \in 0..Len(tail)
  PROVE  Closed(durable \cup First(tail, n)) /\ First(tail, n) \subseteq Range(tail)
<1>1. PICK S : tail \in Seq(S) /\ todo \in Seq(S)
  BY DEF StoreInv
<1>2. n \in 0..Len(tail \o todo) /\ First(tail \o todo, n) = First(tail, n)
      /\ First(tail, n) \subseteq Range(tail)
  BY <1>1, FirstOf
<1>3. Sound(durable, tail \o todo)
  BY DEF StoreInv
<1> QED
  BY <1>2, <1>3 DEF Sound

LEMMA PresentClosed ==
  ASSUME StoreInv
  PROVE  Closed(Present)
<1>1. PICK S : tail \in Seq(S)
  BY DEF StoreInv
<1>2. Len(tail) \in 0..Len(tail) /\ First(tail, Len(tail)) = Range(tail)
  BY <1>1, FirstIsRange
<1> QED
  BY <1>2, ClosedNow DEF Present

\* A bounded set of numbers has a greatest one.
LEMMA GreatestNat ==
  ASSUME NEW s, s \subseteq Nat, s # {}, NEW bound \in Nat, \A x \in s : x <= bound
  PROVE  \E x \in s : \A y \in s : y <= x
<1> DEFINE gaps == {bound - x : x \in s}
<1>1. gaps \subseteq Nat /\ gaps # {}
  <2>1. \A x \in s : bound - x \in Nat
    OBVIOUS
  <2> QED
    BY <2>1
<1>2. PICK d \in gaps : \A e \in gaps : d <= e
  <2> HIDE DEF gaps
  <2> QED
    BY <1>1, LeastNat
<1>3. PICK x \in s : d = bound - x
  BY <1>2
<1>4. \A y \in s : bound - x <= bound - y
  BY <1>2, <1>3
<1> QED
  BY <1>3, <1>4

LEMMA LatestIsLatest ==
  ASSUME StoreInv
  PROVE  /\ Latest \in Present /\ IsBlock(Latest)
         /\ \A c \in Present : IsBlock(c) => c.height <= Latest.height
<1>1. Closed(Present)
  BY PresentClosed
<1> DEFINE heights == {b.height : b \in Blocks}
<1>2. /\ heights \subseteq Nat /\ heights # {}
      /\ height + 1 \in Nat /\ \A x \in heights : x <= height + 1
  <2>1. \A b \in Blocks : b.height \in Nat
    BY <1>1 DEF Closed, Supported, Blocks, IsBlock
  <2>2. \A b \in Blocks : b.height <= height + 1
    BY DEF StoreInv, All, Present, Blocks, IsBlock
  <2>3. Blocks # {} /\ height + 1 \in Nat
    BY DEF StoreInv, Present, Blocks, IsBlock
  <2> QED
    BY <2>1, <2>2, <2>3
<1>3. \E x \in heights : \A y \in heights : y <= x
  <2> HIDE DEF heights
  <2> QED
    BY <1>2, GreatestNat
<1>4. \E b \in Blocks : \A c \in Blocks : c.height <= b.height
  BY <1>3
<1>5. Latest \in Blocks /\ \A c \in Blocks : c.height <= Latest.height
  BY <1>4 DEF Latest
<1> QED
  BY <1>5 DEF Blocks, IsBlock

\* No block is missing below another.
LEMMA NoGaps ==
  ASSUME StoreInv
  PROVE  {b.height : b \in Blocks} = 0..Latest.height
<1>1. Closed(Present)
  BY PresentClosed
<1>2. /\ Latest \in Blocks /\ Latest.height \in Nat
      /\ \A b \in Blocks : b.height \in Nat /\ b.height <= Latest.height
  BY <1>1, LatestIsLatest DEF Closed, Supported, Blocks, IsBlock
<1>3. \A b \in Blocks : b.height # 0 => \E c \in Blocks : c.height = b.height - 1
  BY <1>1 DEF Closed, Supported, Blocks, IsBlock
<1>4. PICK top : top = Latest.height
  OBVIOUS
<1> DEFINE Q == {n \in Nat : n <= top => \E b \in Blocks : b.height = top - n}
<1>5. 0 \in Q
  <2>1. Latest.height = top - 0
    BY <1>2, <1>4
  <2> QED
    BY <1>2, <2>1
<1>6. ASSUME NEW n \in Q PROVE n + 1 \in Q
  <2> SUFFICES ASSUME n + 1 <= top PROVE \E b \in Blocks : b.height = top - (n + 1)
    OBVIOUS
  <2>1. PICK b \in Blocks : b.height = top - n
    BY <1>2, <1>4
  <2>2. b.height # 0 /\ b.height - 1 = top - (n + 1)
    BY <1>2, <1>4, <2>1
  <2> QED
    BY <1>3, <2>2
<1>7. Q = Nat
  <2>1. Q \subseteq Nat
    OBVIOUS
  <2> HIDE DEF Q
  <2> QED
    BY <1>5, <1>6, <2>1, AllNumbers
<1>8. ASSUME NEW h \in 0..top PROVE \E b \in Blocks : b.height = h
  <2>1. top - h \in Q /\ top - h <= top /\ top - (top - h) = h
    BY <1>2, <1>4, <1>7
  <2> QED
    BY <2>1
<1> QED
  BY <1>2, <1>4, <1>8

LEMMA Recovers ==
  ASSUME StoreInv
  PROVE  Recoverable
<1>1. /\ Latest \in Present /\ IsBlock(Latest) /\ Closed(Present)
  BY LatestIsLatest, PresentClosed
<1>2. IsState(Latest.state) /\ Root(Latest.state) \in Present
  BY <1>1 DEF Closed, Supported
<1>3. Leaves(Latest.state) \subseteq Present
  BY <1>1, <1>2 DEF Closed, Supported
<1>4. NewLayers(Latest.state) = {}
  BY <1>3 DEF NewLayers, HasLayer
<1>5. CanLoad(Latest.state.accounts.all) /\ Loaded(Latest.state.accounts) = Latest.state.accounts
  BY <1>2, LoadsAsStored, StateParts
<1> QED
  BY <1>2, <1>4, <1>5, NoGaps DEF Recoverable, HasLayer

LEMMA Once ==
  ASSUME StoreInv
  PROVE  ExecutedOnce
<1>1. OnceIn(All) /\ Present \subseteq All
  BY DEF StoreInv, All, Present
<1> QED
  BY <1>1 DEF OnceIn, ExecutedOnce, Blocks, IsBlock

LEMMA Balances ==
  ASSUME StoreInv
  PROVE  EveryCoinIsSomewhere
BY StateBalances DEF StoreInv, EveryCoinIsSomewhere

LEMMA Settles ==
  ASSUME StoreInv, NoDust
  PROVE  MarketsCanSettle
<1> SUFFICES ASSUME Running, NEW m \in DOMAIN state.markets, NEW o \in Outcome,
                    state.markets[m].open
             PROVE  /\ CanSettle(state, m, o)
                    /\ Payouts(state.markets[m].bets, o) = state.markets[m].liability[o]
                    /\ Payouts(state.markets[m].bets, o) <= state.markets[m].funds
  BY DEF MarketsCanSettle
<1>1. IsState(state)
  BY DEF StoreInv
<1> QED
  BY <1>1, StateSettles

-----------------------------------------------------------------------------
\* The invariant holds at first and is kept.

LEMMA NoWritesLeft ==
  ASSUME NEW D, Closed(D)
  PROVE  Sound(D, << >> \o << >>)
<1>1. PICK q : q = << >> \o << >>
  OBVIOUS
<1>2. Len(q) = 0
  BY <1>1
<1>3. \A n \in 0..0 : First(q, n) = {}
  BY DEF First
<1> QED
  BY <1>1, <1>2, <1>3 DEF Sound

LEMMA InitOK ==
  ASSUME Init
  PROVE  StoreInv
<1>1. PICK b, r, x : /\ b = BlockAt(0, GenesisTx, Genesis) /\ r = Root(Genesis)
                     /\ x = TxAt(GenesisTx, 0)
  OBVIOUS
<1>2. durable = Leaves(Genesis) \cup {r, b, x}
  BY <1>1 DEF Init
<1>3. /\ IsBlock(b) /\ b.height = 0 /\ b.tx = GenesisTx /\ b.state = Genesis
      /\ ~IsBlock(r) /\ ~IsBlock(x)
      /\ \A s : b # Root(s) /\ x # Root(s) /\ (r = Root(s) => s = Genesis)
  BY <1>1, Kinds
<1>4. \A w \in durable : IsBlock(w) => w = b
  BY <1>2, <1>3, LeavesAreNot
<1>5. Closed(durable)
  <2>1. ASSUME NEW w \in durable PROVE Supported(w, durable)
    <3>1. CASE w \in Leaves(Genesis)
      BY <3>1, LeavesAreNot DEF Supported
    <3>2. CASE w = r
      BY <1>2, <1>3, <3>2 DEF Supported
    <3>3. CASE w = b
      BY <1>1, <1>2, <1>3, <3>3, GenesisIsState DEF Supported
    <3>4. CASE w = x
      BY <1>3, <3>4 DEF Supported
    <3> QED
      BY <1>2, <3>1, <3>2, <3>3, <3>4
  <2> QED
    BY <2>1 DEF Closed
<1>6. tail = << >> /\ todo = << >> /\ adding = Nothing /\ state = Genesis /\ height = 0
  BY DEF Init
<1>7. All = durable
  BY <1>6 DEF All, Range
<1>8. Running
  BY <1>6, GenesisIsState, StateIsNotDown DEF Running
<1>9. OnceIn(All)
  BY <1>3, <1>4, <1>7 DEF OnceIn
<1>10. Sound(durable, tail \o todo)
  BY <1>5, <1>6, NoWritesLeft
<1>11. store \in {"postgres", "fjall"} /\ use \in Uses
  BY NodeStoreAssumption DEF Init
<1>12. tail \in Seq({}) /\ todo \in Seq({})
  BY <1>6
<1>13. /\ \A w \in All : IsBlock(w) => w.height <= height
       /\ \A w \in All : IsBlock(w) => w.height <= height + 1
       /\ b \in durable /\ b.height = height
  BY <1>2, <1>3, <1>4, <1>6, <1>7
<1>14. IsState(state) /\ Surplus(state) = 0
  BY <1>6, GenesisIsState
<1> QED
  BY <1>3, <1>6, <1>8, <1>9, <1>10, <1>11, <1>12, <1>13, <1>14 DEF StoreInv

\* What users send is a transaction that keeps the books.
LEMMA UsersSend ==
  ASSUME use \in Uses, NEW k \in Key, NEW n, NEW body \in use.bodies, NEW tx,
         tx = [key |-> k, nonce |-> n, body |-> body]
  PROVE  IsTx(tx)
<1>1. body \in Seq(Messages) /\ tx.key = k /\ tx.body = body
  BY NodeStoreAssumption
<1>2. ASSUME NEW i \in DOMAIN body PROVE IsSent(body[i])
  <2>1. body[i] \in Messages
    BY <1>1
  <2> QED
    BY <2>1 DEF IsSent, NoDust
<1> QED
  BY <1>1, <1>2 DEF IsTx

\* The entries of the store and the first writes of a block are closed.
LEMMA WritesSound ==
  ASSUME Closed(Present), NEW s, IsState(s), Surplus(s) = 0, NEW h \in Nat, NEW tx, NEW w,
         w = Writes(h + 1, tx, s), \E b \in Present : IsBlock(b) /\ b.height = h
  PROVE  Sound(Present, w)
<1> SUFFICES ASSUME NEW n \in 0..Len(w), NEW x \in Present \cup First(w, n)
             PROVE  Supported(x, Present \cup First(w, n))
  BY DEF Sound, Closed
<1>1. PICK P : P = Present \cup First(w, n)
  OBVIOUS
<1>2. CASE x \in Present
  <2>1. Supported(x, Present)
    BY <1>2 DEF Closed
  <2> QED
    BY <2>1 DEF Supported
<1>3. CASE x \in First(w, n)
  <2>1. PICK i \in 1..n : x = w[i]
    BY <1>3 DEF First
  <2>2. PICK S : w \in Seq(S)
    BY WritesInOrder
  <2>3. n \in Nat /\ i \in Nat /\ i \in 1..Len(w) /\ i - 1 <= n /\ i - 1 \in Nat
    BY <2>2
  <2>4. Present \cup First(w, i - 1) \subseteq P
    <3>1. \A j \in 1..(i - 1) : j \in 1..n
      BY <2>3
    <3> QED
      BY <1>1, <3>1 DEF First
  <2>5. \/ x \in Leaves(s)
        \/ x = Root(s) /\ Leaves(s) \subseteq Present \cup First(w, i - 1)
        \/ x = BlockAt(h + 1, tx, s) /\ Root(s) \in Present \cup First(w, i - 1)
        \/ x = TxAt(tx, h + 1)
    BY <2>1, <2>3, WritesInOrder
  <2>6. CASE x \in Leaves(s)
    BY <2>6, LeavesAreNot DEF Supported
  <2>7. CASE x = Root(s) /\ Leaves(s) \subseteq Present \cup First(w, i - 1)
    <3>1. ~IsBlock(x) /\ \A t : x = Root(t) => t = s
      BY <2>7, Kinds
    <3> QED
      BY <1>1, <2>4, <2>7, <3>1 DEF Supported
  <2>8. CASE x = BlockAt(h + 1, tx, s) /\ Root(s) \in Present \cup First(w, i - 1)
    <3>1. x.height = h + 1 /\ x.state = s /\ \A t : x # Root(t)
      BY <2>8, Kinds
    <3>2. PICK b \in Present : IsBlock(b) /\ b.height = h
      OBVIOUS
    <3>3. h + 1 \in Nat /\ (h + 1) - 1 = h
      OBVIOUS
    <3>4. Root(s) \in P /\ b \in P
      BY <1>1, <2>4, <2>8
    <3> QED
      BY <1>1, <3>1, <3>2, <3>3, <3>4 DEF Supported
  <2>9. CASE x = TxAt(tx, h + 1)
    <3>1. ~IsBlock(x) /\ \A t : x # Root(t)
      BY <2>9, Kinds
    <3> QED
      BY <3>1 DEF Supported
  <2> QED
    BY <2>5, <2>6, <2>7, <2>8, <2>9
<1> QED
  BY <1>2, <1>3

LEMMA ConstructOK ==
  ASSUME StoreInv, NEW k \in Key, NEW n \in 0..MaxNonce, NEW body \in use.bodies,
         Construct([key |-> k, nonce |-> n, body |-> body])
  PROVE  StoreInv'
<1>1. PICK tx : tx = [key |-> k, nonce |-> n, body |-> body]
  OBVIOUS
<1>2. PICK s, w : s = Executed(state, tx).state /\ w = Writes(height + 1, tx, s)
  OBVIOUS
<1>3. /\ Running /\ adding = Nothing /\ ~Found(tx) /\ adding' = s /\ todo' = w
      /\ UNCHANGED <<store, use, durable, tail, state, height, crashes>>
  BY <1>1, <1>2 DEF Construct
<1>4. IsState(state) /\ Surplus(state) = 0 /\ height \in Nat /\ use \in Uses
  BY <1>3 DEF StoreInv
<1>5. Follows(state, s, 0)
  BY <1>1, <1>2, <1>4, UsersSend, ExecutedFollows
<1>6. IsState(s) /\ Surplus(s) = 0 /\ s # Nothing
  BY <1>4, <1>5, StateIsNotDown DEF Follows
<1>7. tail = << >> /\ todo = << >>
  BY <1>3 DEF StoreInv
<1>8. Present = durable /\ All = durable
  BY <1>7 DEF Present, All, Range
<1>9. \E b \in Present : IsBlock(b) /\ b.height = height
  BY <1>3, <1>8 DEF StoreInv
<1>10. PICK S : w \in Seq(S)
  BY <1>2, <1>6, WritesInOrder
<1>11. Sound(durable, w)
  BY <1>2, <1>4, <1>6, <1>8, <1>9, PresentClosed, WritesSound
<1>12. tail' \o todo' = w
  BY <1>3, <1>7, <1>10
<1>13. tail' \in Seq(S) /\ todo' \in Seq(S)
  BY <1>3, <1>7, <1>10
<1>14. PICK new : new = BlockAt(height + 1, tx, s)
  OBVIOUS
<1>15. IsBlock(new) /\ new.height = height + 1 /\ new.tx = tx
  BY <1>14, Kinds
<1>16. All' = durable \cup Range(w) /\ new \in Range(w)
  <2>1. All' = durable \cup Range(w)
    BY <1>3, <1>7 DEF All, Range
  <2> QED
    BY <1>2, <1>6, <1>14, <2>1, WritesInOrder
<1>17. \A x \in Range(w) : \/ x \in Leaves(s) \/ x = Root(s) \/ x = new \/ x = TxAt(tx, height + 1)
  <2>1. \A i \in 1..Len(w) :
          \/ w[i] \in Leaves(s) \/ w[i] = Root(s) \/ w[i] = new \/ w[i] = TxAt(tx, height + 1)
    BY <1>2, <1>6, <1>14, WritesInOrder
  <2> QED
    BY <1>10, <2>1 DEF Range
<1>18. \A x \in Range(w) : IsBlock(x) => x = new
  BY <1>17, LeavesAreNot, Kinds
<1>19. \A b \in durable : IsBlock(b) => b.height \in Nat /\ b.height <= height
  <2>1. Closed(durable)
    BY <1>8, PresentClosed
  <2> QED
    BY <1>3, <1>8, <2>1 DEF StoreInv, Closed, Supported
<1>20. OnceIn(All)'
  <2> SUFFICES ASSUME NEW b \in All', NEW c \in All', IsBlock(b), IsBlock(c), b.tx = c.tx,
                      b.height < c.height
               PROVE  store = "fjall" /\ TxAt(b.tx, b.height) \notin All'
    BY <1>3 DEF OnceIn
  <2>1. b \in durable
    <3>1. c \in durable => c.height <= height /\ c.height \in Nat
      BY <1>19
    <3>2. c \notin durable => c.height = height + 1
      BY <1>15, <1>16, <1>18
    <3>3. b \notin durable => b.height = height + 1
      BY <1>15, <1>16, <1>18
    <3> QED
      BY <1>4, <3>1, <3>2, <3>3
  <2>2. b.height \in Nat /\ b.height <= height
    BY <1>19, <2>1
  <2>3. TxAt(b.tx, b.height) \notin Range(w)
    <3>1. PICK x : x = TxAt(b.tx, b.height)
      OBVIOUS
    <3>2. ~IsBlock(x) /\ x.op = "tx" /\ x.height = b.height /\ \A t : x # Root(t)
      BY <3>1, Kinds DEF TxAt
    <3>3. TxAt(tx, height + 1).height = height + 1
      BY DEF TxAt
    <3>4. x # TxAt(tx, height + 1)
      BY <1>4, <2>2, <3>2, <3>3
    <3>5. x \notin Leaves(s)
      BY <3>2 DEF Leaves, Leaf
    <3> QED
      BY <1>15, <1>17, <3>1, <3>2, <3>4, <3>5
  <2>4. CASE c \in durable
    BY <1>8, <1>16, <2>1, <2>3, <2>4 DEF StoreInv, OnceIn
  <2>5. CASE c \notin durable
    <3>1. b.tx = tx
      BY <1>15, <1>16, <1>18, <2>5
    <3>2. store = "fjall"
      BY <1>3, <1>8, <2>1, <3>1 DEF Found, StoreInv, IsBlock
    <3>3. TxAt(tx, b.height) \notin durable
      BY <1>3, <1>8, <3>2 DEF Found, TxAt
    <3> QED
      BY <1>16, <2>3, <3>1, <3>2, <3>3
  <2> QED
    BY <2>4, <2>5
<1>21. \A b \in All' : IsBlock(b) => b.height <= height' + 1
  BY <1>3, <1>4, <1>15, <1>16, <1>18, <1>19
<1>22. \E b \in All' : IsBlock(b) /\ b.height = height' + 1
  BY <1>3, <1>15, <1>16
<1>23. Sound(durable, tail \o todo)'
  BY <1>3, <1>11, <1>12 DEF Sound, Closed, Supported
<1>24. Running' /\ adding' # Nothing
  BY <1>3, <1>6 DEF Running
<1> QED
  BY <1>3, <1>4, <1>6, <1>7, <1>13, <1>20, <1>21, <1>22, <1>23, <1>24 DEF StoreInv

\* A write is moved from what is to be done to the journal, or into the store.
LEMMA WriteMoves ==
  ASSUME NEW S, NEW a \in Seq(S), NEW b \in Seq(S), b # << >>
  PROVE  /\ Append(a, Head(b)) \in Seq(S) /\ Tail(b) \in Seq(S)
         /\ Append(a, Head(b)) \o Tail(b) = a \o b
         /\ Range(Append(a, Head(b))) = Range(a) \cup {Head(b)}
         /\ Range(b) = {Head(b)} \cup Range(Tail(b))
         /\ \A n \in 0..Len(Tail(b)) :
              n + 1 \in 0..Len(b) /\ First(b, n + 1) = {Head(b)} \cup First(Tail(b), n)
<1>1. PICK x, c, l : x = Head(b) /\ c = Tail(b) /\ l = Len(b)
  OBVIOUS
<1>2. /\ l \in Nat /\ 1 <= l /\ x = b[1] /\ x \in S /\ c \in Seq(S) /\ Len(c) = l - 1
      /\ \A i \in 1..(l - 1) : c[i] = b[i + 1]
  BY <1>1
<1>3. PICK d : d = Append(a, x)
  OBVIOUS
<1>4. /\ d \in Seq(S) /\ Len(a) \in Nat /\ Len(d) = Len(a) + 1 /\ d[Len(a) + 1] = x
      /\ \A i \in 1..Len(a) : d[i] = a[i]
  BY <1>2, <1>3
<1>5. d \o c = a \o b
  <2>1. /\ d \o c \in Seq(S) /\ Len(d \o c) = Len(d) + Len(c)
        /\ a \o b \in Seq(S) /\ Len(a \o b) = Len(a) + Len(b)
    <3>1. d \in Seq(S) /\ c \in Seq(S)
      BY <1>2, <1>4
    <3> QED
      BY <3>1, ConcatProperties
  <2>2. Len(d \o c) = Len(a \o b)
    BY <1>1, <1>2, <1>4, <2>1
  <2>3. ASSUME NEW i \in 1..Len(a \o b) PROVE (d \o c)[i] = (a \o b)[i]
    <3>1. i \in 1..Len(a) \/ i = Len(a) + 1 \/ i \in (Len(a) + 2)..(Len(a) + l)
      BY <1>1, <1>2, <1>4
    <3>2. CASE i \in 1..Len(a)
      BY <1>2, <1>4, <3>2
    <3>3. CASE i = Len(a) + 1
      BY <1>1, <1>2, <1>4, <3>3
    <3>4. CASE i \in (Len(a) + 2)..(Len(a) + l)
      <4>1. (d \o c)[i] = c[i - (Len(a) + 1)]
        BY <1>2, <1>4, <3>4
      <4>2. (a \o b)[i] = b[i - Len(a)]
        BY <1>1, <1>4, <3>4
      <4>3. i - (Len(a) + 1) \in 1..(l - 1) /\ (i - (Len(a) + 1)) + 1 = i - Len(a)
        BY <1>2, <1>4, <3>4
      <4> QED
        BY <1>2, <4>1, <4>2, <4>3
    <3> QED
      BY <3>1, <3>2, <3>3, <3>4
  <2> QED
    BY <2>1, <2>2, <2>3, SeqEqual
<1>6. Range(d) = Range(a) \cup {x}
  <2>1. \A i \in 1..(Len(a) + 1) : i \in 1..Len(a) \/ i = Len(a) + 1
    BY <1>4
  <2>2. Range(d) \subseteq Range(a) \cup {x}
    BY <1>4, <2>1 DEF Range
  <2>3. Range(a) \cup {x} \subseteq Range(d)
    <3>1. \A i \in 1..Len(a) : i \in 1..Len(d)
      BY <1>4
    <3>2. Len(a) + 1 \in 1..Len(d)
      BY <1>4
    <3> QED
      BY <1>4, <3>1, <3>2 DEF Range
  <2> QED
    BY <2>2, <2>3
<1>7. ASSUME NEW n \in 0..(l - 1)
      PROVE  n + 1 \in 0..l /\ First(b, n + 1) = {x} \cup First(c, n)
  <2>1. n + 1 \in 0..l
    BY <1>2
  <2>2. First(b, n + 1) \subseteq {x} \cup First(c, n)
    <3>1. ASSUME NEW i \in 1..(n + 1) PROVE b[i] \in {x} \cup First(c, n)
      <4>1. CASE i = 1
        BY <1>2, <4>1
      <4>2. CASE i # 1
        <5>1. i - 1 \in 1..n /\ i - 1 \in 1..(l - 1) /\ (i - 1) + 1 = i
          BY <1>2, <4>2
        <5> QED
          BY <1>2, <5>1 DEF First
      <4> QED
        BY <4>1, <4>2
    <3> QED
      BY <3>1 DEF First
  <2>3. {x} \cup First(c, n) \subseteq First(b, n + 1)
    <3>1. 1 \in 1..(n + 1)
      OBVIOUS
    <3>2. ASSUME NEW i \in 1..n PROVE c[i] \in First(b, n + 1)
      <4>1. i + 1 \in 1..(n + 1) /\ i \in 1..(l - 1)
        BY <1>2
      <4> QED
        BY <1>2, <4>1 DEF First
    <3> QED
      BY <1>2, <3>1, <3>2 DEF First
  <2> QED
    BY <2>1, <2>2, <2>3
<1>8. Range(b) = {x} \cup Range(c)
  <2>1. l - 1 \in 0..(l - 1) /\ (l - 1) + 1 = l
    BY <1>2
  <2>2. First(b, l) = {x} \cup First(c, l - 1)
    BY <1>7, <2>1
  <2> QED
    BY <1>1, <1>2, <2>2, FirstIsRange
<1> QED
  BY <1>1, <1>2, <1>3, <1>4, <1>5, <1>6, <1>7, <1>8

LEMMA WriteOK ==
  ASSUME StoreInv, Write
  PROVE  StoreInv'
<1>1. /\ todo # << >> /\ todo' = Tail(todo)
      /\ UNCHANGED <<store, use, state, height, adding, crashes>>
  BY DEF Write
<1>2. PICK S : tail \in Seq(S) /\ todo \in Seq(S)
  BY DEF StoreInv
<1>3. adding # Nothing /\ Running
  BY <1>1 DEF StoreInv
<1>4. CASE store = "fjall"
  <2>1. tail' = Append(tail, Head(todo)) /\ durable' = durable
    BY <1>4 DEF Write
  <2>2. tail' \in Seq(S) /\ todo' \in Seq(S) /\ tail' \o todo' = tail \o todo
    BY <1>1, <1>2, <2>1, WriteMoves
  <2>3. All' = All
    BY <1>1, <1>2, <2>1, WriteMoves DEF All
  <2>4. Sound(durable, tail \o todo)'
    BY <2>1, <2>2 DEF StoreInv, Sound, Closed, Supported
  <2>5. OnceIn(All)'
    BY <1>1, <2>3 DEF StoreInv, OnceIn
  <2>6. Running'
    BY <1>1, <1>3 DEF Running
  <2> QED
    BY <1>1, <1>3, <1>4, <2>1, <2>2, <2>3, <2>4, <2>5, <2>6 DEF StoreInv
<1>5. CASE store # "fjall"
  <2>1. durable' = durable \cup {Head(todo)} /\ tail' = tail
    BY <1>5 DEF Write
  <2>2. tail = << >>
    BY <1>5 DEF StoreInv
  <2>3. tail' \in Seq(S) /\ todo' \in Seq(S)
    BY <1>1, <1>2, <2>1, WriteMoves
  <2>4. All' = All
    BY <1>1, <1>2, <2>1, WriteMoves DEF All
  <2>5. tail \o todo = todo /\ tail' \o todo' = Tail(todo)
    BY <1>1, <1>2, <2>1, <2>2, <2>3
  <2>6. Sound(durable', Tail(todo))
    <3>1. ASSUME NEW n \in 0..Len(Tail(todo))
          PROVE  Closed(durable' \cup First(Tail(todo), n))
      <4>1. /\ n + 1 \in 0..Len(todo)
            /\ First(todo, n + 1) = {Head(todo)} \cup First(Tail(todo), n)
        BY <1>1, <1>2, WriteMoves
      <4>2. durable' \cup First(Tail(todo), n) = durable \cup First(todo, n + 1)
        BY <2>1, <4>1
      <4> QED
        BY <2>5, <4>1, <4>2 DEF StoreInv, Sound
    <3> QED
      BY <3>1 DEF Sound
  <2>7. Sound(durable, tail \o todo)'
    BY <2>5, <2>6 DEF Sound, Closed, Supported
  <2>8. OnceIn(All)'
    BY <1>1, <2>4 DEF StoreInv, OnceIn
  <2>9. Running'
    BY <1>1, <1>3 DEF Running
  <2> QED
    BY <1>1, <1>3, <1>5, <2>1, <2>3, <2>4, <2>7, <2>8, <2>9 DEF StoreInv
<1> QED
  BY <1>4, <1>5

LEMMA FinishOK ==
  ASSUME StoreInv, Finish
  PROVE  StoreInv'
<1>1. /\ adding # Nothing /\ todo = << >> /\ durable' = Present /\ tail' = << >>
      /\ state' = adding /\ height' = height + 1 /\ adding' = Nothing
      /\ UNCHANGED <<store, use, todo, crashes>>
  BY DEF Finish, MovesOn
<1>2. IsState(adding) /\ Surplus(adding) = 0 /\ height \in Nat
  BY <1>1 DEF StoreInv
<1>3. All = Present /\ All' = Present
  BY <1>1 DEF All, Present, Range
<1>4. Running'
  BY <1>1, <1>2, StateIsNotDown DEF Running
<1>5. Sound(durable, tail \o todo)'
  <2>1. Sound(Present, << >> \o << >>)
    BY PresentClosed, NoWritesLeft
  <2>2. tail' \o todo' = << >> \o << >>
    BY <1>1
  <2> QED
    BY <1>1, <2>1, <2>2 DEF Sound, Closed, Supported
<1>6. OnceIn(All)'
  BY <1>1, <1>3 DEF StoreInv, OnceIn
<1>7. tail' \in Seq({}) /\ todo' \in Seq({})
  BY <1>1
<1>8. \A b \in All' : IsBlock(b) => b.height <= height' /\ b.height <= height' + 1
  <2>1. \A b \in Present : IsBlock(b) => b.height \in Nat /\ b.height <= height + 1
    BY <1>3, PresentClosed DEF Closed, Supported, StoreInv
  <2> QED
    BY <1>1, <1>2, <1>3, <2>1
<1>9. \E b \in durable' : IsBlock(b) /\ b.height = height'
  BY <1>1, <1>3 DEF StoreInv
<1> QED
  BY <1>1, <1>2, <1>4, <1>5, <1>6, <1>7, <1>8, <1>9 DEF StoreInv

LEMMA CrashOK ==
  ASSUME StoreInv, Crash
  PROVE  StoreInv'
<1>1. /\ tail' = << >> /\ todo' = << >> /\ adding' = Nothing /\ state' = Down
      /\ UNCHANGED <<store, use, height>>
  BY DEF Crash
<1>2. PICK n \in 0..Len(tail) : durable' = durable \cup Range(SubSeq(tail, 1, n))
  BY DEF Crash
<1>3. PICK S : tail \in Seq(S)
  BY DEF StoreInv
<1>4. Range(SubSeq(tail, 1, n)) = First(tail, n)
  <2>1. PICK q : q = SubSeq(tail, 1, n)
    OBVIOUS
  <2>2. n \in Nat /\ q \in Seq(S) /\ Len(q) = n /\ \A i \in 1..n : q[i] = tail[i]
    BY <1>3, <2>1
  <2>3. DOMAIN q = 1..n
    BY <2>2
  <2>4. Range(q) = First(tail, n)
    BY <2>2, <2>3 DEF Range, First
  <2> QED
    BY <2>1, <2>4, Zenon
<1>5. Closed(durable') /\ durable' \subseteq All
  BY <1>2, <1>4, ClosedNow DEF All
<1>6. All' = durable'
  BY <1>1 DEF All, Range
<1>7. ~Running'
  BY <1>1 DEF Running
<1>8. Sound(durable, tail \o todo)'
  <2>1. Sound(durable', << >> \o << >>)
    BY <1>5, NoWritesLeft
  <2>2. tail' \o todo' = << >> \o << >>
    BY <1>1
  <2> QED
    BY <2>1, <2>2 DEF Sound, Closed, Supported
<1>9. OnceIn(All)'
  BY <1>1, <1>5, <1>6 DEF StoreInv, OnceIn
<1>10. tail' \in Seq({}) /\ todo' \in Seq({})
  BY <1>1
<1>11. \E b \in durable' : IsBlock(b)
  BY <1>2 DEF StoreInv
<1>12. \A b \in All' : IsBlock(b) => b.height <= height' + 1
  BY <1>1, <1>5, <1>6 DEF StoreInv
<1>13. store' \in {"postgres", "fjall"} /\ use' \in Uses /\ height' \in Nat
  BY <1>1 DEF StoreInv
<1> QED
  BY <1>1, <1>7, <1>8, <1>9, <1>10, <1>11, <1>12, <1>13 DEF StoreInv

LEMMA RestartOK ==
  ASSUME StoreInv, Restart
  PROVE  StoreInv'
<1>1. /\ ~Running /\ height' = Latest.height
      /\ state' = [Latest.state EXCEPT !.accounts = Loaded(@)]
      /\ UNCHANGED <<store, use, durable, tail, todo, adding, crashes>>
  BY DEF Restart
<1>2. adding = Nothing /\ tail = << >> /\ todo = << >>
  BY <1>1 DEF StoreInv
<1>3. Present = durable /\ All = durable /\ All' = durable
  BY <1>1, <1>2 DEF Present, All, Range
<1>4. /\ Latest \in durable /\ IsBlock(Latest) /\ Closed(durable)
      /\ \A c \in durable : IsBlock(c) => c.height <= Latest.height
  BY <1>3, LatestIsLatest, PresentClosed
<1>5. IsState(Latest.state) /\ Surplus(Latest.state) = 0 /\ Latest.height \in Nat
  BY <1>4 DEF Closed, Supported
<1>6. state' = Latest.state
  <2>1. PICK s : s = Latest.state
    OBVIOUS
  <2>2. Loaded(s.accounts) = s.accounts
    BY <1>5, <2>1, LoadsAsStored, StateParts
  <2>3. [s EXCEPT !.accounts = s.accounts] = s
    BY <1>5, <2>1 DEF IsState
  <2> QED
    BY <1>1, <2>1, <2>2, <2>3
<1>7. Running'
  BY <1>5, <1>6, StateIsNotDown DEF Running
<1>8. Sound(durable, tail \o todo)'
  BY <1>1 DEF StoreInv, Sound, Closed, Supported
<1>9. OnceIn(All)'
  BY <1>1, <1>3 DEF StoreInv, OnceIn
<1>10. \A b \in All' : IsBlock(b) => b.height <= height' /\ b.height <= height' + 1
  <2>1. \A b \in durable : IsBlock(b) => b.height \in Nat
    BY <1>4 DEF Closed, Supported
  <2> QED
    BY <1>1, <1>3, <1>4, <1>5, <2>1
<1>11. \E b \in durable' : IsBlock(b) /\ b.height = height'
  BY <1>1, <1>4
<1>12. /\ store' \in {"postgres", "fjall"} /\ use' \in Uses /\ height' \in Nat
       /\ \E S : tail' \in Seq(S) /\ todo' \in Seq(S)
       /\ adding' = Nothing /\ tail' = << >> /\ todo' = << >>
       /\ IsState(state') /\ Surplus(state') = 0
  BY <1>1, <1>2, <1>5, <1>6 DEF StoreInv
<1> QED
  BY <1>7, <1>8, <1>9, <1>10, <1>11, <1>12 DEF StoreInv

LEMMA StutterOK ==
  ASSUME StoreInv, UNCHANGED vars
  PROVE  StoreInv'
<1>1. /\ store' = store /\ use' = use /\ durable' = durable /\ tail' = tail /\ todo' = todo
      /\ state' = state /\ height' = height /\ adding' = adding /\ crashes' = crashes
  BY DEF vars
<1>2. All' = All /\ (Running' <=> Running)
  BY <1>1 DEF All, Running
<1>3. OnceIn(All)' /\ Sound(durable, tail \o todo)'
  BY <1>1, <1>2 DEF StoreInv, OnceIn, Sound, Closed, Supported
<1> QED
  BY <1>1, <1>2, <1>3 DEF StoreInv

\* Whatever is durable, in the journal or still to be written goes together, at
\* every point between two writes and after every crash (kolme.rs
\* add_executed_block, store.rs, fjall.rs and postgres.rs add_block).
THEOREM StoreIsSound == Spec => []StoreInv
<1>1. Init => StoreInv
  BY InitOK
<1>2. StoreInv /\ [Next]_vars => StoreInv'
  <2> SUFFICES ASSUME StoreInv, [Next]_vars PROVE StoreInv'
    OBVIOUS
  <2>1. ASSUME NEW k \in Key, NEW n \in 0..MaxNonce, NEW body \in use.bodies,
               Construct([key |-> k, nonce |-> n, body |-> body])
        PROVE  StoreInv'
    BY <2>1, ConstructOK
  <2>2. CASE Write
    BY <2>2, WriteOK
  <2>3. CASE Finish
    BY <2>3, FinishOK
  <2>4. CASE Crash
    BY <2>4, CrashOK
  <2>5. CASE Restart
    BY <2>5, RestartOK
  <2>6. CASE UNCHANGED vars
    BY <2>6, StutterOK
  <2> QED
    BY <2>1, <2>2, <2>3, <2>4, <2>5, <2>6 DEF Next
<1> QED
  BY <1>1, <1>2, PTL DEF Spec

\* A transaction is in one block of the store at most, or the store is one that
\* says so of both (kolme.rs execute_transaction, fjall.rs add_block).
THEOREM OnlyOnce == Spec => []ExecutedOnce
<1>1. StoreInv => ExecutedOnce
  BY Once
<1> QED
  BY <1>1, StoreIsSound, PTL

\* A node that stopped between any two writes loads the state of its last block
\* from what the store kept, with every layer of it (kolme.rs new, store.rs
\* load_block, merkle-map api.rs save).
THEOREM AlwaysRecovers == Spec => []Recoverable
<1>1. StoreInv => Recoverable
  BY Recovers
<1> QED
  BY <1>1, StoreIsSound, PTL

\* The coins of the accounts, the reserve of the house and the stakes are those
\* that were deposited, less those withdrawn (accounts.rs mint, burn and
\* transfer; execute.rs withdraw_asset; six-sigma state.rs).
THEOREM NoCoinIsLost == Spec => []EveryCoinIsSomewhere
<1>1. StoreInv => EveryCoinIsSomewhere
  BY Balances
<1> QED
  BY <1>1, StoreIsSound, PTL

\* Besides, every market that is open can be settled, when no winner is paid
\* less than the external chain can express: for such a one burn fails, and with
\* it the whole settlement (six-sigma state.rs place_bet, settle; execute.rs
\* withdraw_asset).
THEOREM BooksAlwaysBalance ==
  ASSUME NoDust
  PROVE  Spec => []BooksBalance
<1>1. StoreInv => BooksBalance
  BY Balances, Settles DEF BooksBalance
<1> QED
  BY <1>1, StoreIsSound, PTL
==============================================================================
