---------------------------- MODULE BridgeProofs ----------------------------
(***************************************************************************)
(* The bridge keeps the order in either direction, for every number of     *)
(* chains, listeners, approvers and submitters, and whatever crashes.      *)
(*                                                                         *)
(* The events Kolme has pending of a chain are those right after the ones  *)
(* it has processed, up to the next it takes, and each is the contract's   *)
(* own; those that become ready are a prefix of them.  What a submitter    *)
(* has under way is an action as Kolme emitted it, under the number it has *)
(* there, so that what the contract executes next is what comes next.      *)
(*                                                                         *)
(* From that order the accounts follow: what the contracts hold is what    *)
(* accounts have and what is on its way.  Each step adds to one of the     *)
(* three what it takes from another.                                       *)
(***************************************************************************)
EXTENDS Bridge, FiniteSetTheorems, SequenceTheorems, WellFoundedInduction, TLAPS

-----------------------------------------------------------------------------
\* Sequences of anything.

IsSeq(s) == \E S : s \in Seq(S)

LEMMA SeqLength ==
  ASSUME NEW s, IsSeq(s)
  PROVE  Len(s) \in Nat /\ DOMAIN s = 1..Len(s)
<1>1. PICK S : s \in Seq(S)
  BY DEF IsSeq
<1> QED
  BY <1>1

LEMMA AppendToSeq ==
  ASSUME NEW s, IsSeq(s), NEW e
  PROVE  /\ IsSeq(Append(s, e)) /\ Len(Append(s, e)) = Len(s) + 1
         /\ \A i \in 1..Len(s) : Append(s, e)[i] = s[i]
         /\ Append(s, e)[Len(s) + 1] = e
<1>1. PICK S : s \in Seq(S)
  BY DEF IsSeq
<1> DEFINE T == S \cup {e}
<1>2. s \in Seq(T)
  BY <1>1
<1>3. e \in T
  OBVIOUS
<1> HIDE DEF T
<1>4. /\ Append(s, e) \in Seq(T)
      /\ Len(Append(s, e)) = Len(s) + 1
      /\ \A i \in 1..Len(s) : Append(s, e)[i] = s[i]
      /\ Append(s, e)[Len(s) + 1] = e
  BY <1>2, <1>3, AppendProperties
<1> QED
  BY <1>4 DEF IsSeq

LEMMA PrefixOfSeq ==
  ASSUME NEW s, IsSeq(s), NEW n \in 0..Len(s)
  PROVE  /\ IsSeq(SubSeq(s, 1, n)) /\ Len(SubSeq(s, 1, n)) = n
         /\ \A i \in 1..n : SubSeq(s, 1, n)[i] = s[i]
<1>1. PICK S : s \in Seq(S)
  BY DEF IsSeq
<1>2. n \in Nat /\ n <= Len(s) /\ Len(s) \in Nat
  BY <1>1
<1>3. \A i \in 1..n : s[i] \in S
  BY <1>1, <1>2, ElementOfSeq
<1>4. /\ SubSeq(s, 1, n) \in Seq(S)
      /\ Len(SubSeq(s, 1, n)) = IF 1 <= n THEN n - 1 + 1 ELSE 0
      /\ \A i \in 1..(n - 1 + 1) : SubSeq(s, 1, n)[i] = s[1 + i - 1]
  BY <1>2, <1>3, SubSeqProperties
<1>5. ASSUME NEW i \in 1..n PROVE SubSeq(s, 1, n)[i] = s[i]
  <2>1. i \in 1..(n - 1 + 1) /\ 1 + i - 1 = i
    BY <1>2
  <2> QED
    BY <2>1, <1>4
<1>6. Len(SubSeq(s, 1, n)) = n
  BY <1>2, <1>4
<1> QED
  BY <1>4, <1>5, <1>6 DEF IsSeq

LEMMA SameSeq ==
  ASSUME NEW s, NEW t, IsSeq(s), IsSeq(t), Len(s) = Len(t),
         \A i \in 1..Len(s) : s[i] = t[i]
  PROVE  s = t
<1>1. PICK S : s \in Seq(S)
  BY DEF IsSeq
<1>2. PICK T : t \in Seq(T)
  BY DEF IsSeq
<1>3. s \in Seq(S \cup T) /\ t \in Seq(S \cup T)
  BY <1>1, <1>2
<1> QED
  BY <1>3, SeqEqual

LEMMA PrefixIs ==
  ASSUME NEW s, NEW t, IsSeq(s), IsSeq(t), Len(s) <= Len(t),
         \A i \in 1..Len(s) : s[i] = t[i]
  PROVE  s = SubSeq(t, 1, Len(s))
<1>1. Len(s) \in Nat /\ Len(t) \in Nat
  BY SeqLength
<1>2. Len(s) \in 0..Len(t)
  BY <1>1
<1>3. /\ IsSeq(SubSeq(t, 1, Len(s))) /\ Len(SubSeq(t, 1, Len(s))) = Len(s)
      /\ \A i \in 1..Len(s) : SubSeq(t, 1, Len(s))[i] = t[i]
  BY <1>2, PrefixOfSeq
<1> QED
  BY <1>3, SameSeq

LEMMA FunctionIsSeq ==
  ASSUME NEW n \in Nat, NEW f, f = [i \in 1..n |-> f[i]]
  PROVE  IsSeq(f) /\ Len(f) = n
<1> DEFINE S == {f[i] : i \in 1..n}
<1>1. f \in [1..n -> S]
  OBVIOUS
<1> HIDE DEF S
<1>2. f \in Seq(S)
  BY <1>1, SeqDef
<1> QED
  BY <1>1, <1>2 DEF IsSeq

LEMMA JoinSeq ==
  ASSUME NEW s, NEW t, IsSeq(s), IsSeq(t)
  PROVE  /\ IsSeq(s \o t) /\ Len(s \o t) = Len(s) + Len(t)
         /\ \A i \in 1..(Len(s) + Len(t)) :
              (s \o t)[i] = IF i <= Len(s) THEN s[i] ELSE t[i - Len(s)]
<1>1. PICK S : s \in Seq(S)
  BY DEF IsSeq
<1>2. PICK T : t \in Seq(T)
  BY DEF IsSeq
<1> DEFINE U == S \cup T
<1>3. s \in Seq(U) /\ t \in Seq(U)
  BY <1>1, <1>2
<1> HIDE DEF U
<1>4. /\ s \o t \in Seq(U)
      /\ Len(s \o t) = Len(s) + Len(t)
      /\ \A i \in 1..(Len(s) + Len(t)) :
              (s \o t)[i] = IF i <= Len(s) THEN s[i] ELSE t[i - Len(s)]
  BY <1>3, ConcatProperties
<1> QED
  BY <1>4 DEF IsSeq

-----------------------------------------------------------------------------
\* Sets of numbers.

LEMMA LeastNat ==
  ASSUME NEW T, T \subseteq Nat, T # {}
  PROVE  \E x \in T : \A y \in T : x <= y
<1> DEFINE R == OpToRel(<, Nat)
<1>1. IsWellFoundedOn(R, Nat) /\ \A x, y \in Nat : y < x => <<y, x>> \in R
  BY NatLessThanWellFounded DEF OpToRel
<1> HIDE DEF R
<1>2. PICK x \in T : \A y \in T : ~(<<y, x>> \in R)
  BY <1>1, WFMin
<1>3. \A y \in T : x \in Nat /\ y \in Nat
  OBVIOUS
<1>4. \A y \in T : ~(y < x)
  BY <1>1, <1>2, <1>3
<1>5. \A y \in T : x <= y
  BY <1>3, <1>4
<1> QED
  BY <1>5

\* What is closed downwards in an interval is an interval that begins there.
LEMMA DownwardClosed ==
  ASSUME NEW a \in Nat, NEW b \in Nat, NEW s, s \subseteq (a + 1)..b,
         \A i \in s : \A j \in (a + 1)..b : j <= i => j \in s
  PROVE  \E k \in Nat : s = (a + 1)..(a + k) /\ (a + k <= b \/ k = 0)
<1> DEFINE out == {n \in Nat : n > a /\ n \notin s}
<1>1. b + a + 1 \in out
  OBVIOUS
<1>2. out \subseteq Nat /\ out # {}
  BY <1>1
<1>3. PICK x \in out : \A y \in out : x <= y
  BY <1>2, LeastNat
<1>4. x \in Nat /\ x > a /\ x \notin s
  OBVIOUS
<1>5. PICK k \in Nat : x = a + k + 1
  <2>1. x - a - 1 \in Nat /\ x = a + (x - a - 1) + 1
    BY <1>4
  <2> QED
    BY <2>1
<1>6. ASSUME NEW j \in Int, a < j, j < x PROVE j \in s
  <2>1. j \in Nat
    BY <1>4, <1>6
  <2> QED
    BY <2>1, <1>3, <1>4, <1>6
<1>7. ASSUME NEW j \in s PROVE a < j /\ j < x
  <2>1. j \in (a + 1)..b
    OBVIOUS
  <2>2. CASE j >= x
    <3>1. x \in (a + 1)..b /\ x <= j
      BY <2>1, <2>2, <1>4
    <3> QED
      BY <3>1, <1>4
  <2> QED
    BY <2>1, <2>2, <1>4
<1>8. s = (a + 1)..(a + k)
  <2>1. ASSUME NEW j, j \in (a + 1)..(a + k) PROVE j \in s
    BY <2>1, <1>5, <1>6
  <2>2. ASSUME NEW j, j \in s PROVE j \in (a + 1)..(a + k)
    <3>1. j \in (a + 1)..b /\ a < j /\ j < x
      BY <2>2, <1>7
    <3> QED
      BY <3>1, <1>5
  <2> QED
    BY <2>1, <2>2
<1>9. k # 0 => a + k <= b
  <2>1. k # 0 => a + k \in s
    BY <1>8
  <2> QED
    BY <2>1
<1> QED
  BY <1>8, <1>9

\* A sequence that ascends through an interval goes through it one by one.
LEMMA AscendsByOne ==
  ASSUME NEW a \in Nat, NEW k \in Nat, NEW f \in [1..k -> (a + 1)..(a + k)],
         \A i, j \in 1..k : i < j => f[i] < f[j]
  PROVE  \A i \in 1..k : f[i] = a + i
<1>1. \A i \in 1..k : f[i] \in Nat /\ a + 1 <= f[i] /\ f[i] <= a + k
  BY SMT
<1>2. ASSUME NEW i \in 1..k, f[i] < a + i PROVE FALSE
  <2> DEFINE bad == {n \in 1..k : f[n] < a + n}
  <2>1. i \in bad /\ bad \subseteq Nat
    BY <1>2
  <2> HIDE DEF bad
  <2>2. PICK x \in bad : \A y \in bad : x <= y
    BY <2>1, LeastNat
  <2>3. x \in 1..k /\ f[x] < a + x
    BY DEF bad
  <2>4. x # 1
    BY <2>3, <1>1
  <2>5. x - 1 \in 1..k /\ x - 1 < x
    BY <2>3, <2>4
  <2>6. ~(f[x - 1] < a + (x - 1))
    BY <2>2, <2>3, <2>5 DEF bad
  <2>7. f[x - 1] < f[x]
    BY <2>3, <2>5
  <2> QED
    BY <1>1, <2>3, <2>5, <2>6, <2>7
<1>3. ASSUME NEW i \in 1..k, f[i] > a + i PROVE FALSE
  <2> DEFINE bad == {n \in Nat : n < k /\ f[k - n] > a + (k - n)}
  <2>1. k - i \in Nat /\ k - i < k /\ k - (k - i) = i
    OBVIOUS
  <2>2. k - i \in bad /\ bad \subseteq Nat
    BY <2>1, <1>3
  <2> HIDE DEF bad
  <2>3. PICK x \in bad : \A y \in bad : x <= y
    BY <2>2, LeastNat
  <2>4. x \in Nat /\ x < k /\ f[k - x] > a + (k - x)
    BY DEF bad
  <2>5. x # 0
    BY <2>4, <1>1
  <2>6. x - 1 \in Nat /\ x - 1 < k /\ k - x \in 1..k /\ k - (x - 1) \in 1..k
        /\ k - x < k - (x - 1)
    BY <2>4, <2>5
  <2>7. x - 1 \notin bad
    BY <2>3, <2>4
  <2>8. ~(f[k - (x - 1)] > a + (k - (x - 1)))
    BY <2>6, <2>7 DEF bad
  <2>9. f[k - x] < f[k - (x - 1)]
    BY <2>6
  <2>10. PICK p, q : p = f[k - x] /\ q = f[k - (x - 1)]
    OBVIOUS
  <2>11. /\ p \in Nat /\ q \in Nat /\ p < q
         /\ p > a + (k - x) /\ ~(q > a + (k - (x - 1)))
    BY <1>1, <2>4, <2>6, <2>8, <2>9, <2>10
  <2> QED
    BY <2>4, <2>11
<1>4. ASSUME NEW i \in 1..k PROVE f[i] = a + i
  BY <1>1, <1>2, <1>3
<1> QED
  BY <1>4

LEMMA AscendingInterval ==
  ASSUME NEW a \in Nat, NEW k \in Nat
  PROVE  /\ Cardinality((a + 1)..(a + k)) = k
         /\ \A i \in 1..k : Ascending((a + 1)..(a + k))[i] = a + i
<1> DEFINE s == (a + 1)..(a + k)
           g == [i \in 1..k |-> a + i]
<1>1. Cardinality(s) = k
  <2>1. Cardinality(s) = IF a + 1 > a + k THEN 0 ELSE (a + k) - (a + 1) + 1
    BY FS_Interval
  <2> QED
    BY <2>1
<1>2. g \in [1..k -> s] /\ \A i, j \in 1..k : i < j => g[i] < g[j]
  OBVIOUS
<1>3. \E f \in [1..Cardinality(s) -> s] : \A i, j \in 1..Cardinality(s) : i < j => f[i] < f[j]
  BY <1>1, <1>2
<1>4. /\ Ascending(s) \in [1..k -> s]
      /\ \A i, j \in 1..k : i < j => Ascending(s)[i] < Ascending(s)[j]
  BY <1>1, <1>3 DEF Ascending
<1>5. \A i \in 1..k : Ascending(s)[i] = a + i
  BY <1>4, AscendsByOne
<1> QED
  BY <1>1, <1>5

-----------------------------------------------------------------------------
\* Sums over finite sets.

\* A set of numbers that has 0 and what follows each of its numbers.
LEMMA AllNumbers ==
  ASSUME NEW Q, Q \subseteq Nat, 0 \in Q, \A n \in Q : n + 1 \in Q
  PROVE  Q = Nat
<1> SUFFICES ASSUME Nat \ Q # {} PROVE FALSE
  OBVIOUS
<1>1. PICK x \in Nat \ Q : \A y \in Nat \ Q : x <= y
  BY LeastNat
<1>2. x - 1 \in Nat /\ ~(x <= x - 1)
  BY <1>1
<1>3. x - 1 \in Q /\ (x - 1) + 1 = x
  BY <1>1, <1>2
<1> QED
  BY <1>1, <1>3

\* A set of subsets that has the empty one and, with each, those with one more element.
LEMMA AllSubsets ==
  ASSUME NEW S, IsFiniteSet(S), NEW P, P \subseteq SUBSET S, {} \in P,
         \A T \in P : \A x \in S \ T : T \cup {x} \in P
  PROVE  S \in P
<1> DEFINE Q == {n \in Nat : \A T \in SUBSET S : Cardinality(T) = n => T \in P}
<1>1. ASSUME NEW T \in SUBSET S
      PROVE  IsFiniteSet(T) /\ Cardinality(T) \in Nat /\ (Cardinality(T) = 0 <=> T = {})
  <2>1. IsFiniteSet(T)
    BY FS_Subset
  <2> QED
    BY <2>1, FS_CardinalityType, FS_EmptySet
<1>2. 0 \in Q
  BY <1>1
<1>3. ASSUME NEW n \in Q PROVE n + 1 \in Q
  <2> SUFFICES ASSUME NEW T \in SUBSET S, Cardinality(T) = n + 1 PROVE T \in P
    OBVIOUS
  <2>1. PICK x : x \in T
    BY <1>1
  <2>2. Cardinality(T \ {x}) = n
    <3>1. Cardinality(T \ {x}) = Cardinality(T) - 1
      BY <1>1, <2>1, FS_RemoveElement
    <3> QED
      BY <3>1
  <2>3. T \ {x} \in P
    BY <2>2
  <2>4. T = (T \ {x}) \cup {x} /\ x \in S \ (T \ {x})
    BY <2>1
  <2> QED
    BY <2>3, <2>4
<1>4. Q = Nat
  <2> HIDE DEF Q
  <2>1. Q \subseteq Nat
    BY DEF Q
  <2> QED
    BY <1>2, <1>3, <2>1, AllNumbers
<1> QED
  BY <1>1, <1>4

Any(s) == CHOOSE x \in s : TRUE

\* The function that SumFunctionOnSet is defined by.
Iterates(g, f, S) ==
  g = [s \in SUBSET S |-> IF s = {} THEN 0 ELSE f[Any(s)] + g[s \ {Any(s)}]]

LEMMA AnyIsIn == \A s : s # {} => Any(s) \in s
  BY DEF Any

LEMMA SumIterates ==
  ASSUME NEW f, NEW S, \E g : Iterates(g, f, S)
  PROVE  \E g : Iterates(g, f, S) /\ SumFunctionOnSet(f, S) = g[S]
<1>1. SumFunctionOnSet(f, S) = (CHOOSE g : Iterates(g, f, S))[S]
  BY DEF SumFunctionOnSet, FoldFunctionOnSet, MapThenFoldSet, Iterates, Any
<1>2. Iterates(CHOOSE g : Iterates(g, f, S), f, S)
  OBVIOUS
<1> QED
  BY <1>1, <1>2

\* The parts of S with at most n elements.
UpTo(S, n) == {s \in SUBSET S : Cardinality(s) <= n}

LEMMA IterationExists ==
  ASSUME NEW f, NEW S, IsFiniteSet(S)
  PROVE  \E g : Iterates(g, f, S)
<1> DEFINE Q == {n \in Nat : \E g : g =
             [s \in UpTo(S, n) |-> IF s = {} THEN 0 ELSE f[Any(s)] + g[s \ {Any(s)}]]}
<1> HIDE DEF Q
<1>1. ASSUME NEW s \in SUBSET S
      PROVE  /\ IsFiniteSet(s) /\ Cardinality(s) \in Nat /\ (Cardinality(s) = 0 <=> s = {})
             /\ s # {} => /\ s \ {Any(s)} \in SUBSET S
                          /\ Cardinality(s \ {Any(s)}) = Cardinality(s) - 1
  <2>1. IsFiniteSet(s)
    BY FS_Subset
  <2>2. Cardinality(s) \in Nat /\ (Cardinality(s) = 0 <=> s = {})
    BY <2>1, FS_CardinalityType, FS_EmptySet
  <2>3. s # {} => Cardinality(s \ {Any(s)}) = Cardinality(s) - 1
    BY <2>1, AnyIsIn, FS_RemoveElement
  <2> QED
    BY <2>1, <2>2, <2>3
<1>2. 0 \in Q
  <2>1. ASSUME NEW s \in UpTo(S, 0) PROVE s = {}
    <3>1. s \in SUBSET S /\ Cardinality(s) <= 0
      BY DEF UpTo
    <3>2. Cardinality(s) \in Nat /\ (Cardinality(s) = 0 <=> s = {})
      BY <1>1, <3>1
    <3> QED
      BY <3>1, <3>2
  <2> DEFINE g == [s \in UpTo(S, 0) |-> 0]
  <2>2. g = [s \in UpTo(S, 0) |-> IF s = {} THEN 0 ELSE f[Any(s)] + g[s \ {Any(s)}]]
    BY <2>1
  <2> QED
    BY <2>2 DEF Q
<1>3. ASSUME NEW n \in Nat, n \in Q PROVE n + 1 \in Q
  <2>1. PICK g : g = [s \in UpTo(S, n) |-> IF s = {} THEN 0 ELSE f[Any(s)] + g[s \ {Any(s)}]]
    BY <1>3 DEF Q
  <2> DEFINE h == [s \in UpTo(S, n + 1) |-> IF s = {} THEN 0 ELSE f[Any(s)] + g[s \ {Any(s)}]]
  <2>2. ASSUME NEW s \in UpTo(S, n) PROVE s \in UpTo(S, n + 1) /\ h[s] = g[s]
    <3>1. s \in UpTo(S, n + 1)
      <4>1. s \in SUBSET S /\ Cardinality(s) <= n
        BY DEF UpTo
      <4>2. Cardinality(s) \in Nat
        BY <1>1, <4>1
      <4>3. Cardinality(s) <= n + 1
        BY <4>1, <4>2
      <4> QED
        BY <4>1, <4>3 DEF UpTo
    <3>2. g[s] = IF s = {} THEN 0 ELSE f[Any(s)] + g[s \ {Any(s)}]
      BY <2>1
    <3> QED
      BY <3>1, <3>2
  <2>3. ASSUME NEW s \in UpTo(S, n + 1), s # {} PROVE s \ {Any(s)} \in UpTo(S, n)
    BY <1>1, <2>3 DEF UpTo
  <2>4. ASSUME NEW s \in UpTo(S, n + 1)
        PROVE  h[s] = IF s = {} THEN 0 ELSE f[Any(s)] + h[s \ {Any(s)}]
    BY <2>2, <2>3
  <2>5. h = [s \in UpTo(S, n + 1) |-> IF s = {} THEN 0 ELSE f[Any(s)] + h[s \ {Any(s)}]]
    <3>1. h = [s \in UpTo(S, n + 1) |-> h[s]]
      OBVIOUS
    <3> HIDE DEF h
    <3> QED
      BY <2>4, <3>1
  <2> HIDE DEF h
  <2> QED
    BY <2>5 DEF Q
<1>4. Q = Nat
  <2>1. Q \subseteq Nat
    BY DEF Q
  <2> QED
    BY <1>2, <1>3, <2>1, AllNumbers
<1>5. Cardinality(S) \in Nat
  BY <1>1
<1>6. UpTo(S, Cardinality(S)) = SUBSET S
  BY FS_Subset DEF UpTo
<1>7. Cardinality(S) \in Q
  BY <1>4, <1>5
<1>8. PICK g : g = [s \in UpTo(S, Cardinality(S)) |->
                      IF s = {} THEN 0 ELSE f[Any(s)] + g[s \ {Any(s)}]]
  BY <1>7 DEF Q
<1> QED
  BY <1>6, <1>8 DEF Iterates

\* It does not matter of which larger set a set is a part.
LEMMA IterationsAgree ==
  ASSUME NEW f, NEW S, IsFiniteSet(S), NEW T, T \subseteq S,
         NEW g, Iterates(g, f, S), NEW h, Iterates(h, f, T)
  PROVE  g[T] = h[T]
<1> DEFINE Q == {n \in Nat : \A s \in SUBSET T : Cardinality(s) = n => g[s] = h[s]}
<1>1. ASSUME NEW s \in SUBSET T
      PROVE  /\ Cardinality(s) \in Nat /\ (Cardinality(s) = 0 <=> s = {})
             /\ s # {} => /\ s \ {Any(s)} \in SUBSET T
                          /\ Cardinality(s \ {Any(s)}) = Cardinality(s) - 1
             /\ g[s] = IF s = {} THEN 0 ELSE f[Any(s)] + g[s \ {Any(s)}]
             /\ h[s] = IF s = {} THEN 0 ELSE f[Any(s)] + h[s \ {Any(s)}]
  <2>1. IsFiniteSet(s)
    BY FS_Subset
  <2>2. Cardinality(s) \in Nat /\ (Cardinality(s) = 0 <=> s = {})
    BY <2>1, FS_CardinalityType, FS_EmptySet
  <2>3. s # {} => Cardinality(s \ {Any(s)}) = Cardinality(s) - 1
    BY <2>1, AnyIsIn, FS_RemoveElement
  <2>4. s \in SUBSET S
    OBVIOUS
  <2>5. g[s] = IF s = {} THEN 0 ELSE f[Any(s)] + g[s \ {Any(s)}]
    BY <2>4 DEF Iterates
  <2>6. h[s] = IF s = {} THEN 0 ELSE f[Any(s)] + h[s \ {Any(s)}]
    BY DEF Iterates
  <2> QED
    BY <2>2, <2>3, <2>5, <2>6
<1>2. 0 \in Q
  BY <1>1
<1>3. ASSUME NEW n \in Q PROVE n + 1 \in Q
  <2> SUFFICES ASSUME NEW s \in SUBSET T, Cardinality(s) = n + 1 PROVE g[s] = h[s]
    OBVIOUS
  <2>1. s # {} /\ s \ {Any(s)} \in SUBSET T /\ Cardinality(s \ {Any(s)}) = n
    BY <1>1
  <2>2. g[s \ {Any(s)}] = h[s \ {Any(s)}]
    BY <2>1
  <2> QED
    BY <1>1, <2>1, <2>2
<1>4. Q = Nat
  <2>1. Q \subseteq Nat
    OBVIOUS
  <2> HIDE DEF Q
  <2> QED
    BY <1>2, <1>3, <2>1, AllNumbers
<1> QED
  BY <1>1, <1>4

LEMMA SumStep ==
  ASSUME NEW f, NEW S, IsFiniteSet(S)
  PROVE  SumFunctionOnSet(f, S) =
           IF S = {} THEN 0 ELSE f[Any(S)] + SumFunctionOnSet(f, S \ {Any(S)})
<1>1. PICK g : Iterates(g, f, S) /\ SumFunctionOnSet(f, S) = g[S]
  BY IterationExists, SumIterates
<1>2. g[S] = IF S = {} THEN 0 ELSE f[Any(S)] + g[S \ {Any(S)}]
  BY <1>1 DEF Iterates
<1>3. ASSUME S # {} PROVE SumFunctionOnSet(f, S \ {Any(S)}) = g[S \ {Any(S)}]
  <2> DEFINE T == S \ {Any(S)}
  <2>1. T \subseteq S /\ IsFiniteSet(T)
    BY FS_Subset
  <2> HIDE DEF T
  <2>2. PICK h : Iterates(h, f, T) /\ SumFunctionOnSet(f, T) = h[T]
    BY <2>1, IterationExists, SumIterates
  <2>3. g[T] = h[T]
    BY <1>1, <2>1, <2>2, IterationsAgree
  <2> QED
    BY <2>2, <2>3 DEF T
<1> QED
  BY <1>1, <1>2, <1>3

LEMMA SumType ==
  ASSUME NEW f, NEW S, IsFiniteSet(S), \A x \in S : f[x] \in Int
  PROVE  SumFunctionOnSet(f, S) \in Int
<1> DEFINE Q == {n \in Nat : \A T \in SUBSET S :
                   Cardinality(T) = n => SumFunctionOnSet(f, T) \in Int}
<1>1. ASSUME NEW T \in SUBSET S
      PROVE  /\ IsFiniteSet(T) /\ Cardinality(T) \in Nat /\ (Cardinality(T) = 0 <=> T = {})
             /\ T # {} => /\ Any(T) \in T
                          /\ Cardinality(T \ {Any(T)}) = Cardinality(T) - 1
  <2>1. IsFiniteSet(T)
    BY FS_Subset
  <2> QED
    BY <2>1, FS_CardinalityType, FS_EmptySet, AnyIsIn, FS_RemoveElement
<1>2. 0 \in Q
  <2>1. SumFunctionOnSet(f, {}) = 0
    BY SumStep, FS_EmptySet
  <2>2. \A T \in SUBSET S : Cardinality(T) = 0 => T = {}
    BY <1>1
  <2> QED
    BY <2>1, <2>2
<1>3. ASSUME NEW n \in Q PROVE n + 1 \in Q
  <2> SUFFICES ASSUME NEW T \in SUBSET S, Cardinality(T) = n + 1
               PROVE  SumFunctionOnSet(f, T) \in Int
    OBVIOUS
  <2>1. T # {} /\ Cardinality(T \ {Any(T)}) = n /\ Any(T) \in S
    BY <1>1
  <2>2. SumFunctionOnSet(f, T \ {Any(T)}) \in Int
    BY <2>1
  <2>3. SumFunctionOnSet(f, T) = f[Any(T)] + SumFunctionOnSet(f, T \ {Any(T)})
    BY <1>1, <2>1, SumStep
  <2> QED
    BY <2>1, <2>2, <2>3
<1>4. Q = Nat
  <2>1. Q \subseteq Nat
    OBVIOUS
  <2> HIDE DEF Q
  <2> QED
    BY <1>2, <1>3, <2>1, AllNumbers
<1> QED
  BY <1>1, <1>4

\* Any element can be the first.
LEMMA SumWithout ==
  ASSUME NEW f, NEW S, IsFiniteSet(S), \A x \in S : f[x] \in Int, NEW x \in S
  PROVE  SumFunctionOnSet(f, S) = f[x] + SumFunctionOnSet(f, S \ {x})
<1> DEFINE Q == {n \in Nat : \A T \in SUBSET S : Cardinality(T) = n =>
                   \A y \in T : SumFunctionOnSet(f, T) = f[y] + SumFunctionOnSet(f, T \ {y})}
<1>1. ASSUME NEW T \in SUBSET S
      PROVE  /\ IsFiniteSet(T) /\ Cardinality(T) \in Nat /\ (Cardinality(T) = 0 <=> T = {})
             /\ \A y \in T : Cardinality(T \ {y}) = Cardinality(T) - 1
             /\ SumFunctionOnSet(f, T) \in Int
  <2>1. IsFiniteSet(T)
    BY FS_Subset
  <2>2. \A y \in T : Cardinality(T \ {y}) = Cardinality(T) - 1
    BY <2>1, FS_RemoveElement
  <2>3. SumFunctionOnSet(f, T) \in Int
    BY <2>1, SumType
  <2> QED
    BY <2>1, <2>2, <2>3, FS_CardinalityType, FS_EmptySet
<1>2. 0 \in Q
  BY <1>1
<1>3. ASSUME NEW n \in Q PROVE n + 1 \in Q
  <2> SUFFICES ASSUME NEW T \in SUBSET S, Cardinality(T) = n + 1, NEW y \in T
               PROVE  SumFunctionOnSet(f, T) = f[y] + SumFunctionOnSet(f, T \ {y})
    OBVIOUS
  <2>1. PICK c : c = Any(T)
    OBVIOUS
  <2>2. c \in T /\ SumFunctionOnSet(f, T) = f[c] + SumFunctionOnSet(f, T \ {c})
    BY <1>1, <2>1, SumStep, AnyIsIn
  <2>3. CASE y = c
    BY <2>2, <2>3
  <2>4. CASE y # c
    <3>0. Cardinality(T \ {c}) = n /\ Cardinality(T \ {y}) = n
      <4>1. \A z \in T : Cardinality(T \ {z}) = Cardinality(T) - 1
        BY <1>1
      <4>2. (n + 1) - 1 = n
        OBVIOUS
      <4> QED
        BY <2>2, <4>1, <4>2
    <3>1. SumFunctionOnSet(f, T \ {c}) = f[y] + SumFunctionOnSet(f, (T \ {c}) \ {y})
      BY <2>2, <2>4, <3>0
    <3>2. SumFunctionOnSet(f, T \ {y}) = f[c] + SumFunctionOnSet(f, (T \ {y}) \ {c})
      BY <2>2, <2>4, <3>0
    <3>3. (T \ {c}) \ {y} = (T \ {y}) \ {c}
      OBVIOUS
    <3>4. PICK rest, a, b :
            rest = SumFunctionOnSet(f, (T \ {c}) \ {y}) /\ a = f[c] /\ b = f[y]
      OBVIOUS
    <3>5. rest \in Int /\ a \in Int /\ b \in Int
      BY <1>1, <2>2, <3>4
    <3>6. SumFunctionOnSet(f, T) = a + (b + rest) /\ SumFunctionOnSet(f, T \ {y}) = a + rest
      BY <2>2, <3>1, <3>2, <3>3, <3>4
    <3>7. a + (b + rest) = b + (a + rest)
      BY <3>5
    <3> QED
      BY <3>4, <3>6, <3>7
  <2> QED
    BY <2>3, <2>4
<1>4. Q = Nat
  <2>1. Q \subseteq Nat
    OBVIOUS
  <2> HIDE DEF Q
  <2> QED
    BY <1>2, <1>3, <2>1, AllNumbers
<1> QED
  BY <1>1, <1>4

\* What the other lemmas need: the sum of nothing, and of one element more.
LEMMA SumRules ==
  ASSUME NEW f, NEW S, IsFiniteSet(S), \A x \in S : f[x] \in Int
  PROVE  /\ SumFunctionOnSet(f, {}) = 0
         /\ \A T \in SUBSET S :
              /\ SumFunctionOnSet(f, T) \in Int
              /\ \A x \in S \ T :
                   SumFunctionOnSet(f, T \cup {x}) = f[x] + SumFunctionOnSet(f, T)
<1>1. SumFunctionOnSet(f, {}) = 0
  BY SumStep, FS_EmptySet
<1>2. ASSUME NEW T \in SUBSET S PROVE SumFunctionOnSet(f, T) \in Int
  BY FS_Subset, SumType
<1>3. ASSUME NEW T \in SUBSET S, NEW x \in S \ T
      PROVE  SumFunctionOnSet(f, T \cup {x}) = f[x] + SumFunctionOnSet(f, T)
  <2>1. IsFiniteSet(T \cup {x}) /\ (\A y \in T \cup {x} : f[y] \in Int) /\ x \in T \cup {x}
    BY FS_Subset, FS_AddElement
  <2>2. (T \cup {x}) \ {x} = T
    OBVIOUS
  <2> QED
    BY <2>1, <2>2, SumWithout
<1> QED
  BY <1>1, <1>2, <1>3

LEMMA SumAdds ==
  ASSUME NEW f, NEW g, NEW h, NEW S, IsFiniteSet(S),
         \A x \in S : f[x] \in Int /\ g[x] \in Int /\ h[x] = f[x] + g[x]
  PROVE  SumFunctionOnSet(h, S) = SumFunctionOnSet(f, S) + SumFunctionOnSet(g, S)
<1> DEFINE P == {T \in SUBSET S :
       SumFunctionOnSet(h, T) = SumFunctionOnSet(f, T) + SumFunctionOnSet(g, T)}
<1>1. \A x \in S : h[x] \in Int
  OBVIOUS
<1>2. {} \in P
  BY <1>1, SumRules
<1>3. ASSUME NEW T \in P, NEW x \in S \ T PROVE T \cup {x} \in P
  <2>1. /\ SumFunctionOnSet(f, T) \in Int /\ SumFunctionOnSet(g, T) \in Int
        /\ SumFunctionOnSet(f, T \cup {x}) = f[x] + SumFunctionOnSet(f, T)
        /\ SumFunctionOnSet(g, T \cup {x}) = g[x] + SumFunctionOnSet(g, T)
        /\ SumFunctionOnSet(h, T \cup {x}) = h[x] + SumFunctionOnSet(h, T)
    BY <1>1, SumRules
  <2> QED
    BY <2>1
<1>4. S \in P
  <2>1. P \subseteq SUBSET S
    OBVIOUS
  <2> HIDE DEF P
  <2> QED
    BY <1>2, <1>3, <2>1, AllSubsets
<1> QED
  BY <1>4

LEMMA Distributes ==
  ASSUME NEW k \in Int, NEW a \in Int, NEW b \in Int
  PROVE  k * (a + b) = k * a + k * b /\ k * a \in Int /\ k * 0 = 0
OBVIOUS

LEMMA SumScales ==
  ASSUME NEW f, NEW h, NEW k \in Int, NEW S, IsFiniteSet(S),
         \A x \in S : f[x] \in Int /\ h[x] = k * f[x]
  PROVE  SumFunctionOnSet(h, S) = k * SumFunctionOnSet(f, S)
<1> DEFINE P == {T \in SUBSET S : SumFunctionOnSet(h, T) = k * SumFunctionOnSet(f, T)}
<1>1. \A x \in S : h[x] \in Int
  BY Distributes
<1>2. {} \in P
  BY <1>1, SumRules, Distributes
<1>3. ASSUME NEW T \in P, NEW x \in S \ T PROVE T \cup {x} \in P
  <2>1. /\ SumFunctionOnSet(f, T) \in Int
        /\ SumFunctionOnSet(f, T \cup {x}) = f[x] + SumFunctionOnSet(f, T)
        /\ SumFunctionOnSet(h, T \cup {x}) = h[x] + SumFunctionOnSet(h, T)
    BY <1>1, SumRules
  <2>2. k * (f[x] + SumFunctionOnSet(f, T)) = k * f[x] + k * SumFunctionOnSet(f, T)
    BY <2>1, Distributes
  <2> QED
    BY <2>1, <2>2
<1>4. S \in P
  <2>1. P \subseteq SUBSET S
    OBVIOUS
  <2> HIDE DEF P
  <2> QED
    BY <1>2, <1>3, <2>1, AllSubsets
<1> QED
  BY <1>4

LEMMA SumSame ==
  ASSUME NEW f, NEW g, NEW S, IsFiniteSet(S), \A x \in S : f[x] \in Int /\ g[x] = f[x]
  PROVE  SumFunctionOnSet(g, S) = SumFunctionOnSet(f, S)
<1> DEFINE P == {T \in SUBSET S : SumFunctionOnSet(g, T) = SumFunctionOnSet(f, T)}
<1>1. \A x \in S : g[x] \in Int
  OBVIOUS
<1>2. {} \in P
  BY <1>1, SumRules
<1>3. ASSUME NEW T \in P, NEW x \in S \ T PROVE T \cup {x} \in P
  <2>1. /\ SumFunctionOnSet(f, T \cup {x}) = f[x] + SumFunctionOnSet(f, T)
        /\ SumFunctionOnSet(g, T \cup {x}) = g[x] + SumFunctionOnSet(g, T)
    BY <1>1, SumRules
  <2> QED
    BY <2>1
<1>4. S \in P
  <2>1. P \subseteq SUBSET S
    OBVIOUS
  <2> HIDE DEF P
  <2> QED
    BY <1>2, <1>3, <2>1, AllSubsets
<1> QED
  BY <1>4

LEMMA SumOfNothing ==
  ASSUME NEW f, NEW S, IsFiniteSet(S), \A x \in S : f[x] = 0
  PROVE  SumFunctionOnSet(f, S) = 0
<1> DEFINE P == {T \in SUBSET S : SumFunctionOnSet(f, T) = 0}
<1>1. \A x \in S : f[x] \in Int
  OBVIOUS
<1>2. {} \in P
  BY <1>1, SumRules
<1>3. ASSUME NEW T \in P, NEW x \in S \ T PROVE T \cup {x} \in P
  <2>1. SumFunctionOnSet(f, T \cup {x}) = f[x] + SumFunctionOnSet(f, T)
    BY <1>1, SumRules
  <2> QED
    BY <2>1
<1>4. S \in P
  <2>1. P \subseteq SUBSET S
    OBVIOUS
  <2> HIDE DEF P
  <2> QED
    BY <1>2, <1>3, <2>1, AllSubsets
<1> QED
  BY <1>4

LEMMA SumJoins ==
  ASSUME NEW f, NEW S, NEW U, IsFiniteSet(S), IsFiniteSet(U), S \cap U = {},
         \A x \in S \cup U : f[x] \in Int
  PROVE  SumFunctionOnSet(f, S \cup U) = SumFunctionOnSet(f, S) + SumFunctionOnSet(f, U)
<1> DEFINE P == {T \in SUBSET U :
       SumFunctionOnSet(f, S \cup T) = SumFunctionOnSet(f, S) + SumFunctionOnSet(f, T)}
<1>0. IsFiniteSet(S \cup U)
  BY FS_Union
<1>1. /\ SumFunctionOnSet(f, {}) = 0
      /\ \A T \in SUBSET (S \cup U) :
           /\ SumFunctionOnSet(f, T) \in Int
           /\ \A x \in (S \cup U) \ T :
                SumFunctionOnSet(f, T \cup {x}) = f[x] + SumFunctionOnSet(f, T)
  BY <1>0, SumRules
<1>2. {} \in P
  <2>1. S \cup {} = S /\ S \in SUBSET (S \cup U)
    OBVIOUS
  <2> QED
    BY <1>1, <2>1
<1>3. ASSUME NEW T \in P, NEW x \in U \ T PROVE T \cup {x} \in P
  <2>1. /\ S \cup T \in SUBSET (S \cup U) /\ T \in SUBSET (S \cup U) /\ S \in SUBSET (S \cup U)
        /\ x \in (S \cup U) \ T /\ x \in (S \cup U) \ (S \cup T)
        /\ S \cup (T \cup {x}) = (S \cup T) \cup {x}
    OBVIOUS
  <2>2. /\ SumFunctionOnSet(f, T \cup {x}) = f[x] + SumFunctionOnSet(f, T)
        /\ SumFunctionOnSet(f, (S \cup T) \cup {x}) = f[x] + SumFunctionOnSet(f, S \cup T)
        /\ SumFunctionOnSet(f, T) \in Int /\ SumFunctionOnSet(f, S) \in Int /\ f[x] \in Int
    BY <1>1, <2>1
  <2>3. PICK s, t, x1 :
          s = SumFunctionOnSet(f, S) /\ t = SumFunctionOnSet(f, T) /\ x1 = f[x]
    OBVIOUS
  <2>4. x1 + (s + t) = s + (x1 + t)
    BY <2>2, <2>3
  <2>5. SumFunctionOnSet(f, S \cup T) = s + t
    BY <2>3
  <2>6. SumFunctionOnSet(f, S \cup (T \cup {x})) = s + SumFunctionOnSet(f, T \cup {x})
    BY <2>1, <2>2, <2>3, <2>4, <2>5
  <2> QED
    BY <2>3, <2>6
<1>4. U \in P
  <2>1. P \subseteq SUBSET U
    OBVIOUS
  <2> HIDE DEF P
  <2> QED
    BY <1>2, <1>3, <2>1, AllSubsets
<1> QED
  BY <1>4

\* One summand changes.
LEMMA SumChanges ==
  ASSUME NEW f, NEW g, NEW S, IsFiniteSet(S), NEW x \in S, NEW d \in Int,
         \A y \in S : f[y] \in Int, g[x] = f[x] + d, \A y \in S \ {x} : g[y] = f[y]
  PROVE  SumFunctionOnSet(g, S) = SumFunctionOnSet(f, S) + d
<1>1. SumFunctionOnSet(f, S) = f[x] + SumFunctionOnSet(f, S \ {x})
  BY SumWithout
<1>2. \A y \in S : g[y] \in Int
  OBVIOUS
<1>3. SumFunctionOnSet(g, S) = g[x] + SumFunctionOnSet(g, S \ {x})
  BY <1>2, SumWithout
<1>4. IsFiniteSet(S \ {x}) /\ \A y \in S \ {x} : f[y] \in Int /\ g[y] = f[y]
  BY FS_RemoveElement
<1>5. SumFunctionOnSet(g, S \ {x}) = SumFunctionOnSet(f, S \ {x})
  BY <1>4, SumSame
<1>6. SumFunctionOnSet(f, S \ {x}) \in Int
  BY <1>4, SumType
<1> QED
  BY <1>1, <1>3, <1>5, <1>6

-----------------------------------------------------------------------------
\* Either direction keeps its order.

\* What Kolme has processed of a chain's events, and what it has pending.
EventsInOrder(c) ==
  /\ IsSeq(events[c]) /\ IsSeq(processed[c])
  /\ Len(processed[c]) <= Len(events[c])
  /\ \A i \in 1..Len(processed[c]) : processed[c][i] = events[c][i]
  /\ nextEvent[c] \in (Len(processed[c]) + 1)..(Len(events[c]) + 1)
  /\ DOMAIN pendingEvents[c] = (Len(processed[c]) + 1)..(nextEvent[c] - 1)
  /\ \A i \in DOMAIN pendingEvents[c] : pendingEvents[c][i].event = events[c][i]

\* An action with its signatures.
IsAction(r) == r = [action |-> r.action, approvals |-> r.approvals, processor |-> r.processor]

ActionsInOrder(c) ==
  /\ IsSeq(actions[c]) /\ IsSeq(executed[c])
  /\ \A i \in 1..Len(actions[c]) : IsAction(actions[c][i])
  /\ Len(executed[c]) <= Len(actions[c])
  /\ \A i \in 1..Len(executed[c]) : executed[c][i] = actions[c][i].action

IsAttestation(t) ==
  /\ t = Attestation(t.key, t.chain, t.id, t.from)
  /\ t.chain \in Chain /\ t.id \in 1..Len(events[t.chain])

IsCall(m) ==
  /\ m = [chain |-> m.chain, id |-> m.id, action |-> m.action, approvals |-> m.approvals,
          processor |-> m.processor, from |-> m.from]
  /\ m.chain \in Chain /\ m.id \in 1..Len(actions[m.chain])
  /\ m.action = actions[m.chain][m.id].action

\* What approvers are about to approve is of the bridge's chains.
ForChains(f) ==
  /\ f = [k \in ApproverNode |-> f[k]]
  /\ \A k \in ApproverNode : \A t \in f[k] : t.chain \in Chain

OverChains ==
  /\ nextEvent = [c \in Chain |-> nextEvent[c]]
  /\ pendingEvents = [c \in Chain |-> pendingEvents[c]]
  /\ processed = [c \in Chain |-> processed[c]]
  /\ events = [c \in Chain |-> events[c]]
  /\ actions = [c \in Chain |-> actions[c]]
  /\ executed = [c \in Chain |-> executed[c]]
  /\ listening \in [ListenerNode -> [Chain -> Nat]]
  /\ ForChains(approving)

\* The inductive invariant: both directions in order, and what is under way is of
\* what happened and of what was emitted.
BridgeInv ==
  /\ OverChains
  /\ \A c \in Chain : EventsInOrder(c) /\ ActionsInOrder(c)
  /\ \A t \in attesting : IsAttestation(t)
  /\ \A m \in outbox : IsCall(m)

LEMMA ProcessesInOrder ==
  ASSUME NEW c \in Chain, NEW pend, NEW n \in Nat, Process(c, pend),
         OverChains, IsSeq(events[c]), IsSeq(processed[c]),
         Len(processed[c]) <= Len(events[c]),
         \A i \in 1..Len(processed[c]) : processed[c][i] = events[c][i],
         n \in (Len(processed[c]) + 1)..(Len(events[c]) + 1),
         DOMAIN pend = (Len(processed[c]) + 1)..(n - 1),
         \A i \in DOMAIN pend : pend[i].event = events[c][i]
  PROVE  /\ IsSeq(processed'[c])
         /\ Len(processed[c]) <= Len(processed'[c]) /\ Len(processed'[c]) <= n - 1
         /\ \A i \in 1..Len(processed'[c]) : processed'[c][i] = events[c][i]
         /\ DOMAIN pendingEvents'[c] = (Len(processed'[c]) + 1)..(n - 1)
         /\ \A i \in DOMAIN pendingEvents'[c] : pendingEvents'[c][i] = pend[i]
         /\ Len(processed'[c]) = Len(processed[c]) => processed'[c] = processed[c]
         /\ \A d \in Chain \ {c} :
              processed'[d] = processed[d] /\ pendingEvents'[d] = pendingEvents[d]
         /\ processed' = [d \in Chain |-> processed'[d]]
         /\ pendingEvents' = [d \in Chain |-> pendingEvents'[d]]
         /\ Ready(pend) = (Len(processed[c]) + 1)..Len(processed'[c])
<1>0. PICK a \in Nat : a = Len(processed[c])
  BY SeqLength
<1>1. PICK ready : ready = Ready(pend)
  OBVIOUS
<1>2. PICK fresh : fresh = [i \in 1..Cardinality(ready) |-> pend[Ascending(ready)[i]].event]
  OBVIOUS
<1>3. /\ processed' = [processed EXCEPT ![c] = processed[c] \o fresh]
      /\ pendingEvents' = [pendingEvents EXCEPT ![c] = Remaining(pend, ready)]
  BY <1>1, <1>2 DEF Process
<1>4. /\ processed'[c] = processed[c] \o fresh
      /\ pendingEvents'[c] = Remaining(pend, ready)
      /\ \A d \in Chain \ {c} :
           processed'[d] = processed[d] /\ pendingEvents'[d] = pendingEvents[d]
      /\ processed' = [d \in Chain |-> processed'[d]]
      /\ pendingEvents' = [d \in Chain |-> pendingEvents'[d]]
  BY <1>3 DEF OverChains
<1>5. ready \subseteq (a + 1)..(n - 1)
  BY <1>0, <1>1 DEF Ready
<1>6. \A i \in ready : \A j \in (a + 1)..(n - 1) : j <= i => j \in ready
  BY <1>0, <1>1 DEF Ready
<1>7. n - 1 \in Nat /\ a <= n - 1
  BY <1>0, SeqLength
<1>8. PICK k \in Nat : ready = (a + 1)..(a + k) /\ (a + k <= n - 1 \/ k = 0)
  BY <1>5, <1>6, <1>7, DownwardClosed
<1>9. a + k <= n - 1
  BY <1>7, <1>8
<1>10. Cardinality(ready) = k /\ \A i \in 1..k : Ascending(ready)[i] = a + i
  BY <1>8, AscendingInterval
<1>11. /\ \A i \in 1..k : fresh[i] = pend[a + i].event
       /\ fresh = [i \in 1..k |-> fresh[i]]
  BY <1>2, <1>10
<1>12. IsSeq(fresh) /\ Len(fresh) = k
  BY <1>11, FunctionIsSeq
<1>13. \A i \in 1..k : fresh[i] = events[c][a + i]
  <2>1. ASSUME NEW i \in 1..k PROVE fresh[i] = events[c][a + i]
    <3>1. a + i \in DOMAIN pend
      BY <1>0, <1>9
    <3> QED
      BY <3>1, <1>11
  <2> QED
    BY <2>1
<1>14. /\ IsSeq(processed'[c]) /\ Len(processed'[c]) = a + k
       /\ \A i \in 1..(a + k) : processed'[c][i] = IF i <= a THEN processed[c][i] ELSE fresh[i - a]
  <2>1. /\ IsSeq(processed[c] \o fresh)
        /\ Len(processed[c] \o fresh) = Len(processed[c]) + Len(fresh)
        /\ \A i \in 1..(Len(processed[c]) + Len(fresh)) : (processed[c] \o fresh)[i] =
             IF i <= Len(processed[c]) THEN processed[c][i] ELSE fresh[i - Len(processed[c])]
    BY <1>12, JoinSeq
  <2> QED
    BY <2>1, <1>0, <1>4, <1>12
<1>15. ASSUME NEW i \in 1..(a + k) PROVE processed'[c][i] = events[c][i]
  <2>1. CASE i <= a
    BY <1>0, <1>14, <2>1
  <2>2. CASE ~(i <= a)
    <3>1. i - a \in 1..k /\ a + (i - a) = i
      BY <2>2
    <3> QED
      BY <3>1, <2>2, <1>13, <1>14
  <2> QED
    BY <2>1, <2>2
<1>16. DOMAIN pendingEvents'[c] = (a + k + 1)..(n - 1)
       /\ \A i \in DOMAIN pendingEvents'[c] : pendingEvents'[c][i] = pend[i]
  <2>1. /\ DOMAIN pendingEvents'[c] = DOMAIN pend \ ready
        /\ \A i \in DOMAIN pendingEvents'[c] : pendingEvents'[c][i] = pend[i]
    BY <1>4 DEF Remaining
  <2>2. DOMAIN pend \ ready = (a + k + 1)..(n - 1)
    BY <1>0, <1>7, <1>8, <1>9
  <2> QED
    BY <2>1, <2>2
<1>17. k = 0 => processed'[c] = processed[c]
  BY <1>0, <1>14, SameSeq
<1>18. a <= a + k /\ a + k <= n - 1
  BY <1>0, <1>9
<1>19. Len(processed[c]) = a
  BY <1>0
<1>20. Len(processed'[c]) = Len(processed[c]) => processed'[c] = processed[c]
  BY <1>0, <1>9, <1>14, <1>17, <1>19
<1>21. /\ IsSeq(processed'[c])
       /\ Len(processed[c]) <= Len(processed'[c]) /\ Len(processed'[c]) <= n - 1
       /\ \A i \in 1..Len(processed'[c]) : processed'[c][i] = events[c][i]
  BY <1>14, <1>15, <1>18, <1>19
<1>22. /\ DOMAIN pendingEvents'[c] = (Len(processed'[c]) + 1)..(n - 1)
       /\ \A i \in DOMAIN pendingEvents'[c] : pendingEvents'[c][i] = pend[i]
  BY <1>14, <1>16
<1>23. Ready(pend) = (Len(processed[c]) + 1)..Len(processed'[c])
  BY <1>1, <1>8, <1>14, <1>19
<1> QED
  BY <1>4, <1>20, <1>21, <1>22, <1>23

\* The actions alone, which is what ActionLink has as sent.
Sent == [c \in Chain |-> [i \in DOMAIN actions[c] |-> actions[c][i].action]]

LEMMA SentIs ==
  ASSUME BridgeInv, NEW c \in Chain
  PROVE  /\ IsSeq(Sent[c]) /\ Len(Sent[c]) = Len(actions[c]) /\ Len(Sent[c]) \in Nat
         /\ \A i \in 1..Len(actions[c]) : Sent[c][i] = actions[c][i].action
<1>1. IsSeq(actions[c])
  BY DEF BridgeInv, ActionsInOrder
<1>2. Len(actions[c]) \in Nat /\ DOMAIN actions[c] = 1..Len(actions[c])
  BY <1>1, SeqLength
<1>3. Sent[c] = [i \in 1..Len(actions[c]) |-> actions[c][i].action]
  BY <1>2 DEF Sent
<1>4. Sent[c] = [i \in 1..Len(actions[c]) |-> Sent[c][i]]
  BY <1>3
<1> QED
  BY <1>2, <1>3, <1>4, FunctionIsSeq

LEMMA EventsIdle ==
  ASSUME events' = events, processed' = processed
  PROVE  EventLink!Next
BY DEF EventLink!Next, EventLink!Idle

LEMMA ActionsIdle ==
  ASSUME Sent' = Sent, executed' = executed
  PROVE  ActionLink!Next
BY DEF ActionLink!Next, ActionLink!Idle, Sent

\* Attestations and calls stay what they are when more happens.
LEMMA AttestationKept ==
  ASSUME NEW t, IsAttestation(t),
         \A c \in Chain : Len(events[c]) \in Nat /\ Len(events'[c]) \in Nat
                          /\ Len(events[c]) <= Len(events'[c])
  PROVE  IsAttestation(t)'
BY DEF IsAttestation

LEMMA CallKept ==
  ASSUME NEW m, IsCall(m),
         \A c \in Chain : Len(actions[c]) \in Nat /\ Len(actions'[c]) \in Nat
           /\ Len(actions[c]) <= Len(actions'[c])
           /\ \A i \in 1..Len(actions[c]) : actions'[c][i].action = actions[c][i].action
  PROVE  IsCall(m)'
BY DEF IsCall

\* Listeners, approvers and submitters at work.
LEMMA CarriersStep ==
  ASSUME BridgeInv,
         UNCHANGED <<nextEvent, pendingEvents, processed, actions, events, executed>>,
         listening' \in [ListenerNode -> [Chain -> Nat]],
         ForChains(approving'),
         \A t \in attesting' : IsAttestation(t),
         \A m \in outbox' : IsCall(m)
  PROVE  BridgeInv' /\ EventLink!Next /\ ActionLink!Next
<1>1. OverChains'
  BY DEF BridgeInv, OverChains
<1>2. \A c \in Chain : EventsInOrder(c)' /\ ActionsInOrder(c)'
  BY DEF BridgeInv, EventsInOrder, ActionsInOrder
<1>3. \A t \in attesting' : IsAttestation(t)'
  BY DEF IsAttestation
<1>4. \A m \in outbox' : IsCall(m)'
  BY DEF IsCall
<1>5. Sent' = Sent
  BY DEF Sent
<1> QED
  BY <1>1, <1>2, <1>3, <1>4, <1>5, EventsIdle, ActionsIdle DEF BridgeInv

\* A contract adds an event.
LEMMA EventAdded ==
  ASSUME BridgeInv, NEW d \in Chain, NEW e,
         events' = [events EXCEPT ![d] = Append(events[d], e)],
         UNCHANGED <<nextEvent, pendingEvents, processed>>
  PROVE  /\ events' = [c \in Chain |-> events'[c]]
         /\ \A c \in Chain : EventsInOrder(c)'
         /\ \A t \in attesting : IsAttestation(t)'
         /\ EventLink!Next
<1>1. /\ events = [c \in Chain |-> events[c]]
      /\ \A c \in Chain : EventsInOrder(c) /\ IsSeq(events[c]) /\ Len(events[c]) \in Nat
  BY SeqLength DEF BridgeInv, OverChains, EventsInOrder
<1>2. /\ events' = [c \in Chain |-> events'[c]]
      /\ events'[d] = Append(events[d], e)
      /\ \A c \in Chain \ {d} : events'[c] = events[c]
  BY <1>1
<1>3. /\ IsSeq(events'[d]) /\ Len(events'[d]) = Len(events[d]) + 1
      /\ \A i \in 1..Len(events[d]) : events'[d][i] = events[d][i]
  BY <1>1, <1>2, AppendToSeq
<1>4. ASSUME NEW c \in Chain \ {d} PROVE EventsInOrder(c)' /\ EventLink!Idle(c)
  <2>1. /\ EventsInOrder(c)
        /\ events'[c] = events[c] /\ processed'[c] = processed[c]
        /\ nextEvent'[c] = nextEvent[c] /\ pendingEvents'[c] = pendingEvents[c]
    BY <1>1, <1>2
  <2> QED
    BY <2>1 DEF EventsInOrder, EventLink!Idle
<1>5. EventsInOrder(d)'
  <2>1. Len(processed[d]) \in Nat
    BY <1>1, SeqLength DEF EventsInOrder
  <2>2. \A i \in DOMAIN pendingEvents[d] : i \in 1..Len(events[d])
    <3>1. /\ Len(events[d]) \in Nat
          /\ nextEvent[d] \in (Len(processed[d]) + 1)..(Len(events[d]) + 1)
          /\ DOMAIN pendingEvents[d] = (Len(processed[d]) + 1)..(nextEvent[d] - 1)
      BY <1>1 DEF EventsInOrder
    <3>2. PICK p, q, n :
            p = Len(processed[d]) /\ q = Len(events[d]) /\ n = nextEvent[d]
      OBVIOUS
    <3>3. p \in Nat /\ q \in Nat /\ n \in (p + 1)..(q + 1)
      BY <2>1, <3>1, <3>2
    <3>4. \A i \in (p + 1)..(n - 1) : i \in 1..q
      BY <3>3
    <3> QED
      BY <3>1, <3>2, <3>4
  <2>3. \A i \in 1..Len(processed[d]) : i \in 1..Len(events[d])
    BY <1>1, <2>1 DEF EventsInOrder
  <2>4. nextEvent[d] \in (Len(processed[d]) + 1)..(Len(events'[d]) + 1)
        /\ Len(processed[d]) <= Len(events'[d])
    BY <1>1, <1>3, <2>1 DEF EventsInOrder
  <2> QED
    BY <1>1, <1>3, <2>2, <2>3, <2>4 DEF EventsInOrder
<1>6. EventLink!Send(d)
  <2>1. SubSeq(events'[d], 1, Len(events[d])) = events[d]
    BY <1>1, <1>3, PrefixIs
  <2> QED
    BY <1>3, <2>1 DEF EventLink!Send
<1>7. EventLink!Next
  BY <1>4, <1>6 DEF EventLink!Next
<1>8. \A c \in Chain : Len(events[c]) \in Nat /\ Len(events'[c]) \in Nat
                       /\ Len(events[c]) <= Len(events'[c])
  BY <1>1, <1>2, <1>3
<1>9. \A t \in attesting : IsAttestation(t)'
  BY <1>8, AttestationKept DEF BridgeInv
<1> QED
  BY <1>2, <1>4, <1>5, <1>7, <1>9

\* Kolme emits, on some chains.
LEMMA ActionsAdded ==
  ASSUME BridgeInv, actions' = [c \in Chain |-> actions'[c]],
         \A c \in Chain :
           \/ actions'[c] = actions[c]
           \/ \E a : actions'[c] = Append(actions[c], Unsigned(a)),
         executed' = executed
  PROVE  /\ \A c \in Chain : ActionsInOrder(c)'
         /\ \A m \in outbox : IsCall(m)'
         /\ ActionLink!Next
<1>1. \A c \in Chain : /\ ActionsInOrder(c) /\ IsSeq(actions[c]) /\ Len(actions[c]) \in Nat
                       /\ IsSeq(executed[c]) /\ Len(executed[c]) \in Nat
  BY SeqLength DEF BridgeInv, ActionsInOrder
<1>2. ASSUME NEW c \in Chain, NEW a, actions'[c] = Append(actions[c], Unsigned(a))
      PROVE  /\ IsSeq(actions'[c]) /\ Len(actions'[c]) = Len(actions[c]) + 1
             /\ \A i \in 1..Len(actions[c]) : actions'[c][i] = actions[c][i]
             /\ actions'[c][Len(actions[c]) + 1] = Unsigned(a)
  BY <1>1, <1>2, AppendToSeq
<1>3. ASSUME NEW c \in Chain
      PROVE  /\ IsSeq(actions'[c]) /\ Len(actions'[c]) \in {Len(actions[c]), Len(actions[c]) + 1}
             /\ \A i \in 1..Len(actions[c]) : actions'[c][i] = actions[c][i]
             /\ \A i \in 1..Len(actions'[c]) : IsAction(actions'[c][i])
  <2>1. CASE actions'[c] = actions[c]
    BY <1>1, <2>1 DEF ActionsInOrder
  <2>2. ASSUME NEW a, actions'[c] = Append(actions[c], Unsigned(a))
        PROVE  \A i \in 1..Len(actions'[c]) : IsAction(actions'[c][i])
    <3>1. IsAction(Unsigned(a))
      BY DEF IsAction, Unsigned
    <3>2. \A i \in 1..(Len(actions[c]) + 1) : i \in 1..Len(actions[c]) \/ i = Len(actions[c]) + 1
      BY <1>1
    <3> QED
      BY <1>1, <1>2, <2>2, <3>1, <3>2 DEF ActionsInOrder
  <2> QED
    BY <1>2, <2>1, <2>2
<1>4. ASSUME NEW c \in Chain PROVE ActionsInOrder(c)'
  <2>1. \A i \in 1..Len(executed[c]) : i \in 1..Len(actions[c])
    BY <1>1 DEF ActionsInOrder
  <2> QED
    BY <1>1, <1>3, <2>1 DEF ActionsInOrder
<1>5. \A m \in outbox : IsCall(m)'
  BY <1>1, <1>3, CallKept DEF BridgeInv
<1>6. ASSUME NEW c \in Chain PROVE ActionLink!Idle(c) \/ ActionLink!Send(c)
  <2>1. /\ IsSeq(Sent[c]) /\ Len(Sent[c]) = Len(actions[c])
        /\ \A i \in 1..Len(actions[c]) : Sent[c][i] = actions[c][i].action
    BY SentIs
  <2>2. CASE actions'[c] = actions[c]
    BY <2>2 DEF ActionLink!Idle
  <2>3. CASE Len(actions'[c]) = Len(actions[c]) + 1
    <3>1. Sent'[c] = [i \in 1..Len(actions'[c]) |-> actions'[c][i].action]
      <4>1. DOMAIN actions'[c] = 1..Len(actions'[c])
        BY <1>3, SeqLength
      <4> QED
        BY <4>1 DEF Sent
    <3>2. IsSeq(Sent'[c]) /\ Len(Sent'[c]) = Len(actions'[c])
      <4>1. Sent'[c] = [i \in 1..Len(actions'[c]) |-> Sent'[c][i]]
        BY <3>1
      <4>2. Len(actions'[c]) \in Nat
        BY <1>3, SeqLength
      <4> QED
        BY <4>1, <4>2, FunctionIsSeq
    <3>3. \A i \in 1..Len(Sent[c]) : Sent'[c][i] = Sent[c][i]
      BY <1>1, <1>3, <2>1, <2>3, <3>1
    <3>4. Sent[c] = SubSeq(Sent'[c], 1, Len(Sent[c]))
      <4>1. PICK s, t : s = Sent[c] /\ t = Sent'[c]
        OBVIOUS
      <4>2. IsSeq(s) /\ IsSeq(t) /\ \A i \in 1..Len(s) : s[i] = t[i]
        BY <2>1, <3>2, <3>3, <4>1
      <4>3. Len(s) <= Len(t)
        BY <1>1, <2>1, <2>3, <3>2, <4>1
      <4> QED
        BY <4>1, <4>2, <4>3, PrefixIs
    <3> QED
      BY <2>1, <2>3, <3>2, <3>4 DEF ActionLink!Send, Sent
  <2> QED
    BY <1>2, <2>2, <2>3
<1>7. ActionLink!Next
  BY <1>6 DEF ActionLink!Next
<1> QED
  BY <1>4, <1>5, <1>7

\* Kolme's actions stay as they were emitted, and their number too.
SameActions ==
  \A c \in Chain :
    /\ Len(actions'[c]) = Len(actions[c])
    /\ \A i \in 1..Len(actions[c]) : actions'[c][i].action = actions[c][i].action

\* Who signs does not change what is emitted.
LEMMA ActionsSigned ==
  ASSUME BridgeInv, NEW d \in Chain, NEW i \in DOMAIN actions[d],
         NEW approvals, NEW processor,
         actions' = [actions EXCEPT ![d] = [actions[d] EXCEPT
           ![i] = [action |-> actions[d][i].action, approvals |-> approvals,
                   processor |-> processor]]],
         executed' = executed
  PROVE  /\ actions' = [c \in Chain |-> actions'[c]]
         /\ \A c \in Chain : ActionsInOrder(c)'
         /\ \A m \in outbox : IsCall(m)'
         /\ ActionLink!Next
         /\ SameActions
<1> DEFINE r == [action |-> actions[d][i].action, approvals |-> approvals,
                 processor |-> processor]
<1>1. /\ actions = [c \in Chain |-> actions[c]]
      /\ \A c \in Chain : ActionsInOrder(c) /\ IsSeq(actions[c]) /\ Len(actions[c]) \in Nat
           /\ DOMAIN actions[c] = 1..Len(actions[c])
           /\ Len(executed[c]) \in Nat
  BY SeqLength DEF BridgeInv, OverChains, ActionsInOrder
<1>2. IsAction(r) /\ r.action = actions[d][i].action
  BY DEF IsAction
<1> HIDE DEF r
<1>3. /\ actions' = [c \in Chain |-> actions'[c]]
      /\ actions'[d] = [actions[d] EXCEPT ![i] = r]
      /\ \A c \in Chain \ {d} : actions'[c] = actions[c]
  BY <1>1 DEF r
<1>4. /\ IsSeq(actions'[d]) /\ Len(actions'[d]) = Len(actions[d])
      /\ \A j \in 1..Len(actions[d]) :
           actions'[d][j] = IF j = i THEN r ELSE actions[d][j]
  <2>1. PICK S : actions[d] \in Seq(S)
    BY <1>1 DEF IsSeq
  <2>2. actions[d] \in Seq(S \cup {r}) /\ r \in S \cup {r}
    BY <2>1
  <2>3. actions'[d] \in Seq(S \cup {r}) /\ Len(actions'[d]) = Len(actions[d])
        /\ \A j \in 1..Len(actions[d]) : actions'[d][j] = IF j = i THEN r ELSE actions[d][j]
    BY <2>2, <1>1, <1>3, ExceptSeq
  <2> QED
    BY <2>3 DEF IsSeq
<1>5. ASSUME NEW c \in Chain
      PROVE  /\ IsSeq(actions'[c]) /\ Len(actions'[c]) = Len(actions[c])
             /\ \A j \in 1..Len(actions[c]) :
                  actions'[c][j].action = actions[c][j].action /\ IsAction(actions'[c][j])
  <2>1. CASE c = d
    BY <1>1, <1>2, <1>4, <2>1 DEF ActionsInOrder
  <2>2. CASE c # d
    BY <1>1, <1>3, <2>2 DEF ActionsInOrder
  <2> QED
    BY <2>1, <2>2
<1>6. ASSUME NEW c \in Chain PROVE ActionsInOrder(c)'
  <2>1. \A j \in 1..Len(executed[c]) : j \in 1..Len(actions[c])
    BY <1>1 DEF ActionsInOrder
  <2>2. ActionsInOrder(c) /\ executed'[c] = executed[c]
    BY <1>1
  <2>3. \A j \in 1..Len(executed[c]) : executed[c][j] = actions'[c][j].action
    BY <1>5, <2>1, <2>2 DEF ActionsInOrder
  <2>4. Len(executed[c]) <= Len(actions'[c])
    BY <1>5, <2>2 DEF ActionsInOrder
  <2> QED
    BY <1>5, <2>2, <2>3, <2>4 DEF ActionsInOrder
<1>7. \A m \in outbox : IsCall(m)'
  BY <1>1, <1>5, CallKept DEF BridgeInv
<1>8. Sent' = Sent
  <2>1. ASSUME NEW c \in Chain
        PROVE  [j \in DOMAIN actions'[c] |-> actions'[c][j].action]
                 = [j \in DOMAIN actions[c] |-> actions[c][j].action]
    <3>1. DOMAIN actions'[c] = 1..Len(actions[c]) /\ DOMAIN actions[c] = 1..Len(actions[c])
      BY <1>1, <1>5, SeqLength
    <3> QED
      BY <3>1, <1>5
  <2> QED
    BY <2>1 DEF Sent
<1> QED
  BY <1>3, <1>5, <1>6, <1>7, <1>8, ActionsIdle DEF SameActions

\* A contract takes the next action.
LEMMA ActionTaken ==
  ASSUME BridgeInv, NEW d \in Chain, NEW id, id \in 1..Len(actions[d]),
         id = Len(executed[d]) + 1, NEW a, a = actions[d][id].action,
         executed' = [executed EXCEPT ![d] = Append(executed[d], a)],
         actions' = actions
  PROVE  /\ executed' = [c \in Chain |-> executed'[c]]
         /\ \A c \in Chain : ActionsInOrder(c)'
         /\ ActionLink!Next
<1>1. /\ executed = [c \in Chain |-> executed[c]]
      /\ \A c \in Chain : ActionsInOrder(c) /\ IsSeq(executed[c]) /\ Len(executed[c]) \in Nat
  BY SeqLength DEF BridgeInv, OverChains, ActionsInOrder
<1>2. /\ executed' = [c \in Chain |-> executed'[c]]
      /\ executed'[d] = Append(executed[d], a)
      /\ \A c \in Chain \ {d} : executed'[c] = executed[c]
  BY <1>1
<1>3. /\ IsSeq(executed'[d]) /\ Len(executed'[d]) = Len(executed[d]) + 1
      /\ \A i \in 1..Len(executed[d]) : executed'[d][i] = executed[d][i]
      /\ executed'[d][Len(executed[d]) + 1] = a
  BY <1>1, <1>2, AppendToSeq
<1>4. ASSUME NEW c \in Chain \ {d} PROVE ActionsInOrder(c)' /\ ActionLink!Idle(c)
  BY <1>1, <1>2 DEF ActionsInOrder, ActionLink!Idle
<1>5. \A i \in 1..Len(executed'[d]) : executed'[d][i] = actions[d][i].action
  <2>1. \A i \in 1..Len(executed'[d]) : i \in 1..Len(executed[d]) \/ i = Len(executed[d]) + 1
    BY <1>1, <1>3
  <2> QED
    BY <1>1, <1>3, <2>1 DEF ActionsInOrder
<1>6. Len(actions[d]) \in Nat /\ Len(executed[d]) + 1 <= Len(actions[d])
  BY <1>1, SeqLength DEF ActionsInOrder
<1>7. ActionsInOrder(d)'
  BY <1>1, <1>3, <1>5, <1>6 DEF ActionsInOrder
<1>8. ActionLink!Take(d)
  <2>1. /\ IsSeq(Sent[d]) /\ Len(Sent[d]) = Len(actions[d])
        /\ \A i \in 1..Len(actions[d]) : Sent[d][i] = actions[d][i].action
    BY <1>1, SentIs
  <2>2. executed'[d] = SubSeq(Sent[d], 1, Len(executed'[d]))
    <3>1. PICK s, t : s = executed'[d] /\ t = Sent[d]
      OBVIOUS
    <3>2. \A i \in 1..Len(s) : i \in 1..Len(actions[d])
      BY <1>1, <1>3, <1>6, <3>1
    <3>3. IsSeq(s) /\ IsSeq(t) /\ \A i \in 1..Len(s) : s[i] = t[i]
      BY <2>1, <1>3, <1>5, <3>1, <3>2
    <3>4. Len(s) <= Len(t)
      BY <1>3, <1>6, <2>1, <3>1
    <3> QED
      BY <3>1, <3>3, <3>4, PrefixIs
  <2>3. Len(executed'[d]) \in (Len(executed[d]) + 1)..Len(Sent[d])
    BY <1>1, <1>3, <1>6, <2>1
  <2>4. Sent'[d] = Sent[d]
    BY DEF Sent
  <2> QED
    BY <2>2, <2>3, <2>4 DEF ActionLink!Take, Sent
<1>9. ActionLink!Next
  BY <1>4, <1>8 DEF ActionLink!Next
<1> QED
  BY <1>2, <1>4, <1>7, <1>9

\* What is pending once an attestation lands.
LEMMA AttestedIs ==
  ASSUME NEW a \in Nat, NEW m \in Nat, NEW es, NEW old, NEW id, NEW pend,
         NEW x \in (a + 1)..(m + 1), NEW y,
         DOMAIN old = (a + 1)..(x - 1), \A i \in DOMAIN old : old[i].event = es[i],
         id \in 1..m, id \in DOMAIN old \/ id = x, y = IF id = x THEN id + 1 ELSE x,
         DOMAIN pend = DOMAIN old \cup {id},
         \A i \in DOMAIN pend : pend[i].event = IF i = id THEN es[id] ELSE old[i].event
  PROVE  /\ y \in (a + 1)..(m + 1)
         /\ DOMAIN pend = (a + 1)..(y - 1)
         /\ \A i \in DOMAIN pend : pend[i].event = es[i]
<1>1. \A i \in DOMAIN pend : pend[i].event = es[i]
  OBVIOUS
<1>2. CASE id = x
  BY <1>1, <1>2
<1>3. CASE id # x
  <2>1. y = x /\ DOMAIN pend = DOMAIN old
    BY <1>3
  <2> QED
    BY <1>1, <2>1
<1> QED
  BY <1>2, <1>3

LEMMA ListeningMoves ==
  ASSUME NEW f \in [ListenerNode -> [Chain -> Nat]], NEW l, NEW c, NEW v \in Nat
  PROVE  [f EXCEPT ![l][c] = v] \in [ListenerNode -> [Chain -> Nat]]
OBVIOUS

\* What landing an attestation of event id does to the events of chain c: n is the
\* next event then, and pend what is pending before the ready ones are processed.
Landing(t, c, id, n, pend) ==
  /\ c \in Chain /\ id \in 1..Len(events[c])
  /\ Process(c, pend)
  /\ attesting' \subseteq attesting
  /\ listening' = listening \/ listening' = [listening EXCEPT ![t.key][c] = id + 1]
  /\ UNCHANGED <<actions, executed, events, outbox, approving>>
  /\ EventsInOrder(c) /\ IsSeq(events[c])
  /\ Len(processed[c]) \in Nat /\ Len(events[c]) \in Nat
  /\ n = nextEvent'[c] /\ n \in (Len(processed[c]) + 1)..(Len(events[c]) + 1)
  /\ DOMAIN pend = (Len(processed[c]) + 1)..(n - 1)
  /\ \A i \in DOMAIN pend : pend[i].event = events[c][i]
  /\ \A d \in Chain \ {c} : nextEvent'[d] = nextEvent[d]
  /\ nextEvent' = [d \in Chain |-> nextEvent'[d]]
  /\ IsSeq(processed'[c])
  /\ Len(processed[c]) <= Len(processed'[c]) /\ Len(processed'[c]) <= n - 1
  /\ \A i \in 1..Len(processed'[c]) : processed'[c][i] = events[c][i]
  /\ DOMAIN pendingEvents'[c] = (Len(processed'[c]) + 1)..(n - 1)
  /\ \A i \in DOMAIN pendingEvents'[c] : pendingEvents'[c][i] = pend[i]
  /\ Len(processed'[c]) = Len(processed[c]) => processed'[c] = processed[c]
  /\ \A d \in Chain \ {c} :
       processed'[d] = processed[d] /\ pendingEvents'[d] = pendingEvents[d]
  /\ processed' = [d \in Chain |-> processed'[d]]
  /\ pendingEvents' = [d \in Chain |-> pendingEvents'[d]]
  /\ Ready(pend) = (Len(processed[c]) + 1)..Len(processed'[c])

LEMMA LandingIs ==
  ASSUME BridgeInv, NEW t \in attesting, ListenerLands(t)
  PROVE  \E c, id, n, pend : Landing(t, c, id, n, pend)
<1>1. PICK c \in Chain : c = t.chain
  BY DEF BridgeInv, IsAttestation
<1>2. PICK id \in 1..Len(events[c]) : id = t.id
  BY <1>1 DEF BridgeInv, IsAttestation
<1>3. /\ Attestable(t.key, c, id, events[c][id])
      /\ nextEvent' = [nextEvent EXCEPT ![c] = IF id = @ THEN id + 1 ELSE @]
      /\ Process(c, Attested(t.key, c, id, events[c][id]))
      /\ attesting' \subseteq attesting
      /\ listening' = listening \/ listening' = [listening EXCEPT ![t.key][c] = id + 1]
      /\ UNCHANGED <<actions, executed, events, outbox, approving>>
  BY <1>1, <1>2, Zenon DEF ListenerLands, Attest, contractVars
<1>4. PICK pend : pend = Attested(t.key, c, id, events[c][id])
  OBVIOUS
<1>5. /\ OverChains /\ EventsInOrder(c) /\ IsSeq(events[c]) /\ IsSeq(processed[c])
      /\ Len(processed[c]) \in Nat /\ Len(events[c]) \in Nat
      /\ Len(processed[c]) <= Len(events[c])
      /\ \A i \in 1..Len(processed[c]) : processed[c][i] = events[c][i]
  BY SeqLength DEF BridgeInv, EventsInOrder
<1>6. PICK n : n = nextEvent'[c]
  OBVIOUS
<1>7. /\ n \in (Len(processed[c]) + 1)..(Len(events[c]) + 1)
      /\ DOMAIN pend = (Len(processed[c]) + 1)..(n - 1)
      /\ \A i \in DOMAIN pend : pend[i].event = events[c][i]
      /\ \A d \in Chain \ {c} : nextEvent'[d] = nextEvent[d]
      /\ nextEvent' = [d \in Chain |-> nextEvent'[d]]
      /\ n \in Nat
  <2>1. nextEvent = [d \in Chain |-> nextEvent[d]]
    BY <1>5 DEF OverChains
  <2>2. /\ n = (IF id = nextEvent[c] THEN id + 1 ELSE nextEvent[c])
        /\ \A d \in Chain \ {c} : nextEvent'[d] = nextEvent[d]
        /\ nextEvent' = [d \in Chain |-> nextEvent'[d]]
    BY <1>3, <1>6, <2>1
  <2>3. PICK a, m, es, old, x :
          /\ a = Len(processed[c]) /\ m = Len(events[c]) /\ es = events[c]
          /\ old = pendingEvents[c] /\ x = nextEvent[c]
    OBVIOUS
  <2>4. /\ a \in Nat /\ m \in Nat /\ x \in (a + 1)..(m + 1) /\ id \in 1..m
        /\ DOMAIN old = (a + 1)..(x - 1) /\ \A i \in DOMAIN old : old[i].event = es[i]
    BY <1>5, <2>3 DEF EventsInOrder
  <2>5. id \in DOMAIN old \/ id = x
    BY <1>3, <2>3 DEF Attestable
  <2>6. /\ DOMAIN pend = DOMAIN old \cup {id}
        /\ \A i \in DOMAIN pend : pend[i].event = IF i = id THEN es[id] ELSE old[i].event
    BY <1>4, <2>3 DEF Attested, With
  <2>7. n = IF id = x THEN id + 1 ELSE x
    BY <2>2, <2>3
  <2>8. /\ n \in (a + 1)..(m + 1) /\ DOMAIN pend = (a + 1)..(n - 1)
        /\ \A i \in DOMAIN pend : pend[i].event = es[i]
    BY <2>4, <2>5, <2>6, <2>7, AttestedIs
  <2>9. n \in Nat
    BY <2>4, <2>8
  <2> QED
    BY <2>2, <2>3, <2>8, <2>9
<1>8. /\ IsSeq(processed'[c])
      /\ Len(processed[c]) <= Len(processed'[c]) /\ Len(processed'[c]) <= n - 1
      /\ \A i \in 1..Len(processed'[c]) : processed'[c][i] = events[c][i]
      /\ DOMAIN pendingEvents'[c] = (Len(processed'[c]) + 1)..(n - 1)
      /\ \A i \in DOMAIN pendingEvents'[c] : pendingEvents'[c][i] = pend[i]
      /\ Len(processed'[c]) = Len(processed[c]) => processed'[c] = processed[c]
      /\ \A d \in Chain \ {c} :
           processed'[d] = processed[d] /\ pendingEvents'[d] = pendingEvents[d]
      /\ processed' = [d \in Chain |-> processed'[d]]
      /\ pendingEvents' = [d \in Chain |-> pendingEvents'[d]]
      /\ Ready(pend) = (Len(processed[c]) + 1)..Len(processed'[c])
  <2>1. Process(c, pend)
    BY <1>3, <1>4
  <2> QED
    BY <2>1, <1>5, <1>7, ProcessesInOrder
<1>9. Process(c, pend)
  BY <1>3, <1>4
<1>10. Landing(t, c, id, n, pend)
  BY <1>3, <1>5, <1>6, <1>7, <1>8, <1>9 DEF Landing
<1> QED
  BY <1>10

LEMMA LandsInOrder ==
  ASSUME BridgeInv, NEW t \in attesting, ListenerLands(t)
  PROVE  BridgeInv' /\ EventLink!Next /\ ActionLink!Next
<1>0. PICK c, id, n, pend : Landing(t, c, id, n, pend)
  BY LandingIs
<1>1. /\ c \in Chain /\ id \in 1..Len(events[c])
      /\ Process(c, pend)
      /\ attesting' \subseteq attesting
      /\ listening' = listening \/ listening' = [listening EXCEPT ![t.key][c] = id + 1]
      /\ UNCHANGED <<actions, executed, events, outbox, approving>>
      /\ EventsInOrder(c) /\ IsSeq(events[c])
      /\ Len(processed[c]) \in Nat /\ Len(events[c]) \in Nat
      /\ n = nextEvent'[c] /\ n \in (Len(processed[c]) + 1)..(Len(events[c]) + 1)
      /\ DOMAIN pend = (Len(processed[c]) + 1)..(n - 1)
      /\ \A i \in DOMAIN pend : pend[i].event = events[c][i]
      /\ \A d \in Chain \ {c} : nextEvent'[d] = nextEvent[d]
      /\ nextEvent' = [d \in Chain |-> nextEvent'[d]]
      /\ IsSeq(processed'[c])
      /\ Len(processed[c]) <= Len(processed'[c]) /\ Len(processed'[c]) <= n - 1
      /\ \A i \in 1..Len(processed'[c]) : processed'[c][i] = events[c][i]
      /\ DOMAIN pendingEvents'[c] = (Len(processed'[c]) + 1)..(n - 1)
      /\ \A i \in DOMAIN pendingEvents'[c] : pendingEvents'[c][i] = pend[i]
      /\ Len(processed'[c]) = Len(processed[c]) => processed'[c] = processed[c]
      /\ \A d \in Chain \ {c} :
             processed'[d] = processed[d] /\ pendingEvents'[d] = pendingEvents[d]
      /\ processed' = [d \in Chain |-> processed'[d]]
      /\ pendingEvents' = [d \in Chain |-> pendingEvents'[d]]
      /\ Ready(pend) = (Len(processed[c]) + 1)..Len(processed'[c])
  BY <1>0 DEF Landing
<1>2. c \in Chain /\ OverChains
  BY <1>1 DEF BridgeInv
<1>3. Len(processed'[c]) \in Nat
  BY <1>1, SeqLength
<1>4. ASSUME NEW d \in Chain \ {c} PROVE EventsInOrder(d)' /\ EventLink!Idle(d)
  <2>1. EventsInOrder(d)
    BY DEF BridgeInv
  <2>2. /\ events'[d] = events[d] /\ processed'[d] = processed[d]
        /\ nextEvent'[d] = nextEvent[d] /\ pendingEvents'[d] = pendingEvents[d]
    BY <1>1
  <2> QED
    BY <2>1, <2>2 DEF EventsInOrder, EventLink!Idle
<1>5. EventsInOrder(c)'
  <2>1. \A i \in DOMAIN pendingEvents'[c] : i \in DOMAIN pend
    BY <1>1, <1>2, <1>3
  <2>2. \A i \in DOMAIN pendingEvents'[c] : pendingEvents'[c][i].event = events[c][i]
    BY <2>1, <1>1
  <2>3. n \in (Len(processed'[c]) + 1)..(Len(events[c]) + 1)
        /\ Len(processed'[c]) <= Len(events[c])
    BY <1>1, <1>2, <1>3
  <2> QED
    BY <2>2, <2>3, <1>1, <1>2 DEF EventsInOrder
<1>6. EventLink!Idle(c) \/ EventLink!Take(c)
  <2>1. CASE Len(processed'[c]) = Len(processed[c])
    BY <2>1, <1>1 DEF EventLink!Idle
  <2>2. CASE Len(processed'[c]) # Len(processed[c])
    <3>1. Len(processed'[c]) \in (Len(processed[c]) + 1)..Len(events[c])
      BY <2>2, <1>1, <1>2, <1>3
    <3>2. processed'[c] = SubSeq(events[c], 1, Len(processed'[c]))
      <4>1. PICK s, e : s = processed'[c] /\ e = events[c]
        OBVIOUS
      <4>2. IsSeq(s) /\ IsSeq(e) /\ Len(s) <= Len(e) /\ \A i \in 1..Len(s) : s[i] = e[i]
        BY <3>1, <4>1, <1>1, <1>2
      <4> QED
        BY <4>1, <4>2, PrefixIs
    <3> QED
      BY <3>1, <3>2, <1>1 DEF EventLink!Take
  <2> QED
    BY <2>1, <2>2
<1>7. EventLink!Next
  BY <1>4, <1>6 DEF EventLink!Next
<1>8. ActionLink!Next
  BY <1>1, ActionsIdle DEF Sent
<1>9. listening' \in [ListenerNode -> [Chain -> Nat]]
  <2>1. id + 1 \in Nat /\ listening \in [ListenerNode -> [Chain -> Nat]]
    BY <1>1, <1>2 DEF OverChains
  <2>2. PICK l, v : l = t.key /\ v = id + 1
    OBVIOUS
  <2>3. [listening EXCEPT ![l][c] = v] \in [ListenerNode -> [Chain -> Nat]]
    BY <2>1, <2>2, ListeningMoves
  <2>4. listening' = listening \/ listening' = [listening EXCEPT ![l][c] = v]
    BY <2>2, <1>1
  <2> QED
    BY <2>1, <2>3, <2>4
<1>10. OverChains'
  BY <1>1, <1>2, <1>9 DEF OverChains
<1>11. \A u \in attesting' : IsAttestation(u)'
  BY <1>1 DEF BridgeInv, IsAttestation
<1>12. (\A m \in outbox' : IsCall(m)') /\ \A d \in Chain : ActionsInOrder(d)'
  BY <1>1 DEF BridgeInv, IsCall, ActionsInOrder
<1> QED
  BY <1>4, <1>5, <1>7, <1>8, <1>10, <1>11, <1>12 DEF BridgeInv

-----------------------------------------------------------------------------
\* The steps, one by one.

\* What every step does.
InOrder == BridgeInv' /\ EventLink!Next /\ ActionLink!Next

LEMMA DepositInOrder ==
  ASSUME BridgeInv, UserDeposits
  PROVE  InOrder
<1>0. PICK d \in Chain : \E e : events' = [events EXCEPT ![d] = Append(events[d], e)]
  BY DEF UserDeposits
<1>1. PICK e : events' = [events EXCEPT ![d] = Append(events[d], e)]
  BY <1>0
<1>2. UNCHANGED <<nextEvent, pendingEvents, processed, actions, executed, listening, approving,
                  attesting, outbox>>
  BY DEF UserDeposits, kolmeVars, carrierVars, pathVars
<1>3. /\ events' = [c \in Chain |-> events'[c]]
      /\ \A c \in Chain : EventsInOrder(c)'
      /\ \A t \in attesting : IsAttestation(t)'
      /\ EventLink!Next
  BY <1>1, <1>2, EventAdded
<1>4. ActionLink!Next
  BY <1>2, ActionsIdle DEF Sent
<1>5. (\A c \in Chain : ActionsInOrder(c)') /\ (\A m \in outbox' : IsCall(m)')
  BY <1>2 DEF BridgeInv, ActionsInOrder, IsCall
<1>6. OverChains'
  BY <1>2, <1>3 DEF BridgeInv, OverChains
<1> QED
  BY <1>2, <1>3, <1>4, <1>5, <1>6 DEF BridgeInv, InOrder

LEMMA ExecuteInOrder ==
  ASSUME BridgeInv, NEW m \in outbox, CallExecutes(m)
  PROVE  InOrder
<1>0. PICK d \in Chain : d = m.chain
  BY DEF BridgeInv, IsCall
<1>1. PICK id, a :
        /\ d = m.chain /\ id = m.id /\ a = m.action
        /\ id \in 1..Len(actions[d]) /\ a = actions[d][id].action
  BY <1>0 DEF BridgeInv, IsCall
<1>2. /\ id = Len(executed[d]) + 1
      /\ executed' = [executed EXCEPT ![d] = Append(executed[d], a)]
      /\ events' = [events EXCEPT ![d] = Append(events[d], Signed(id))]
      /\ outbox' \subseteq outbox
      /\ UNCHANGED <<nextEvent, pendingEvents, processed, actions, listening, approving, attesting>>
  BY <1>1 DEF CallExecutes, Execute, Accepts, kolmeVars
<1>3. /\ events' = [c \in Chain |-> events'[c]]
      /\ \A c \in Chain : EventsInOrder(c)'
      /\ \A t \in attesting : IsAttestation(t)'
      /\ EventLink!Next
  BY <1>2, EventAdded
<1>4. /\ executed' = [c \in Chain |-> executed'[c]]
      /\ \A c \in Chain : ActionsInOrder(c)'
      /\ ActionLink!Next
  BY <1>1, <1>2, ActionTaken
<1>5. \A n \in outbox' : IsCall(n)'
  BY <1>2 DEF BridgeInv, IsCall
<1>6. OverChains'
  BY <1>2, <1>3, <1>4 DEF BridgeInv, OverChains
<1> QED
  BY <1>2, <1>3, <1>4, <1>5, <1>6 DEF BridgeInv, InOrder

\* An emission touches nothing of the events.
LEMMA EmissionInOrder ==
  ASSUME BridgeInv, actions' = [c \in Chain |-> actions'[c]],
         \A c \in Chain : ActionsInOrder(c)', \A m \in outbox : IsCall(m)', ActionLink!Next,
         UNCHANGED <<nextEvent, pendingEvents, processed, events, executed, listening, attesting,
                     outbox>>,
         ForChains(approving')
  PROVE  InOrder
<1>1. (\A c \in Chain : EventsInOrder(c)') /\ (\A t \in attesting' : IsAttestation(t)')
  BY DEF BridgeInv, EventsInOrder, IsAttestation
<1>2. EventLink!Next
  BY EventsIdle
<1>3. OverChains'
  BY DEF BridgeInv, OverChains
<1> QED
  BY <1>1, <1>2, <1>3 DEF BridgeInv, InOrder

LEMMA WithdrawInOrder ==
  ASSUME BridgeInv, UserWithdraws
  PROVE  InOrder
<1>0. PICK d \in Chain :
        \E a : actions' = [actions EXCEPT ![d] = Append(actions[d], Unsigned(a))]
  BY DEF UserWithdraws, Withdraw, Emits
<1>1. PICK a : actions' = [actions EXCEPT ![d] = Append(actions[d], Unsigned(a))]
  BY <1>0
<1>2. UNCHANGED <<nextEvent, pendingEvents, processed, events, executed, listening, approving,
                  attesting, outbox>>
  BY DEF UserWithdraws, Withdraw, contractVars, pathVars
<1>3. actions = [c \in Chain |-> actions[c]]
  BY DEF BridgeInv, OverChains
<1>4. /\ actions' = [c \in Chain |-> actions'[c]]
      /\ \A c \in Chain : \/ actions'[c] = actions[c]
                           \/ \E b : actions'[c] = Append(actions[c], Unsigned(b))
  BY <1>1, <1>3
<1>5. /\ \A c \in Chain : ActionsInOrder(c)'
      /\ \A m \in outbox : IsCall(m)'
      /\ ActionLink!Next
  BY <1>2, <1>4, ActionsAdded
<1> QED
  BY <1>2, <1>4, <1>5, EmissionInOrder DEF BridgeInv, OverChains

LEMMA GovernInOrder ==
  ASSUME BridgeInv, Governs
  PROVE  InOrder
<1>1. PICK a : a = emitted'[Len(emitted')]
  OBVIOUS
<1>2. /\ actions' = [c \in Chain |->
             IF emitted' # emitted /\ Concerns(a, c) THEN Append(actions[c], Unsigned(a))
             ELSE actions[c]]
      /\ UNCHANGED <<nextEvent, pendingEvents, processed, events, executed, listening, approving,
                     attesting, outbox>>
  BY <1>1 DEF Governs, contractVars, pathVars
<1>3. /\ actions' = [c \in Chain |-> actions'[c]]
      /\ \A c \in Chain : \/ actions'[c] = actions[c]
                           \/ \E b : actions'[c] = Append(actions[c], Unsigned(b))
  BY <1>2
<1>4. /\ \A c \in Chain : ActionsInOrder(c)'
      /\ \A m \in outbox : IsCall(m)'
      /\ ActionLink!Next
  BY <1>2, <1>3, ActionsAdded
<1> QED
  BY <1>2, <1>3, <1>4, EmissionInOrder DEF BridgeInv, OverChains

\* A signature, by an approver or by the processor.
LEMMA SigningInOrder ==
  ASSUME BridgeInv, NEW d \in Chain, NEW i \in DOMAIN actions[d], NEW approvals, NEW processor,
         actions' = [actions EXCEPT ![d] = [actions[d] EXCEPT
           ![i] = [action |-> actions[d][i].action, approvals |-> approvals,
                   processor |-> processor]]],
         UNCHANGED <<nextEvent, pendingEvents, processed, events, executed, listening, attesting,
                     outbox>>,
         ForChains(approving')
  PROVE  InOrder /\ SameActions
<1>1. /\ actions' = [c \in Chain |-> actions'[c]]
      /\ \A c \in Chain : ActionsInOrder(c)'
      /\ \A m \in outbox : IsCall(m)'
      /\ ActionLink!Next
      /\ SameActions
  BY ActionsSigned
<1> QED
  BY <1>1, EmissionInOrder

LEMMA ProcessorInOrder ==
  ASSUME BridgeInv, NEW c \in Chain, ProcessorApproves(c)
  PROVE  InOrder /\ SameActions
<1>1. PICK i \in DOMAIN actions[c] : actions' = [actions EXCEPT ![c][i].processor = valset.processor]
  BY DEF ProcessorApproves
<1>2. UNCHANGED <<nextEvent, pendingEvents, processed, events, executed, listening, approving,
                  attesting, outbox>>
  BY DEF ProcessorApproves, contractVars, pathVars
<1>3. IsAction(actions[c][i])
  BY SeqLength DEF BridgeInv, ActionsInOrder
<1>4. PICK approvals, p : approvals = actions[c][i].approvals /\ p = valset.processor
  OBVIOUS
<1>5. [actions[c][i] EXCEPT !.processor = p]
        = [action |-> actions[c][i].action, approvals |-> approvals, processor |-> p]
  BY <1>3, <1>4 DEF IsAction
<1>6. actions' = [actions EXCEPT ![c] = [actions[c] EXCEPT
           ![i] = [action |-> actions[c][i].action, approvals |-> approvals, processor |-> p]]]
  BY <1>1, <1>4, <1>5
<1>7. ForChains(approving')
  BY <1>2 DEF BridgeInv, OverChains
<1> QED
  BY <1>2, <1>6, <1>7, SigningInOrder

LEMMA ApproverInOrder ==
  ASSUME BridgeInv, NEW k \in ApproverNode, ApproverLands(k)
  PROVE  InOrder /\ SameActions
<1>0. PICK t \in approving[k] :
        /\ Approve(k, t.chain, t.id)
        /\ approving' = [approving EXCEPT ![k] = @ \ {t}]
        /\ UNCHANGED <<listening, attesting, outbox, events, executed>>
  BY DEF ApproverLands, contractVars
<1>1. PICK c \in Chain : c = t.chain
  BY <1>0 DEF BridgeInv, OverChains, ForChains
<1>2. PICK i \in DOMAIN actions[c] : i = t.id
  BY <1>0, <1>1 DEF Approve, Approvable
<1>3. /\ i \in DOMAIN actions[c]
      /\ actions' = [actions EXCEPT ![c][i].approvals = @ \cup {k}]
      /\ UNCHANGED <<nextEvent, pendingEvents, processed, events, executed, listening, attesting,
                     outbox>>
  BY <1>0, <1>1, <1>2 DEF Approve, Approvable
<1>4. IsAction(actions[c][i])
  BY <1>3, SeqLength DEF BridgeInv, ActionsInOrder
<1>5. PICK approvals, p : approvals = actions[c][i].approvals \cup {k} /\ p = actions[c][i].processor
  OBVIOUS
<1>6. [actions[c][i] EXCEPT !.approvals = approvals]
        = [action |-> actions[c][i].action, approvals |-> approvals, processor |-> p]
  BY <1>4, <1>5 DEF IsAction
<1>7. actions' = [actions EXCEPT ![c] = [actions[c] EXCEPT
           ![i] = [action |-> actions[c][i].action, approvals |-> approvals, processor |-> p]]]
  BY <1>3, <1>5, <1>6
<1>8. ForChains(approving')
  BY <1>0 DEF BridgeInv, OverChains, ForChains
<1>9. /\ i \in DOMAIN actions[c]
      /\ UNCHANGED <<nextEvent, pendingEvents, processed, events, executed, listening, attesting,
                     outbox>>
  BY <1>3
<1> QED
  BY <1>7, <1>8, <1>9, SigningInOrder

\* What is under way is the same for another sender, or for none.
LEMMA OrphanedKept ==
  ASSUME BridgeInv, NEW l
  PROVE  /\ \A t \in Orphaned(attesting, l) : IsAttestation(t)
         /\ \A m \in Orphaned(outbox, l) : IsCall(m)
<1>1. ASSUME NEW t \in attesting PROVE IsAttestation([t EXCEPT !.from = Orphan])
  <2>1. PICK k, c, i, f : /\ t = [key |-> k, chain |-> c, id |-> i, from |-> f]
                          /\ c \in Chain /\ i \in 1..Len(events[c])
    BY DEF BridgeInv, IsAttestation, Attestation
  <2>2. [t EXCEPT !.from = Orphan] = [key |-> k, chain |-> c, id |-> i, from |-> Orphan]
    BY <2>1
  <2> QED
    BY <2>1, <2>2 DEF IsAttestation, Attestation
<1>2. ASSUME NEW m \in outbox PROVE IsCall([m EXCEPT !.from = Orphan])
  <2>1. PICK c, i, a, s, p, f :
          /\ m = [chain |-> c, id |-> i, action |-> a, approvals |-> s, processor |-> p, from |-> f]
          /\ c \in Chain /\ i \in 1..Len(actions[c]) /\ a = actions[c][i].action
    BY DEF BridgeInv, IsCall
  <2>2. [m EXCEPT !.from = Orphan]
          = [chain |-> c, id |-> i, action |-> a, approvals |-> s, processor |-> p, from |-> Orphan]
    BY <2>1
  <2> QED
    BY <2>1, <2>2 DEF IsCall
<1> QED
  BY <1>1, <1>2 DEF Orphaned, BridgeInv

\* Nothing but carriers move.
CarriersOnly ==
  UNCHANGED <<nextEvent, pendingEvents, processed, actions, events, executed>>

LEMMA StopsKept ==
  ASSUME NEW l, NEW f, f \in [ListenerNode -> [Chain -> Nat]],
         NEW g, g = [f EXCEPT ![l] = [c \in Chain |-> Down]]
  PROVE  g \in [ListenerNode -> [Chain -> Nat]]
BY DEF Down

LEMMA ListenersInOrder ==
  ASSUME BridgeInv, NEW l \in ListenerNode, ListenerStep(l) \/ ListenerCrashes(l)
  PROVE  InOrder
<1>1. CarriersOnly /\ UNCHANGED <<outbox, approving>>
  <2>1. CASE ListenerCrashes(l)
    BY <2>1 DEF ListenerCrashes, kolmeVars, contractVars, CarriersOnly
  <2>2. CASE ListenerStep(l)
    BY <2>2 DEF ListenerStep, ListenerStarts, ListenerSends, kolmeVars, contractVars, CarriersOnly
  <2> QED
    BY <2>1, <2>2
<1>2. /\ listening \in [ListenerNode -> [Chain -> Nat]]
      /\ ForChains(approving')
      /\ (\A t \in attesting : IsAttestation(t)) /\ (\A m \in outbox' : IsCall(m))
  BY <1>1 DEF BridgeInv, OverChains, CarriersOnly
<1>3. CASE ListenerStarts(l)
  <2>1. ASSUME NEW c \in Chain PROVE NextBridgeEvent(l, c) \in Nat
    <3> DEFINE mine == {id \in DOMAIN pendingEvents[c] : l \notin pendingEvents[c][id].attested}
               all == mine \cup {nextEvent[c]}
    <3>1. Len(processed[c]) \in Nat /\ Len(events[c]) \in Nat
      BY SeqLength DEF BridgeInv, EventsInOrder
    <3>2. mine \subseteq Nat /\ nextEvent[c] \in Nat
      BY <3>1 DEF BridgeInv, EventsInOrder
    <3>3. NextBridgeEvent(l, c) = CHOOSE id \in all : \A i \in all : id <= i
      BY DEF NextBridgeEvent
    <3>4. all \subseteq Nat /\ all # {}
      BY <3>2
    <3> HIDE DEF all
    <3>5. \E id \in all : \A i \in all : id <= i
      BY <3>4, LeastNat
    <3> QED
      BY <3>3, <3>4, <3>5
  <2>2. [c \in Chain |-> NextBridgeEvent(l, c)] \in [Chain -> Nat]
    BY <2>1
  <2>3. listening' \in [ListenerNode -> [Chain -> Nat]] /\ attesting' = attesting
    BY <1>2, <1>3, <2>2 DEF ListenerStarts
  <2> QED
    BY <1>1, <1>2, <2>3, CarriersStep DEF CarriersOnly, InOrder
<1>4. ASSUME NEW c \in Chain, ListenerSends(l, c) PROVE InOrder
  <2>1. /\ listening[l][c] \in Nat /\ listening[l][c] # 0 /\ listening[l][c] <= Len(events[c])
        /\ attesting' = attesting \cup {Attestation(l, c, listening[l][c], l)}
        /\ listening' = listening
    BY <1>2, <1>4 DEF ListenerSends, Down
  <2>2. Len(events[c]) \in Nat
    BY SeqLength DEF BridgeInv, EventsInOrder
  <2>3. IsAttestation(Attestation(l, c, listening[l][c], l))
    BY <2>1, <2>2 DEF IsAttestation, Attestation
  <2>4. \A t \in attesting' : IsAttestation(t)
    BY <1>2, <2>1, <2>3
  <2> QED
    BY <1>1, <1>2, <2>1, <2>4, CarriersStep DEF CarriersOnly, InOrder
<1>5. CASE ListenerCrashes(l)
  <2>1. listening' \in [ListenerNode -> [Chain -> Nat]]
    BY <1>2, <1>5, StopsKept DEF ListenerCrashes, Stops
  <2>2. \A t \in attesting' : IsAttestation(t)
    BY <1>5, OrphanedKept DEF ListenerCrashes
  <2> QED
    BY <1>1, <1>2, <2>1, <2>2, CarriersStep DEF CarriersOnly, InOrder
<1> QED
  BY <1>3, <1>4, <1>5 DEF ListenerStep

LEMMA FailureInOrder ==
  ASSUME BridgeInv, NEW u \in attesting, ListenerFails(u)
  PROVE  InOrder
<1>1. CarriersOnly /\ UNCHANGED <<outbox, approving>>
  BY DEF ListenerFails, kolmeVars, contractVars, CarriersOnly
<1>2. /\ listening \in [ListenerNode -> [Chain -> Nat]]
      /\ ForChains(approving')
      /\ \A m \in outbox' : IsCall(m)
  BY <1>1 DEF BridgeInv, OverChains
<1>3. listening' \in [ListenerNode -> [Chain -> Nat]]
  BY <1>2, StopsKept DEF ListenerFails, Stops
<1>4. attesting' \subseteq Orphaned(attesting, u.from)
  BY DEF ListenerFails, Orphaned
<1>5. \A t \in attesting' : IsAttestation(t)
  BY <1>4, OrphanedKept
<1> QED
  BY <1>1, <1>2, <1>3, <1>5, CarriersStep DEF CarriersOnly, InOrder

LEMMA ApproversInOrder ==
  ASSUME BridgeInv, NEW k \in ApproverNode, ApproverStep(k)
  PROVE  InOrder
<1>1. CASE ApproverLands(k)
  BY <1>1, ApproverInOrder
<1>2. CASE ApproverFails(k) \/ ApproverLooks(k)
  <2>1. CarriersOnly /\ UNCHANGED <<outbox, attesting, listening>>
    BY <1>2 DEF ApproverFails, ApproverLooks, kolmeVars, contractVars, CarriersOnly
  <2>2. /\ listening' \in [ListenerNode -> [Chain -> Nat]]
        /\ ForChains(approving)
        /\ (\A t \in attesting' : IsAttestation(t)) /\ (\A m \in outbox' : IsCall(m))
    BY <2>1 DEF BridgeInv, OverChains
  <2>3. ASSUME NEW S, \A t \in S : t.chain \in Chain,
               approving' = [approving EXCEPT ![k] = S]
        PROVE  ForChains(approving')
    BY <2>2, <2>3 DEF ForChains
  <2>4. ForChains(approving')
    <3>1. CASE ApproverFails(k)
      <4>1. approving' = [approving EXCEPT ![k] = {}]
        BY <3>1 DEF ApproverFails
      <4> QED
        BY <2>2, <4>1 DEF ForChains
    <3>2. CASE ApproverLooks(k)
      <4>1. PICK heads \in {Pending, before} :
              approving' = [approving EXCEPT ![k] =
                {Approval(c, heads[c].id) : c \in
                   {c \in Chain : heads[c] # NoneNext /\ k \notin heads[c].approvals}}]
        BY <3>2 DEF ApproverLooks
      <4>2. \A c \in Chain : Approval(c, heads[c].id).chain = c
        BY DEF Approval
      <4>3. \A t \in {Approval(c, heads[c].id) : c \in
                   {c \in Chain : heads[c] # NoneNext /\ k \notin heads[c].approvals}} :
              t.chain \in Chain
        BY <4>2
      <4> QED
        BY <2>3, <4>1, <4>3
    <3> QED
      BY <1>2, <3>1, <3>2
  <2> QED
    BY <2>1, <2>2, <2>4, CarriersStep DEF CarriersOnly, InOrder
<1> QED
  BY <1>1, <1>2 DEF ApproverStep

LEMMA SubmittersInOrder ==
  ASSUME BridgeInv,
         \/ \E s \in Submitter : SubmitterLooks(s) \/ SubmitterCrashes(s)
         \/ \E m \in outbox : CallIsRejected(m) \/ CallIsLost(m)
  PROVE  InOrder
<1>1. CarriersOnly /\ UNCHANGED <<attesting, listening, approving>>
  BY DEF SubmitterLooks, SubmitterCrashes, CallIsRejected, CallIsLost, kolmeVars, contractVars,
         CarriersOnly
<1>2. /\ listening' \in [ListenerNode -> [Chain -> Nat]]
      /\ ForChains(approving')
      /\ (\A t \in attesting' : IsAttestation(t)) /\ (\A m \in outbox : IsCall(m))
  BY <1>1 DEF BridgeInv, OverChains
<1>3. SUFFICES \A m \in outbox' : IsCall(m)
  BY <1>1, <1>2, CarriersStep DEF CarriersOnly, InOrder
<1>4. ASSUME NEW s \in Submitter, SubmitterLooks(s) PROVE \A m \in outbox' : IsCall(m)
  <2>1. PICK heads \in Readings :
          outbox' = outbox \cup
            {Call(c, heads[c], s) : c \in
               {c \in Chain : Turn(heads, c) /\ ToSubmit(s, c, heads[c])}}
    BY <1>4 DEF SubmitterLooks
  <2>2. ASSUME NEW c \in Chain, ToSubmit(s, c, heads[c]) PROVE IsCall(Call(c, heads[c], s))
    <3>1. heads[c].id \in 1..Len(actions[c])
      BY <2>2, SeqLength DEF ToSubmit, BridgeInv, ActionsInOrder
    <3> QED
      BY <3>1 DEF IsCall, Call
  <2> QED
    BY <1>2, <2>1, <2>2
<1>5. ASSUME NEW s \in Submitter, SubmitterCrashes(s) PROVE \A m \in outbox' : IsCall(m)
  BY <1>5, OrphanedKept DEF SubmitterCrashes
<1>6. ASSUME NEW m \in outbox, CallIsRejected(m) \/ CallIsLost(m)
      PROVE  \A n \in outbox' : IsCall(n)
  BY <1>2, <1>6 DEF CallIsRejected, CallIsLost
<1> QED
  BY <1>4, <1>5, <1>6

LEMMA StutterInOrder ==
  ASSUME BridgeInv, QuietBlock \/ UNCHANGED allVars
  PROVE  InOrder
<1>1. CarriersOnly /\ UNCHANGED <<outbox, attesting, listening, approving>>
  BY DEF QuietBlock, allVars, bridgeVars, kolmeVars, contractVars, carrierVars, pathVars,
         CarriersOnly
<1>2. /\ listening' \in [ListenerNode -> [Chain -> Nat]]
      /\ ForChains(approving')
      /\ (\A t \in attesting' : IsAttestation(t)) /\ (\A m \in outbox' : IsCall(m))
  BY <1>1 DEF BridgeInv, OverChains
<1> QED
  BY <1>1, <1>2, CarriersStep DEF CarriersOnly, InOrder

LEMMA StepInOrder ==
  ASSUME BridgeInv, [BridgeNext]_allVars
  PROVE  InOrder
<1>1. ASSUME NEW t \in attesting, ListenerLands(t) PROVE InOrder
  BY <1>1, LandsInOrder DEF InOrder
<1>2. CASE AttestationStep
  BY <1>1, <1>2, FailureInOrder DEF AttestationStep
<1>3. CASE CallStep
  BY <1>3, ExecuteInOrder, SubmittersInOrder DEF CallStep
<1>4. CASE ProcessorStep
  BY <1>4, ProcessorInOrder DEF ProcessorStep
<1>5. CASE QuietBlock \/ UNCHANGED allVars
  BY <1>5, StutterInOrder
<1>6. CASE UserDeposits \/ UserWithdraws \/ Governs
  BY <1>6, DepositInOrder, WithdrawInOrder, GovernInOrder
<1>7. CASE \E l \in ListenerNode : ListenerStep(l) \/ ListenerCrashes(l)
  BY <1>7, ListenersInOrder
<1>8. CASE \E k \in ApproverNode : ApproverStep(k)
  BY <1>8, ApproversInOrder
<1>9. CASE \/ \E s \in Submitter : SubmitterLooks(s) \/ SubmitterCrashes(s)
           \/ \E m \in outbox : CallIsLost(m)
  BY <1>9, SubmittersInOrder
<1> QED
  BY <1>2, <1>3, <1>4, <1>5, <1>6, <1>7, <1>8, <1>9, Zenon DEF BridgeNext

LEMMA StartInOrder ==
  ASSUME BridgeInit
  PROVE  BridgeInv /\ EventLink!Init /\ ActionLink!Init
<1>1. IsSeq(<< >>) /\ Len(<< >>) = 0 /\ DOMAIN << >> = 1..0
  <2>1. << >> \in Seq({}) /\ Len(<< >>) = 0
    OBVIOUS
  <2> QED
    BY <2>1, SeqLength DEF IsSeq
<1>2. ASSUME NEW c \in Chain PROVE EventsInOrder(c) /\ ActionsInOrder(c)
  <2>1. /\ nextEvent[c] = 1 /\ pendingEvents[c] = << >> /\ processed[c] = << >>
        /\ events[c] = << >> /\ actions[c] = << >> /\ executed[c] = << >>
    BY DEF BridgeInit
  <2> QED
    BY <1>1, <2>1 DEF EventsInOrder, ActionsInOrder
<1>3. OverChains
  BY DEF BridgeInit, OverChains, ForChains
<1>4. attesting = {} /\ outbox = {}
  BY DEF BridgeInit
<1>5. EventLink!Init
  BY DEF BridgeInit, EventLink!Init
<1>6. ActionLink!Init
  <2>1. [i \in DOMAIN << >> |-> << >>[i].action] = << >>
    BY <1>1
  <2> QED
    BY <2>1 DEF BridgeInit, ActionLink!Init
<1> QED
  BY <1>2, <1>3, <1>4, <1>5, <1>6 DEF BridgeInv

-----------------------------------------------------------------------------
\* Kolme processes a contract's events once and in order, and a contract executes
\* Kolme's actions once and in order, whatever listeners, approvers and submitters
\* do and however often they crash (execute.rs listener, the contract's signed).
THEOREM TakesInOrder == BridgeSpec => TakenInOrder
<1>1. BridgeSpec => []BridgeInv
  <2>1. BridgeInit => BridgeInv
    BY StartInOrder
  <2>2. BridgeInv /\ [BridgeNext]_allVars => BridgeInv'
    BY StepInOrder DEF InOrder
  <2> QED
    BY <2>1, <2>2, PTL DEF BridgeSpec
<1>2. BridgeInit => EventLink!Init /\ ActionLink!Init
  BY StartInOrder
<1>3. BridgeInv /\ [BridgeNext]_allVars => EventLink!Next /\ ActionLink!Next
  BY StepInOrder DEF InOrder
<1> QED
  BY <1>1, <1>2, <1>3, PTL DEF BridgeSpec, TakenInOrder, EventLink!Spec, ActionLink!Spec

-----------------------------------------------------------------------------
\* What events and actions move.

\* What is in Chain or User is summed over a finite set.
LEMMA Finite == IsFiniteSet(User) /\ IsFiniteSet(Chain)
  BY BridgeAssumption

\* What moves funds moves them for a user.
IsMoney(item) ==
  item.kind \in {"regular", "transfer"} => item.user \in User /\ item.amount \in Int

Worth(item) == IF item.kind \in {"regular", "transfer"} THEN item.amount ELSE 0

\* What those of the items that have a number in S move for u, and for all users.
Share(items, S, u) == SumFunctionOnSet([i \in S |-> Due(items[i], u)], S)
Owed(items, S) == SumFunctionOnSet([u \in User |-> Share(items, S, u)], User)

LEMMA TotalIs ==
  ASSUME NEW items, NEW S, NEW f, f = [i \in S |-> items[i]], NEW u
  PROVE  Total(f, u) = Share(items, S, u)
<1>1. [i \in DOMAIN f |-> Due(f[i], u)] = [i \in S |-> Due(items[i], u)]
  OBVIOUS
<1> QED
  BY <1>1 DEF Total, Share, SumFunction

LEMMA MovedIs ==
  ASSUME NEW items, NEW S, NEW f, f = [i \in S |-> items[i]]
  PROVE  Moved(f) = Owed(items, S)
<1>1. [u \in User |-> Total(f, u)] = [u \in User |-> Share(items, S, u)]
  BY TotalIs
<1> QED
  BY <1>1 DEF Moved, Owed, SumFunction

LEMMA OwedSame ==
  ASSUME NEW items, NEW others, NEW S, \A i \in S : others[i] = items[i]
  PROVE  Owed(others, S) = Owed(items, S)
<1>1. ASSUME NEW u PROVE Share(others, S, u) = Share(items, S, u)
  <2>1. [i \in S |-> Due(others[i], u)] = [i \in S |-> Due(items[i], u)]
    OBVIOUS
  <2> QED
    BY <2>1 DEF Share
<1>2. [u \in User |-> Share(others, S, u)] = [u \in User |-> Share(items, S, u)]
  BY <1>1
<1> QED
  BY <1>2 DEF Owed

LEMMA DueType ==
  ASSUME NEW item, IsMoney(item), NEW u
  PROVE  Due(item, u) \in Int
BY DEF IsMoney, Due

LEMMA ShareType ==
  ASSUME NEW items, NEW S, IsFiniteSet(S), \A i \in S : IsMoney(items[i]), NEW u
  PROVE  Share(items, S, u) \in Int
<1>1. PICK f : f = [i \in S |-> Due(items[i], u)]
  OBVIOUS
<1>2. \A i \in S : f[i] \in Int
  BY <1>1, DueType
<1>3. SumFunctionOnSet(f, S) \in Int
  BY <1>2, SumType
<1> QED
  BY <1>1, <1>3 DEF Share

LEMMA OwedType ==
  ASSUME NEW items, NEW S, IsFiniteSet(S), \A i \in S : IsMoney(items[i])
  PROVE  Owed(items, S) \in Int
<1>1. PICK f : f = [u \in User |-> Share(items, S, u)]
  OBVIOUS
<1>2. \A u \in User : f[u] \in Int
  BY <1>1, ShareType
<1>3. SumFunctionOnSet(f, User) \in Int
  BY <1>2, SumType, Finite
<1> QED
  BY <1>1, <1>3 DEF Owed

LEMMA OwedOfNothing ==
  ASSUME NEW items
  PROVE  Owed(items, {}) = 0
<1>1. ASSUME NEW u PROVE Share(items, {}, u) = 0
  <2>1. PICK f : f = [i \in {} |-> Due(items[i], u)]
    OBVIOUS
  <2>2. SumFunctionOnSet(f, {}) = 0
    BY FS_EmptySet, SumOfNothing
  <2> QED
    BY <2>1, <2>2 DEF Share
<1>2. PICK g : g = [u \in User |-> Share(items, {}, u)]
  OBVIOUS
<1>3. \A u \in User : g[u] = 0
  BY <1>1, <1>2
<1>4. SumFunctionOnSet(g, User) = 0
  BY <1>3, SumOfNothing, Finite
<1> QED
  BY <1>2, <1>4 DEF Owed

LEMMA OwedJoins ==
  ASSUME NEW items, NEW S, NEW T, IsFiniteSet(S), IsFiniteSet(T), S \cap T = {},
         \A i \in S \cup T : IsMoney(items[i])
  PROVE  Owed(items, S \cup T) = Owed(items, S) + Owed(items, T)
<1>1. ASSUME NEW u \in User
      PROVE  Share(items, S \cup T, u) = Share(items, S, u) + Share(items, T, u)
  <2>1. PICK f, g, h : /\ f = [i \in S |-> Due(items[i], u)]
                       /\ g = [i \in T |-> Due(items[i], u)]
                       /\ h = [i \in S \cup T |-> Due(items[i], u)]
    OBVIOUS
  <2>2. \A i \in S \cup T : h[i] \in Int
    BY <2>1, DueType
  <2>3. SumFunctionOnSet(h, S \cup T) = SumFunctionOnSet(h, S) + SumFunctionOnSet(h, T)
    BY <2>2, SumJoins
  <2>4. SumFunctionOnSet(f, S) = SumFunctionOnSet(h, S)
    <3>1. \A i \in S : h[i] \in Int /\ f[i] = h[i]
      BY <2>1, <2>2
    <3> QED
      BY <3>1, SumSame
  <2>5. SumFunctionOnSet(g, T) = SumFunctionOnSet(h, T)
    <3>1. \A i \in T : h[i] \in Int /\ g[i] = h[i]
      BY <2>1, <2>2
    <3> QED
      BY <3>1, SumSame
  <2> QED
    BY <2>1, <2>3, <2>4, <2>5 DEF Share
<1>2. PICK f, g, h : /\ f = [u \in User |-> Share(items, S, u)]
                     /\ g = [u \in User |-> Share(items, T, u)]
                     /\ h = [u \in User |-> Share(items, S \cup T, u)]
  OBVIOUS
<1>3. \A u \in User : f[u] \in Int /\ g[u] \in Int /\ h[u] = f[u] + g[u]
  BY <1>1, <1>2, ShareType
<1>4. SumFunctionOnSet(h, User) = SumFunctionOnSet(f, User) + SumFunctionOnSet(g, User)
  BY <1>3, SumAdds, Finite
<1> QED
  BY <1>2, <1>4 DEF Owed

LEMMA OwedOne ==
  ASSUME NEW items, NEW i, IsMoney(items[i])
  PROVE  Owed(items, {i}) = Worth(items[i]) /\ Worth(items[i]) \in Int
<1>0. PICK e : e = items[i]
  OBVIOUS
<1>1. ASSUME NEW u PROVE Share(items, {i}, u) = Due(e, u)
  <2>1. PICK f : f = [j \in {i} |-> Due(items[j], u)]
    OBVIOUS
  <2>2. f[i] = Due(e, u) /\ f[i] \in Int
    BY <2>1, <1>0, DueType
  <2>3. IsFiniteSet({i}) /\ {i} \ {i} = {} /\ \A j \in {i} : f[j] \in Int
    BY <2>2, FS_Singleton
  <2>4. SumFunctionOnSet(f, {i}) = f[i] + SumFunctionOnSet(f, {})
    BY <2>3, SumWithout
  <2>5. SumFunctionOnSet(f, {}) = 0
    BY SumOfNothing, FS_EmptySet
  <2> QED
    BY <2>1, <2>2, <2>4, <2>5 DEF Share
<1>2. PICK g : g = [u \in User |-> Share(items, {i}, u)]
  OBVIOUS
<1>3. \A u \in User : g[u] = Due(e, u)
  BY <1>1, <1>2
<1>4. CASE e.kind \in {"regular", "transfer"}
  <2>1. PICK v : v = e.user
    OBVIOUS
  <2>2. v \in User /\ g[v] = e.amount /\ g[v] \in Int /\ \A u \in User \ {v} : g[u] = 0
    BY <1>0, <1>3, <1>4, <2>1 DEF IsMoney, Due
  <2>3. SumFunctionOnSet(g, User) = g[v] + SumFunctionOnSet(g, User \ {v})
    <3>1. \A u \in User : g[u] \in Int
      BY <2>2
    <3> QED
      BY <2>2, <3>1, SumWithout, Finite
  <2>4. SumFunctionOnSet(g, User \ {v}) = 0
    <3>1. IsFiniteSet(User \ {v})
      BY Finite, FS_Difference
    <3> QED
      BY <2>2, <3>1, SumOfNothing
  <2> QED
    BY <1>0, <1>2, <1>4, <2>2, <2>3, <2>4 DEF Owed, Worth
<1>5. CASE e.kind \notin {"regular", "transfer"}
  <2>1. \A u \in User : g[u] = 0
    BY <1>3, <1>5 DEF Due
  <2>2. SumFunctionOnSet(g, User) = 0
    BY <2>1, SumOfNothing, Finite
  <2> QED
    BY <1>0, <1>2, <1>5, <2>2 DEF Owed, Worth
<1> QED
  BY <1>4, <1>5

\* One more item: of s there are n, of t one more, and k are taken.
Grows(s, t, n, k) ==
  /\ Owed(t, (k + 1)..(n + 1)) = Owed(s, (k + 1)..n) + Worth(t[n + 1])
  /\ Owed(s, (k + 1)..n) \in Int

LEMMA OwedGrows ==
  ASSUME NEW s, NEW t, NEW n \in Nat, NEW k \in Nat, k <= n,
         \A i \in 1..n : t[i] = s[i] /\ IsMoney(s[i]), IsMoney(t[n + 1])
  PROVE  Grows(s, t, n, k)
<1>1. /\ (k + 1)..(n + 1) = ((k + 1)..n) \cup {n + 1}
      /\ ((k + 1)..n) \cap {n + 1} = {}
      /\ \A i \in (k + 1)..n : i \in 1..n
  OBVIOUS
<1>2. IsFiniteSet((k + 1)..n) /\ IsFiniteSet({n + 1})
  <2>1. k + 1 \in Int /\ n \in Int
    OBVIOUS
  <2>2. IsFiniteSet((k + 1)..n)
    BY <2>1, FS_Interval
  <2> QED
    BY <2>2, FS_Singleton
<1>3. \A i \in ((k + 1)..n) \cup {n + 1} : IsMoney(t[i])
  BY <1>1
<1>4. Owed(t, ((k + 1)..n) \cup {n + 1}) = Owed(t, (k + 1)..n) + Owed(t, {n + 1})
  BY <1>1, <1>2, <1>3, OwedJoins
<1>5. Owed(t, (k + 1)..n) = Owed(s, (k + 1)..n)
  BY <1>1, OwedSame
<1>6. Owed(t, {n + 1}) = Worth(t[n + 1])
  BY OwedOne
<1>7. Owed(s, (k + 1)..n) \in Int
  BY <1>1, <1>2, OwedType
<1> QED
  BY <1>1, <1>4, <1>5, <1>6, <1>7 DEF Grows

\* What is owed up to m and after it.
Parts(s, n, k, m) ==
  /\ Owed(s, (k + 1)..n) = Owed(s, (k + 1)..m) + Owed(s, (m + 1)..n)
  /\ Owed(s, (k + 1)..m) \in Int /\ Owed(s, (m + 1)..n) \in Int

LEMMA OwedParts ==
  ASSUME NEW s, NEW n \in Nat, NEW k \in Nat, NEW m \in Nat, k <= m, m <= n,
         \A i \in 1..n : IsMoney(s[i])
  PROVE  Parts(s, n, k, m)
<1>1. /\ (k + 1)..n = ((k + 1)..m) \cup ((m + 1)..n)
      /\ ((k + 1)..m) \cap ((m + 1)..n) = {}
      /\ \A i \in ((k + 1)..m) \cup ((m + 1)..n) : i \in 1..n
  OBVIOUS
<1>2. IsFiniteSet((k + 1)..m) /\ IsFiniteSet((m + 1)..n)
  BY FS_Interval
<1>3. \A i \in ((k + 1)..m) \cup ((m + 1)..n) : IsMoney(s[i])
  BY <1>1
<1>4. Owed(s, (k + 1)..m) \in Int /\ Owed(s, (m + 1)..n) \in Int
  BY <1>2, <1>3, OwedType
<1> QED
  BY <1>1, <1>2, <1>3, <1>4, OwedJoins DEF Parts

-----------------------------------------------------------------------------
\* Money on its way.

\* The inductive invariant: besides that either direction is in order, that
\* amounts are numbers and that only a deposit is an event that moves funds.
MoneyOK ==
  /\ balance \in [User -> Int] /\ funds \in [Chain -> Int]
  /\ IsSeq(emitted)
  /\ \A c \in Chain :
       /\ \A i \in 1..Len(events[c]) : IsMoney(events[c][i])
       /\ \A i \in 1..Len(actions[c]) :
            IsMoney(actions[c][i].action) /\ actions[c][i].action.kind # "regular"

FundsInv == BridgeInv /\ MoneyOK /\ FundsConserved

\* What the contract of c and Kolme have sent each other and not taken yet.
OnItsWay(c) == Uncredited(c) + Unpaid(c)
Way == [c \in Chain |-> OnItsWay(c)]

LEMMA Lengths ==
  ASSUME BridgeInv, NEW c \in Chain
  PROVE  /\ Len(events[c]) \in Nat /\ Len(processed[c]) \in Nat
         /\ Len(processed[c]) <= Len(events[c])
         /\ Len(actions[c]) \in Nat /\ Len(executed[c]) \in Nat
         /\ Len(executed[c]) <= Len(actions[c])
BY SeqLength DEF BridgeInv, EventsInOrder, ActionsInOrder

\* What is on its way in terms of Owed, which the lemmas above are about.
WayFacts(c) ==
  /\ Uncredited(c) = Owed(events[c], (Len(processed[c]) + 1)..Len(events[c]))
  /\ Unpaid(c) = Owed(Sent[c], (Len(executed[c]) + 1)..Len(actions[c]))
  /\ Uncredited(c) \in Int /\ Unpaid(c) \in Int /\ OnItsWay(c) \in Int
  /\ \A i \in 1..Len(actions[c]) :
       IsMoney(Sent[c][i]) /\ Sent[c][i] = actions[c][i].action

LEMMA WayIs ==
  ASSUME BridgeInv, MoneyOK, NEW c \in Chain
  PROVE  WayFacts(c)
<1>1. PICK S, T : /\ S = (Len(processed[c]) + 1)..Len(events[c])
                  /\ T = (Len(executed[c]) + 1)..Len(actions[c])
  OBVIOUS
<1>2. /\ \A i \in S : i \in 1..Len(events[c])
      /\ \A i \in T : i \in 1..Len(actions[c])
  BY <1>1, Lengths
<1>3. \A i \in 1..Len(actions[c]) : Sent[c][i] = actions[c][i].action
  BY SentIs
<1>4. IsFiniteSet(S) /\ IsFiniteSet(T)
  <2>1. /\ Len(processed[c]) + 1 \in Int /\ Len(events[c]) \in Int
        /\ Len(executed[c]) + 1 \in Int /\ Len(actions[c]) \in Int
    BY Lengths
  <2> QED
    BY <1>1, <2>1, FS_Interval
<1>5. (\A i \in S : IsMoney(events[c][i])) /\ \A i \in T : IsMoney(Sent[c][i])
  BY <1>2, <1>3 DEF MoneyOK
<1>6. Uncredited(c) = Owed(events[c], S)
  BY <1>1, MovedIs DEF Uncredited
<1>7. Unpaid(c) = Owed(Sent[c], T)
  <2>1. PICK f : f = [i \in T |-> actions[c][i].action]
    OBVIOUS
  <2>2. f = [i \in T |-> Sent[c][i]]
    BY <1>2, <1>3, <2>1
  <2>3. Moved(f) = Owed(Sent[c], T)
    BY <2>2, MovedIs
  <2> QED
    BY <1>1, <2>1, <2>3 DEF Unpaid
<1>8. Owed(events[c], S) \in Int /\ Owed(Sent[c], T) \in Int
  BY <1>4, <1>5, OwedType
<1>9. Uncredited(c) \in Int /\ Unpaid(c) \in Int
  BY <1>6, <1>7, <1>8
<1>10. OnItsWay(c) \in Int
  BY <1>9 DEF OnItsWay
<1> QED
  BY <1>1, <1>3, <1>6, <1>7, <1>9, <1>10 DEF MoneyOK, WayFacts

WayFactsHold == \A c \in Chain : WayFacts(c)

LEMMA WayIsAll == BridgeInv /\ MoneyOK => WayFactsHold
  BY WayIs DEF WayFactsHold

\* The same after a step.
LEMMA WayIsThen ==
  ASSUME BridgeInv', MoneyOK', NEW c \in Chain
  PROVE  WayFacts(c)'
<1>1. (BridgeInv /\ MoneyOK => WayFactsHold)'
  BY WayIsAll, PTL
<1> QED
  BY <1>1 DEF WayFactsHold

ConservedFact ==
  FundsConserved <=>
    Scale * SumFunctionOnSet(funds, Chain)
      = SumFunctionOnSet(balance, User) + Scale * SumFunctionOnSet(Way, Chain)

LEMMA ConservedIs == MoneyOK => ConservedFact
<1> SUFFICES ASSUME MoneyOK PROVE ConservedFact
  OBVIOUS
<1>1. DOMAIN funds = Chain /\ DOMAIN balance = User /\ DOMAIN Way = Chain
  BY DEF MoneyOK, Way
<1>2. Way = [c \in Chain |-> Uncredited(c) + Unpaid(c)]
  BY DEF Way, OnItsWay
<1>3. FundsConserved <=>
        Scale * SumFunction(funds) = SumFunction(balance) + Scale * SumFunction(Way)
  BY <1>2 DEF FundsConserved
<1> QED
  BY <1>1, <1>3 DEF SumFunction, ConservedFact

\* What a step puts into the contracts, and into the accounts, leaves or enters
\* what is on its way.
LEMMA StaysBalanced ==
  ASSUME NEW k \in Int, NEW f \in Int, NEW b \in Int, NEW w \in Int,
         k * f = b + k * w, NEW x \in Int, NEW y \in Int
  PROVE  k * (f + x) = (b + k * y) + k * (w + (x - y))
<1>1. k * (f + x) = k * f + k * x
  BY Distributes
<1>2. x - y \in Int /\ y + (x - y) = x
  OBVIOUS
<1>3. k * (w + (x - y)) = k * w + k * (x - y)
  BY <1>2, Distributes
<1>4. k * x = k * y + k * (x - y)
  BY <1>2, Distributes
<1>5. k * f \in Int /\ k * w \in Int /\ k * y \in Int /\ k * (x - y) \in Int
  BY <1>2, Distributes
<1>6. PICK kf, kw, ky, kxy :
        kf = k * f /\ kw = k * w /\ ky = k * y /\ kxy = k * (x - y)
  OBVIOUS
<1>7. kf + (ky + kxy) = (b + ky) + (kw + kxy)
  BY <1>5, <1>6
<1> QED
  BY <1>1, <1>3, <1>4, <1>6, <1>7

LEMMA StepConserves ==
  ASSUME BridgeInv, MoneyOK, FundsConserved, BridgeInv', MoneyOK',
         NEW c \in Chain, NEW x \in Int, NEW y \in Int,
         SumFunctionOnSet(funds', Chain) = SumFunctionOnSet(funds, Chain) + x,
         SumFunctionOnSet(balance', User) = SumFunctionOnSet(balance, User) + Scale * y,
         OnItsWay(c)' = OnItsWay(c) + (x - y),
         \A d \in Chain \ {c} : OnItsWay(d)' = OnItsWay(d)
  PROVE  FundsConserved'
<1>0. Scale \in Int
  BY BridgeAssumption
<1>1. \A d \in Chain : Way[d] \in Int /\ Way[d] = OnItsWay(d) /\ Way'[d] = OnItsWay(d)'
  BY WayIs DEF Way, WayFacts
<1>2. Way'[c] = Way[c] + (x - y) /\ \A d \in Chain \ {c} : Way'[d] = Way[d]
  BY <1>1
<1>3. x - y \in Int
  OBVIOUS
<1>4. SumFunctionOnSet(Way', Chain) = SumFunctionOnSet(Way, Chain) + (x - y)
  BY <1>1, <1>2, <1>3, Finite, SumChanges
<1>5. SumFunctionOnSet(Way, Chain) \in Int
  BY <1>1, Finite, SumType
<1>6. SumFunctionOnSet(funds, Chain) \in Int /\ SumFunctionOnSet(balance, User) \in Int
  <2>1. (\A d \in Chain : funds[d] \in Int) /\ \A u \in User : balance[u] \in Int
    BY DEF MoneyOK
  <2> QED
    BY <2>1, Finite, SumType
<1>7. Scale * SumFunctionOnSet(funds, Chain)
        = SumFunctionOnSet(balance, User) + Scale * SumFunctionOnSet(Way, Chain)
  BY ConservedIs DEF ConservedFact
<1>8. PICK f, b, w :
        /\ f = SumFunctionOnSet(funds, Chain) /\ b = SumFunctionOnSet(balance, User)
        /\ w = SumFunctionOnSet(Way, Chain)
  OBVIOUS
<1>9. Scale * (f + x) = (b + Scale * y) + Scale * (w + (x - y))
  <2>1. f \in Int /\ b \in Int /\ w \in Int /\ Scale * f = b + Scale * w
    BY <1>5, <1>6, <1>7, <1>8
  <2> QED
    BY <1>0, <2>1, StaysBalanced
<1>10. Scale * SumFunctionOnSet(funds', Chain)
         = SumFunctionOnSet(balance', User) + Scale * SumFunctionOnSet(Way', Chain)
  BY <1>4, <1>8, <1>9
<1>11. (MoneyOK => ConservedFact)'
  BY ConservedIs, PTL
<1> QED
  BY <1>10, <1>11 DEF ConservedFact

\* Either side of what is on its way, when nothing is added or taken, and when
\* something is added.
LEMMA UncreditedKept ==
  ASSUME NEW c, events'[c] = events[c], Len(processed'[c]) = Len(processed[c])
  PROVE  Uncredited(c)' = Uncredited(c)
BY DEF Uncredited

LEMMA UnpaidKept ==
  ASSUME BridgeInv, NEW c \in Chain, Len(executed'[c]) = Len(executed[c]), SameActions
  PROVE  Unpaid(c)' = Unpaid(c)
<1>1. PICK T : T = (Len(executed[c]) + 1)..Len(actions[c])
  OBVIOUS
<1>2. \A i \in T : i \in 1..Len(actions[c])
  BY <1>1, Lengths
<1>3. T = (Len(executed'[c]) + 1)..Len(actions'[c])
  BY <1>1 DEF SameActions
<1>4. [i \in T |-> actions'[c][i].action] = [i \in T |-> actions[c][i].action]
  BY <1>2 DEF SameActions
<1> QED
  BY <1>1, <1>3, <1>4 DEF Unpaid

LEMMA UncreditedGrows ==
  ASSUME BridgeInv, MoneyOK, BridgeInv', MoneyOK', NEW c \in Chain, NEW e,
         Len(events'[c]) = Len(events[c]) + 1,
         \A i \in 1..Len(events[c]) : events'[c][i] = events[c][i],
         events'[c][Len(events[c]) + 1] = e, Len(processed'[c]) = Len(processed[c])
  PROVE  /\ Uncredited(c)' = Uncredited(c) + Worth(e)
         /\ Uncredited(c) \in Int /\ Worth(e) \in Int
<1>1. PICK s, t, n, k :
        /\ s = events[c] /\ t = events'[c] /\ n = Len(events[c]) /\ k = Len(processed[c])
  OBVIOUS
<1>2. n \in Nat /\ k \in Nat /\ k <= n
  BY <1>1, Lengths
<1>3. \A i \in 1..n : t[i] = s[i] /\ IsMoney(s[i])
  BY <1>1 DEF MoneyOK
<1>4. IsMoney(t[n + 1])
  <2>1. n + 1 \in 1..Len(events'[c])
    BY <1>1, <1>2
  <2> QED
    BY <1>1, <2>1 DEF MoneyOK
<1>5. Owed(t, (k + 1)..(n + 1)) = Owed(s, (k + 1)..n) + Worth(t[n + 1])
  <2>1. Grows(s, t, n, k)
    BY <1>2, <1>3, <1>4, OwedGrows
  <2> QED
    BY <2>1 DEF Grows
<1>6. Uncredited(c) = Owed(s, (k + 1)..n) /\ Uncredited(c) \in Int
  BY <1>1, WayIs DEF WayFacts
<1>7. Uncredited(c)' = Owed(t, (k + 1)..(n + 1))
  <2>1. Uncredited(c)' = Owed(events'[c], (Len(processed'[c]) + 1)..Len(events'[c]))
    BY WayIsThen DEF WayFacts
  <2> QED
    BY <1>1, <2>1
<1>8. Worth(e) \in Int
  BY <1>1, <1>4, OwedOne
<1> QED
  BY <1>1, <1>5, <1>6, <1>7, <1>8

LEMMA UnpaidGrows ==
  ASSUME BridgeInv, MoneyOK, BridgeInv', MoneyOK', NEW c \in Chain, NEW a,
         Len(actions'[c]) = Len(actions[c]) + 1,
         \A i \in 1..Len(actions[c]) : actions'[c][i] = actions[c][i],
         actions'[c][Len(actions[c]) + 1].action = a, Len(executed'[c]) = Len(executed[c])
  PROVE  /\ Unpaid(c)' = Unpaid(c) + Worth(a)
         /\ Unpaid(c) \in Int /\ Worth(a) \in Int
<1>1. PICK s, t, n, k :
        /\ s = Sent[c] /\ t = Sent'[c] /\ n = Len(actions[c]) /\ k = Len(executed[c])
  OBVIOUS
<1>2. n \in Nat /\ k \in Nat /\ k <= n
  BY <1>1, Lengths
<1>3. WayFacts(c) /\ WayFacts(c)'
  BY WayIs, WayIsThen
<1>4. \A i \in 1..(n + 1) : IsMoney(t[i]) /\ t[i] = actions'[c][i].action
  BY <1>1, <1>3 DEF WayFacts
<1>5. \A i \in 1..n : IsMoney(s[i]) /\ s[i] = actions[c][i].action
  BY <1>1, <1>3 DEF WayFacts
<1>6. n + 1 \in 1..(n + 1) /\ \A i \in 1..n : i \in 1..(n + 1)
  BY <1>2
<1>7. \A i \in 1..n : t[i] = s[i] /\ IsMoney(s[i])
  <2>1. ASSUME NEW i \in 1..n PROVE t[i] = s[i] /\ IsMoney(s[i])
    <3>1. t[i] = actions'[c][i].action
      BY <1>4, <1>6
    <3>2. s[i] = actions[c][i].action /\ IsMoney(s[i])
      BY <1>5
    <3>3. actions'[c][i] = actions[c][i]
      BY <1>1
    <3> QED
      BY <3>1, <3>2, <3>3
  <2> QED
    BY <2>1
<1>8. IsMoney(t[n + 1]) /\ t[n + 1] = a
  BY <1>1, <1>4, <1>6
<1>9. Owed(t, (k + 1)..(n + 1)) = Owed(s, (k + 1)..n) + Worth(t[n + 1])
  <2>1. Grows(s, t, n, k)
    BY <1>2, <1>7, <1>8, OwedGrows
  <2> QED
    BY <2>1 DEF Grows
<1>10. Unpaid(c) = Owed(s, (k + 1)..n) /\ Unpaid(c) \in Int
  BY <1>1, <1>3 DEF WayFacts
<1>11. Unpaid(c)' = Owed(t, (k + 1)..(n + 1))
  <2>1. Unpaid(c)' = Owed(Sent'[c], (Len(executed'[c]) + 1)..Len(actions'[c]))
    BY <1>3 DEF WayFacts
  <2> QED
    BY <1>1, <2>1
<1>12. Worth(a) \in Int
  BY <1>8, OwedOne
<1> QED
  BY <1>8, <1>9, <1>10, <1>11, <1>12

LEMMA NothingMoves ==
  ASSUME FundsConserved, funds' = funds, balance' = balance,
         \A c \in Chain : OnItsWay(c)' = OnItsWay(c)
  PROVE  FundsConserved'
<1>1. Way' = Way
  BY DEF Way
<1>2. FundsConserved <=> Scale * SumFunction(funds) = SumFunction(balance) + Scale * SumFunction(Way)
  BY DEF FundsConserved, Way, OnItsWay
<1>3. FundsConserved' <=>
        Scale * SumFunction(funds') = SumFunction(balance') + Scale * SumFunction(Way')
  BY DEF FundsConserved, Way, OnItsWay
<1> QED
  BY <1>1, <1>2, <1>3

\* A step that neither adds nor takes anything.
LEMMA CarriersConserve ==
  ASSUME FundsInv, SameActions,
         UNCHANGED <<events, processed, executed, funds, balance, emitted>>
  PROVE  MoneyOK' /\ FundsConserved'
<1>1. BridgeInv /\ MoneyOK /\ FundsConserved
  BY DEF FundsInv
<1>2. ASSUME NEW c \in Chain PROVE OnItsWay(c)' = OnItsWay(c)
  BY <1>1, UncreditedKept, UnpaidKept DEF OnItsWay
<1>3. FundsConserved'
  BY <1>1, <1>2, NothingMoves
<1>4. MoneyOK'
  BY <1>1 DEF MoneyOK, SameActions
<1> QED
  BY <1>3, <1>4

LEMMA ActionAppended ==
  ASSUME BridgeInv, NEW c \in Chain, NEW a, actions'[c] = Append(actions[c], Unsigned(a))
  PROVE  /\ Len(actions'[c]) = Len(actions[c]) + 1
         /\ \A i \in 1..Len(actions[c]) : actions'[c][i] = actions[c][i]
         /\ actions'[c][Len(actions[c]) + 1].action = a
         /\ \A i \in 1..Len(actions'[c]) :
              i \in 1..Len(actions[c]) \/ i = Len(actions[c]) + 1
<1>1. IsSeq(actions[c]) /\ Len(actions[c]) \in Nat
  BY SeqLength DEF BridgeInv, ActionsInOrder
<1>2. PICK s, e : s = actions[c] /\ e = Unsigned(a)
  OBVIOUS
<1>3. /\ Len(Append(s, e)) = Len(s) + 1
      /\ \A i \in 1..Len(s) : Append(s, e)[i] = s[i]
      /\ Append(s, e)[Len(s) + 1] = e
  BY <1>1, <1>2, AppendToSeq
<1>4. e.action = a
  BY <1>2 DEF Unsigned
<1> QED
  BY <1>1, <1>2, <1>3, <1>4

-----------------------------------------------------------------------------
\* The steps, and the money.

LEMMA DepositConserves ==
  ASSUME FundsInv, BridgeInv', UserDeposits
  PROVE  MoneyOK' /\ FundsConserved'
<1>0. BridgeInv /\ MoneyOK /\ FundsConserved
  BY DEF FundsInv
<1>1. PICK u \in User, d \in Chain, n \in Deposits :
        /\ funds' = [funds EXCEPT ![d] = @ + n]
        /\ events' = [events EXCEPT ![d] = Append(@, Regular(u, n))]
  BY DEF UserDeposits
<1>2. UNCHANGED <<processed, actions, executed, balance, emitted>>
  BY DEF UserDeposits, vars, chainVars, kolmeVars
<1>3. PICK e : e = Regular(u, n)
  OBVIOUS
<1>4. n \in Int /\ IsMoney(e) /\ Worth(e) = n
  <2>1. n \in Int
    BY BridgeAssumption
  <2> QED
    BY <2>1, <1>3 DEF IsMoney, Worth, Regular
<1>5. /\ funds \in [Chain -> Int] /\ funds' \in [Chain -> Int]
      /\ funds'[d] = funds[d] + n /\ \A c \in Chain \ {d} : funds'[c] = funds[c]
  BY <1>0, <1>1, <1>4 DEF MoneyOK
<1>6. /\ events'[d] = Append(events[d], e)
      /\ \A c \in Chain \ {d} : events'[c] = events[c]
  BY <1>0, <1>1, <1>3 DEF BridgeInv, OverChains
<1>7. /\ Len(events'[d]) = Len(events[d]) + 1 /\ Len(events[d]) \in Nat
      /\ \A i \in 1..Len(events[d]) : events'[d][i] = events[d][i]
      /\ events'[d][Len(events[d]) + 1] = e
  <2>1. IsSeq(events[d])
    BY <1>0 DEF BridgeInv, EventsInOrder
  <2> QED
    BY <2>1, <1>6, SeqLength, AppendToSeq
<1>8. \A c \in Chain : \A i \in 1..Len(events'[c]) : IsMoney(events'[c][i])
  <2>1. \A i \in 1..Len(events'[d]) : i \in 1..Len(events[d]) \/ i = Len(events[d]) + 1
    BY <1>7
  <2>2. \A i \in 1..Len(events'[d]) : IsMoney(events'[d][i])
    BY <2>1, <1>0, <1>4, <1>7 DEF MoneyOK
  <2>3. ASSUME NEW c \in Chain \ {d}, NEW i \in 1..Len(events'[c]) PROVE IsMoney(events'[c][i])
    <3>1. events'[c] = events[c]
      BY <1>6
    <3> QED
      BY <3>1, <1>0 DEF MoneyOK
  <2> QED
    BY <2>2, <2>3
<1>9. MoneyOK'
  BY <1>0, <1>2, <1>5, <1>8 DEF MoneyOK
<1>10. SumFunctionOnSet(funds', Chain) = SumFunctionOnSet(funds, Chain) + n
  <2>1. \A c \in Chain : funds[c] \in Int
    BY <1>5
  <2> QED
    BY <2>1, <1>4, <1>5, Finite, SumChanges
<1>11. SumFunctionOnSet(balance', User) = SumFunctionOnSet(balance, User) + Scale * 0
  <2>1. SumFunctionOnSet(balance, User) \in Int
    BY <1>0, Finite, SumType DEF MoneyOK
  <2>2. Scale * 0 = 0
    BY BridgeAssumption
  <2> QED
    BY <2>1, <2>2, <1>2
<1>12. ASSUME NEW c \in Chain PROVE Unpaid(c)' = Unpaid(c)
  BY <1>2 DEF Unpaid
<1>13. OnItsWay(d)' = OnItsWay(d) + (n - 0)
  <2>1. Uncredited(d)' = Uncredited(d) + n /\ Uncredited(d) \in Int /\ Unpaid(d) \in Int
    <3>1. Uncredited(d)' = Uncredited(d) + Worth(e) /\ Uncredited(d) \in Int
      BY <1>0, <1>2, <1>7, <1>9, UncreditedGrows
    <3> QED
      BY <3>1, <1>0, <1>4, WayIs DEF WayFacts
  <2> QED
    BY <2>1, <1>4, <1>12 DEF OnItsWay
<1>14. ASSUME NEW c \in Chain \ {d} PROVE OnItsWay(c)' = OnItsWay(c)
  BY <1>2, <1>6, <1>12, UncreditedKept DEF OnItsWay
<1> QED
  BY <1>0, <1>4, <1>9, <1>10, <1>11, <1>13, <1>14, StepConserves

LEMMA WithdrawConserves ==
  ASSUME FundsInv, BridgeInv', UserWithdraws
  PROVE  MoneyOK' /\ FundsConserved'
<1>0. BridgeInv /\ MoneyOK /\ FundsConserved
  BY DEF FundsInv
<1>1. PICK u \in User, d \in Chain, w \in Withdrawals : Withdraw(u, d, w)
  BY DEF UserWithdraws
<1>2. PICK n : n = Rounded(w)
  OBVIOUS
<1>3. Scale \in Int /\ n \in Int /\ Scale * n \in Int /\ -n \in Int
      /\ Burnt(w) = Scale * n /\ Scale * (-n) = -(Scale * n)
  <2>1. w \in Int /\ Scale \in Nat \ {0}
    BY BridgeAssumption
  <2>2. n \in Int /\ Burnt(w) = n * Scale
    BY <2>1, <1>2 DEF Rounded, Burnt
  <2> QED
    BY <2>1, <2>2
<1>4. PICK a : a = Transfer(u, n)
  OBVIOUS
<1>5. /\ balance' = [balance EXCEPT ![u] = @ - Burnt(w)]
      /\ actions' = [actions EXCEPT ![d] = Append(@, Unsigned(a))]
      /\ UNCHANGED <<processed, executed, events, funds, emitted>>
  BY <1>1, <1>2, <1>4 DEF UserWithdraws, Withdraw, Emits, vars, chainVars, contractVars
<1>6. IsMoney(a) /\ Worth(a) = n /\ a.kind # "regular"
  BY <1>3, <1>4 DEF IsMoney, Worth, Transfer
<1>7. /\ balance \in [User -> Int] /\ balance' \in [User -> Int]
      /\ balance'[u] = balance[u] + Scale * (-n) /\ \A v \in User \ {u} : balance'[v] = balance[v]
  BY <1>0, <1>3, <1>5 DEF MoneyOK
<1>8. /\ actions'[d] = Append(actions[d], Unsigned(a))
      /\ \A c \in Chain \ {d} : actions'[c] = actions[c]
  BY <1>0, <1>5 DEF BridgeInv, OverChains
<1>9. /\ Len(actions'[d]) = Len(actions[d]) + 1
      /\ \A i \in 1..Len(actions[d]) : actions'[d][i] = actions[d][i]
      /\ actions'[d][Len(actions[d]) + 1].action = a
      /\ \A i \in 1..Len(actions'[d]) : i \in 1..Len(actions[d]) \/ i = Len(actions[d]) + 1
  BY <1>0, <1>8, ActionAppended
<1>10. MoneyOK'
  <2>1. \A i \in 1..Len(actions'[d]) :
          IsMoney(actions'[d][i].action) /\ actions'[d][i].action.kind # "regular"
    BY <1>0, <1>6, <1>9 DEF MoneyOK
  <2>2. ASSUME NEW c \in Chain \ {d}, NEW i \in 1..Len(actions'[c])
        PROVE  IsMoney(actions'[c][i].action) /\ actions'[c][i].action.kind # "regular"
    <3>1. actions'[c] = actions[c]
      BY <1>8
    <3> QED
      BY <3>1, <1>0 DEF MoneyOK
  <2> QED
    BY <2>1, <2>2, <1>0, <1>5, <1>7 DEF MoneyOK
<1>11. SumFunctionOnSet(balance', User) = SumFunctionOnSet(balance, User) + Scale * (-n)
  <2>1. (\A v \in User : balance[v] \in Int) /\ Scale * (-n) \in Int
    BY <1>3, <1>7
  <2> QED
    BY <2>1, <1>7, Finite, SumChanges
<1>12. SumFunctionOnSet(funds', Chain) = SumFunctionOnSet(funds, Chain) + 0
  <2>1. SumFunctionOnSet(funds, Chain) \in Int
    BY <1>0, Finite, SumType DEF MoneyOK
  <2> QED
    BY <2>1, <1>5
<1>13. ASSUME NEW c \in Chain PROVE Uncredited(c)' = Uncredited(c)
  BY <1>5, UncreditedKept
<1>14. OnItsWay(d)' = OnItsWay(d) + (0 - (-n))
  <2>1. Unpaid(d)' = Unpaid(d) + n /\ Unpaid(d) \in Int /\ Uncredited(d) \in Int
    <3>1. Unpaid(d)' = Unpaid(d) + Worth(a) /\ Unpaid(d) \in Int
      BY <1>0, <1>5, <1>9, <1>10, UnpaidGrows
    <3> QED
      BY <3>1, <1>0, <1>6, WayIs DEF WayFacts
  <2> QED
    BY <2>1, <1>3, <1>13 DEF OnItsWay
<1>15. ASSUME NEW c \in Chain \ {d} PROVE OnItsWay(c)' = OnItsWay(c)
  <2>1. Unpaid(c)' = Unpaid(c)
    BY <1>5, <1>8 DEF Unpaid
  <2> QED
    BY <2>1, <1>13 DEF OnItsWay
<1> QED
  BY <1>0, <1>3, <1>10, <1>11, <1>12, <1>14, <1>15, StepConserves

\* What every account gets is what the events that became ready have for it.
Credits(es, S, old, new) ==
  /\ new \in [User -> Int]
  /\ SumFunctionOnSet(new, User) = SumFunctionOnSet(old, User) + Scale * Owed(es, S)

LEMMA CreditsAdd ==
  ASSUME NEW es, NEW S, IsFiniteSet(S), \A i \in S : IsMoney(es[i]),
         NEW old \in [User -> Int], NEW new,
         new = [u \in User |-> old[u] + Scale * Share(es, S, u)]
  PROVE  Credits(es, S, old, new)
<1>1. PICK f, g : /\ f = [u \in User |-> Share(es, S, u)]
                  /\ g = [u \in User |-> Scale * Share(es, S, u)]
  OBVIOUS
<1>2. Scale \in Int
  BY BridgeAssumption
<1>3. \A u \in User : f[u] \in Int /\ g[u] = Scale * f[u]
  BY <1>1, ShareType
<1>4. \A u \in User : g[u] \in Int
  BY <1>2, <1>3, Distributes
<1>5. \A u \in User : new[u] = old[u] + g[u]
  BY <1>1
<1>6. new \in [User -> Int]
  BY <1>4, <1>5
<1>7. SumFunctionOnSet(g, User) = Scale * SumFunctionOnSet(f, User)
  BY <1>2, <1>3, Finite, SumScales
<1>8. SumFunctionOnSet(new, User) = SumFunctionOnSet(old, User) + SumFunctionOnSet(g, User)
  BY <1>4, <1>5, Finite, SumAdds
<1>9. SumFunctionOnSet(f, User) = Owed(es, S)
  BY <1>1 DEF Owed
<1> QED
  BY <1>6, <1>7, <1>8, <1>9 DEF Credits

LEMMA LandsConserves ==
  ASSUME FundsInv, BridgeInv', NEW t \in attesting, ListenerLands(t)
  PROVE  MoneyOK' /\ FundsConserved'
<1>0. BridgeInv /\ MoneyOK /\ FundsConserved
  BY DEF FundsInv
<1>1. PICK c, id, n, pend : Landing(t, c, id, n, pend)
  BY <1>0, LandingIs
<1>2. /\ c \in Chain /\ Process(c, pend)
      /\ UNCHANGED <<actions, executed, events>>
      /\ n \in (Len(processed[c]) + 1)..(Len(events[c]) + 1)
      /\ DOMAIN pend = (Len(processed[c]) + 1)..(n - 1)
      /\ \A i \in DOMAIN pend : pend[i].event = events[c][i]
      /\ Len(processed[c]) <= Len(processed'[c]) /\ Len(processed'[c]) <= n - 1
      /\ \A d \in Chain \ {c} : processed'[d] = processed[d]
      /\ Ready(pend) = (Len(processed[c]) + 1)..Len(processed'[c])
  BY <1>1 DEF Landing
<1>3. UNCHANGED <<funds, emitted>>
  BY DEF ListenerLands, vars, chainVars, contractVars
<1>4. PICK es, S, k, m, l :
        /\ es = events[c] /\ S = Ready(pend)
        /\ k = Len(processed[c]) /\ m = Len(processed'[c]) /\ l = Len(events[c])
  OBVIOUS
<1>5. /\ k \in Nat /\ m \in Nat /\ l \in Nat /\ k <= m /\ m <= l
      /\ S = (k + 1)..m /\ \A i \in S : pend[i].event = es[i]
  <2>1. k \in Nat /\ l \in Nat /\ m \in Nat
    <3>1. k \in Nat /\ l \in Nat
      BY <1>0, <1>2, <1>4, Lengths
    <3>2. IsSeq(processed'[c])
      BY <1>1 DEF Landing
    <3> QED
      BY <3>1, <3>2, <1>4, SeqLength
  <2> QED
    BY <2>1, <1>2, <1>4
<1>6. \A i \in 1..l : IsMoney(es[i])
  BY <1>0, <1>2, <1>4 DEF MoneyOK
<1>7. IsFiniteSet(S) /\ \A i \in S : IsMoney(es[i])
  <2>1. k + 1 \in Int /\ m \in Int /\ \A i \in S : i \in 1..l
    BY <1>5
  <2> QED
    BY <2>1, <1>5, <1>6, FS_Interval
<1>8. balance' = [u \in User |-> balance[u] + Scale * Share(es, S, u)]
  <2>1. PICK credit : credit = [i \in S |-> pend[i].event]
    OBVIOUS
  <2>2. balance' = [u \in User |-> balance[u] + Scale * Total(credit, u)]
    BY <1>2, <1>4, <2>1 DEF Process
  <2>3. credit = [i \in S |-> es[i]]
    BY <1>5, <2>1
  <2>4. \A u \in User : Total(credit, u) = Share(es, S, u)
    BY <2>3, TotalIs
  <2> QED
    BY <2>2, <2>4
<1>9. /\ balance' \in [User -> Int]
      /\ SumFunctionOnSet(balance', User) = SumFunctionOnSet(balance, User) + Scale * Owed(es, S)
  <2>1. balance \in [User -> Int]
    BY <1>0 DEF MoneyOK
  <2>2. Credits(es, S, balance, balance')
    BY <2>1, <1>7, <1>8, CreditsAdd
  <2> QED
    BY <2>2 DEF Credits
<1>10. MoneyOK'
  BY <1>0, <1>2, <1>3, <1>9 DEF MoneyOK
<1>11. SumFunctionOnSet(funds', Chain) = SumFunctionOnSet(funds, Chain) + 0
  <2>1. SumFunctionOnSet(funds, Chain) \in Int
    BY <1>0, Finite, SumType DEF MoneyOK
  <2> QED
    BY <2>1, <1>3
<1>12. ASSUME NEW d \in Chain PROVE Unpaid(d)' = Unpaid(d)
  BY <1>2 DEF Unpaid
<1>13. OnItsWay(c)' = OnItsWay(c) + (0 - Owed(es, S))
  <2>1. Parts(es, l, k, m)
    BY <1>5, <1>6, OwedParts
  <2>2. /\ Owed(es, (k + 1)..l) = Owed(es, S) + Owed(es, (m + 1)..l)
        /\ Owed(es, S) \in Int /\ Owed(es, (m + 1)..l) \in Int
    BY <2>1, <1>5 DEF Parts
  <2>3. Uncredited(c) = Owed(es, (k + 1)..l) /\ Unpaid(c) \in Int
    BY <1>0, <1>2, <1>4, WayIs DEF WayFacts
  <2>4. Uncredited(c)' = Owed(es, (m + 1)..l)
    <3>1. Uncredited(c)' = Owed(events'[c], (Len(processed'[c]) + 1)..Len(events'[c]))
      BY <1>2, <1>10, WayIsThen DEF WayFacts
    <3> QED
      BY <3>1, <1>2, <1>4
  <2>5. PICK p, q, r : p = Owed(es, S) /\ q = Owed(es, (m + 1)..l) /\ r = Unpaid(c)
    OBVIOUS
  <2>6. OnItsWay(c) = (p + q) + r /\ OnItsWay(c)' = q + r
    BY <2>2, <2>3, <2>4, <2>5, <1>2, <1>12 DEF OnItsWay
  <2>7. q + r = ((p + q) + r) + (0 - p)
    BY <2>2, <2>3, <2>5
  <2> QED
    BY <2>5, <2>6, <2>7
<1>14. ASSUME NEW d \in Chain \ {c} PROVE OnItsWay(d)' = OnItsWay(d)
  BY <1>2, <1>12, UncreditedKept DEF OnItsWay
<1>15. Owed(es, S) \in Int
  BY <1>7, OwedType
<1> QED
  BY <1>0, <1>2, <1>9, <1>10, <1>11, <1>13, <1>14, <1>15, StepConserves

\* The contract pays what the action moves, and nothing else.
LEMMA PayIs ==
  ASSUME NEW c \in Chain, NEW a, Pay(c, a), IsMoney(a), a.kind # "regular",
         funds \in [Chain -> Int]
  PROVE  /\ Worth(a) \in Int
         /\ funds' \in [Chain -> Int] /\ funds'[c] = funds[c] + (-Worth(a))
         /\ \A d \in Chain \ {c} : funds'[d] = funds[d]
<1>1. CASE a.kind = "transfer"
  <2>1. Worth(a) = a.amount /\ a.amount \in Int
    BY <1>1 DEF Worth, IsMoney
  <2>2. funds' = [funds EXCEPT ![c] = @ - a.amount]
    BY <1>1 DEF Pay
  <2> QED
    BY <2>1, <2>2
<1>2. CASE a.kind # "transfer"
  <2>1. Worth(a) = 0
    BY <1>2 DEF Worth
  <2>2. funds' = funds
    BY <1>2 DEF Pay
  <2> QED
    BY <2>1, <2>2
<1> QED
  BY <1>1, <1>2

LEMMA ExecuteConserves ==
  ASSUME FundsInv, BridgeInv', NEW m \in outbox, CallExecutes(m)
  PROVE  MoneyOK' /\ FundsConserved'
<1>0. BridgeInv /\ MoneyOK /\ FundsConserved
  BY DEF FundsInv
<1>1. PICK d \in Chain : d = m.chain
  BY <1>0 DEF BridgeInv, IsCall
<1>2. PICK id, a :
        /\ d = m.chain /\ id = m.id /\ a = m.action
        /\ id \in 1..Len(actions[d]) /\ a = actions[d][id].action
  BY <1>0, <1>1 DEF BridgeInv, IsCall
<1>3. /\ id = Len(executed[d]) + 1
      /\ Pay(d, a)
      /\ executed' = [executed EXCEPT ![d] = Append(executed[d], a)]
      /\ events' = [events EXCEPT ![d] = Append(events[d], Signed(id))]
      /\ UNCHANGED <<processed, actions, balance, emitted>>
  <2>1. Accepts(d, m) /\ Execute(d, m) /\ UNCHANGED <<vars, kolmeVars>>
    BY <1>2 DEF CallExecutes, Execute
  <2> QED
    BY <1>2, <2>1 DEF Execute, Accepts, kolmeVars, vars, chainVars
<1>4. PICK e : e = Signed(id)
  OBVIOUS
<1>5. IsMoney(e) /\ Worth(e) = 0
  BY <1>4 DEF Signed, IsMoney, Worth
<1>6. IsMoney(a) /\ a.kind # "regular" /\ funds \in [Chain -> Int]
  BY <1>0, <1>2 DEF MoneyOK
<1>7. /\ Worth(a) \in Int
      /\ funds' \in [Chain -> Int] /\ funds'[d] = funds[d] + (-Worth(a))
      /\ \A c \in Chain \ {d} : funds'[c] = funds[c]
  BY <1>3, <1>6, PayIs
<1>8. /\ events'[d] = Append(events[d], e)
      /\ executed'[d] = Append(executed[d], a)
      /\ \A c \in Chain \ {d} : events'[c] = events[c] /\ executed'[c] = executed[c]
  BY <1>0, <1>3, <1>4 DEF BridgeInv, OverChains
<1>9. /\ Len(events'[d]) = Len(events[d]) + 1 /\ Len(events[d]) \in Nat
      /\ \A i \in 1..Len(events[d]) : events'[d][i] = events[d][i]
      /\ events'[d][Len(events[d]) + 1] = e
      /\ Len(executed'[d]) = Len(executed[d]) + 1
  <2>1. IsSeq(events[d]) /\ IsSeq(executed[d])
    BY <1>0 DEF BridgeInv, EventsInOrder, ActionsInOrder
  <2> QED
    BY <2>1, <1>8, SeqLength, AppendToSeq
<1>10. \A c \in Chain : \A i \in 1..Len(events'[c]) : IsMoney(events'[c][i])
  <2>1. \A i \in 1..Len(events'[d]) : i \in 1..Len(events[d]) \/ i = Len(events[d]) + 1
    BY <1>9
  <2>2. \A i \in 1..Len(events'[d]) : IsMoney(events'[d][i])
    BY <2>1, <1>0, <1>5, <1>9 DEF MoneyOK
  <2>3. ASSUME NEW c \in Chain \ {d}, NEW i \in 1..Len(events'[c]) PROVE IsMoney(events'[c][i])
    <3>1. events'[c] = events[c]
      BY <1>8
    <3> QED
      BY <3>1, <1>0 DEF MoneyOK
  <2> QED
    BY <2>2, <2>3
<1>11. MoneyOK'
  BY <1>0, <1>3, <1>7, <1>10 DEF MoneyOK
<1>12. -Worth(a) \in Int
  BY <1>7
<1>13. SumFunctionOnSet(funds', Chain) = SumFunctionOnSet(funds, Chain) + (-Worth(a))
  <2>1. \A c \in Chain : funds[c] \in Int
    BY <1>6
  <2> QED
    BY <2>1, <1>7, <1>12, Finite, SumChanges
<1>14. SumFunctionOnSet(balance', User) = SumFunctionOnSet(balance, User) + Scale * 0
  <2>1. SumFunctionOnSet(balance, User) \in Int
    BY <1>0, Finite, SumType DEF MoneyOK
  <2>2. Scale * 0 = 0
    BY BridgeAssumption
  <2> QED
    BY <2>1, <2>2, <1>3
<1>15. Uncredited(d)' = Uncredited(d) + 0 /\ Uncredited(d) \in Int
  <2>1. Len(processed'[d]) = Len(processed[d])
    BY <1>3
  <2>2. Uncredited(d)' = Uncredited(d) + Worth(e) /\ Uncredited(d) \in Int
    BY <2>1, <1>0, <1>9, <1>11, UncreditedGrows
  <2> QED
    BY <2>2, <1>5
<1>16. Unpaid(d) = Worth(a) + Unpaid(d)' /\ Unpaid(d)' \in Int
  <2>1. PICK s, n, k : s = Sent[d] /\ n = Len(actions[d]) /\ k = Len(executed[d])
    OBVIOUS
  <2>2. n \in Nat /\ k \in Nat /\ k + 1 \in Nat /\ k <= k + 1 /\ k + 1 <= n
    <3>1. n \in Nat /\ k \in Nat
      BY <2>1, <1>0, Lengths
    <3>2. k + 1 \in 1..n
      BY <2>1, <1>2, <1>3
    <3> QED
      BY <3>1, <3>2
  <2>3. \A i \in 1..n : IsMoney(s[i]) /\ s[i] = actions[d][i].action
    BY <2>1, <1>0, WayIs DEF WayFacts
  <2>4. Parts(s, n, k, k + 1)
    BY <2>2, <2>3, OwedParts
  <2>5. /\ Owed(s, (k + 1)..n) = Owed(s, (k + 1)..(k + 1)) + Owed(s, (k + 1 + 1)..n)
        /\ Owed(s, (k + 1 + 1)..n) \in Int
    BY <2>4 DEF Parts
  <2>6. Owed(s, (k + 1)..(k + 1)) = Worth(a)
    <3>1. (k + 1)..(k + 1) = {k + 1} /\ k + 1 \in 1..n
      BY <2>2
    <3>2. s[k + 1] = a
      BY <3>1, <2>1, <2>3, <1>2, <1>3
    <3> QED
      BY <3>1, <3>2, <1>6, OwedOne
  <2>7. Unpaid(d) = Owed(s, (k + 1)..n)
    BY <2>1, <1>0, WayIs DEF WayFacts
  <2>8. Unpaid(d)' = Owed(s, (k + 1 + 1)..n)
    <3>1. Unpaid(d)' = Owed(Sent'[d], (Len(executed'[d]) + 1)..Len(actions'[d]))
      BY <1>11, WayIsThen DEF WayFacts
    <3>2. Sent'[d] = Sent[d] /\ Len(actions'[d]) = n /\ Len(executed'[d]) = k + 1
      BY <1>3, <1>9, <2>1 DEF Sent
    <3> QED
      BY <3>1, <3>2, <2>1
  <2> QED
    BY <2>5, <2>6, <2>7, <2>8
<1>17. OnItsWay(d)' = OnItsWay(d) + (-Worth(a) - 0)
  <2>1. PICK p, q, r : p = Worth(a) /\ q = Unpaid(d)' /\ r = Uncredited(d)
    OBVIOUS
  <2>2. OnItsWay(d) = r + (p + q) /\ OnItsWay(d)' = r + q
    BY <2>1, <1>15, <1>16 DEF OnItsWay
  <2>3. r + q = (r + (p + q)) + (-p - 0)
    BY <2>1, <1>7, <1>15, <1>16
  <2> QED
    BY <2>1, <2>2, <2>3
<1>18. ASSUME NEW c \in Chain \ {d} PROVE OnItsWay(c)' = OnItsWay(c)
  <2>1. Uncredited(c)' = Uncredited(c)
    BY <1>3, <1>8 DEF Uncredited
  <2>2. Unpaid(c)' = Unpaid(c)
    BY <1>3, <1>8 DEF Unpaid
  <2> QED
    BY <2>1, <2>2 DEF OnItsWay
<1> QED
  BY <1>0, <1>11, <1>12, <1>13, <1>14, <1>17, <1>18, StepConserves

\* What governance emits moves no funds.
LEMMA GovernanceEmits ==
  ASSUME IsSeq(emitted), OperatorReplaces \/ OperatorProposes \/ OperatorVotes
  PROVE  /\ IsSeq(emitted')
         /\ emitted' # emitted =>
              emitted'[Len(emitted')].kind \notin {"regular", "transfer"}
<1>1. ASSUME NEW a, NEW s, Emit(a, s), a.kind \in {"newSet", "migrate", "selfReplace"}
      PROVE  IsSeq(emitted') /\ emitted'[Len(emitted')].kind \notin {"regular", "transfer"}
  <2>1. emitted' = Append(emitted, a)
    BY <1>1 DEF Emit
  <2>2. IsSeq(emitted') /\ emitted'[Len(emitted')] = a
    BY <2>1, AppendToSeq
  <2> QED
    BY <1>1, <2>2
<1>2. ASSUME NEW ps, CheckPendingProposals(ps)
      PROVE  \/ emitted' = emitted
             \/ \E a, s : Emit(a, s) /\ a.kind \in {"newSet", "migrate", "selfReplace"}
  <2>1. ASSUME NEW q, TakeEffect(q)
        PROVE  \/ emitted' = emitted
               \/ \E a, s : Emit(a, s) /\ a.kind \in {"newSet", "migrate", "selfReplace"}
    <3>1. CASE Emit(NewSetAction(q), q.payload.set)
      <4>1. NewSetAction(q).kind = "newSet"
        BY DEF NewSetAction
      <4> QED
        BY <3>1, <4>1
    <3>2. CASE Emit(MigrateAction(q), valset)
      <4>1. MigrateAction(q).kind = "migrate"
        BY DEF MigrateAction
      <4> QED
        BY <3>2, <4>1
    <3>3. CASE emitted' = emitted
      BY <3>3
    <3> QED
      BY <2>1, <3>1, <3>2, <3>3 DEF TakeEffect
  <2> QED
    BY <1>2, <2>1 DEF CheckPendingProposals
<1>3. CASE OperatorReplaces
  <2>1. PICK role, old, new :
          Emit(SelfReplaceAction(role, old, new), ReplaceIn(valset, role, old, new))
    BY <1>3 DEF OperatorReplaces, SelfReplace
  <2>2. SelfReplaceAction(role, old, new).kind = "selfReplace"
    BY DEF SelfReplaceAction
  <2> QED
    BY <2>1, <2>2, <1>1
<1>4. CASE OperatorProposes \/ OperatorVotes
  <2>1. \E ps : CheckPendingProposals(ps)
    BY <1>4 DEF OperatorProposes, OperatorVotes, Propose, Vote
  <2> QED
    BY <2>1, <1>1, <1>2
<1> QED
  BY <1>3, <1>4

LEMMA GovernConserves ==
  ASSUME FundsInv, BridgeInv', Governs
  PROVE  MoneyOK' /\ FundsConserved'
<1>0. BridgeInv /\ MoneyOK /\ FundsConserved /\ IsSeq(emitted)
  BY DEF FundsInv, MoneyOK
<1>1. PICK a : a = emitted'[Len(emitted')]
  OBVIOUS
<1>2. /\ actions' = [c \in Chain |->
             IF emitted' # emitted /\ Concerns(a, c) THEN Append(actions[c], Unsigned(a))
             ELSE actions[c]]
      /\ UNCHANGED <<processed, events, executed, funds, balance>>
  BY <1>1 DEF Governs, contractVars
<1>3. IsSeq(emitted') /\ (emitted' # emitted => a.kind \notin {"regular", "transfer"})
  BY <1>0, <1>1, GovernanceEmits DEF Governs
<1>4. ASSUME NEW c \in Chain
      PROVE  \/ actions'[c] = actions[c]
             \/ /\ actions'[c] = Append(actions[c], Unsigned(a))
                /\ IsMoney(a) /\ Worth(a) = 0 /\ a.kind # "regular"
  BY <1>2, <1>3 DEF IsMoney, Worth
<1>5. ASSUME NEW c \in Chain, NEW i \in 1..Len(actions'[c])
      PROVE  IsMoney(actions'[c][i].action) /\ actions'[c][i].action.kind # "regular"
  <2>1. CASE actions'[c] = actions[c]
    BY <2>1, <1>0 DEF MoneyOK
  <2>2. CASE actions'[c] # actions[c]
    <3>1. /\ \A j \in 1..Len(actions[c]) : actions'[c][j] = actions[c][j]
          /\ actions'[c][Len(actions[c]) + 1].action = a
          /\ \A j \in 1..Len(actions'[c]) :
               j \in 1..Len(actions[c]) \/ j = Len(actions[c]) + 1
      BY <2>2, <1>0, <1>4, ActionAppended
    <3>2. CASE i \in 1..Len(actions[c])
      BY <3>1, <3>2, <1>0 DEF MoneyOK
    <3>3. CASE i = Len(actions[c]) + 1
      BY <3>1, <3>3, <2>2, <1>4
    <3> QED
      BY <3>1, <3>2, <3>3
  <2> QED
    BY <2>1, <2>2
<1>6. MoneyOK'
  BY <1>0, <1>2, <1>3, <1>5 DEF MoneyOK
<1>7. ASSUME NEW c \in Chain PROVE OnItsWay(c)' = OnItsWay(c)
  <2>1. Uncredited(c)' = Uncredited(c)
    BY <1>2, UncreditedKept
  <2>2. Unpaid(c)' = Unpaid(c)
    <3>1. CASE actions'[c] = actions[c]
      BY <3>1, <1>2 DEF Unpaid
    <3>2. CASE actions'[c] # actions[c]
      <4>1. actions'[c] = Append(actions[c], Unsigned(a)) /\ Worth(a) = 0
        BY <3>2, <1>4
      <4>2. /\ Len(actions'[c]) = Len(actions[c]) + 1
            /\ \A i \in 1..Len(actions[c]) : actions'[c][i] = actions[c][i]
            /\ actions'[c][Len(actions[c]) + 1].action = a
        BY <4>1, <1>0, ActionAppended
      <4>3. Len(executed'[c]) = Len(executed[c])
        BY <1>2
      <4>4. Unpaid(c)' = Unpaid(c) + Worth(a) /\ Unpaid(c) \in Int
        BY <4>2, <4>3, <1>0, <1>6, UnpaidGrows
      <4> QED
        BY <4>1, <4>4
    <3> QED
      BY <3>1, <3>2
  <2> QED
    BY <2>1, <2>2 DEF OnItsWay
<1>8. FundsConserved'
  BY <1>0, <1>2, <1>7, NothingMoves
<1> QED
  BY <1>6, <1>8

LEMMA StepKeepsFunds ==
  ASSUME FundsInv, [BridgeNext]_allVars
  PROVE  FundsInv'
<1>0. BridgeInv /\ BridgeInv'
  BY StepInOrder DEF FundsInv, InOrder
<1>1. SUFFICES MoneyOK' /\ FundsConserved'
  BY <1>0 DEF FundsInv
<1>2. actions' = actions => SameActions
  BY DEF SameActions
<1>3. CASE UserDeposits \/ UserWithdraws \/ Governs
  BY <1>0, <1>3, DepositConserves, WithdrawConserves, GovernConserves
<1>4. ASSUME NEW c \in Chain, ProcessorApproves(c) PROVE MoneyOK' /\ FundsConserved'
  <2>1. UNCHANGED <<events, processed, executed, funds, balance, emitted>>
    BY <1>4 DEF ProcessorApproves, vars, chainVars, contractVars
  <2> QED
    BY <2>1, <1>0, <1>4, ProcessorInOrder, CarriersConserve
<1>5. ASSUME NEW t \in attesting, ListenerFails(t) PROVE MoneyOK' /\ FundsConserved'
  BY <1>2, <1>5, CarriersConserve DEF ListenerFails, vars, chainVars, kolmeVars, contractVars
<1>6. CASE AttestationStep
  BY <1>0, <1>5, <1>6, LandsConserves DEF AttestationStep
<1>7. ASSUME NEW m \in outbox, CallIsRejected(m) \/ CallIsLost(m)
      PROVE  MoneyOK' /\ FundsConserved'
  BY <1>2, <1>7, CarriersConserve DEF CallIsRejected, CallIsLost, vars, chainVars, kolmeVars, contractVars
<1>8. CASE CallStep
  BY <1>0, <1>7, <1>8, ExecuteConserves DEF CallStep
<1>9. ASSUME NEW l \in ListenerNode, ListenerStep(l) \/ ListenerCrashes(l)
      PROVE  MoneyOK' /\ FundsConserved'
  BY <1>2, <1>9, CarriersConserve
     DEF ListenerStep, ListenerStarts, ListenerSends, ListenerCrashes, vars, chainVars, kolmeVars, contractVars
<1>10. ASSUME NEW k \in ApproverNode, ApproverLands(k) PROVE MoneyOK' /\ FundsConserved'
  <2>1. UNCHANGED <<events, processed, executed, funds, balance, emitted>>
    BY <1>10 DEF ApproverLands, Approve, vars, chainVars, contractVars
  <2> QED
    BY <2>1, <1>0, <1>10, ApproverInOrder, CarriersConserve
<1>11. ASSUME NEW k \in ApproverNode, ApproverFails(k) \/ ApproverLooks(k)
       PROVE  MoneyOK' /\ FundsConserved'
  BY <1>2, <1>11, CarriersConserve DEF ApproverFails, ApproverLooks, vars, chainVars, kolmeVars, contractVars
<1>12. ASSUME NEW s \in Submitter, SubmitterLooks(s) \/ SubmitterCrashes(s)
       PROVE  MoneyOK' /\ FundsConserved'
  BY <1>2, <1>12, CarriersConserve
     DEF SubmitterLooks, SubmitterCrashes, vars, chainVars, kolmeVars, contractVars
<1>13. CASE QuietBlock \/ UNCHANGED allVars
  BY <1>2, <1>13, CarriersConserve
     DEF QuietBlock, allVars, bridgeVars, vars, chainVars, kolmeVars, contractVars
<1>14. CASE ProcessorStep
  BY <1>4, <1>14 DEF ProcessorStep
<1>15. CASE \E k \in ApproverNode : ApproverStep(k)
  BY <1>10, <1>11, <1>15 DEF ApproverStep
<1> QED
  BY <1>3, <1>6, <1>7, <1>8, <1>9, <1>12, <1>13, <1>14, <1>15, Zenon DEF BridgeNext

LEMMA NothingAtFirst ==
  ASSUME BridgeInit
  PROVE  FundsInv
<1>1. BridgeInv
  BY StartInOrder
<1>2. IsSeq(<< >>) /\ Len(<< >>) = 0
  <2>1. << >> \in Seq({})
    OBVIOUS
  <2> QED
    BY <2>1 DEF IsSeq
<1>3. \A c \in Chain : /\ events[c] = << >> /\ processed[c] = << >>
                       /\ actions[c] = << >> /\ executed[c] = << >>
  BY DEF BridgeInit
<1>4. MoneyOK
  <2>1. emitted = << >> /\ balance \in [User -> Int] /\ funds \in [Chain -> Int]
    BY DEF BridgeInit, Init
  <2> QED
    BY <2>1, <1>2, <1>3 DEF MoneyOK
<1>5. ASSUME NEW c \in Chain PROVE OnItsWay(c) = 0
  <2>1. WayFacts(c)
    BY <1>1, <1>4, WayIs
  <2>2. 1..0 = {} /\ 0 + 1 = 1
    OBVIOUS
  <2>3. Uncredited(c) = 0 /\ Unpaid(c) = 0
    BY <1>2, <1>3, <2>1, <2>2, OwedOfNothing DEF WayFacts
  <2> QED
    BY <2>3 DEF OnItsWay
<1>6. SumFunctionOnSet(Way, Chain) = 0
  BY <1>5, Finite, SumOfNothing DEF Way
<1>7. SumFunctionOnSet(funds, Chain) = 0 /\ SumFunctionOnSet(balance, User) = 0
  <2>1. (\A c \in Chain : funds[c] = 0) /\ \A u \in User : balance[u] = 0
    BY DEF BridgeInit
  <2> QED
    BY <2>1, Finite, SumOfNothing
<1>8. Scale * 0 = 0
  BY BridgeAssumption
<1>9. FundsConserved
  BY <1>4, <1>6, <1>7, <1>8, ConservedIs DEF ConservedFact
<1> QED
  BY <1>1, <1>4, <1>9 DEF FundsInv

\* What the contracts hold is what accounts have and what is on its way, whatever
\* crashes, is lost, repeated or raced: nothing is credited or paid twice, and what
\* rounding leaves stays in the account (execute.rs process_ready_events and
\* withdraw_asset, the contract's regular and signed).
THEOREM FundsAreConserved == BridgeSpec => []FundsConserved
<1>1. BridgeInit => FundsInv
  BY NothingAtFirst
<1>2. FundsInv /\ [BridgeNext]_allVars => FundsInv'
  BY StepKeepsFunds
<1>3. FundsInv => FundsConserved
  BY DEF FundsInv
<1> QED
  BY <1>1, <1>2, <1>3, PTL DEF BridgeSpec
=============================================================================
