----------------------------- MODULE DataLemmas -----------------------------
(***************************************************************************)
(* Facts about the data the models are built from, for the proofs about    *)
(* them: natural numbers, small sets, and sequences without repetitions.   *)
(***************************************************************************)
EXTENDS Integers, Sequences, FiniteSets, Functions, FiniteSetTheorems,
        WellFoundedInduction, TLAPS

-----------------------------------------------------------------------------
(* Natural numbers *)

\* A set of natural numbers has a least element, such as the lowest free number
\* of a connection.
LEMMA Least ==
  ASSUME NEW T, T \subseteq Nat, T # {}
  PROVE  \E x \in T : \A y \in T : x <= y
<1>1. IsWellFoundedOn(OpToRel(<, Nat), Nat)
  BY NatLessThanWellFounded
<1>2. \E x \in T : \A y \in T : ~(<<y, x>> \in OpToRel(<, Nat))
  BY <1>1, WFMin
<1>3. \A x, y \in Nat : <<y, x>> \in OpToRel(<, Nat) <=> y < x
  BY DEF OpToRel
<1>4. \E x \in T : \A y \in T : ~(y < x)
  BY <1>2, <1>3, Zenon
<1> QED
  BY <1>4

\* Induction over the natural numbers, for a property given as the set of the
\* numbers that have it: this is what the code's loops over indices need.
LEMMA Induction ==
  ASSUME NEW T, T \subseteq Nat, 0 \in T, \A n \in T : n + 1 \in T
  PROVE  T = Nat
<1> SUFFICES ASSUME Nat \ T # {} PROVE FALSE
  OBVIOUS
<1>1. PICK x \in Nat \ T : \A y \in Nat \ T : x <= y
  BY Least
<1>2. x # 0 /\ x - 1 \in Nat
  BY <1>1
<1> QED
  BY <1>1, <1>2

\* The same up to a bound, for what holds after each round of a loop.
LEMMA BoundedInduction ==
  ASSUME NEW m \in Nat, NEW T, 0 \in T, \A n \in 1..m : n - 1 \in T => n \in T
  PROVE  \A n \in 0..m : n \in T
<1> DEFINE U == {n \in Nat : n <= m => n \in T}
<1>1. 0 \in U
  OBVIOUS
<1>2. ASSUME NEW n \in U PROVE n + 1 \in U
  <2>1. n \in Nat /\ n + 1 \in Nat /\ (n + 1) - 1 = n
    OBVIOUS
  <2>2. n + 1 <= m => n \in T /\ n + 1 \in 1..m
    BY <2>1
  <2>3. n + 1 <= m => n + 1 \in T
    BY <2>1, <2>2
  <2> QED
    BY <2>1, <2>3
<1>3. U = Nat
  <2>1. U \subseteq Nat
    OBVIOUS
  <2> HIDE DEF U
  <2> QED
    BY <1>1, <1>2, <2>1, Induction
<1> QED
  BY <1>3

\* G says what each round of a loop over indices makes of the loop's variable, which
\* stays in V.
Rounds(G, V) == \A n \in Nat : \A v \in V : G[n][v] \in V

\* A loop that begins with z and goes round m times has a result, and one before
\* each round.
HasLoop(V, z, G, m) == \E f \in [0..m -> V] : f[0] = z /\ \A n \in 1..m : f[n] = G[n][f[n - 1]]

LEMMA LoopExists ==
  ASSUME NEW V, NEW z \in V, NEW G, Rounds(G, V), NEW m \in Nat
  PROVE  HasLoop(V, z, G, m)
<1> DEFINE Loop(f, n) == f \in [0..n -> V] /\ f[0] = z /\ \A i \in 1..n : f[i] = G[i][f[i - 1]]
           T == {n \in Nat : \E f : Loop(f, n)}
<1>1. 0 \in T
  <2>1. Loop([i \in 0..0 |-> z], 0)
    OBVIOUS
  <2> QED
    BY <2>1
<1>2. ASSUME NEW n \in T PROVE n + 1 \in T
  <2>1. n \in Nat /\ n + 1 \in Nat
    OBVIOUS
  <2>2. PICK f : Loop(f, n)
    OBVIOUS
  <2> DEFINE g == [i \in 0..(n + 1) |-> IF i = n + 1 THEN G[n + 1][f[n]] ELSE f[i]]
  <2>3. G[n + 1][f[n]] \in V
    BY <2>1, <2>2 DEF Rounds
  <2>4. \A i \in 0..(n + 1) : i = n + 1 \/ i \in 0..n
    BY <2>1
  <2>5. g \in [0..(n + 1) -> V]
    BY <2>1, <2>2, <2>3, <2>4
  <2>6. g[0] = z
    BY <2>1, <2>2
  <2>7. ASSUME NEW i \in 1..(n + 1) PROVE g[i] = G[i][g[i - 1]]
    <3>1. CASE i = n + 1
      BY <2>1, <3>1
    <3>2. CASE i # n + 1
      <4>1. i \in 1..n /\ i \in 0..n /\ i - 1 \in 0..n /\ i - 1 # n + 1
        BY <2>1, <3>2
      <4> QED
        BY <2>1, <2>2, <3>2, <4>1
    <3> QED
      BY <3>1, <3>2
  <2>8. Loop(g, n + 1)
    BY <2>5, <2>6, <2>7
  <2> HIDE DEF Loop
  <2> QED
    BY <2>1, <2>8
<1>3. T = Nat
  <2> HIDE DEF T
  <2>1. T \subseteq Nat
    BY DEF T
  <2> QED
    BY <1>1, <1>2, <2>1, Induction
<1> QED
  BY <1>3 DEF HasLoop

\* A property that holds before the loop and that each round keeps holds after it.
LEMMA LoopInvariant ==
  ASSUME NEW f, NEW m \in Nat, NEW V, f[0] \in V,
         \A n \in 1..m : f[n - 1] \in V => f[n] \in V
  PROVE  \A n \in 0..m : f[n] \in V
<1> DEFINE T == {n \in Nat : n <= m => f[n] \in V}
<1>1. 0 \in T
  OBVIOUS
<1>2. ASSUME NEW n \in T PROVE n + 1 \in T
  <2>1. n \in Nat /\ n + 1 \in Nat /\ (n + 1) - 1 = n
    OBVIOUS
  <2>2. n + 1 <= m => f[n] \in V /\ n + 1 \in 1..m
    BY <2>1
  <2>3. n + 1 <= m => f[n + 1] \in V
    BY <2>1, <2>2
  <2> QED
    BY <2>1, <2>3
<1>3. T = Nat
  <2>1. T \subseteq Nat
    OBVIOUS
  <2> HIDE DEF T
  <2> QED
    BY <1>1, <1>2, <2>1, Induction
<1> QED
  BY <1>3

\* A number is its digits: the last one, and those of the quotient.
LEMMA Digits ==
  ASSUME NEW x \in Nat, NEW b \in Nat \ {0}
  PROVE  x = (x \div b) * b + (x % b) /\ x % b \in 0..(b - 1) /\ x \div b \in Nat
OBVIOUS

\* What a digit more and a digit less make of the bound of a number.
LEMMA Quotient ==
  ASSUME NEW x \in Nat, NEW p \in Nat, NEW b \in Nat \ {0}, x < p * b
  PROVE  x \div b \in Nat /\ x \div b < p
OBVIOUS

LEMMA DigitMore ==
  ASSUME NEW x \in Nat, NEW p \in Nat, NEW b \in Nat \ {0}, NEW d \in 0..(b - 1), x < p
  PROVE  x * b + d \in Nat /\ x * b + d < p * b
OBVIOUS

\* What a number leaves is all that matters of it in a sum that wraps.
LEMMA Remainder ==
  ASSUME NEW x \in Int, NEW w \in Nat \ {0}, NEW q \in Int, NEW r \in 0..(w - 1), x = w * q + r
  PROVE  x % w = r
OBVIOUS

LEMMA Wrapless ==
  ASSUME NEW x \in Nat, NEW w \in Nat \ {0}, x < w
  PROVE  x % w = x
OBVIOUS

LEMMA Wraps ==
  ASSUME NEW x \in Nat, NEW y \in Nat, NEW w \in Nat \ {0}
  PROVE  (x + (y % w)) % w = (x + y) % w
<1> DEFINE d == y % w
           q == y \div w
           r == (x + d) % w
           p == (x + d) \div w
<1>1. y = q * w + d /\ d \in Nat /\ q \in Nat
  BY Digits
<1> HIDE DEF d, q
<1>2. x + d = p * w + r /\ r \in 0..(w - 1) /\ p \in Nat
  <2>1. x + d \in Nat
    BY <1>1
  <2> QED
    BY <2>1, Digits
<1> HIDE DEF r, p
<1>3. x + y = w * (p + q) + r
  <2>1. \A u, v, e, f \in Nat : x + e = u * w + f /\ y = v * w + e => x + y = w * (u + v) + f
    OBVIOUS
  <2>2. r \in Nat /\ d \in Nat
    BY <1>1, <1>2
  <2> QED
    BY <1>1, <1>2, <2>1, <2>2
<1>4. (x + y) % w = r
  <2>1. p + q \in Int /\ x + y \in Int
    BY <1>1, <1>2
  <2> QED
    BY <1>2, <1>3, <2>1, Remainder
<1> QED
  BY <1>4 DEF r, d

-----------------------------------------------------------------------------
(* Sets and sequences without repetitions *)

\* A set whose elements are all the same has one element at most.
LEMMA AtMostOne ==
  ASSUME NEW S, \A x, y \in S : x = y
  PROVE  Cardinality(S) = IF S = {} THEN 0 ELSE 1
<1>1. CASE S = {}
  BY <1>1, FS_EmptySet
<1>2. CASE S # {}
  <2>1. PICK x : S = {x}
    BY <1>2
  <2> QED
    BY <2>1, FS_Singleton
<1> QED
  BY <1>1, <1>2

\* The head of a sequence without repetitions is not in its tail: what a queue
\* gives away is not in it any more.
LEMMA TailApart ==
  ASSUME NEW S, NEW s \in Seq(S), s # << >>, \A i, j \in DOMAIN s : s[i] = s[j] => i = j
  PROVE  /\ Tail(s) \in Seq(S) /\ Len(Tail(s)) = Len(s) - 1
         /\ \A i, j \in DOMAIN Tail(s) : Tail(s)[i] = Tail(s)[j] => i = j
         /\ \A i \in DOMAIN Tail(s) : Tail(s)[i] = s[i + 1] /\ i + 1 \in DOMAIN s
         /\ Range(Tail(s)) = Range(s) \ {Head(s)} /\ Head(s) \in Range(s)
<1>1. /\ Tail(s) \in Seq(S) /\ Len(Tail(s)) = Len(s) - 1
      /\ \A i \in DOMAIN Tail(s) : Tail(s)[i] = s[i + 1] /\ i + 1 \in DOMAIN s
      /\ DOMAIN s = 1..Len(s) /\ DOMAIN Tail(s) = 1..(Len(s) - 1) /\ Head(s) = s[1] /\ Len(s) \in Nat
  OBVIOUS
<1>2. \A i, j \in DOMAIN Tail(s) : Tail(s)[i] = Tail(s)[j] => i = j
  BY <1>1
<1>3. Head(s) \in Range(s)
  BY <1>1 DEF Range
<1>4. ASSUME NEW x \in Range(Tail(s)) PROVE x \in Range(s) \ {Head(s)}
  <2>1. PICK i \in DOMAIN Tail(s) : x = Tail(s)[i]
    BY DEF Range
  <2> QED
    BY <1>1, <2>1 DEF Range
<1>5. ASSUME NEW x \in Range(s) \ {Head(s)} PROVE x \in Range(Tail(s))
  <2>1. PICK i \in DOMAIN s : x = s[i]
    BY DEF Range
  <2>2. i # 1 /\ i - 1 \in DOMAIN Tail(s) /\ Tail(s)[i - 1] = s[i]
    BY <1>1, <2>1
  <2> QED
    BY <2>1, <2>2 DEF Range
<1> QED
  BY <1>1, <1>2, <1>3, <1>4, <1>5

\* Appending a new element to a sequence without repetitions.
LEMMA AppendApart ==
  ASSUME NEW S, NEW s \in Seq(S), \A i, j \in DOMAIN s : s[i] = s[j] => i = j,
         NEW x \in S, \A i \in DOMAIN s : s[i] # x
  PROVE  /\ Append(s, x) \in Seq(S) /\ Len(Append(s, x)) = Len(s) + 1
         /\ \A i, j \in DOMAIN Append(s, x) : Append(s, x)[i] = Append(s, x)[j] => i = j
         /\ \A i \in DOMAIN Append(s, x) : Append(s, x)[i] = x \/ (i \in DOMAIN s /\ Append(s, x)[i] = s[i])
         /\ Range(Append(s, x)) = Range(s) \union {x}
<1>1. /\ Append(s, x) \in Seq(S) /\ Len(Append(s, x)) = Len(s) + 1
      /\ DOMAIN s = 1..Len(s) /\ DOMAIN Append(s, x) = 1..(Len(s) + 1) /\ Len(s) \in Nat
      /\ \A i \in DOMAIN s : Append(s, x)[i] = s[i]
      /\ Append(s, x)[Len(s) + 1] = x
  OBVIOUS
<1>2. \A i \in DOMAIN Append(s, x) : i = Len(s) + 1 \/ i \in DOMAIN s
  BY <1>1
<1>3. \A i, j \in DOMAIN Append(s, x) : Append(s, x)[i] = Append(s, x)[j] => i = j
  BY <1>1, <1>2
<1>4. Range(s) \union {x} \subseteq Range(Append(s, x))
  BY <1>1 DEF Range
<1>5. Range(Append(s, x)) \subseteq Range(s) \union {x}
  BY <1>1, <1>2 DEF Range
<1> QED
  BY <1>1, <1>2, <1>3, <1>4, <1>5

=============================================================================
