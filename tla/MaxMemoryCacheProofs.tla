------------------------ MODULE MaxMemoryCacheProofs ------------------------
(***************************************************************************)
(* Theorems about MaxMemoryCache: types and locks for any number of        *)
(* goroutines; the counter, the list and that the cache is an LRU cache    *)
(* for one goroutine and items that do not expire, which is where the code *)
(* keeps them (the list and the end of Set are outside of m.lock).         *)
(***************************************************************************)
EXTENDS MaxMemoryCache, DataLemmas, SequenceTheorems

-----------------------------------------------------------------------------
(* Data *)

\* Deleting by index leaves a sequence of the same elements.
LEMMA RemoveAtType ==
  ASSUME NEW S, NEW s \in Seq(S), NEW i \in Nat, i <= Len(s)
  PROVE  RemoveAt(s, i) \in Seq(S)
<1>1. Len(s) \in Nat /\ \A j \in 1..Len(s) : s[j] \in S
  OBVIOUS
<1>2. SubSeq(s, 1, i - 1) \in Seq(S)
  <2>1. \A j \in 1..(i - 1) : s[j] \in S
    BY <1>1
  <2> QED
    BY <2>1, SubSeqProperties
<1>3. SubSeq(s, i + 1, Len(s)) \in Seq(S)
  <2>1. \A j \in (i + 1)..Len(s) : s[j] \in S
    BY <1>1
  <2> QED
    BY <1>1, <2>1, SubSeqProperties
<1> QED
  BY <1>2, <1>3 DEF RemoveAt

\* The list before each round of the callback's loop, and after the last.
LEMMA UnlistLoop ==
  ASSUME NEW S, NEW s \in Seq(S), NEW k
  PROVE  \E f : /\ f[0] = s /\ Unlist(s, k) = f[Len(s)]
                /\ \A i \in 1..Len(s) :
                     f[i] = IF i <= Len(f[i - 1]) /\ f[i - 1][i] = k THEN RemoveAt(f[i - 1], i) ELSE f[i - 1]
<1> DEFINE Round(i, l) == IF i <= Len(l) /\ l[i] = k THEN RemoveAt(l, i) ELSE l
           G == [i \in Nat |-> [l \in Seq(S) |-> IF i = 0 THEN l ELSE Round(i, l)]]
           Loop(f) == f = [i \in 0..Len(s) |-> IF i = 0 THEN s ELSE Round(i, f[i - 1])]
           after == CHOOSE f : Loop(f)
<1>1. ASSUME NEW i \in Nat, i # 0, NEW l \in Seq(S) PROVE Round(i, l) \in Seq(S)
  BY <1>1, RemoveAtType
<1>2. \A i \in Nat : \A l \in Seq(S) : G[i][l] \in Seq(S)
  BY <1>1
<1>3. Len(s) \in Nat
  OBVIOUS
<1>4. PICK f \in [0..Len(s) -> Seq(S)] : f[0] = s /\ \A i \in 1..Len(s) : f[i] = G[i][f[i - 1]]
  <2> DEFINE V == Seq(S)
  <2>1. s \in V /\ Rounds(G, V)
    BY <1>2 DEF Rounds
  <2>2. \E f \in [0..Len(s) -> V] : f[0] = s /\ \A i \in 1..Len(s) : f[i] = G[i][f[i - 1]]
    <3> HIDE DEF G, V
    <3>1. HasLoop(V, s, G, Len(s))
      BY <1>3, <2>1, LoopExists
    <3> QED
      BY <3>1 DEF HasLoop
  <2> QED
    BY <2>2
<1>5. Loop(f)
  <2>1. \A i \in 0..Len(s) : i # 0 => i \in 1..Len(s) /\ i \in Nat /\ f[i - 1] \in Seq(S)
    BY <1>3, <1>4
  <2>2. \A i \in 0..Len(s) : i # 0 => G[i][f[i - 1]] = Round(i, f[i - 1])
    BY <2>1
  <2>3. f = [i \in 0..Len(s) |-> f[i]]
    BY <1>4
  <2>4. \A i \in 0..Len(s) : f[i] = IF i = 0 THEN s ELSE Round(i, f[i - 1])
    <3> HIDE DEF Round, G
    <3> QED
      BY <1>4, <2>1, <2>2
  <2> HIDE DEF Round, G
  <2> QED
    BY <2>3, <2>4
<1>6. Loop(after)
  <2> HIDE DEF Loop
  <2> QED
    BY <1>5
<1>7. after = [i \in 0..Len(s) |-> IF i = 0 THEN s ELSE Round(i, after[i - 1])]
  BY <1>6
<1>8. Unlist(s, k) = after[Len(s)]
  BY DEF Unlist
<1> HIDE DEF after
<1>9. after[0] = s
  <2> HIDE DEF Round
  <2> QED
    BY <1>3, <1>7
<1>10. ASSUME NEW i \in 1..Len(s) PROVE after[i] = Round(i, after[i - 1])
  <2>1. i \in 0..Len(s) /\ i # 0
    BY <1>3
  <2> HIDE DEF Round
  <2> QED
    BY <1>7, <2>1
<1> QED
  BY <1>8, <1>9, <1>10

\* The callback's loop leaves a list of keys.
LEMMA UnlistType ==
  ASSUME NEW S, NEW s \in Seq(S), NEW k
  PROVE  Unlist(s, k) \in Seq(S)
<1>1. PICK f : /\ f[0] = s /\ Unlist(s, k) = f[Len(s)]
               /\ \A i \in 1..Len(s) :
                    f[i] = IF i <= Len(f[i - 1]) /\ f[i - 1][i] = k THEN RemoveAt(f[i - 1], i) ELSE f[i - 1]
  BY UnlistLoop
<1>2. Len(s) \in Nat
  OBVIOUS
<1>3. ASSUME NEW n \in 1..Len(s), f[n - 1] \in Seq(S) PROVE f[n] \in Seq(S)
  <2>1. n \in Nat /\ (n <= Len(f[n - 1]) => RemoveAt(f[n - 1], n) \in Seq(S))
    BY <1>2, <1>3, RemoveAtType
  <2>2. f[n] = IF n <= Len(f[n - 1]) /\ f[n - 1][n] = k THEN RemoveAt(f[n - 1], n) ELSE f[n - 1]
    BY <1>1
  <2> QED
    BY <1>3, <2>1, <2>2
<1> DEFINE V == Seq(S)
<1>4. f[0] \in V /\ \A n \in 1..Len(s) : f[n - 1] \in V => f[n] \in V
  BY <1>1, <1>3
<1> HIDE DEF V
<1>5. \A n \in 0..Len(s) : f[n] \in V
  BY <1>2, <1>4, LoopInvariant
<1> QED
  BY <1>1, <1>2, <1>5 DEF V

\* What a sequence looks like without the element at place j.
LEMMA RemoveAtPlaces ==
  ASSUME NEW S, NEW s \in Seq(S), NEW j \in 1..Len(s)
  PROVE  /\ RemoveAt(s, j) \in Seq(S) /\ Len(RemoveAt(s, j)) = Len(s) - 1
         /\ \A i \in 1..(Len(s) - 1) : RemoveAt(s, j)[i] = IF i < j THEN s[i] ELSE s[i + 1]
<1> DEFINE a == SubSeq(s, 1, j - 1)
           c == SubSeq(s, j + 1, Len(s))
<1>1. Len(s) \in Nat /\ j \in Int /\ \A i \in 1..Len(s) : s[i] \in S
  OBVIOUS
<1>2. /\ a \in Seq(S) /\ Len(a) = j - 1
      /\ \A i \in 1..(j - 1) : a[i] = s[i]
  <2>1. \A i \in 1..(j - 1) : s[i] \in S
    BY <1>1
  <2>2. /\ a \in Seq(S) /\ Len(a) = IF 1 <= j - 1 THEN (j - 1) - 1 + 1 ELSE 0
        /\ \A i \in 1..((j - 1) - 1 + 1) : a[i] = s[1 + i - 1]
    BY <1>1, <2>1, SubSeqProperties
  <2> HIDE DEF a
  <2> QED
    BY <1>1, <2>2
<1>3. /\ c \in Seq(S) /\ Len(c) = Len(s) - j
      /\ \A i \in 1..(Len(s) - j) : c[i] = s[j + i]
  <2>1. \A i \in (j + 1)..Len(s) : s[i] \in S
    BY <1>1
  <2>2. /\ c \in Seq(S) /\ Len(c) = IF j + 1 <= Len(s) THEN Len(s) - (j + 1) + 1 ELSE 0
        /\ \A i \in 1..(Len(s) - (j + 1) + 1) : c[i] = s[(j + 1) + i - 1]
    BY <1>1, <2>1, SubSeqProperties
  <2> HIDE DEF c
  <2> QED
    BY <1>1, <2>2
<1> HIDE DEF a, c
<1>4. /\ a \o c \in Seq(S) /\ Len(a \o c) = Len(a) + Len(c)
      /\ \A i \in 1..(Len(a) + Len(c)) : (a \o c)[i] = IF i <= Len(a) THEN a[i] ELSE c[i - Len(a)]
  BY <1>2, <1>3, ConcatProperties
<1>5. ASSUME NEW i \in 1..(Len(s) - 1) PROVE (a \o c)[i] = IF i < j THEN s[i] ELSE s[i + 1]
  <2>1. CASE i < j
    BY <1>1, <1>2, <1>3, <1>4, <2>1
  <2>2. CASE ~(i < j)
    <3>1. i - (j - 1) \in 1..(Len(s) - j) /\ j + (i - (j - 1)) = i + 1
      BY <1>1, <2>2
    <3>2. (a \o c)[i] = c[i - (j - 1)]
      BY <1>1, <1>2, <1>3, <1>4, <2>2
    <3> QED
      BY <1>3, <2>2, <3>1, <3>2
  <2> QED
    BY <2>1, <2>2
<1>6. Len(a \o c) = Len(s) - 1
  BY <1>1, <1>2, <1>3, <1>4
<1>7. RemoveAt(s, j) = a \o c
  BY DEF RemoveAt, a, c
<1> QED
  BY <1>4, <1>5, <1>6, <1>7

\* When every element occurs once, the one at place j is gone and the others stay.
LEMMA RemoveAtApart ==
  ASSUME NEW S, NEW s \in Seq(S), NEW j \in 1..Len(s),
         \A i, l \in 1..Len(s) : s[i] = s[l] => i = l
  PROVE  /\ \A i, l \in 1..Len(RemoveAt(s, j)) : RemoveAt(s, j)[i] = RemoveAt(s, j)[l] => i = l
         /\ \A x : (\E i \in 1..Len(RemoveAt(s, j)) : RemoveAt(s, j)[i] = x)
                     <=> (\E i \in 1..Len(s) : s[i] = x) /\ x # s[j]
<1> DEFINE r == RemoveAt(s, j)
           old(i) == IF i < j THEN i ELSE i + 1
<1>1. Len(s) \in Nat /\ Len(r) = Len(s) - 1 /\ \A i \in 1..Len(r) : old(i) \in 1..Len(s) /\ r[i] = s[old(i)]
  <2>1. Len(s) \in Nat
    OBVIOUS
  <2>2. Len(r) = Len(s) - 1 /\ \A i \in 1..(Len(s) - 1) : r[i] = IF i < j THEN s[i] ELSE s[i + 1]
    BY RemoveAtPlaces
  <2> HIDE DEF r
  <2>3. \A i \in 1..Len(r) : old(i) \in 1..Len(s)
    BY <2>1, <2>2
  <2>4. \A i \in 1..Len(r) : r[i] = s[old(i)]
    BY <2>1, <2>2
  <2> QED
    BY <2>1, <2>2, <2>3, <2>4
<1>2. \A i, l \in 1..Len(r) : old(i) = old(l) => i = l
  BY <1>1
<1>3. \A i \in 1..Len(r) : old(i) # j
  BY <1>1
<1>4. ASSUME NEW i \in 1..Len(s), i # j PROVE \E l \in 1..Len(r) : old(l) = i
  <2>1. CASE i < j
    <3>1. i \in 1..Len(r) /\ old(i) = i
      BY <1>1, <2>1
    <3> QED
      BY <3>1
  <2>2. CASE i > j
    <3>1. i - 1 \in 1..Len(r) /\ old(i - 1) = i
      BY <1>1, <2>2
    <3> QED
      BY <3>1
  <2> QED
    BY <1>1, <1>4, <2>1, <2>2
<1> HIDE DEF r, old
<1>5. \A i, l \in 1..Len(r) : r[i] = r[l] => i = l
  BY <1>1, <1>2
<1>6. ASSUME NEW x PROVE (\E i \in 1..Len(r) : r[i] = x) <=> (\E i \in 1..Len(s) : s[i] = x) /\ x # s[j]
  <2>1. ASSUME NEW i \in 1..Len(r), r[i] = x PROVE (\E l \in 1..Len(s) : s[l] = x) /\ x # s[j]
    BY <1>1, <1>3, <2>1
  <2>2. ASSUME NEW i \in 1..Len(s), s[i] = x, x # s[j] PROVE \E l \in 1..Len(r) : r[l] = x
    <3>1. PICK l \in 1..Len(r) : old(l) = i
      BY <1>4, <2>2
    <3> QED
      BY <1>1, <2>2, <3>1
  <2> QED
    BY <2>1, <2>2
<1> QED
  BY <1>5, <1>6 DEF r

\* The first occurrence of an element that occurs once is that occurrence.
LEMMA RemoveFirstPlace ==
  ASSUME NEW S, NEW s \in Seq(S), NEW j \in 1..Len(s),
         \A i, l \in 1..Len(s) : s[i] = s[l] => i = l
  PROVE  RemoveFirst(s, s[j]) = RemoveAt(s, j)
<1> DEFINE I == {i \in 1..Len(s) : s[i] = s[j]}
<1>1. I = {j} /\ j \in Nat
  OBVIOUS
<1> HIDE DEF I
<1>2. Min(I) = j
  BY <1>1 DEF Min
<1>3. SelectInSeq(s, LAMBDA v : v = s[j]) = j
  BY <1>1, <1>2 DEF SelectInSeq, I
<1> QED
  BY <1>3 DEF RemoveFirst

\* An element that does not occur is not removed.
LEMMA RemoveFirstAbsent ==
  ASSUME NEW s, NEW x, ~\E i \in 1..Len(s) : s[i] = x
  PROVE  RemoveFirst(s, x) = s
BY DEF RemoveFirst

\* Without its last element, a sequence is its beginning.
LEMMA RemoveLast ==
  ASSUME NEW S, NEW s \in Seq(S), s # << >>
  PROVE  RemoveAt(s, Len(s)) = SubSeq(s, 1, Len(s) - 1)
<1>1. Len(s) \in Nat /\ Len(s) > 0 /\ \A i \in 1..(Len(s) - 1) : s[i] \in S
  BY EmptySeq
<1>2. SubSeq(s, 1, Len(s) - 1) \in Seq(S)
  BY <1>1, SubSeqProperties
<1>3. SubSeq(s, Len(s) + 1, Len(s)) = << >>
  BY <1>1, SubSeqEmpty
<1>4. SubSeq(s, 1, Len(s) - 1) \o << >> = SubSeq(s, 1, Len(s) - 1)
  BY <1>2, ConcatEmptySeq
<1> QED
  BY <1>3, <1>4 DEF RemoveAt

\* A sequence with one more element in front.
LEMMA InFront ==
  ASSUME NEW S, NEW s \in Seq(S), NEW k \in S
  PROVE  /\ <<k>> \o s \in Seq(S) /\ Len(<<k>> \o s) = Len(s) + 1 /\ (<<k>> \o s)[1] = k
         /\ \A i \in 2..(Len(s) + 1) : (<<k>> \o s)[i] = s[i - 1]
         /\ Tail(<<k>> \o s) = s
<1>1. <<k>> \in Seq(S) /\ Len(<<k>>) = 1 /\ Len(s) \in Nat /\ <<k>>[1] = k
  OBVIOUS
<1> DEFINE t == <<k>> \o s
<1>2. /\ t \in Seq(S) /\ Len(t) = 1 + Len(s)
      /\ \A i \in 1..(1 + Len(s)) : t[i] = IF i <= 1 THEN <<k>>[i] ELSE s[i - 1]
  <2> DEFINE u == <<k>>
  <2>1. u \in Seq(S) /\ Len(u) = 1
    BY <1>1
  <2> HIDE DEF u
  <2>2. /\ u \o s \in Seq(S) /\ Len(u \o s) = Len(u) + Len(s)
        /\ \A i \in 1..(Len(u) + Len(s)) : (u \o s)[i] = IF i <= Len(u) THEN u[i] ELSE s[i - Len(u)]
    BY <2>1, ConcatProperties
  <2>3. /\ u \o s \in Seq(S) /\ Len(u \o s) = 1 + Len(s)
        /\ \A i \in 1..(1 + Len(s)) : (u \o s)[i] = IF i <= 1 THEN u[i] ELSE s[i - 1]
    BY <2>1, <2>2
  <2> QED
    BY <2>3 DEF u
<1> HIDE DEF t
<1>3. t[1] = k /\ t # << >>
  BY <1>1, <1>2
<1>4. \A i \in 2..(Len(s) + 1) : t[i] = s[i - 1]
  BY <1>1, <1>2
<1>5. Tail(t) = s
  <2>1. Tail(t) \in Seq(S) /\ Len(Tail(t)) = Len(t) - 1 /\ \A i \in 1..Len(Tail(t)) : Tail(t)[i] = t[i + 1]
    BY <1>2, <1>3, HeadTailProperties
  <2>2. Len(Tail(t)) = Len(s) /\ \A i \in 1..Len(Tail(t)) : Tail(t)[i] = s[i]
    BY <1>1, <1>2, <1>4, <2>1
  <2> QED
    BY <2>1, <2>2, SeqEqual
<1> QED
  BY <1>1, <1>2, <1>3, <1>4, <1>5 DEF t


\* The callback's loop removes the key from a list that has every key once.
LEMMA UnlistFirst ==
  ASSUME NEW S, NEW s \in Seq(S), NEW k, \A i, l \in 1..Len(s) : s[i] = s[l] => i = l
  PROVE  Unlist(s, k) = RemoveFirst(s, k)
<1>1. PICK f : /\ f[0] = s /\ Unlist(s, k) = f[Len(s)]
               /\ \A i \in 1..Len(s) :
                    f[i] = IF i <= Len(f[i - 1]) /\ f[i - 1][i] = k THEN RemoveAt(f[i - 1], i) ELSE f[i - 1]
  BY SMTT(30), UnlistLoop
<1>2. Len(s) \in Nat
  OBVIOUS
<1>3. CASE ~\E j \in 1..Len(s) : s[j] = k
  <2> DEFINE V == {s}
  <2>1. f[0] \in V /\ \A n \in 1..Len(s) : f[n - 1] \in V => f[n] \in V
    BY <1>1, <1>2, <1>3
  <2> HIDE DEF V
  <2>2. \A n \in 0..Len(s) : f[n] \in V
    BY <1>2, <2>1, LoopInvariant
  <2>3. f[Len(s)] = s
    BY <1>2, <2>2 DEF V
  <2> QED
    BY <1>1, <1>3, <2>3, RemoveFirstAbsent
<1>4. CASE \E j \in 1..Len(s) : s[j] = k
  <2>1. PICK j \in 1..Len(s) : s[j] = k
    BY <1>4
  <2> DEFINE r == RemoveAt(s, j)
             T == {n \in 0..Len(s) : f[n] = IF n < j THEN s ELSE r}
  <2>2. /\ Len(r) = Len(s) - 1
        /\ \A i \in 1..Len(r) : r[i] # k
    <3>1. \A x : (\E i \in 1..Len(r) : r[i] = x) <=> (\E i \in 1..Len(s) : s[i] = x) /\ x # s[j]
      BY RemoveAtApart
    <3> QED
      BY <2>1, <3>1, RemoveAtPlaces
  <2> HIDE DEF r
  <2>3. 0 \in T
    BY <1>1, <1>2
  <2>4. ASSUME NEW n \in 1..Len(s), n - 1 \in T PROVE n \in T
    <3>1. n \in 0..Len(s) /\ f[n - 1] = (IF n - 1 < j THEN s ELSE r) /\ n \in Nat /\ j \in Nat
      BY <1>2, <2>4
    <3>2. f[n] = IF n <= Len(f[n - 1]) /\ f[n - 1][n] = k THEN RemoveAt(f[n - 1], n) ELSE f[n - 1]
      BY <1>1
    <3>3. CASE n < j
      <4>1. f[n - 1] = s /\ s[n] # k
        BY <2>1, <3>1, <3>3
      <4> QED
        BY <3>1, <3>2, <3>3, <4>1
    <3>4. CASE n = j
      <4>1. f[n - 1] = s /\ s[n] = k /\ n <= Len(s)
        BY <2>1, <3>1, <3>4
      <4> QED
        BY <3>1, <3>2, <3>4, <4>1 DEF r
    <3>5. CASE n > j
      <4>1. f[n - 1] = r
        BY <3>1, <3>5
      <4>2. ~(n <= Len(r) /\ r[n] = k)
        BY <1>2, <2>2, <3>1
      <4> QED
        BY <3>1, <3>2, <3>5, <4>1, <4>2
    <3> QED
      BY <3>1, <3>3, <3>4, <3>5
  <2> HIDE DEF T
  <2>5. \A n \in 0..Len(s) : n \in T
    BY <1>2, <2>3, <2>4, BoundedInduction
  <2>6. f[Len(s)] = r
    BY <1>2, <2>5 DEF T
  <2> QED
    BY <1>1, <2>1, <2>6, RemoveFirstPlace DEF r
<1> QED
  BY <1>3, <1>4

\* A key that is at the head already is put there.
LEMMA FrontAgain ==
  ASSUME NEW S, NEW s \in Seq(S), Len(s) > 0, \A i, l \in 1..Len(s) : s[i] = s[l] => i = l
  PROVE  <<s[1]>> \o RemoveFirst(s, s[1]) = s
<1>1. Len(s) \in Nat /\ 1 \in 1..Len(s) /\ s[1] \in S
  OBVIOUS
<1>2. RemoveFirst(s, s[1]) = RemoveAt(s, 1)
  BY <1>1, RemoveFirstPlace
<1> DEFINE r == RemoveAt(s, 1)
<1>3. /\ r \in Seq(S) /\ Len(r) = Len(s) - 1
      /\ \A i \in 1..(Len(s) - 1) : r[i] = IF i < 1 THEN s[i] ELSE s[i + 1]
  BY <1>1, RemoveAtPlaces
<1> DEFINE t == <<s[1]>> \o r
<1> HIDE DEF r
<1>4. /\ t \in Seq(S) /\ Len(t) = Len(r) + 1 /\ t[1] = s[1]
      /\ \A i \in 2..(Len(r) + 1) : t[i] = r[i - 1]
  BY <1>1, <1>3, InFront
<1> HIDE DEF t
<1>5. ASSUME NEW i \in 1..Len(s) PROVE t[i] = s[i]
  <2>1. CASE i = 1
    BY <1>4, <2>1
  <2>2. CASE i # 1
    <3>1. i \in 2..(Len(r) + 1) /\ i - 1 \in 1..(Len(s) - 1) /\ ~(i - 1 < 1) /\ (i - 1) + 1 = i
      BY <1>1, <1>3, <2>2
    <3> QED
      BY <1>3, <1>4, <3>1
  <2> QED
    BY <2>1, <2>2
<1>6. t = s
  <2>1. Len(t) = Len(s)
    BY <1>1, <1>3, <1>4
  <2> QED
    BY <1>4, <1>5, <2>1, SeqEqual
<1> QED
  BY <1>2, <1>6 DEF r, t

\* What a change of one item does to the number of stored bytes.
LEMMA BytesChange ==
  ASSUME NEW k \in Keys, IsFiniteSet(Bytes), data[k].size \in Nat, data'[k].size \in Nat,
         \A l \in Keys : l # k => data'[l].size = data[l].size
  PROVE  /\ IsFiniteSet(Bytes') /\ Sum \in Nat /\ Sum' \in Nat
         /\ Sum' = Sum - data[k].size + data'[k].size
<1> DEFINE Old == {k} \X (1..data[k].size)
           New == {k} \X (1..data'[k].size)
           Rest == UNION {{l} \X (1..data[l].size) : l \in Keys \ {k}}
<1>1. ASSUME NEW n \in Nat PROVE IsFiniteSet({k} \X (1..n)) /\ Cardinality({k} \X (1..n)) = n
  <2> DEFINE S == {k}
             T == 1..n
  <2>1. IsFiniteSet(S) /\ Cardinality(S) = 1
    BY FS_Singleton
  <2>2. IsFiniteSet(T) /\ Cardinality(T) = IF 1 > n THEN 0 ELSE n - 1 + 1
    <3>1. 1 \in Int /\ n \in Int
      OBVIOUS
    <3> QED
      BY <3>1, FS_Interval
  <2>3. Cardinality(T) = n
    BY <2>2
  <2> HIDE DEF S, T
  <2>4. IsFiniteSet(S \X T) /\ Cardinality(S \X T) = Cardinality(S) * Cardinality(T)
    BY <2>1, <2>2, FS_Product
  <2>5. Cardinality(S \X T) = n
    BY <2>1, <2>3, <2>4
  <2> QED
    BY <2>4, <2>5 DEF S, T
<1>2. IsFiniteSet(Old) /\ Cardinality(Old) = data[k].size
  BY <1>1
<1>3. IsFiniteSet(New) /\ Cardinality(New) = data'[k].size
  BY <1>1
<1>4. Bytes = Rest \union Old /\ Rest \intersect Old = {}
  BY DEF Bytes
<1>5. Bytes' = Rest \union New /\ Rest \intersect New = {}
  BY DEF Bytes
<1> HIDE DEF Old, New, Rest
<1>6. IsFiniteSet(Rest)
  BY <1>4, FS_Subset
<1>7. /\ Cardinality(Rest) \in Nat /\ Cardinality(Bytes) \in Nat /\ Cardinality({}) = 0
  BY <1>6, FS_CardinalityType, FS_EmptySet
<1>8. Cardinality(Bytes) = Cardinality(Rest) + data[k].size
  <2>1. Cardinality(Rest \union Old) = Cardinality(Rest) + Cardinality(Old) - Cardinality(Rest \intersect Old)
    BY <1>2, <1>6, FS_Union
  <2>2. Cardinality(Rest \union Old) = Cardinality(Bytes) /\ Cardinality(Rest \intersect Old) = 0
    BY <1>4, <1>7, Zenon
  <2> QED
    BY <1>2, <1>7, <2>1, <2>2
<1>9. IsFiniteSet(Bytes') /\ Cardinality(Bytes') = Cardinality(Rest) + data'[k].size
  <2>1. /\ IsFiniteSet(Rest \union New)
        /\ Cardinality(Rest \union New) = Cardinality(Rest) + Cardinality(New) - Cardinality(Rest \intersect New)
    BY <1>3, <1>6, FS_Union
  <2>2. Cardinality(Rest \union New) = Cardinality(Bytes') /\ Cardinality(Rest \intersect New) = 0
    BY <1>5, <1>7, Zenon
  <2>3. IsFiniteSet(Bytes')
    BY <1>5, <2>1, Zenon
  <2> QED
    BY <1>3, <1>7, <2>1, <2>2, <2>3
<1> QED
  BY <1>7, <1>8, <1>9 DEF Sum

-----------------------------------------------------------------------------
(* Types *)

Steps == {"idle", "exists", "decide", "scan", "fail", "purge", "evict", "find", "unlink", "link", "put"}

Frames ==
  [op : {"none", "set", "get"}, pc : Steps, key : Keys \union {"-"}, need : Nat,
   life : {"never", "pending"}, old : Nat, i : Nat, purging : BOOLEAN, free : Nat,
   doomed : Seq(Keys), victim : Keys \union {"-"}, ret : {"idle", "purge", "decide", "fail"}]

\* The variables that a step of a call uses have been set by the steps before it.
FrameInv(p) ==
  /\ frame[p].op # "none" => frame[p].key \in Keys
  /\ frame[p].op = "set" => frame[p].need \in Sizes /\ frame[p].life \in Lives
  /\ frame[p].pc \in {"exists", "decide", "scan", "fail", "purge", "put"} => frame[p].op = "set"
  /\ frame[p].pc \in {"find", "unlink", "link"} => frame[p].op # "none"
  /\ frame[p].pc = "evict" => frame[p].victim \in Keys /\ (frame[p].ret # "idle" => frame[p].op = "set")

TypeInv == TypeOK /\ frame \in [Procs -> Frames] /\ \A p \in Procs : FrameInv(p)


\* An empty cache; no call has begun.
LEMMA TypeInit == Init => TypeInv
<1> SUFFICES ASSUME Init PROVE TypeInv
  OBVIOUS
<1>1. Idle \in Frames
  BY DEF Idle, Frames, Steps
<1>2. TypeOK
  <2>1. data \in [Keys -> {None} \union [size : Sizes, life : {"never", "pending", "passed"}]]
    BY DEF Init
  <2>2. used \in Int /\ used <= Limit /\ list \in Seq(Keys)
    BY MaxCacheAssumption DEF Init
  <2> QED
    BY <2>1, <2>2 DEF Init, TypeOK
<1> QED
  BY <1>1, <1>2 DEF Init, TypeInv, FrameInv, Idle

\* Lengths are natural numbers; that of a missing item is 0.
LEMMA SizeType ==
  ASSUME TypeOK, NEW k \in Keys
  PROVE  data[k].size \in Nat
<1>1. data[k] = None \/ data[k] \in [size : Sizes, life : {"never", "pending", "passed"}]
  BY DEF TypeOK
<1>2. None.size = 0
  BY DEF None
<1>3. data[k] # None => data[k].size \in Sizes
  BY <1>1
<1>4. 0 \in Nat /\ Sizes \subseteq Nat
  BY MaxCacheAssumption
<1> QED
  BY <1>2, <1>3, <1>4

\* An item that goes leaves the types as they are.
LEMMA ForgetType ==
  ASSUME TypeOK, NEW k \in Keys, Forget(k)
  PROVE  /\ data' \in [Keys -> {None} \union [size : Sizes, life : {"never", "pending", "passed"}]]
         /\ used' \in Int /\ used' <= Limit /\ list' \in Seq(Keys)
<1>1. data[k].size \in Nat
  BY SizeType
<1>2. list' \in Seq(Keys)
  BY UnlistType DEF TypeOK, Forget
<1>3. used' \in Int /\ used' <= Limit
  BY <1>1, MaxCacheAssumption DEF TypeOK, Forget
<1> QED
  BY <1>2, <1>3 DEF TypeOK, Forget

\* A step of one goroutine, after which its frame is f.
LEMMA FrameStep ==
  ASSUME TypeInv, TypeOK', NEW p \in Procs, NEW f \in Frames, frame' = [frame EXCEPT ![p] = f],
         FrameInv(p)'
  PROVE  TypeInv'
BY DEF TypeInv, FrameInv

\* Where the search of the list stops.
LEMMA FindType ==
  ASSUME list \in Seq(Keys), NEW k
  PROVE  LET I == {i \in 1..Len(list) : list[i] = k}
         IN  I # {} => Min(I) \in I /\ Min(I) \in Nat /\ Min(I) > 0
<1> DEFINE I == {i \in 1..Len(list) : list[i] = k}
<1>1. I \subseteq Nat /\ \A i \in I : i > 0
  OBVIOUS
<1> HIDE DEF I
<1>2. I # {} => Min(I) \in I
  BY <1>1, Least DEF Min
<1>3. I # {} => Min(I) \in I /\ Min(I) \in Nat /\ Min(I) > 0
  BY <1>1, <1>2
<1> QED
  BY <1>3 DEF I

\* Every step of a call, of the sweeper and of time keeps the types.
LEMMA TypeStep == TypeInv /\ [Next]_vars => TypeInv'
<1> SUFFICES ASSUME TypeInv, [Next]_vars PROVE TypeInv'
  OBVIOUS
<1> USE DEF At, Goto, Return
<1>0. /\ TypeOK /\ frame \in [Procs -> Frames]
      /\ \A p \in Procs : FrameInv(p)
      /\ Idle \in Frames /\ Idle.pc = "idle" /\ Idle.op = "none"
  BY DEF TypeInv, Idle, Frames, Steps
\* A step that changes nothing but the frame of one goroutine, and the locks.
<1>1. ASSUME NEW p \in Procs, NEW f \in Frames, frame' = [frame EXCEPT ![p] = f],
             UNCHANGED <<data, used, list, purged>>,
             mLock' \in Procs \union {Free}, cLock' \in Procs \union {Free, Sweeper}, FrameInv(p)'
      PROVE  TypeInv'
  <2>1. TypeOK'
    BY <1>0, <1>1 DEF TypeOK
  <2> QED
    BY <1>1, <2>1, FrameStep
\* A step of a call that is past its beginning and goes on with pc = step.
<1>2. ASSUME NEW p \in Procs, NEW step \in Steps, TypeOK',
             frame' = [frame EXCEPT ![p].pc = step],
             step \in {"exists", "decide", "scan", "fail", "purge", "put"} => frame[p].op = "set",
             step \in {"find", "unlink", "link"} => frame[p].op # "none",
             step # "evict"
      PROVE  TypeInv'
  <2> DEFINE f == [frame[p] EXCEPT !.pc = step]
  <2>1. f \in Frames /\ f.pc = step /\ f.op = frame[p].op /\ f.key = frame[p].key
        /\ f.need = frame[p].need /\ f.life = frame[p].life
    BY <1>0 DEF Frames
  <2>2. frame' = [frame EXCEPT ![p] = f] /\ frame'[p] = f
    BY <1>0, <1>2
  <2> HIDE DEF f
  <2>3. FrameInv(p)'
    BY <1>0, <1>2, <2>1, <2>2 DEF FrameInv
  <2> QED
    BY <1>2, <2>1, <2>2, <2>3, FrameStep
\* A return.
<1>3. ASSUME NEW p \in Procs, TypeOK', frame' = [frame EXCEPT ![p] = Idle] PROVE TypeInv'
  <2>1. FrameInv(p)'
    BY <1>0, <1>3 DEF FrameInv
  <2> QED
    BY <1>0, <1>3, <2>1, FrameStep
\* A goroutine begins to delete key k, and goes on with ret = after.
<1>4. ASSUME NEW p \in Procs, NEW k \in Keys, NEW after \in {"idle", "purge", "decide", "fail"},
             Condemn(p, k, after), after # "idle" => frame[p].op = "set",
             UNCHANGED <<data, used, list, mLock, purged>>
      PROVE  TypeInv'
  <2> DEFINE f == [frame[p] EXCEPT !.pc = "evict", !.victim = k, !.ret = after]
  <2>1. f \in Frames /\ f.pc = "evict" /\ f.op = frame[p].op /\ f.key = frame[p].key
        /\ f.need = frame[p].need /\ f.life = frame[p].life /\ f.victim = k /\ f.ret = after
    BY ZenonT(30), <1>0 DEF Frames, Steps
  <2>2. frame' = [frame EXCEPT ![p] = f] /\ frame'[p] = f /\ cLock' = p
    BY <1>0, <1>4 DEF Condemn
  <2> HIDE DEF f
  <2>3. FrameInv(p)'
    BY <1>0, <1>4, <2>1, <2>2 DEF FrameInv
  <2> QED
    BY <1>0, <1>1, <1>4, <2>1, <2>2, <2>3 DEF TypeOK
<1>5. ASSUME NEW p \in Procs, NEW k \in Keys, CallDelete(p, k) PROVE TypeInv'
  BY <1>4, <1>5 DEF CallDelete
<1>6. ASSUME NEW p \in Procs, NEW k \in Keys, NEW n \in Sizes, NEW life \in Lives, CallSet(p, k, n, life)
      PROVE  TypeInv'
  <2> DEFINE f == [Idle EXCEPT !.op = "set", !.pc = "exists", !.key = k, !.need = n, !.life = life]
  <2>1. f \in Frames /\ f.op = "set" /\ f.pc = "exists" /\ f.key = k /\ f.need = n /\ f.life = life
    BY <1>0, MaxCacheAssumption DEF Frames, Steps
  <2>2. frame' = [frame EXCEPT ![p] = f] /\ frame'[p] = f /\ mLock' = p
        /\ UNCHANGED <<data, used, list, cLock, purged>>
    BY <1>0, <1>6 DEF CallSet
  <2> HIDE DEF f
  <2>3. FrameInv(p)'
    BY <2>1, <2>2 DEF FrameInv
  <2> QED
    BY <1>0, <1>1, <2>1, <2>2, <2>3 DEF TypeOK
<1>7. ASSUME NEW p \in Procs, NEW k \in Keys, CallGet(p, k) PROVE TypeInv'
  <2>1. CASE Passed(k)
    BY <1>4, <1>7, <2>1 DEF CallGet
  <2>2. CASE ~Passed(k)
    <3> DEFINE f == [Idle EXCEPT !.op = "get", !.pc = "find", !.key = k]
    <3>1. f \in Frames /\ f.op = "get" /\ f.pc = "find" /\ f.key = k
      BY <1>0 DEF Frames, Steps
    <3>2. frame' = [frame EXCEPT ![p] = f] /\ frame'[p] = f
          /\ UNCHANGED <<data, used, list, mLock, cLock, purged>>
      BY <1>0, <1>7, <2>2 DEF CallGet
    <3> HIDE DEF f
    <3>3. FrameInv(p)'
      BY <3>1, <3>2 DEF FrameInv
    <3> QED
      BY <1>0, <1>1, <3>1, <3>2, <3>3 DEF TypeOK
  <2> QED
    BY <2>1, <2>2
<1>8. ASSUME NEW p \in Procs, Exists(p) PROVE TypeInv'
  <2> DEFINE f == [frame[p] EXCEPT !.old = data[frame[p].key].size, !.pc = "decide"]
  <2>1. frame[p].op = "set" /\ frame[p].key \in Keys
    BY <1>0, <1>8 DEF Exists, FrameInv
  <2>2. data[frame[p].key].size \in Nat
    BY <1>0, <2>1, SizeType
  <2>3. f \in Frames /\ f.pc = "decide" /\ f.op = frame[p].op /\ f.key = frame[p].key
        /\ f.need = frame[p].need /\ f.life = frame[p].life
    BY <1>0, <2>2 DEF Frames, Steps
  <2>4. frame' = [frame EXCEPT ![p] = f] /\ frame'[p] = f
        /\ UNCHANGED <<data, used, list, mLock, cLock, purged>>
    BY <1>0, <1>8 DEF Exists
  <2> HIDE DEF f
  <2>5. FrameInv(p)'
    BY <1>0, <2>1, <2>3, <2>4 DEF FrameInv
  <2> QED
    BY <1>0, <1>1, <2>3, <2>4, <2>5 DEF TypeOK
<1>9. ASSUME NEW p \in Procs, SlowRead(p) PROVE TypeInv'
  <2>1. frame[p].op = "set" /\ frame[p].key \in Keys
    BY <1>0, <1>9 DEF SlowRead, FrameInv
  <2>2. frame[p].i \in 1..Len(list) => list[frame[p].i] \in Keys
    BY <1>0 DEF TypeOK
  <2> QED
    BY <1>4, <1>9, <2>1, <2>2 DEF SlowRead
<1>10. ASSUME NEW p \in Procs, Decide(p) PROVE TypeInv'
  <2>1. frame[p].op = "set" /\ frame[p].need \in Nat /\ frame[p].old \in Nat
    BY <1>0, <1>10 DEF Decide, FrameInv, Frames
  <2>2. CASE Fits(p)
    <3>1. used' \in Int /\ used' <= Limit /\ mLock' = Free
      BY <1>0, <1>10, <2>1, <2>2, MaxCacheAssumption DEF Decide, Fits, Charge, TypeOK
    <3>2. TypeOK'
      BY <1>0, <1>10, <2>2, <3>1 DEF Decide, TypeOK
    <3>3. Enlist(p) \in {"find", "link"} /\ Enlist(p) \in Steps /\ frame' = [frame EXCEPT ![p].pc = Enlist(p)]
      BY <1>10, <2>2 DEF Decide, Enlist, Steps
    <3> HIDE DEF Enlist
    <3> QED
      BY <1>2, <2>1, <3>2, <3>3
  <2>3. CASE ~Fits(p)
    <3> DEFINE f == [frame[p] EXCEPT !.pc = "scan", !.purging = TRUE, !.i = Len(list)]
    <3>1. f \in Frames /\ f.pc = "scan" /\ f.op = frame[p].op /\ f.key = frame[p].key
          /\ f.need = frame[p].need /\ f.life = frame[p].life
      <4>1. Len(list) \in Nat
        BY <1>0 DEF TypeOK
      <4> QED
        BY <1>0, <4>1 DEF Frames, Steps
    <3>2. frame' = [frame EXCEPT ![p] = f] /\ frame'[p] = f
      BY <1>0, <1>10, <2>3 DEF Decide
    <3> HIDE DEF f
    <3>3. FrameInv(p)'
      BY <1>0, <2>1, <3>1, <3>2 DEF FrameInv
    <3>4. TypeOK'
      BY <1>0, <1>10, <2>3 DEF Decide, TypeOK
    <3> QED
      BY <3>1, <3>2, <3>3, <3>4, FrameStep
  <2> QED
    BY <2>2, <2>3
<1>11. ASSUME NEW p \in Procs, ScanNext(p) PROVE TypeInv'
  <2>1. frame[p].op = "set" /\ frame[p].key \in Keys /\ frame[p].i \in Nat /\ frame[p].i # 0
    BY <1>0, <1>11 DEF ScanNext, FrameInv, Frames
  <2>2. PICK k \in Keys : k = list[frame[p].i]
    BY <1>0, <1>11 DEF ScanNext, TypeOK
  <2>3. PICK free \in Nat, j \in Nat :
          frame' = [frame EXCEPT ![p].free = free, ![p].doomed = Append(@, k), ![p].i = j]
    <3>1. frame[p].free \in Nat /\ data[k].size \in Nat /\ frame[p].i - 1 \in Nat
      BY <1>0, <2>1, SizeType DEF Frames
    <3>2. frame[p].free + data[k].size \in Nat
      BY <3>1
    <3> QED
      BY <1>0, <1>11, <2>2, <3>1, <3>2 DEF ScanNext
  <2> DEFINE f == [frame[p] EXCEPT !.free = free, !.doomed = Append(@, k), !.i = j]
  <2>4. f \in Frames /\ f.pc = frame[p].pc /\ f.op = frame[p].op /\ f.key = frame[p].key
        /\ f.need = frame[p].need /\ f.life = frame[p].life
    <3>1. frame[p].doomed \in Seq(Keys)
      BY <1>0 DEF Frames
    <3>2. Append(frame[p].doomed, k) \in Seq(Keys)
      BY <3>1
    <3> QED
      BY <1>0, <3>2 DEF Frames
  <2>5. frame' = [frame EXCEPT ![p] = f] /\ frame'[p] = f
        /\ UNCHANGED <<data, used, list, mLock, cLock, purged>>
    BY <1>0, <1>11, <2>3 DEF ScanNext
  <2> HIDE DEF f
  <2>6. FrameInv(p)'
    BY <1>0, <1>11, <2>1, <2>4, <2>5 DEF FrameInv, ScanNext
  <2> QED
    BY <1>0, <1>1, <2>4, <2>5, <2>6 DEF TypeOK
<1>12. ASSUME NEW p \in Procs, ScanEnd(p) PROVE TypeInv'
  <2>1. TypeOK' /\ frame[p].op = "set" /\ "purge" \in Steps
    BY <1>0, <1>12 DEF ScanEnd, TypeOK, FrameInv, Steps
  <2> QED
    BY <1>2, <1>12, <2>1 DEF ScanEnd
<1>13. ASSUME NEW p \in Procs, ScanFails(p) PROVE TypeInv'
  <2>1. TypeOK'
    BY <1>0, <1>13 DEF ScanFails, TypeOK
  <2> QED
    BY <1>3, <1>13, <2>1 DEF ScanFails
<1>14. ASSUME NEW p \in Procs, Purge(p) PROVE TypeInv'
  <2>1. frame[p].op = "set" /\ frame[p].doomed \in Seq(Keys) /\ frame[p].doomed # << >>
    BY <1>0, <1>14 DEF Purge, FrameInv, Frames
  <2>2. PICK k \in Keys, rest \in Seq(Keys) : k = Head(frame[p].doomed) /\ rest = Tail(frame[p].doomed)
    <3>1. Head(frame[p].doomed) \in Keys /\ Tail(frame[p].doomed) \in Seq(Keys)
      BY <2>1, HeadTailProperties
    <3> QED
      BY <3>1
  <2>3. CASE Present(k)
    <3> DEFINE f == [frame[p] EXCEPT !.pc = "evict", !.victim = k, !.ret = "purge", !.doomed = rest]
    <3>1. f \in Frames /\ f.pc = "evict" /\ f.op = frame[p].op /\ f.key = frame[p].key
          /\ f.need = frame[p].need /\ f.life = frame[p].life /\ f.victim = k
      BY <1>0 DEF Frames, Steps
    <3>2. frame' = [frame EXCEPT ![p] = f] /\ frame'[p] = f /\ cLock' = p
          /\ UNCHANGED <<data, used, list, mLock, purged>>
      BY <1>0, <1>14, <2>2, <2>3 DEF Purge
    <3> HIDE DEF f
    <3>3. FrameInv(p)'
      BY <1>0, <2>1, <3>1, <3>2 DEF FrameInv
    <3> QED
      BY <1>0, <1>1, <3>1, <3>2, <3>3 DEF TypeOK
  <2>4. CASE ~Present(k)
    <3> DEFINE f == [frame[p] EXCEPT !.doomed = rest]
    <3>1. f \in Frames /\ f.pc = frame[p].pc /\ f.op = frame[p].op /\ f.key = frame[p].key
          /\ f.need = frame[p].need /\ f.life = frame[p].life
      BY <1>0 DEF Frames
    <3>2. frame' = [frame EXCEPT ![p] = f] /\ frame'[p] = f
          /\ UNCHANGED <<data, used, list, mLock, cLock, purged>>
      BY <1>0, <1>14, <2>2, <2>4 DEF Purge
    <3> HIDE DEF f
    <3>3. FrameInv(p)'
      BY <1>0, <1>14, <2>1, <3>1, <3>2 DEF FrameInv, Purge
    <3> QED
      BY <1>0, <1>1, <3>1, <3>2, <3>3 DEF TypeOK
  <2> QED
    BY <2>3, <2>4
<1>15. ASSUME NEW p \in Procs, PurgeEnd(p) PROVE TypeInv'
  <2>1. TypeOK' /\ frame[p].op = "set"
    BY <1>0, <1>15 DEF PurgeEnd, TypeOK, FrameInv
  <2>2. Enlist(p) \in {"find", "link"} /\ Enlist(p) \in Steps /\ frame' = [frame EXCEPT ![p].pc = Enlist(p)]
    BY <1>15 DEF PurgeEnd, Enlist, Steps
  <2> HIDE DEF Enlist
  <2> QED
    BY <1>2, <2>1, <2>2
<1>16. ASSUME NEW p \in Procs, Evict(p) PROVE TypeInv'
  <2>1. PICK k \in Keys : k = frame[p].victim
    BY <1>0, <1>16 DEF Evict, FrameInv
  <2>2. TypeOK'
    <3>1. Forget(k) /\ UNCHANGED <<mLock, purged>> /\ cLock' = Free
      BY <1>16, <2>1 DEF Evict
    <3> QED
      BY <1>0, <3>1, ForgetType DEF TypeOK
  <2>3. /\ frame[p].ret \in {"idle", "purge", "decide", "fail"}
        /\ frame[p].ret # "idle" => frame[p].op = "set" /\ frame[p].ret \in Steps
    BY <1>0, <1>16 DEF Evict, FrameInv, Frames, Steps
  <2>4. CASE frame[p].ret = "idle"
    BY <1>3, <1>16, <2>2, <2>4 DEF Evict
  <2>5. CASE frame[p].ret # "idle"
    BY <1>2, <1>16, <2>2, <2>3, <2>5 DEF Evict
  <2> QED
    BY <2>4, <2>5
<1>17. ASSUME NEW p \in Procs, Find(p) PROVE TypeInv'
  <2>1. PICK j \in Nat, step \in {"unlink", "link"} :
          frame' = [frame EXCEPT ![p].i = j, ![p].pc = step]
    <3> DEFINE I == {i \in 1..Len(list) : list[i] = frame[p].key}
               found == IF I # {} THEN Min(I) ELSE 0
    <3>1. found \in Nat
      BY <1>0, FindType DEF TypeOK
    <3>2. frame' = [frame EXCEPT ![p].i = found, ![p].pc = IF found > 0 THEN "unlink" ELSE "link"]
      BY <1>17 DEF Find, SelectInSeq
    <3> HIDE DEF found
    <3> QED
      BY <3>1, <3>2
  <2> DEFINE f == [frame[p] EXCEPT !.i = j, !.pc = step]
  <2>2. f \in Frames /\ f.pc = step /\ f.op = frame[p].op /\ f.key = frame[p].key
        /\ f.need = frame[p].need /\ f.life = frame[p].life
    BY <1>0 DEF Frames, Steps
  <2>3. frame' = [frame EXCEPT ![p] = f] /\ frame'[p] = f
        /\ UNCHANGED <<data, used, list, mLock, cLock, purged>>
    BY <1>0, <1>17, <2>1 DEF Find
  <2> HIDE DEF f
  <2>4. FrameInv(p)'
    BY <1>0, <1>17, <2>2, <2>3 DEF FrameInv, Find
  <2> QED
    BY <1>0, <1>1, <2>2, <2>3, <2>4 DEF TypeOK
<1>18. ASSUME NEW p \in Procs, Unlink(p) PROVE TypeInv'
  <2>1. frame[p].op # "none" /\ "link" \in Steps
    BY <1>0, <1>18 DEF Unlink, FrameInv, Steps
  <2>2. CASE frame[p].i <= Len(list)
    <3>1. RemoveAt(list, frame[p].i) \in Seq(Keys)
      <4>1. frame[p].i \in Nat /\ list \in Seq(Keys)
        BY <1>0 DEF TypeOK, Frames
      <4> QED
        BY <2>2, <4>1, RemoveAtType
    <3>2. TypeOK'
      BY <1>0, <1>18, <2>2, <3>1 DEF Unlink, TypeOK
    <3> QED
      BY <1>2, <1>18, <2>1, <2>2, <3>2 DEF Unlink
  <2>3. CASE ~(frame[p].i <= Len(list))
    <3>1. TypeOK'
      BY <1>0, <1>18, <2>3 DEF Unlink, TypeOK
    <3> QED
      BY <1>3, <1>18, <2>3, <3>1 DEF Unlink
  <2> QED
    BY <2>2, <2>3
<1>19. ASSUME NEW p \in Procs, Link(p) PROVE TypeInv'
  <2>1. frame[p].key \in Keys /\ "put" \in Steps
    BY <1>0, <1>19 DEF Link, FrameInv, Steps
  <2>2. TypeOK'
    BY <1>0, <1>19, <2>1 DEF Link, AtHead, TypeOK
  <2>3. CASE frame[p].op = "set"
    BY <1>2, <1>19, <2>1, <2>2, <2>3 DEF Link
  <2>4. CASE frame[p].op # "set"
    BY <1>3, <1>19, <2>2, <2>4 DEF Link
  <2> QED
    BY <2>3, <2>4
<1>20. ASSUME NEW p \in Procs, Put(p) PROVE TypeInv'
  <2>1. frame[p].key \in Keys /\ frame[p].need \in Sizes /\ frame[p].life \in {"never", "pending", "passed"}
    BY <1>0, <1>20, MaxCacheAssumption DEF Put, FrameInv
  <2>2. TypeOK'
    BY <1>0, <1>20, <2>1 DEF Put, TypeOK
  <2> QED
    BY <1>3, <1>20, <2>2 DEF Put
<1>21. ASSUME NEW k \in Keys, Expire(k) PROVE TypeInv'
  <2>1. data[k].size \in Sizes
    BY <1>0, <1>21 DEF Expire, TypeOK, None
  <2>2. TypeOK'
    BY <1>0, <1>21, <2>1 DEF Expire, TypeOK, None
  <2> QED
    BY <1>0, <1>21, <2>2 DEF TypeInv, FrameInv, Expire
<1>22. ASSUME NEW k \in Keys, SweepOne(k) PROVE TypeInv'
  <2>1. TypeOK'
    BY <1>0, <1>22, ForgetType DEF SweepOne, TypeOK
  <2> QED
    BY <1>0, <1>22, <2>1 DEF TypeInv, FrameInv, SweepOne
<1>23. CASE SweepStart \/ SweepEnd
  BY <1>0, <1>23 DEF SweepStart, SweepEnd, TypeOK, TypeInv, FrameInv
<1>24. CASE UNCHANGED vars
  BY <1>0, <1>24 DEF vars, TypeOK, TypeInv, FrameInv
<1> QED
  BY <1>5, <1>6, <1>7, <1>8, <1>9, <1>10, <1>11, <1>12, <1>13, <1>14, <1>15, <1>16, <1>17, <1>18,
     <1>19, <1>20, <1>21, <1>22, <1>23, <1>24 DEF Next, Call, Step, Background

-----------------------------------------------------------------------------
(* Locks *)

\* Set holds m.lock from line 50 to the end of its decision; when a read of the
\* embedded cache finds an expired item, while that is deleted too.
Guards(p) ==
  \/ frame[p].pc \in {"exists", "decide", "scan", "fail"}
  \/ frame[p].pc = "evict" /\ frame[p].ret \in {"decide", "fail"}

\* The goroutines that hold the two mutexes are the ones whose next step says so.
LockInv ==
  \A p \in Procs : /\ mLock = p <=> Guards(p)
                   /\ cLock = p <=> At(p, "evict")

\* Nobody holds a mutex.
LEMMA LockInit == Init => LockInv
BY MaxCacheAssumption DEF Init, LockInv, Guards, At, Idle


\* A goroutine that takes, keeps or releases the mutexes; the others do not move.
LEMMA LockMove ==
  ASSUME LockInv, NEW p \in Procs, \A q \in Procs : q # p => frame'[q] = frame[q],
         \/ mLock' = mLock /\ (Guards(p)' <=> Guards(p))
         \/ mLock = Free /\ mLock' = p /\ Guards(p)'
         \/ mLock = p /\ mLock' = Free /\ ~Guards(p)',
         \/ cLock' = cLock /\ (frame'[p].pc = "evict" <=> frame[p].pc = "evict")
         \/ cLock = Free /\ cLock' = p /\ frame'[p].pc = "evict"
         \/ cLock = p /\ cLock' = Free /\ frame'[p].pc # "evict"
  PROVE  LockInv'
<1>1. Free \notin Procs
  BY MaxCacheAssumption
<1>2. \A q \in Procs : q # p => (Guards(q)' <=> Guards(q))
  BY DEF Guards
<1>3. \A q \in Procs : (mLock = q <=> Guards(q)) /\ (cLock = q <=> frame[q].pc = "evict")
  BY DEF LockInv, At
<1>4. ASSUME NEW q \in Procs PROVE mLock' = q <=> Guards(q)'
  BY <1>1, <1>2, <1>3
<1>5. ASSUME NEW q \in Procs PROVE cLock' = q <=> frame'[q].pc = "evict"
  BY <1>1, <1>3
<1> QED
  BY <1>4, <1>5 DEF LockInv, At

\* Each step takes and releases a mutex together with the goroutine's next step.
LEMMA LockStep == TypeInv /\ LockInv /\ [Next]_vars => LockInv'
<1> SUFFICES ASSUME TypeInv, LockInv, [Next]_vars PROVE LockInv'
  OBVIOUS
<1> USE DEF At, Goto, Return
<1>0. /\ frame \in [Procs -> Frames]
      /\ \A p \in Procs : frame[p].ret \in {"idle", "purge", "decide", "fail"}
      /\ Idle.pc = "idle"
      /\ \A p \in Procs : Guards(p) => mLock = p
      /\ \A p \in Procs : frame[p].pc = "evict" => cLock = p
  BY DEF TypeInv, Frames, Idle, LockInv
\* What a change of one frame leaves of it.
<1>1. ASSUME NEW p \in Procs, NEW step, frame' = [frame EXCEPT ![p].pc = step]
      PROVE  frame'[p].pc = step /\ (\A q \in Procs : q # p => frame'[q] = frame[q])
  BY <1>0, <1>1 DEF Frames
<1>2. ASSUME NEW p \in Procs, frame' = [frame EXCEPT ![p] = Idle]
      PROVE  frame'[p].pc = "idle" /\ (\A q \in Procs : q # p => frame'[q] = frame[q])
  BY <1>0, <1>2
<1>3. ASSUME NEW p \in Procs, NEW k, NEW after, Condemn(p, k, after), cLock = Free, mLock' = mLock,
             after \in {"decide", "fail"} <=> Guards(p)
      PROVE  LockInv'
  <2>1. /\ frame'[p].pc = "evict" /\ frame'[p].ret = after /\ cLock' = p
        /\ \A q \in Procs : q # p => frame'[q] = frame[q]
    BY <1>0, <1>3 DEF Condemn, Frames
  <2> QED
    BY <1>3, <2>1, LockMove DEF Guards
<1>4. ASSUME NEW p \in Procs, NEW k \in Keys, NEW n \in Sizes, NEW life \in Lives, CallSet(p, k, n, life)
      PROVE  LockInv'
  <2>1. /\ frame'[p].pc = "exists" /\ (\A q \in Procs : q # p => frame'[q] = frame[q])
        /\ mLock = Free /\ mLock' = p /\ cLock' = cLock /\ frame[p].pc = "idle"
    BY <1>0, <1>4 DEF CallSet, Idle
  <2> QED
    BY <2>1, LockMove DEF Guards
<1>5. ASSUME NEW p \in Procs, NEW k \in Keys, CallGet(p, k) PROVE LockInv'
  <2>1. frame[p].pc = "idle" /\ cLock = Free /\ mLock' = mLock
    BY <1>5 DEF CallGet
  <2>2. CASE Passed(k)
    BY <1>3, <1>5, <2>1, <2>2 DEF CallGet, Guards
  <2>3. CASE ~Passed(k)
    <3>1. frame'[p].pc = "find" /\ (\A q \in Procs : q # p => frame'[q] = frame[q]) /\ cLock' = cLock
      BY <1>0, <1>5, <2>3 DEF CallGet, Idle
    <3> QED
      BY <2>1, <3>1, LockMove DEF Guards
  <2> QED
    BY <2>2, <2>3
<1>6. ASSUME NEW p \in Procs, NEW k \in Keys, CallDelete(p, k) PROVE LockInv'
  BY <1>3, <1>6 DEF CallDelete, Guards
<1>7. ASSUME NEW p \in Procs, Exists(p) PROVE LockInv'
  <2>1. /\ frame[p].pc = "exists" /\ frame'[p].pc = "decide" /\ UNCHANGED <<mLock, cLock>>
        /\ \A q \in Procs : q # p => frame'[q] = frame[q]
    BY <1>0, <1>7 DEF Exists, Frames
  <2> QED
    BY <2>1, LockMove DEF Guards
<1>8. ASSUME NEW p \in Procs, SlowRead(p) PROVE LockInv'
  <2>1. Guards(p) /\ cLock = Free /\ mLock' = mLock
    BY <1>8 DEF SlowRead, Guards
  <2>2. \E k, after : Condemn(p, k, after) /\ after \in {"decide", "fail"}
    BY <1>8 DEF SlowRead
  <2> QED
    BY <1>3, <2>1, <2>2
<1>9. ASSUME NEW p \in Procs, Decide(p) PROVE LockInv'
  <2>1. frame[p].pc = "decide" /\ mLock = p /\ cLock' = cLock
    BY <1>0, <1>9 DEF Decide, Guards
  <2>2. \/ mLock' = Free /\ frame'[p].pc \in {"find", "link"} /\ (\A q \in Procs : q # p => frame'[q] = frame[q])
        \/ mLock' = mLock /\ frame'[p].pc = "scan" /\ (\A q \in Procs : q # p => frame'[q] = frame[q])
    <3>1. CASE Fits(p)
      <4>1. mLock' = Free /\ frame' = [frame EXCEPT ![p].pc = Enlist(p)] /\ Enlist(p) \in {"find", "link"}
        BY <1>9, <3>1 DEF Decide, Enlist
      <4> QED
        BY <1>1, <4>1
    <3>2. CASE ~Fits(p)
      BY <1>0, <1>9, <3>2 DEF Decide, Frames
    <3> QED
      BY <3>1, <3>2
  <2> QED
    BY <2>1, <2>2, LockMove DEF Guards
<1>10. ASSUME NEW p \in Procs, ScanNext(p) PROVE LockInv'
  <2>1. /\ frame'[p].pc = frame[p].pc /\ frame[p].pc = "scan" /\ UNCHANGED <<mLock, cLock>>
        /\ \A q \in Procs : q # p => frame'[q] = frame[q]
    BY <1>0, <1>10 DEF ScanNext, Frames
  <2> QED
    BY <2>1, LockMove DEF Guards
<1>11. ASSUME NEW p \in Procs, ScanEnd(p) PROVE LockInv'
  <2>1. frame[p].pc = "scan" /\ mLock = p /\ mLock' = Free /\ cLock' = cLock /\ frame' = [frame EXCEPT ![p].pc = "purge"]
    BY <1>0, <1>11 DEF ScanEnd, Guards
  <2> QED
    BY <1>1, <2>1, LockMove DEF Guards
<1>12. ASSUME NEW p \in Procs, ScanFails(p) PROVE LockInv'
  <2>1. /\ frame[p].pc \in {"scan", "fail"} /\ mLock = p /\ mLock' = Free /\ cLock' = cLock
        /\ frame' = [frame EXCEPT ![p] = Idle]
    BY <1>0, <1>12 DEF ScanFails, Guards
  <2> QED
    BY <1>2, <2>1, LockMove DEF Guards
<1>13. ASSUME NEW p \in Procs, Purge(p) PROVE LockInv'
  <2>1. /\ frame[p].pc = "purge" /\ mLock' = mLock /\ cLock = Free
        /\ \A q \in Procs : q # p => frame'[q] = frame[q]
        /\ \/ cLock' = p /\ frame'[p].pc = "evict" /\ frame'[p].ret = "purge"
           \/ cLock' = cLock /\ frame'[p].pc = "purge"
    BY <1>0, <1>13 DEF Purge, Frames
  <2> QED
    BY <2>1, LockMove DEF Guards
<1>14. ASSUME NEW p \in Procs, PurgeEnd(p) PROVE LockInv'
  <2>1. /\ frame[p].pc = "purge" /\ UNCHANGED <<mLock, cLock>>
        /\ frame' = [frame EXCEPT ![p].pc = Enlist(p)] /\ Enlist(p) \in {"find", "link"}
    BY <1>14 DEF PurgeEnd, Enlist
  <2> QED
    BY <1>1, <2>1, LockMove DEF Guards
<1>15. ASSUME NEW p \in Procs, Evict(p) PROVE LockInv'
  <2>1. frame[p].pc = "evict" /\ cLock = p /\ cLock' = Free /\ mLock = Free /\ mLock' = mLock
    BY <1>0, <1>15 DEF Evict, Forget
  <2>2. ~Guards(p) /\ frame[p].ret \in {"idle", "purge"}
    <3>1. ~Guards(p)
      BY <1>0, <2>1, MaxCacheAssumption
    <3> QED
      BY <1>0, <2>1, <3>1 DEF Guards
  <2>3. frame'[p].pc \in {"idle", "purge"} /\ (\A q \in Procs : q # p => frame'[q] = frame[q])
    BY <1>1, <1>2, <1>15, <2>2 DEF Evict
  <2> QED
    BY <2>1, <2>2, <2>3, LockMove DEF Guards
<1>16. ASSUME NEW p \in Procs, Find(p) \/ Unlink(p) \/ Link(p) \/ Put(p) PROVE LockInv'
  <2>1. frame[p].pc \in {"find", "unlink", "link", "put"} /\ UNCHANGED <<mLock, cLock>>
    BY <1>16 DEF Find, Unlink, Link, Put
  <2>2. frame'[p].pc \in {"unlink", "link", "put", "idle"} /\ (\A q \in Procs : q # p => frame'[q] = frame[q])
    <3>1. CASE Find(p)
      <4> DEFINE found == SelectInSeq(list, LAMBDA l : l = frame[p].key)
      <4>1. \E i, step : step \in {"unlink", "link"} /\ frame' = [frame EXCEPT ![p].i = i, ![p].pc = step]
        BY <3>1 DEF Find
      <4> QED
        BY <1>0, <4>1 DEF Frames
    <3>2. CASE Unlink(p) \/ Link(p)
      BY <1>1, <1>2, <3>2 DEF Unlink, Link
    <3>3. CASE Put(p)
      BY <1>2, <3>3 DEF Put
    <3> QED
      BY <1>16, <3>1, <3>2, <3>3
  <2> QED
    BY <2>1, <2>2, LockMove DEF Guards
<1>17. CASE Background
  <2>1. /\ UNCHANGED <<frame, mLock>>
        /\ cLock' = cLock \/ (cLock \in {Free, Sweeper} /\ cLock' \in {Free, Sweeper})
    BY <1>17 DEF Background, SweepStart, SweepOne, SweepEnd, Expire
  <2> QED
    BY <2>1, MaxCacheAssumption DEF LockInv, Guards
<1>18. CASE UNCHANGED vars
  BY <1>18 DEF vars, LockInv, Guards
<1> QED
  BY <1>4, <1>5, <1>6, <1>7, <1>8, <1>9, <1>10, <1>11, <1>12, <1>13, <1>14, <1>15, <1>16, <1>17, <1>18
     DEF Next, Call, Step

-----------------------------------------------------------------------------
(* The counter, for a cache used by one goroutine *)

\* What Set has charged for the item that it has not stored yet.
Ahead(p) ==
  IF frame[p].op = "set" /\ ~frame[p].purging /\ frame[p].pc \in {"find", "unlink", "link", "put"}
    THEN frame[p].need - data[frame[p].key].size ELSE 0

\* A Set that makes room charges nothing, but it does so only for a value that is
\* longer than the one it replaces.
CountInv(p) ==
  /\ \A k \in Keys : data[k].life \in {"absent", "never"}
  /\ cLock # Sweeper
  /\ frame[p].pc = "idle" => frame[p] = Idle
  /\ frame[p].pc = "evict" => frame[p].ret \in {"idle", "purge"}
  /\ frame[p].pc \in {"decide", "scan"} => frame[p].old = data[frame[p].key].size
  /\ frame[p].pc \in {"exists", "decide"} => ~frame[p].purging
  /\ frame[p].op = "set" /\ ~frame[p].purging /\ frame[p].pc \in {"find", "unlink", "link", "put"}
       => frame[p].old = data[frame[p].key].size
  /\ frame[p].pc = "unlink" => frame[p].i \in 1..Len(list)
  /\ frame[p].pc \in {"scan", "purge"} \/ (frame[p].pc = "evict" /\ frame[p].op = "set") => frame[p].purging
  /\ frame[p].purging => purged /\ frame[p].op = "set" /\ data[frame[p].key].size <= frame[p].need
  /\ IsFiniteSet(Bytes)
  /\ used - Ahead(p) <= Sum
  /\ ~purged => used - Ahead(p) = Sum

\* Nothing is stored.
LEMMA CountInit == ASSUME Init, NEW p \in Procs PROVE CountInv(p)
<1>1. Bytes = {}
  BY DEF Init, Bytes, None
<1>2. IsFiniteSet(Bytes) /\ Sum = 0
  BY <1>1, FS_EmptySet DEF Sum
<1>3. \A k \in Keys : data[k].life = "absent"
  BY DEF Init, None
<1>4. /\ frame[p] = Idle /\ frame[p].pc = "idle" /\ frame[p].op = "none" /\ ~frame[p].purging /\ used = 0
      /\ cLock # Sweeper
  BY DEF Init, Idle, Free, Sweeper
<1> QED
  BY <1>2, <1>3, <1>4 DEF CountInv, Ahead

\* Steps that change neither the items nor the counter do not change the number
\* of bytes.
LEMMA CountKeeps ==
  ASSUME NEW p \in Procs, UNCHANGED <<data, used>>
  PROVE  Bytes' = Bytes /\ Sum' = Sum
BY DEF Bytes, Sum

\* The number of bytes while CountInv holds.
LEMMA SumType ==
  ASSUME IsFiniteSet(Bytes)
  PROVE  Sum \in Nat
BY FS_CardinalityType DEF Sum

\* Every step of the goroutine keeps the counter in step with the stored bytes;
\* the sweeper and the deadlines do nothing.
LEMMA CountStep ==
  ASSUME NEW p, Procs = {p}, Lives \subseteq {"never"}, TypeInv, CountInv(p), [Next]_vars
  PROVE  CountInv(p)'
<1> USE DEF At, Goto, Return
<1>0. /\ TypeOK /\ p \in Procs /\ frame \in [Procs -> Frames] /\ FrameInv(p) /\ Sum \in Nat /\ used \in Int
      /\ Idle.pc = "idle" /\ Idle.op = "none" /\ Idle.purging = FALSE
      /\ \A k \in Keys : data[k].size \in Nat /\ data[k].life \in {"absent", "never"}
      /\ \A k \in Keys : ~Passed(k)
      /\ frame[p].need \in Nat /\ frame[p].old \in Nat /\ frame[p].purging \in BOOLEAN
  BY SizeType, SumType DEF TypeInv, TypeOK, Frames, Idle, CountInv, Passed
\* An item goes, and the counter with it.
<1>1. ASSUME NEW k \in Keys, Forget(k)
      PROVE  /\ IsFiniteSet(Bytes') /\ used' - Sum' = used - Sum /\ Sum' \in Nat /\ used' \in Int
             /\ \A l \in Keys : data'[l].size = (IF l = k THEN 0 ELSE data[l].size)
                                /\ data'[l].life \in {"absent", "never"}
  <2>1. None.size = 0 /\ None.life = "absent" /\ data' = [data EXCEPT ![k] = None]
    BY <1>1 DEF None, Forget
  <2>2. \A l \in Keys : data'[l].size = (IF l = k THEN 0 ELSE data[l].size)
                        /\ data'[l].life \in {"absent", "never"}
    BY <1>0, <2>1 DEF TypeOK
  <2>3. Sum' = Sum - data[k].size + 0 /\ IsFiniteSet(Bytes') /\ Sum' \in Nat
    BY <1>0, <2>2, BytesChange DEF CountInv
  <2>4. used' = used - data[k].size
    BY <1>1 DEF Forget
  <2> QED
    BY <1>0, <2>2, <2>3, <2>4
<1>2. ASSUME frame' = [frame EXCEPT ![p] = Idle]
      PROVE  frame'[p] = Idle
  BY <1>0, <1>2
<1>3. ASSUME NEW k \in Keys, NEW n \in Sizes, NEW life \in Lives, CallSet(p, k, n, life) PROVE CountInv(p)'
  <2>1. /\ frame'[p].pc = "exists" /\ ~frame'[p].purging /\ frame[p].pc = "idle"
        /\ UNCHANGED <<data, used, cLock, purged>>
    BY <1>0, <1>3 DEF CallSet, Idle
  <2> QED
    BY <1>0, <2>1, CountKeeps DEF CountInv, Ahead
<1>4. ASSUME NEW k \in Keys, CallGet(p, k) PROVE CountInv(p)'
  <2>1. /\ frame'[p].pc = "find" /\ ~frame'[p].purging /\ frame'[p].op = "get" /\ frame[p].pc = "idle"
        /\ UNCHANGED <<data, used, cLock, purged>>
    <3>1. ~Passed(k)
      BY <1>0
    <3>2. /\ frame' = [frame EXCEPT ![p] = [Idle EXCEPT !.op = "get", !.pc = "find", !.key = k]]
          /\ frame[p].pc = "idle" /\ UNCHANGED <<data, used, cLock, purged>>
      BY <1>4, <3>1 DEF CallGet
    <3> QED
      BY <1>0, <3>2 DEF Idle
  <2> QED
    BY <1>0, <2>1, CountKeeps DEF CountInv, Ahead
<1>5. ASSUME NEW k \in Keys, CallDelete(p, k) PROVE CountInv(p)'
  <2>1. /\ frame'[p].pc = "evict" /\ frame'[p].ret = "idle" /\ cLock' = p /\ frame[p].pc = "idle"
        /\ frame'[p].purging = frame[p].purging /\ frame'[p].op = frame[p].op
        /\ UNCHANGED <<data, used, purged>>
    BY <1>0, <1>5 DEF CallDelete, Condemn, Frames
  <2>2. frame[p].op = "none" /\ frame[p].purging = FALSE
    BY <1>0, <2>1 DEF CountInv
  <2> QED
    BY <1>0, <2>1, <2>2, CountKeeps, MaxCacheAssumption DEF CountInv, Ahead
<1>6. ASSUME Exists(p) PROVE CountInv(p)'
  <2>1. /\ frame'[p].pc = "decide" /\ frame'[p].old = data[frame[p].key].size /\ frame'[p].key = frame[p].key
        /\ frame'[p].purging = frame[p].purging /\ frame'[p].op = frame[p].op /\ frame[p].pc = "exists"
        /\ UNCHANGED <<data, used, cLock, purged>>
    BY <1>0, <1>6 DEF Exists, Frames
  <2> QED
    BY <1>0, <2>1, CountKeeps DEF CountInv, Ahead
<1>7. ASSUME SlowRead(p) PROVE FALSE
  <2>1. /\ frame[p].pc = "exists" => frame[p].key \in Keys
        /\ frame[p].i \in 1..Len(list) => list[frame[p].i] \in Keys
    BY <1>0 DEF FrameInv, TypeOK
  <2> QED
    BY <1>0, <1>7, <2>1 DEF SlowRead
<1>8. ASSUME Decide(p), Fits(p) PROVE CountInv(p)'
  <2>1. /\ frame'[p].pc \in {"find", "link"}
        /\ frame'[p].op = frame[p].op /\ frame'[p].purging = frame[p].purging /\ frame'[p].key = frame[p].key
        /\ frame'[p].need = frame[p].need /\ frame'[p].old = frame[p].old /\ frame[p].pc = "decide"
        /\ UNCHANGED <<data, cLock, purged>> /\ used' = used - frame[p].old + frame[p].need
    BY <1>0, <1>8 DEF Decide, Enlist, Charge, Frames
  <2>2. /\ frame[p].op = "set" /\ frame[p].purging = FALSE /\ frame[p].old = data[frame[p].key].size
        /\ Ahead(p) = 0
    BY <1>0, <2>1 DEF CountInv, FrameInv, Ahead
  <2>3. Bytes' = Bytes /\ Sum' = Sum
    BY <2>1 DEF Bytes, Sum
  <2>4. Ahead(p)' = frame[p].need - frame[p].old
    BY <2>1, <2>2 DEF Ahead
  <2>5. used' - Ahead(p)' = used - Ahead(p)
    BY <1>0, <2>1, <2>2, <2>4
  <2>6. (used - Ahead(p))' <= Sum' /\ (~purged' => (used - Ahead(p))' = Sum')
    BY <2>1, <2>3, <2>5 DEF CountInv
  <2> QED
    BY <2>1, <2>2, <2>3, <2>6 DEF CountInv
<1>9. ASSUME Decide(p), ~Fits(p) PROVE CountInv(p)'
  <2>1. /\ frame'[p].pc = "scan" /\ frame'[p].purging = TRUE
        /\ frame'[p].op = frame[p].op /\ frame'[p].key = frame[p].key
        /\ frame'[p].need = frame[p].need /\ frame'[p].old = frame[p].old /\ frame[p].pc = "decide"
        /\ UNCHANGED <<data, used, cLock>> /\ purged' = TRUE
    BY <1>0, <1>9 DEF Decide, Frames
  <2>2. /\ frame[p].op = "set" /\ frame[p].old = data[frame[p].key].size /\ Ahead(p) = 0
    BY <1>0, <2>1 DEF CountInv, FrameInv, Ahead
  <2>3. frame[p].old <= frame[p].need
    BY <1>0, <1>9, MaxCacheAssumption DEF Fits, TypeOK
  <2>4. Bytes' = Bytes /\ Sum' = Sum
    BY <2>1 DEF Bytes, Sum
  <2>5. Ahead(p)' = 0
    BY <2>1 DEF Ahead
  <2>6. (used - Ahead(p))' <= Sum'
    BY <1>0, <2>1, <2>2, <2>4, <2>5 DEF CountInv
  <2> QED
    BY <2>1, <2>2, <2>3, <2>4, <2>6 DEF CountInv
<1>10. ASSUME ScanNext(p) \/ ScanEnd(p) PROVE CountInv(p)'
  <2>1. /\ frame'[p].pc \in {"scan", "purge"} /\ frame[p].pc = "scan" /\ UNCHANGED <<data, used, cLock, purged>>
        /\ frame'[p].op = frame[p].op /\ frame'[p].purging = frame[p].purging /\ frame'[p].key = frame[p].key
        /\ frame'[p].need = frame[p].need /\ frame'[p].old = frame[p].old
    BY <1>0, <1>10 DEF ScanNext, ScanEnd, Frames
  <2>2. frame[p].purging
    BY <2>1 DEF CountInv
  <2> QED
    BY <1>0, <2>1, <2>2, CountKeeps DEF CountInv, Ahead
<1>11. ASSUME ScanFails(p) PROVE CountInv(p)'
  <2>1. frame'[p] = Idle /\ UNCHANGED <<data, used, cLock, purged>> /\ frame[p].pc \in {"scan", "fail"}
    BY <1>2, <1>11 DEF ScanFails
  <2> QED
    BY <1>0, <2>1, CountKeeps DEF CountInv, Ahead
<1>12. ASSUME Purge(p) PROVE CountInv(p)'
  <2>1. /\ frame'[p].op = frame[p].op /\ frame'[p].purging = frame[p].purging /\ frame'[p].key = frame[p].key
        /\ frame'[p].need = frame[p].need /\ frame[p].pc = "purge" /\ UNCHANGED <<data, used, purged>>
        /\ \/ frame'[p].pc = "evict" /\ frame'[p].ret = "purge" /\ cLock' = p
           \/ frame'[p].pc = "purge" /\ cLock' = cLock
    BY <1>0, <1>12 DEF Purge, Frames
  <2>2. frame[p].purging
    BY <2>1 DEF CountInv
  <2> QED
    BY <1>0, <2>1, <2>2, CountKeeps, MaxCacheAssumption DEF CountInv, Ahead
<1>13. ASSUME PurgeEnd(p) PROVE CountInv(p)'
  <2>1. /\ frame'[p].pc \in {"find", "link"}
        /\ frame'[p].op = frame[p].op /\ frame'[p].purging = frame[p].purging /\ frame'[p].key = frame[p].key
        /\ frame'[p].need = frame[p].need /\ frame[p].pc = "purge" /\ UNCHANGED <<data, used, cLock, purged>>
    BY <1>0, <1>13 DEF PurgeEnd, Enlist, Frames
  <2>2. frame[p].purging
    BY <2>1 DEF CountInv
  <2> QED
    BY <1>0, <2>1, <2>2, CountKeeps DEF CountInv, Ahead
<1>14. ASSUME Evict(p) PROVE CountInv(p)'
  <2>1. PICK k \in Keys : k = frame[p].victim
    BY <1>0, <1>14 DEF Evict, FrameInv
  <2>2. Forget(k) /\ cLock' = Free /\ purged' = purged /\ frame[p].pc = "evict" /\ frame[p].ret \in {"idle", "purge"}
    BY <1>14, <2>1 DEF Evict, CountInv
  <2>3. /\ IsFiniteSet(Bytes') /\ used' - Sum' = used - Sum /\ Sum' \in Nat /\ used' \in Int
        /\ \A l \in Keys : data'[l].size = (IF l = k THEN 0 ELSE data[l].size)
                           /\ data'[l].life \in {"absent", "never"}
    BY <1>1, <2>2
  <2>4. Ahead(p) = 0 /\ Free # Sweeper
    BY <2>2 DEF Ahead, Free, Sweeper
  <2>5. used' <= Sum' /\ (~purged' => used' = Sum')
    BY <1>0, <2>2, <2>3, <2>4 DEF CountInv
  <2>6. used' - 0 = used'
    <3>1. \A i \in Int : i - 0 = i
      OBVIOUS
    <3> QED
      BY <2>3, <3>1
  <2>7. CASE frame[p].ret = "idle"
    <3>1. frame'[p] = Idle
      BY <1>2, <1>14, <2>7 DEF Evict
    <3>2. Ahead(p)' = 0 /\ cLock' # Sweeper
      BY <1>0, <2>2, <2>4, <3>1 DEF Ahead
    <3> HIDE DEF Ahead
    <3>3. used' - Ahead(p)' = used'
      BY <2>6, <3>2, Zenon
    <3>4. used' - Ahead(p)' <= Sum' /\ (~purged' => used' - Ahead(p)' = Sum')
      BY <2>5, <3>3
    <3> QED
      BY <1>0, <2>3, <3>1, <3>2, <3>4 DEF CountInv
  <2>8. CASE frame[p].ret = "purge"
    <3>1. /\ frame'[p].pc = "purge" /\ frame'[p].op = frame[p].op /\ frame'[p].purging = frame[p].purging
          /\ frame'[p].key = frame[p].key /\ frame'[p].need = frame[p].need
      BY <1>0, <1>14, <2>8 DEF Evict, Frames
    <3>2. frame[p].op = "set" /\ frame[p].purging /\ frame[p].key \in Keys
      BY <1>0, <2>2, <2>8 DEF CountInv, FrameInv
    <3>3. data'[frame[p].key].size <= frame[p].need
      BY <1>0, <2>3, <3>2 DEF CountInv
    <3>4. Ahead(p)' = 0 /\ cLock' # Sweeper
      BY <1>0, <2>2, <2>4, <3>1 DEF Ahead
    <3>5. used' - Ahead(p)' = used'
      BY <2>6, <3>4, Zenon
    <3>6. used' - Ahead(p)' <= Sum' /\ (~purged' => used' - Ahead(p)' = Sum')
      BY <2>5, <3>5
    <3>7. purged /\ purged'
      BY <2>2, <3>2 DEF CountInv
    <3> HIDE DEF Ahead
    <3> QED
      BY <2>3, <3>1, <3>2, <3>3, <3>4, <3>6, <3>7 DEF CountInv
  <2> QED
    BY <2>2, <2>7, <2>8
<1>15. ASSUME Find(p) PROVE CountInv(p)'
  <2> DEFINE I == {i \in 1..Len(list) : list[i] = frame[p].key}
             found == IF I # {} THEN Min(I) ELSE 0
  <2>1. found > 0 => found \in 1..Len(list)
    <3>1. list \in Seq(Keys) /\ I \subseteq 1..Len(list)
      BY <1>0 DEF TypeOK
    <3>2. I # {} => Min(I) \in I
      BY <3>1, FindType
    <3>3. I = {} => found = 0
      OBVIOUS
    <3>4. I # {} => found = Min(I)
      OBVIOUS
    <3> HIDE DEF I, found
    <3>5. CASE I = {}
      BY <3>3, <3>5
    <3>6. CASE I # {}
      <4>1. Min(I) \in 1..Len(list)
        BY <3>1, <3>2, <3>6
      <4> QED
        BY <3>4, <3>6, <4>1
    <3> QED
      BY <3>5, <3>6
  <2>2. frame' = [frame EXCEPT ![p].i = found, ![p].pc = IF found > 0 THEN "unlink" ELSE "link"]
    BY <1>15 DEF Find, SelectInSeq
  <2> HIDE DEF found
  <2>3. /\ frame'[p].pc \in {"unlink", "link"} /\ (frame'[p].pc = "unlink" => frame'[p].i \in 1..Len(list))
        /\ frame'[p].op = frame[p].op /\ frame'[p].purging = frame[p].purging /\ frame'[p].key = frame[p].key
        /\ frame'[p].need = frame[p].need /\ frame'[p].old = frame[p].old
    BY <1>0, <2>1, <2>2 DEF Frames
  <2>4. frame[p].pc = "find" /\ UNCHANGED <<data, used, cLock, purged, list>>
    BY <1>15 DEF Find
  <2> QED
    BY <1>0, <2>3, <2>4, CountKeeps DEF CountInv, Ahead
<1>16. ASSUME Unlink(p) PROVE CountInv(p)'
  <2>1. frame[p].i <= Len(list)
    BY <1>0, <1>16 DEF Unlink, CountInv, TypeOK
  <2>2. /\ frame'[p].pc = "link" /\ frame[p].pc = "unlink" /\ UNCHANGED <<data, used, cLock, purged>>
        /\ frame'[p].op = frame[p].op /\ frame'[p].purging = frame[p].purging /\ frame'[p].key = frame[p].key
        /\ frame'[p].need = frame[p].need /\ frame'[p].old = frame[p].old
    BY <1>0, <1>16, <2>1 DEF Unlink, Frames
  <2> QED
    BY <1>0, <2>2, CountKeeps DEF CountInv, Ahead
<1>17. ASSUME Link(p) PROVE CountInv(p)'
  <2>1. frame[p].pc = "link" /\ UNCHANGED <<data, used, cLock, purged>>
    BY <1>17 DEF Link
  <2>2. CASE frame[p].op = "set"
    <3>1. /\ frame'[p].pc = "put"
          /\ frame'[p].op = frame[p].op /\ frame'[p].purging = frame[p].purging /\ frame'[p].key = frame[p].key
          /\ frame'[p].need = frame[p].need /\ frame'[p].old = frame[p].old
      BY <1>0, <1>17, <2>2 DEF Link, Frames
    <3> QED
      BY <1>0, <2>1, <3>1, CountKeeps DEF CountInv, Ahead
  <2>3. CASE frame[p].op # "set"
    <3>1. frame'[p] = Idle
      BY <1>2, <1>17, <2>3 DEF Link
    <3> QED
      BY <1>0, <2>1, <2>3, <3>1, CountKeeps DEF CountInv, Ahead
  <2> QED
    BY <2>2, <2>3
<1>18. ASSUME Put(p) PROVE CountInv(p)'
  <2>1. PICK k \in Keys, n \in Sizes, life \in Lives :
           /\ k = frame[p].key /\ n = frame[p].need /\ life = frame[p].life /\ frame[p].op = "set"
    BY <1>0, <1>18 DEF Put, FrameInv
  <2>2. /\ data' = [data EXCEPT ![k] = [size |-> n, life |-> life]] /\ frame'[p] = Idle
        /\ UNCHANGED <<used, cLock, purged>> /\ frame[p].pc = "put"
    BY <1>2, <1>18, <2>1 DEF Put
  <2>3. \A l \in Keys : data'[l].size = (IF l = k THEN n ELSE data[l].size) /\ data'[l].life \in {"absent", "never"}
    BY <1>0, <2>1, <2>2 DEF TypeOK
  <2>4. n \in Nat
    BY MaxCacheAssumption
  <2>5. Sum' = Sum - data[k].size + n /\ IsFiniteSet(Bytes')
    BY <1>0, <2>3, <2>4, BytesChange DEF CountInv
  <2>6. Ahead(p)' = 0
    BY <1>0, <2>2 DEF Ahead
  <2>7. Ahead(p) = IF frame[p].purging THEN 0 ELSE n - data[k].size
    BY <1>0, <2>1, <2>2 DEF Ahead
  <2>8. frame[p].purging => purged /\ data[k].size <= n
    BY <2>1 DEF CountInv
  <2>9. used - Ahead(p) <= Sum /\ (~purged => used - Ahead(p) = Sum) /\ data[k].size \in Nat
    BY <1>0 DEF CountInv
  <2> HIDE DEF Ahead
  <2>10. used' <= Sum' /\ (~purged' => used' = Sum')
    <3>1. CASE frame[p].purging
      BY <1>0, <2>2, <2>4, <2>5, <2>7, <2>8, <2>9, <3>1
    <3>2. CASE ~frame[p].purging
      BY <1>0, <2>2, <2>4, <2>5, <2>7, <2>9, <3>2
    <3> QED
      BY <3>1, <3>2
  <2>11. used' - Ahead(p)' <= Sum' /\ (~purged' => used' - Ahead(p)' = Sum')
    BY <1>0, <2>2, <2>6, <2>10
  <2> QED
    BY <1>0, <2>2, <2>3, <2>5, <2>11 DEF CountInv
<1>19. ASSUME Background PROVE FALSE
  BY <1>0, <1>19 DEF Background, SweepStart, SweepOne, SweepEnd, Expire, CountInv
<1>20. CASE UNCHANGED vars
  BY <1>0, <1>20, CountKeeps DEF vars, CountInv, Ahead
<1> QED
  BY <1>3, <1>4, <1>5, <1>6, <1>7, <1>8, <1>9, <1>10, <1>11, <1>12, <1>13, <1>14, <1>15, <1>16, <1>17,
     <1>18, <1>19, <1>20 DEF Next, Call, Step

-----------------------------------------------------------------------------
(* The list *)

\* The keys of the list, and the places where the keys doomed so far are: at its
\* end, in the order of the scan.
Distinct == \A i, j \in 1..Len(list) : list[i] = list[j] => i = j
Listed(k) == \E i \in 1..Len(list) : list[i] = k
Doomed(p) ==
  /\ Len(frame[p].doomed) <= Len(list)
  /\ \A j \in 1..Len(frame[p].doomed) : frame[p].doomed[j] = list[Len(list) + 1 - j]

\* Where a call finds the keys it deals with.
Placed(p) ==
  /\ frame[p].pc = "link" => ~Listed(frame[p].key)
  /\ frame[p].pc = "put" => Len(list) > 0 /\ list[1] = frame[p].key
  /\ frame[p].pc = "unlink" => frame[p].i \in 1..Len(list) /\ list[frame[p].i] = frame[p].key
  /\ frame[p].op = "get" /\ frame[p].pc \in {"find", "unlink", "link"} => Present(frame[p].key)
  /\ frame[p].op = "set" /\ frame[p].pc \in {"scan", "purge", "evict"} /\ frame[p].old = 0
       => ~Present(frame[p].key)

\* Where a Set that makes room finds the keys it gives up.
Scanned(p) ==
  /\ frame[p].pc # "fail"
  /\ frame[p].pc \in {"exists", "decide"} => frame[p].doomed = << >>
  /\ frame[p].pc \in {"scan", "purge"} => Doomed(p)
  /\ frame[p].pc = "scan" => /\ frame[p].i \in 0..Len(list)
                             /\ frame[p].i > 0 => frame[p].i + Len(frame[p].doomed) = Len(list)
  /\ frame[p].pc = "evict" => Listed(frame[p].victim) /\ (frame[p].op = "none" <=> frame[p].ret = "idle")
  /\ frame[p].pc = "evict" /\ frame[p].ret = "purge" =>
       /\ Len(list) > 0 /\ frame[p].victim = list[Len(list)]
       /\ Len(frame[p].doomed) < Len(list)
       /\ \A j \in 1..Len(frame[p].doomed) : frame[p].doomed[j] = list[Len(list) - j]

\* The list of a cache used by one goroutine: every key once, and exactly the
\* keys that are stored, but for the key that is on its way to the head.
ListInv(p) ==
  /\ Distinct
  /\ \A k \in Keys : (frame[p].pc \in {"link", "put"} /\ k = frame[p].key) \/ (Present(k) <=> Listed(k))
  /\ Placed(p)
  /\ Scanned(p)

\* The list is empty.
LEMMA ListInit == ASSUME Init, NEW p \in Procs PROVE ListInv(p)
<1>1. /\ list = << >> /\ Len(list) = 0 /\ frame[p] = Idle /\ frame[p].pc = "idle" /\ frame[p].op = "none"
      /\ \A k \in Keys : ~Present(k)
  BY DEF Init, Idle, Present
<1> QED
  BY <1>1 DEF ListInv, Distinct, Listed, Doomed, Placed, Scanned

\* A value that is stored is not empty.
LEMMA PresentSize ==
  ASSUME TypeOK, 0 \notin Sizes, NEW k \in Keys
  PROVE  /\ Present(k) <=> data[k].size # 0
         /\ data[k].size \in Nat
<1>1. data[k] = None \/ data[k] \in [size : Sizes, life : {"never", "pending", "passed"}]
  BY DEF TypeOK
<1>2. None.size = 0
  BY DEF None
<1>3. data[k] # None => data[k].size \in Sizes
  BY <1>1
<1> QED
  BY <1>2, <1>3, SizeType DEF Present

\* The first place of a key in the list.
LEMMA FoundAt ==
  ASSUME list \in Seq(Keys), NEW k, NEW found,
         found = LET I == {i \in 1..Len(list) : list[i] = k} IN IF I # {} THEN Min(I) ELSE 0
  PROVE  /\ found \in 0..Len(list)
         /\ found > 0 => list[found] = k
         /\ found = 0 => ~Listed(k)
<1> DEFINE I == {i \in 1..Len(list) : list[i] = k}
<1>1. found = IF I # {} THEN Min(I) ELSE 0
  OBVIOUS
<1>2. Len(list) \in Nat /\ \A i \in I : i \in 1..Len(list) /\ list[i] = k
  OBVIOUS
<1>3. I # {} => Min(I) \in I
  BY FindType
<1>4. I = {} => ~Listed(k)
  BY DEF Listed
<1> HIDE DEF I
<1> QED
  BY <1>1, <1>2, <1>3, <1>4

\* A step that changes neither the items nor the list.
LEMMA ListKeeps ==
  ASSUME UNCHANGED <<data, list>>
  PROVE  /\ Distinct' <=> Distinct
         /\ \A k \in Keys : (Present(k)' <=> Present(k)) /\ (Listed(k)' <=> Listed(k))
BY DEF Distinct, Present, Listed

\* The item of a listed key goes.
LEMMA ListForgets ==
  ASSUME TypeOK, Distinct, NEW j \in 1..Len(list), Forget(list[j])
  PROVE  /\ list' = RemoveAt(list, j) /\ list' = RemoveFirst(list, list[j])
         /\ Distinct'
         /\ \A k \in Keys : /\ Present(k)' <=> Present(k) /\ k # list[j]
                            /\ Listed(k)' <=> Listed(k) /\ k # list[j]
         /\ Len(list') = Len(list) - 1
         /\ \A i \in 1..(Len(list) - 1) : list'[i] = IF i < j THEN list[i] ELSE list[i + 1]
<1>1. list \in Seq(Keys) /\ list[j] \in Keys /\ \A i, l \in 1..Len(list) : list[i] = list[l] => i = l
  BY DEF TypeOK, Distinct
<1>2. list' = RemoveFirst(list, list[j])
  BY <1>1, UnlistFirst DEF Forget
<1>3. list' = RemoveAt(list, j)
  BY <1>1, <1>2, RemoveFirstPlace
<1>4. \A k \in Keys : Present(k)' <=> Present(k) /\ k # list[j]
  <2>1. data' = [data EXCEPT ![list[j]] = None]
    BY DEF Forget
  <2> QED
    BY <2>1 DEF TypeOK, Present
<1>5. Distinct' /\ \A x : Listed(x)' <=> Listed(x) /\ x # list[j]
  <2> DEFINE r == RemoveAt(list, j)
  <2>1. /\ \A i, l \in 1..Len(r) : r[i] = r[l] => i = l
        /\ \A x : (\E i \in 1..Len(r) : r[i] = x) <=> (\E i \in 1..Len(list) : list[i] = x) /\ x # list[j]
    BY <1>1, RemoveAtApart
  <2> HIDE DEF r
  <2>2. list' = r
    BY <1>3 DEF r
  <2> QED
    BY <2>1, <2>2 DEF Distinct, Listed
<1>6. /\ Len(list') = Len(list) - 1
      /\ \A i \in 1..(Len(list) - 1) : list'[i] = IF i < j THEN list[i] ELSE list[i + 1]
  BY <1>1, <1>3, RemoveAtPlaces
<1> QED
  BY <1>2, <1>3, <1>4, <1>5, <1>6

\* Every step of the goroutine keeps the list: no scan fails, and every doomed key
\* is deleted from the end of the list.
LEMMA ListStep ==
  ASSUME NEW p, Procs = {p}, Lives \subseteq {"never"}, 0 \notin Sizes,
         TypeInv, CountInv(p), ListInv(p), [Next]_vars
  PROVE  ListInv(p)'
<1> USE DEF At, Goto, Return
<1>0. /\ TypeOK /\ p \in Procs /\ frame \in [Procs -> Frames] /\ FrameInv(p) /\ list \in Seq(Keys) /\ Len(list) \in Nat
      /\ Idle.pc = "idle" /\ Idle.op = "none" /\ Idle.doomed = << >>
      /\ \A k \in Keys : ~Passed(k)
      /\ \A k \in Keys : Present(k) <=> data[k].size # 0
      /\ frame[p].doomed \in Seq(Keys) /\ Len(frame[p].doomed) \in Nat /\ frame[p].i \in Nat
  BY SMTT(30), PresentSize DEF TypeInv, TypeOK, Frames, Idle, CountInv, Passed
<1>1. ASSUME frame' = [frame EXCEPT ![p] = Idle]
      PROVE  frame'[p] = Idle
  BY <1>0, <1>1
<1>2. ASSUME NEW k \in Keys, NEW n \in Sizes, NEW life \in Lives, CallSet(p, k, n, life) PROVE ListInv(p)'
  <2>1. /\ frame'[p].pc = "exists" /\ frame'[p].op = "set" /\ frame'[p].doomed = << >> /\ frame[p].pc = "idle"
        /\ UNCHANGED <<data, list>>
    BY <1>0, <1>2 DEF CallSet, Idle
  <2> QED
    BY <1>0, <2>1, ListKeeps DEF ListInv, Placed, Scanned
<1>3. ASSUME NEW k \in Keys, CallGet(p, k) PROVE ListInv(p)'
  <2>1. ~Passed(k)
    BY <1>0
  <2>2. /\ frame' = [frame EXCEPT ![p] = [Idle EXCEPT !.op = "get", !.pc = "find", !.key = k]]
        /\ frame[p].pc = "idle" /\ UNCHANGED <<data, list>> /\ Present(k)
    BY <1>3, <2>1 DEF CallGet
  <2>3. frame'[p].pc = "find" /\ frame'[p].op = "get" /\ frame'[p].key = k
    BY <1>0, <2>2 DEF Idle
  <2> QED
    BY <1>0, <2>2, <2>3, ListKeeps DEF ListInv, Placed, Scanned
<1>4. ASSUME NEW k \in Keys, CallDelete(p, k) PROVE ListInv(p)'
  <2>1. /\ frame'[p].pc = "evict" /\ frame'[p].ret = "idle" /\ frame'[p].op = frame[p].op /\ frame'[p].victim = k
        /\ frame[p].pc = "idle" /\ UNCHANGED <<data, list>> /\ Present(k)
    BY <1>0, <1>4 DEF CallDelete, Condemn, Frames
  <2>2. frame[p].op = "none" /\ Listed(k)
    BY <1>0, <2>1 DEF CountInv, ListInv
  <2> QED
    BY <1>0, <2>1, <2>2, ListKeeps DEF ListInv, Placed, Scanned
<1>5. ASSUME Exists(p) PROVE ListInv(p)'
  <2>1. /\ frame'[p].pc = "decide" /\ frame'[p].op = frame[p].op /\ frame'[p].doomed = frame[p].doomed
        /\ frame[p].pc = "exists" /\ frame[p].op = "set" /\ UNCHANGED <<data, list>>
    BY <1>0, <1>5 DEF Exists, Frames, FrameInv
  <2> QED
    BY <1>0, <2>1, ListKeeps DEF ListInv, Placed, Scanned
<1>6. ASSUME SlowRead(p) PROVE FALSE
  <2>1. /\ frame[p].pc = "exists" => frame[p].key \in Keys
        /\ frame[p].i \in 1..Len(list) => list[frame[p].i] \in Keys
    BY <1>0 DEF FrameInv, TypeOK
  <2> QED
    BY <1>0, <1>6, <2>1 DEF SlowRead
<1>7. ASSUME Decide(p), Fits(p) PROVE ListInv(p)'
  <2>1. /\ frame'[p].pc = Enlist(p) /\ frame'[p].op = frame[p].op /\ frame'[p].key = frame[p].key
        /\ frame[p].pc = "decide" /\ UNCHANGED <<data, list>>
    BY <1>0, <1>7 DEF Decide, Enlist, Frames
  <2>2. frame[p].op = "set" /\ frame[p].key \in Keys /\ frame[p].old = data[frame[p].key].size
    BY <1>0, <2>1 DEF CountInv, FrameInv
  <2>3. /\ Enlist(p) \in {"find", "link"}
        /\ Enlist(p) = "link" => ~Present(frame[p].key) /\ ~Listed(frame[p].key)
    <3>1. frame[p].old \in Nat /\ (Present(frame[p].key) <=> Listed(frame[p].key))
      BY <1>0, <2>1, <2>2 DEF Frames, ListInv
    <3> QED
      BY <1>0, <2>2, <3>1 DEF Enlist
  <2> QED
    BY <1>0, <2>1, <2>2, <2>3, ListKeeps DEF ListInv, Placed, Scanned
<1>8. ASSUME Decide(p), ~Fits(p) PROVE ListInv(p)'
  <2>1. /\ frame'[p].pc = "scan" /\ frame'[p].op = frame[p].op /\ frame'[p].key = frame[p].key
        /\ frame'[p].i = Len(list) /\ frame'[p].doomed = frame[p].doomed /\ frame'[p].old = frame[p].old
        /\ frame[p].pc = "decide" /\ UNCHANGED <<data, list>>
    BY <1>0, <1>8 DEF Decide, Frames
  <2>2. frame[p].op = "set" /\ frame[p].key \in Keys /\ frame[p].old = data[frame[p].key].size
    BY <1>0, <2>1 DEF CountInv, FrameInv
  <2>3. frame'[p].doomed = << >> /\ Len(frame'[p].doomed) = 0
    BY <2>1 DEF ListInv, Scanned
  <2>4. Doomed(p)'
    BY <1>0, <2>1, <2>3 DEF Doomed
  <2>5. frame[p].old = 0 => ~Present(frame[p].key)
    BY <1>0, <2>2
  <2>6. Placed(p)'
    BY <2>1, <2>2, <2>5, ListKeeps DEF Placed
  <2>7. Scanned(p)'
    BY <1>0, <2>1, <2>3, <2>4 DEF Scanned
  <2>8. Distinct' /\ \A k \in Keys : Present(k)' <=> Listed(k)'
    BY <2>1, ListKeeps DEF ListInv
  <2> QED
    BY <2>1, <2>6, <2>7, <2>8 DEF ListInv
<1>9. ASSUME ScanNext(p) PROVE ListInv(p)'
  <2> DEFINE i == frame[p].i
             d == frame[p].doomed
  <2>1. /\ frame[p].pc = "scan" /\ i \in 1..Len(list) /\ frame[p].op = "set"
        /\ frame'[p].pc = "scan" /\ frame'[p].op = frame[p].op /\ frame'[p].key = frame[p].key
        /\ frame'[p].old = frame[p].old /\ frame'[p].doomed = Append(d, list[i])
        /\ frame'[p].i = 0 \/ frame'[p].i = i - 1
        /\ UNCHANGED <<data, list>>
    BY SMTT(30), <1>0, <1>9 DEF ScanNext, Frames, FrameInv
  <2>2. /\ i + Len(d) = Len(list) /\ Len(d) <= Len(list)
        /\ \A j \in 1..Len(d) : d[j] = list[Len(list) + 1 - j]
    <3>1. Scanned(p)
      BY DEF ListInv
    <3>2. Doomed(p) /\ frame[p].i > 0 => frame[p].i + Len(frame[p].doomed) = Len(list)
      BY <2>1, <3>1 DEF Scanned
    <3>3. Doomed(p) /\ frame[p].i > 0
      BY <2>1, <3>1 DEF Scanned
    <3> QED
      BY <3>2, <3>3 DEF Doomed
  <2>3. d \in Seq(Keys) /\ Len(d) \in Nat /\ i \in Nat /\ list[i] \in Keys
    BY <1>0, <2>1
  <2> HIDE DEF i, d
  <2>4. /\ Len(frame'[p].doomed) = Len(d) + 1
        /\ \A j \in 1..(Len(d) + 1) : frame'[p].doomed[j] = IF j = Len(d) + 1 THEN list[i] ELSE d[j]
    <3> DEFINE new == Append(d, list[i])
    <3>1. Len(new) = Len(d) + 1 /\ \A j \in 1..(Len(d) + 1) : new[j] = IF j = Len(d) + 1 THEN list[i] ELSE d[j]
      BY <2>3
    <3> HIDE DEF new
    <3> QED
      BY <2>1, <3>1 DEF new
  <2>5. \A j \in 1..(Len(d) + 1) : frame'[p].doomed[j] = list[Len(list) + 1 - j]
    <3>1. ASSUME NEW j \in 1..(Len(d) + 1) PROVE frame'[p].doomed[j] = list[Len(list) + 1 - j]
      <4>1. CASE j = Len(d) + 1
        <5>1. Len(list) + 1 - j = i
          BY <1>0, <2>2, <2>3, <4>1
        <5> QED
          BY <2>4, <4>1, <5>1
      <4>2. CASE j # Len(d) + 1
        BY <2>2, <2>3, <2>4, <4>2
      <4> QED
        BY <4>1, <4>2
    <3> QED
      BY <3>1
  <2>6. Doomed(p)'
    BY <1>0, <2>1, <2>2, <2>3, <2>4, <2>5 DEF Doomed
  <2>7. Scanned(p)'
    BY <1>0, <2>1, <2>2, <2>3, <2>4, <2>6 DEF Scanned
  <2>8. Placed(p)'
    <3>1. frame[p].key \in Keys /\ (frame[p].old = 0 => ~Present(frame[p].key))
      BY <1>0, <2>1 DEF FrameInv, ListInv, Placed
    <3> QED
      BY <2>1, <3>1, ListKeeps DEF Placed
  <2>9. Distinct' /\ \A k \in Keys : Present(k)' <=> Listed(k)'
    BY <2>1, ListKeeps DEF ListInv
  <2> QED
    BY <2>1, <2>7, <2>8, <2>9 DEF ListInv
<1>10. ASSUME ScanEnd(p) PROVE ListInv(p)'
  <2>1. /\ frame[p].pc = "scan" /\ frame[p].op = "set" /\ frame[p].key \in Keys
        /\ frame'[p].pc = "purge" /\ frame'[p].op = frame[p].op /\ frame'[p].key = frame[p].key
        /\ frame'[p].old = frame[p].old /\ frame'[p].doomed = frame[p].doomed
        /\ UNCHANGED <<data, list>>
    BY <1>0, <1>10 DEF ScanEnd, Frames, FrameInv
  <2>2. Doomed(p)'
    BY <2>1 DEF ListInv, Scanned, Doomed
  <2>3. Distinct' /\ \A k \in Keys : Present(k)' <=> Listed(k)'
    BY <2>1, ListKeeps DEF ListInv
  <2>4. Placed(p)'
    BY <2>1, ListKeeps DEF ListInv, Placed
  <2> QED
    BY <2>1, <2>2, <2>3, <2>4 DEF ListInv, Scanned
<1>11. ASSUME ScanFails(p) PROVE FALSE
  <2>1. frame[p].pc = "scan" /\ frame[p].i \in 0..Len(list)
    BY <1>11 DEF ScanFails, ListInv, Scanned
  <2>2. frame[p].i \in 1..Len(list) => Present(list[frame[p].i])
    BY <1>0, <2>1 DEF ListInv, Listed
  <2> QED
    BY <1>0, <1>11, <2>1, <2>2 DEF ScanFails
<1>12. ASSUME Purge(p) PROVE ListInv(p)'
  <2>0. PICK d \in Seq(Keys) : d = frame[p].doomed /\ Len(d) \in Nat
    BY <1>0
  <2>1. frame[p].pc = "purge" /\ d # << >> /\ UNCHANGED <<data, list>> /\ frame[p].op = "set" /\ frame[p].key \in Keys
    BY <1>0, <1>12, <2>0 DEF Purge, FrameInv
  <2>2. Len(d) <= Len(list) /\ \A j \in 1..Len(d) : d[j] = list[Len(list) + 1 - j]
    BY <2>0, <2>1 DEF ListInv, Scanned, Doomed
  <2>4. /\ Head(d) = d[1] /\ Len(d) > 0 /\ Tail(d) \in Seq(Keys) /\ Len(Tail(d)) = Len(d) - 1
        /\ \A j \in 1..(Len(d) - 1) : Tail(d)[j] = d[j + 1]
    BY <2>0, <2>1
  <2>5. Len(list) > 0 /\ Head(d) = list[Len(list)]
    <3>1. d[1] = list[Len(list) + 1 - 1]
      BY <2>2, <2>0, <2>4
    <3> QED
      BY <1>0, <2>2, <2>0, <2>4, <3>1
  <2>6. Listed(Head(d)) /\ Present(Head(d))
    <3>1. Listed(Head(d)) /\ Head(d) \in Keys
      BY <1>0, <2>5 DEF Listed
    <3> QED
      BY <2>1, <3>1 DEF ListInv
  <2>7. frame' = [frame EXCEPT ![p].pc = "evict", ![p].victim = Head(d), ![p].ret = "purge", ![p].doomed = Tail(d)]
    BY <1>12, <2>0, <2>6 DEF Purge
  <2>8. /\ frame'[p].pc = "evict" /\ frame'[p].ret = "purge" /\ frame'[p].op = frame[p].op /\ frame'[p].key = frame[p].key
        /\ frame'[p].old = frame[p].old /\ frame'[p].victim = Head(d) /\ frame'[p].doomed = Tail(d)
    <3>1. ASSUME NEW k, NEW t, frame' = [frame EXCEPT ![p].pc = "evict", ![p].victim = k, ![p].ret = "purge", ![p].doomed = t]
          PROVE  /\ frame'[p].pc = "evict" /\ frame'[p].ret = "purge" /\ frame'[p].op = frame[p].op
                 /\ frame'[p].key = frame[p].key /\ frame'[p].old = frame[p].old
                 /\ frame'[p].victim = k /\ frame'[p].doomed = t
      BY <1>0, <3>1 DEF Frames
    <3> QED
      BY <2>7, <3>1
  <2>9. \A j \in 1..(Len(d) - 1) : Tail(d)[j] = list[Len(list) - j]
    <3>1. ASSUME NEW j \in 1..(Len(d) - 1) PROVE Tail(d)[j] = list[Len(list) - j]
      <4>1. j + 1 \in 1..Len(d) /\ Len(list) + 1 - (j + 1) = Len(list) - j
        BY <1>0, <2>0
      <4> QED
        BY <2>2, <2>4, <4>1
    <3> QED
      BY <3>1
  <2>10. Scanned(p)'
    <3>1. PICK k \in Keys : k = Head(d)
      BY <1>0, <2>5
    <3>2. Listed(k)'
      BY <2>1, <2>6, <3>1, ListKeeps
    <3>3. Listed(frame[p].victim)'
      BY <2>8, <3>1, <3>2 DEF Listed
    <3>4. Len(Tail(d)) < Len(list)
      BY <1>0, <2>0, <2>2, <2>4
    <3> QED
      BY <2>1, <2>4, <2>5, <2>8, <2>9, <3>3, <3>4 DEF Scanned
  <2>11. Placed(p)'
    BY <2>1, <2>8, ListKeeps DEF ListInv, Placed
  <2>12. Distinct' /\ \A k \in Keys : Present(k)' <=> Listed(k)'
    BY <2>1, ListKeeps DEF ListInv
  <2> QED
    BY <2>8, <2>10, <2>11, <2>12 DEF ListInv
<1>13. ASSUME PurgeEnd(p) PROVE ListInv(p)'
  <2>1. /\ frame'[p].pc = Enlist(p) /\ frame'[p].op = frame[p].op /\ frame'[p].key = frame[p].key
        /\ frame[p].pc = "purge" /\ UNCHANGED <<data, list>>
    BY <1>0, <1>13 DEF PurgeEnd, Enlist, Frames
  <2>2. frame[p].op = "set" /\ frame[p].key \in Keys /\ frame[p].old \in Nat
    BY <1>0, <2>1 DEF FrameInv, Frames
  <2>3. /\ Enlist(p) \in {"find", "link"}
        /\ Enlist(p) = "link" => ~Listed(frame[p].key)
    <3>1. frame[p].old = 0 => ~Present(frame[p].key)
      BY <2>1, <2>2 DEF ListInv, Placed
    <3>2. Present(frame[p].key) <=> Listed(frame[p].key)
      BY <2>1, <2>2 DEF ListInv
    <3> QED
      BY <2>2, <3>1, <3>2 DEF Enlist
  <2>4. Distinct' /\ \A k \in Keys : Present(k)' <=> Listed(k)'
    BY <2>1, ListKeeps DEF ListInv
  <2>5. Placed(p)'
    BY <2>1, <2>2, <2>3, ListKeeps DEF Placed
  <2>6. Scanned(p)'
    BY <2>1, <2>3 DEF Scanned
  <2> QED
    BY <2>4, <2>5, <2>6 DEF ListInv
<1>14. ASSUME Evict(p) PROVE ListInv(p)'
  <2>1. /\ frame[p].pc = "evict" /\ frame[p].victim \in Keys /\ Listed(frame[p].victim)
        /\ Forget(frame[p].victim) /\ frame[p].ret \in {"idle", "purge"}
    BY <1>0, <1>14 DEF Evict, FrameInv, ListInv, Scanned, CountInv
  <2>2. CASE frame[p].ret = "idle"
    <3>1. PICK j \in 1..Len(list) : list[j] = frame[p].victim
      BY <2>1 DEF Listed
    <3>2. Distinct' /\ \A k \in Keys : Present(k)' <=> Listed(k)'
      <4>1. /\ Distinct'
            /\ \A k \in Keys : /\ Present(k)' <=> Present(k) /\ k # list[j]
                               /\ Listed(k)' <=> Listed(k) /\ k # list[j]
        BY <1>0, <2>1, <3>1, ListForgets DEF ListInv
      <4>2. \A k \in Keys : Present(k) <=> Listed(k)
        BY <2>1 DEF ListInv
      <4> QED
        BY <4>1, <4>2
    <3>3. frame'[p] = Idle
      BY <1>1, <1>14, <2>2 DEF Evict
    <3> QED
      BY <1>0, <3>2, <3>3 DEF ListInv, Placed, Scanned
  <2>3. CASE frame[p].ret = "purge"
    <3> DEFINE d == frame[p].doomed
    <3>1. /\ frame'[p].pc = "purge" /\ frame'[p].op = frame[p].op /\ frame'[p].key = frame[p].key
          /\ frame'[p].old = frame[p].old /\ frame'[p].doomed = d
      BY <1>0, <1>14, <2>3 DEF Evict, Frames
    <3>2. /\ Len(list) > 0 /\ frame[p].victim = list[Len(list)] /\ Len(d) < Len(list)
          /\ \A j \in 1..Len(d) : d[j] = list[Len(list) - j]
      BY <2>1, <2>3 DEF ListInv, Scanned
    <3>3. Len(list) \in 1..Len(list)
      BY <1>0, <3>2
    <3>4. /\ Distinct'
          /\ \A k \in Keys : /\ Present(k)' <=> Present(k) /\ k # list[Len(list)]
                             /\ Listed(k)' <=> Listed(k) /\ k # list[Len(list)]
          /\ Len(list') = Len(list) - 1
          /\ \A i \in 1..(Len(list) - 1) : list'[i] = IF i < Len(list) THEN list[i] ELSE list[i + 1]
      BY <1>0, <2>1, <3>2, <3>3, ListForgets DEF ListInv
    <3>5. \A k \in Keys : Present(k)' <=> Listed(k)'
      <4>1. \A k \in Keys : Present(k) <=> Listed(k)
        BY <2>1 DEF ListInv
      <4> QED
        BY <3>4, <4>1
    <3>6. Doomed(p)'
      <4>1. Len(d) \in Nat
        BY <1>0
      <4> HIDE DEF d
      <4>2. ASSUME NEW j \in 1..Len(d) PROVE d[j] = list'[Len(list') + 1 - j]
        <5>1. Len(list') + 1 - j = Len(list) - j /\ Len(list) - j \in 1..(Len(list) - 1)
          BY <1>0, <3>2, <3>4, <4>1
        <5> QED
          BY <1>0, <3>2, <3>4, <5>1
      <4> QED
        BY <1>0, <3>1, <3>2, <3>4, <4>1, <4>2 DEF Doomed
    <3>7. frame[p].op = "set" /\ frame[p].key \in Keys /\ (frame[p].old = 0 => ~Present(frame[p].key))
      BY <1>0, <2>1, <2>3 DEF FrameInv, ListInv, Placed
    <3>8. Placed(p)'
      BY <3>1, <3>4, <3>7 DEF Placed
    <3>9. Scanned(p)'
      BY <3>1, <3>6 DEF Scanned
    <3> QED
      BY <3>1, <3>4, <3>5, <3>8, <3>9 DEF ListInv
  <2> QED
    BY <2>1, <2>2, <2>3
<1>15. ASSUME Find(p) PROVE ListInv(p)'
  <2> DEFINE I == {i \in 1..Len(list) : list[i] = frame[p].key}
             found == IF I # {} THEN Min(I) ELSE 0
  <2>1. found \in 0..Len(list) /\ (found > 0 => list[found] = frame[p].key) /\ (found = 0 => ~Listed(frame[p].key))
    BY <1>0, FoundAt
  <2>2. /\ frame' = [frame EXCEPT ![p].i = found, ![p].pc = IF found > 0 THEN "unlink" ELSE "link"]
        /\ frame[p].pc = "find" /\ UNCHANGED <<data, list>>
    BY <1>15 DEF Find, SelectInSeq
  <2> HIDE DEF found
  <2>3. /\ frame'[p].pc = (IF found > 0 THEN "unlink" ELSE "link") /\ frame'[p].i = found
        /\ frame'[p].op = frame[p].op /\ frame'[p].key = frame[p].key
    BY <1>0, <2>2 DEF Frames
  <2>4. frame[p].key \in Keys
    BY <1>0, <2>2 DEF FrameInv
  <2>5. Distinct' /\ \A k \in Keys : Present(k)' <=> Listed(k)'
    BY <2>2, ListKeeps DEF ListInv
  <2>6. Placed(p)'
    BY <1>0, <2>1, <2>2, <2>3, <2>4, ListKeeps DEF ListInv, Placed
  <2>7. Scanned(p)'
    BY <2>3 DEF Scanned
  <2> QED
    BY <2>5, <2>6, <2>7 DEF ListInv
<1>16. ASSUME Unlink(p) PROVE ListInv(p)'
  <2>1. frame[p].pc = "unlink" /\ frame[p].i \in 1..Len(list) /\ list[frame[p].i] = frame[p].key /\ frame[p].key \in Keys
    BY <1>0, <1>16 DEF Unlink, ListInv, Placed, FrameInv
  <2>2. list' = RemoveAt(list, frame[p].i) /\ frame' = [frame EXCEPT ![p].pc = "link"] /\ data' = data
    BY <1>0, <1>16, <2>1 DEF Unlink
  <2>3. frame'[p].pc = "link" /\ frame'[p].op = frame[p].op /\ frame'[p].key = frame[p].key
    BY <1>0, <2>2 DEF Frames
  <2>4. Distinct' /\ \A x : Listed(x)' <=> Listed(x) /\ x # frame[p].key
    <3>1. PICK j \in 1..Len(list) : j = frame[p].i
      BY <2>1
    <3>2. \A i, l \in 1..Len(list) : list[i] = list[l] => i = l
      BY DEF ListInv, Distinct
    <3>3. /\ \A i, l \in 1..Len(RemoveAt(list, j)) : RemoveAt(list, j)[i] = RemoveAt(list, j)[l] => i = l
          /\ \A x : (\E i \in 1..Len(RemoveAt(list, j)) : RemoveAt(list, j)[i] = x)
                      <=> (\E i \in 1..Len(list) : list[i] = x) /\ x # list[j]
      BY <1>0, <3>2, RemoveAtApart
    <3>4. list' = RemoveAt(list, j) /\ list[j] = frame[p].key
      BY <2>1, <2>2, <3>1
    <3> QED
      BY <3>3, <3>4 DEF Distinct, Listed
  <2>5. \A k \in Keys : Present(k)' <=> Present(k)
    BY <2>2 DEF Present
  <2>6. Placed(p)'
    BY <2>1, <2>3, <2>4, <2>5 DEF ListInv, Placed
  <2>7. Scanned(p)'
    BY <2>3 DEF Scanned
  <2> QED
    BY <2>1, <2>3, <2>4, <2>5, <2>6, <2>7 DEF ListInv
<1>17. ASSUME Link(p) PROVE ListInv(p)'
  <2>0. PICK k \in Keys : k = frame[p].key
    BY <1>0, <1>17 DEF Link, FrameInv
  <2>1. frame[p].pc = "link" /\ ~Listed(k) /\ frame[p].op \in {"set", "get"} /\ data' = data
    BY <1>0, <1>17, <2>0 DEF Link, ListInv, Placed, FrameInv, Frames
  <2>2. list' = <<k>> \o list
    BY <1>17, <2>0 DEF Link, AtHead
  <2>3. frame'[p].pc \in {"put", "idle"} /\ (frame'[p].pc = "put" => frame'[p].key = k)
        /\ (frame[p].op = "get" => frame'[p].pc = "idle") /\ frame'[p].op # "get" /\ (frame'[p].pc = "idle" => frame[p].op = "get")
    BY <1>0, <1>1, <1>17, <2>0, <2>1 DEF Link, Frames
  <2>4. /\ list' \in Seq(Keys) /\ Len(list') = Len(list) + 1 /\ list'[1] = k
        /\ \A i \in 2..(Len(list) + 1) : list'[i] = list[i - 1]
    BY <1>0, <2>1, <2>2, InFront
  <2>5. \A x : Listed(x)' <=> Listed(x) \/ x = k
    <3>1. ASSUME NEW x, Listed(x) PROVE Listed(x)'
      <4>1. PICK i \in 1..Len(list) : list[i] = x
        BY <3>1 DEF Listed
      <4>2. i + 1 \in 2..(Len(list) + 1) /\ i + 1 \in 1..Len(list') /\ (i + 1) - 1 = i
        BY <1>0, <2>4
      <4>3. list'[i + 1] = x
        BY <2>4, <4>1, <4>2
      <4> QED
        BY <4>2, <4>3 DEF Listed
    <3>2. Listed(k)'
      BY <1>0, <2>4 DEF Listed
    <3>3. ASSUME NEW x, Listed(x)', x # k PROVE Listed(x)
      <4>1. PICK i \in 1..Len(list') : list'[i] = x
        BY <3>3 DEF Listed
      <4>2. i \in 2..(Len(list) + 1) /\ i - 1 \in 1..Len(list)
        BY <1>0, <2>4, <3>3, <4>1
      <4> QED
        BY <2>4, <4>1, <4>2 DEF Listed
    <3> QED
      BY <3>1, <3>2, <3>3
  <2>6. Distinct'
    <3>1. ASSUME NEW i \in 1..Len(list'), NEW l \in 1..Len(list'), list'[i] = list'[l] PROVE i = l
      <4>1. \A m \in 1..Len(list') : m # 1 => m - 1 \in 1..Len(list) /\ list'[m] = list[m - 1] /\ list'[m] # k
        BY <1>0, <2>1, <2>4 DEF Listed
      <4>2. CASE i = 1 \/ l = 1
        BY <2>4, <3>1, <4>1, <4>2
      <4>3. CASE i # 1 /\ l # 1
        <5>1. i - 1 = l - 1
          BY <3>1, <4>1, <4>3 DEF ListInv, Distinct
        <5> QED
          BY <5>1
      <4> QED
        BY <4>2, <4>3
    <3> QED
      BY <3>1 DEF Distinct
  <2>7. \A l \in Keys : Present(l)' <=> Present(l)
    BY <2>1 DEF Present
  <2>8. \A l \in Keys : l # k => (Present(l)' <=> Listed(l)')
    BY <2>0, <2>1, <2>5, <2>7 DEF ListInv
  <2>9. frame'[p].pc = "idle" => Present(k)'
    BY <2>0, <2>1, <2>3, <2>7 DEF ListInv, Placed
  <2>10. Placed(p)'
    BY <1>0, <2>3, <2>4 DEF Placed
  <2>11. Scanned(p)'
    BY <2>3 DEF Scanned
  <2> QED
    BY <2>3, <2>5, <2>6, <2>8, <2>9, <2>10, <2>11 DEF ListInv
<1>18. ASSUME Put(p) PROVE ListInv(p)'
  <2>0. PICK k \in Keys : k = frame[p].key
    BY <1>0, <1>18 DEF Put, FrameInv
  <2>1. /\ frame[p].pc = "put" /\ frame[p].need \in Sizes /\ frame[p].need # 0 /\ Len(list) > 0 /\ list[1] = k
        /\ data' = [data EXCEPT ![k] = [size |-> frame[p].need, life |-> frame[p].life]]
        /\ list' = list /\ frame'[p] = Idle
    BY <1>0, <1>1, <1>18, <2>0 DEF Put, ListInv, Placed, FrameInv
  <2>2. Listed(k)
    BY <1>0, <2>1 DEF Listed
  <2>3. \A l \in Keys : Present(l)' <=> Present(l) \/ l = k
    <3>1. [size |-> frame[p].need, life |-> frame[p].life] # None
      BY <2>1 DEF None
    <3> QED
      BY <1>0, <2>1, <3>1 DEF TypeOK, Present
  <2>4. Distinct' /\ \A x : Listed(x)' <=> Listed(x)
    BY <2>1 DEF ListInv, Distinct, Listed
  <2>5. \A l \in Keys : Present(l)' <=> Listed(l)'
    BY <2>0, <2>1, <2>2, <2>3, <2>4 DEF ListInv
  <2> QED
    BY <1>0, <2>1, <2>4, <2>5 DEF ListInv, Placed, Scanned
<1>19. ASSUME Background PROVE FALSE
  BY <1>0, <1>19 DEF Background, SweepStart, SweepOne, SweepEnd, Expire, CountInv
<1>20. CASE UNCHANGED vars
  <2>1. UNCHANGED <<data, list, frame>>
    BY <1>20 DEF vars
  <2>2. Placed(p)' <=> Placed(p)
    BY <2>1 DEF Placed, Listed, Present
  <2>3. Scanned(p)' <=> Scanned(p)
    BY <2>1 DEF Scanned, Doomed, Listed
  <2> QED
    BY <2>1, <2>2, <2>3, ListKeeps DEF ListInv
<1> QED
  BY <1>2, <1>3, <1>4, <1>5, <1>6, <1>7, <1>8, <1>9, <1>10, <1>11, <1>12, <1>13, <1>14, <1>15, <1>16, <1>17,
     <1>18, <1>19, <1>20 DEF Next, Call, Step

-----------------------------------------------------------------------------
(* The abstract cache *)

\* What the abstract cache sees of a cache with the one user p.
View(p) ==
  /\ Order = IF frame[p].pc = "link" /\ Present(frame[p].key) THEN <<frame[p].key>> \o list
             ELSE IF frame[p].pc = "put" /\ ~Present(frame[p].key) THEN Tail(list) ELSE list
  /\ Incoming = IF frame[p].op = "set" /\ frame[p].pc \notin {"exists", "decide"}
                  THEN [key |-> frame[p].key, size |-> frame[p].need, evicting |-> frame[p].purging]
                  ELSE [key |-> 0, size |-> 0, evicting |-> FALSE]

LEMMA Viewed ==
  ASSUME NEW CONSTANT p, Procs = {p}
  PROVE  View(p) /\ View(p)'
<1>1. View(p)
  <2>1. (CHOOSE q \in {p} : TRUE) = p
    OBVIOUS
  <2>2. /\ Moving = IF frame[p].pc = "link" /\ Present(frame[p].key) THEN {p} ELSE {}
        /\ Linked = IF frame[p].pc = "put" /\ ~Present(frame[p].key) THEN {p} ELSE {}
        /\ Storing = IF frame[p].op = "set" /\ frame[p].pc \notin {"exists", "decide"} THEN {p} ELSE {}
    BY DEF Moving, Linked, Storing, At
  <2>3. Order = IF frame[p].pc = "link" /\ Present(frame[p].key) THEN <<frame[p].key>> \o list
                ELSE IF frame[p].pc = "put" /\ ~Present(frame[p].key) THEN Tail(list) ELSE list
    BY <2>1, <2>2 DEF Order
  <2>4. Incoming = IF frame[p].op = "set" /\ frame[p].pc \notin {"exists", "decide"}
                     THEN [key |-> frame[p].key, size |-> frame[p].need, evicting |-> frame[p].purging]
                     ELSE [key |-> 0, size |-> 0, evicting |-> FALSE]
    BY <2>1, <2>2 DEF Incoming
  <2> QED
    BY <2>3, <2>4 DEF View
<1> QED
  BY <1>1, PTL

\* The two modules speak of the same bytes, and remove a key in the same way.
LEMMA SameSum == LRUCache!Sum = Sum
<1>1. \A k \in Keys : [l \in Keys |-> data[l].size][k] = data[k].size
  OBVIOUS
<1>2. LRUCache!Bytes = Bytes
  BY <1>1 DEF LRUCache!Bytes, Bytes
<1> QED
  BY <1>2 DEF LRUCache!Sum, Sum, LRUCache!Cardinality, Cardinality

LEMMA SameRemoval ==
  ASSUME NEW s, NEW k
  PROVE  LRUCache!RemoveFirst(s, k) = RemoveFirst(s, k)
<1>1. \A T : LRUCache!Min(T) = Min(T)
  BY DEF LRUCache!Min, Min
<1>2. LRUCache!SelectInSeq(s, LAMBDA v : v = k) = SelectInSeq(s, LAMBDA v : v = k)
  BY <1>1 DEF LRUCache!SelectInSeq, SelectInSeq
<1>3. \A i : LRUCache!RemoveAt(s, i) = RemoveAt(s, i)
  BY DEF LRUCache!RemoveAt, RemoveAt
<1> QED
  BY <1>2, <1>3 DEF LRUCache!RemoveFirst, RemoveFirst

\* An empty cache is an empty cache.
LEMMA RefInit ==
  ASSUME NEW CONSTANT p, Procs = {p}, Init
  PROVE  LRUCache!Init
<1>1. /\ list = << >> /\ frame[p].pc = "idle" /\ frame[p].op = "none"
      /\ \A k \in Keys : data[k].size = 0
  BY DEF Init, Idle, None
<1>2. Order = << >> /\ Incoming = [key |-> 0, size |-> 0, evicting |-> FALSE]
  BY <1>1, Viewed DEF View
<1>3. [k \in Keys |-> data[k].size] = [k \in Keys |-> 0]
  BY <1>1
<1> QED
  BY <1>2, <1>3 DEF LRUCache!Init, LRUCache!Nothing

\* Every step of the goroutine is a step of the abstract cache or changes nothing of it.
LEMMA RefStep ==
  ASSUME NEW CONSTANT p, Procs = {p}, Lives \subseteq {"never"}, 0 \notin Sizes,
         TypeInv, CountInv(p), ListInv(p), [Next]_vars
  PROVE  [LRUCache!Next]_(LRUCache!vars)
<1> USE DEF At, Goto, Return
<1> DEFINE Nothing == [key |-> 0, size |-> 0, evicting |-> FALSE]
           SizeOf == [k \in Keys |-> data[k].size]
           f == frame[p]
           Same == Order' = Order /\ SizeOf' = SizeOf /\ Incoming' = Incoming
<1>0. /\ TypeOK /\ p \in Procs /\ frame \in [Procs -> Frames] /\ FrameInv(p) /\ list \in Seq(Keys) /\ Len(list) \in Nat
      /\ Idle.pc = "idle" /\ Idle.op = "none"
      /\ \A k \in Keys : ~Passed(k)
      /\ \A k \in Keys : (Present(k) <=> data[k].size # 0) /\ data[k].size \in Nat
      /\ View(p) /\ View(p)'
  BY SMTT(30), PresentSize, Viewed DEF TypeInv, TypeOK, Frames, Idle, CountInv, Passed
<1>1. ASSUME frame' = [frame EXCEPT ![p] = Idle]
      PROVE  frame'[p] = Idle
  BY <1>0, <1>1
<1>2. Same => UNCHANGED LRUCache!vars
  BY DEF LRUCache!vars
<1> HIDE DEF Same
\* Steps that change neither the items nor the list, nor what Set stores.
<1>3. ASSUME UNCHANGED <<data, list>>, f.pc \notin {"link", "put"},
             f'.pc \notin {"link", "put"} \/ (f'.pc = "link" /\ ~Present(f'.key)),
             \/ ~(f.op = "set" /\ f.pc \notin {"exists", "decide"}) /\ ~(f'.op = "set" /\ f'.pc \notin {"exists", "decide"})
             \/ /\ f.op = "set" /\ f.pc \notin {"exists", "decide"}
                /\ f'.op = "set" /\ f'.pc \notin {"exists", "decide"}
                /\ f'.key = f.key /\ f'.need = f.need /\ f'.purging = f.purging
      PROVE  Same
  <2>1. Order = list /\ Order' = list
    BY <1>0, <1>3 DEF View, Present
  <2>2. SizeOf' = SizeOf
    BY <1>3
  <2>3. Incoming' = Incoming
    BY <1>0, <1>3 DEF View
  <2> QED
    BY <2>1, <2>2, <2>3 DEF Same

<1>4. ASSUME NEW k \in Keys, NEW n \in Sizes, NEW life \in Lives, CallSet(p, k, n, life) PROVE Same
  <2>1. f'.pc = "exists" /\ f'.op = "set" /\ f.pc = "idle" /\ UNCHANGED <<data, list>>
    BY <1>0, <1>4 DEF CallSet, Idle
  <2>2. f.op # "set"
    BY <1>0, <2>1 DEF CountInv
  <2> QED
    BY <1>3, <2>1, <2>2
<1>5. ASSUME NEW k \in Keys, CallGet(p, k) PROVE Same
  <2>1. ~Passed(k)
    BY <1>0
  <2>2. /\ frame' = [frame EXCEPT ![p] = [Idle EXCEPT !.op = "get", !.pc = "find", !.key = k]]
        /\ f.pc = "idle" /\ UNCHANGED <<data, list>>
    BY <1>5, <2>1 DEF CallGet
  <2>3. f'.pc = "find" /\ f'.op = "get" /\ f.op # "set"
    BY <1>0, <2>2 DEF Idle, CountInv
  <2> QED
    BY <1>3, <2>2, <2>3
<1>6. ASSUME NEW k \in Keys, CallDelete(p, k) PROVE Same
  <2>1. f'.pc = "evict" /\ f'.op = f.op /\ f.pc = "idle" /\ UNCHANGED <<data, list>>
    BY <1>0, <1>6 DEF CallDelete, Condemn, Frames
  <2>2. f.op # "set"
    BY <1>0, <2>1 DEF CountInv
  <2> QED
    BY <1>3, <2>1, <2>2
<1>7. ASSUME Exists(p) PROVE Same
  <2>1. f'.pc = "decide" /\ f.pc = "exists" /\ UNCHANGED <<data, list>>
    BY <1>0, <1>7 DEF Exists, Frames
  <2> QED
    BY <1>3, <2>1
<1>8. ASSUME SlowRead(p) PROVE FALSE
  <2>1. /\ f.pc = "exists" => f.key \in Keys
        /\ f.i \in 1..Len(list) => list[f.i] \in Keys
    BY <1>0 DEF FrameInv, TypeOK
  <2> QED
    BY <1>0, <1>8, <2>1 DEF SlowRead
<1>9. ASSUME ScanNext(p) \/ ScanEnd(p) PROVE Same
  <2>1. /\ f'.pc \in {"scan", "purge"} /\ f.pc = "scan" /\ UNCHANGED <<data, list>>
        /\ f'.op = f.op /\ f'.purging = f.purging /\ f'.key = f.key /\ f'.need = f.need
    BY <1>0, <1>9 DEF ScanNext, ScanEnd, Frames
  <2>2. f.op = "set"
    BY <1>0, <2>1 DEF FrameInv
  <2> QED
    BY <1>3, <2>1, <2>2
<1>10. ASSUME ScanFails(p) PROVE FALSE
  <2>1. f.pc = "scan" /\ f.i \in 0..Len(list)
    BY <1>10 DEF ScanFails, ListInv, Scanned
  <2>2. f.i \in 1..Len(list) => Present(list[f.i])
    BY <1>0, <2>1 DEF ListInv, Listed
  <2> QED
    BY <1>0, <1>10, <2>1, <2>2 DEF ScanFails
<1>11. ASSUME Purge(p) PROVE Same
  <2>1. /\ f'.op = f.op /\ f'.purging = f.purging /\ f'.key = f.key /\ f'.need = f.need
        /\ f.pc = "purge" /\ UNCHANGED <<data, list>> /\ f'.pc \in {"evict", "purge"}
    BY <1>0, <1>11 DEF Purge, Frames
  <2>2. f.op = "set"
    BY <1>0, <2>1 DEF FrameInv
  <2> QED
    BY <1>3, <2>1, <2>2
<1>12. ASSUME PurgeEnd(p) PROVE Same
  <2>1. /\ f'.op = f.op /\ f'.purging = f.purging /\ f'.key = f.key /\ f'.need = f.need
        /\ f.pc = "purge" /\ UNCHANGED <<data, list>> /\ f'.pc = Enlist(p)
    BY <1>0, <1>12 DEF PurgeEnd, Enlist, Frames
  <2>2. f.op = "set" /\ f.old \in Nat
    BY <1>0, <2>1 DEF FrameInv, Frames
  <2>3. f'.pc = "find" \/ (f'.pc = "link" /\ ~Present(f'.key))
    BY <2>1, <2>2 DEF Enlist, ListInv, Placed
  <2> QED
    BY <1>3, <2>1, <2>2, <2>3
<1>13. ASSUME Find(p) PROVE Same
  <2> DEFINE I == {i \in 1..Len(list) : list[i] = frame[p].key}
             found == IF I # {} THEN Min(I) ELSE 0
  <2>1. found \in 0..Len(list) /\ (found = 0 => ~Listed(f.key))
    BY <1>0, FoundAt
  <2>2. /\ frame' = [frame EXCEPT ![p].i = found, ![p].pc = IF found > 0 THEN "unlink" ELSE "link"]
        /\ f.pc = "find" /\ UNCHANGED <<data, list>>
    BY <1>13 DEF Find, SelectInSeq
  <2> HIDE DEF found
  <2>3. /\ f'.op = f.op /\ f'.purging = f.purging /\ f'.key = f.key /\ f'.need = f.need
        /\ f'.pc = (IF found > 0 THEN "unlink" ELSE "link")
    BY <1>0, <2>2 DEF Frames
  <2>4. f.key \in Keys
    BY <1>0, <2>2 DEF FrameInv
  <2>5. f'.pc = "unlink" \/ (f'.pc = "link" /\ ~Present(f'.key))
    BY <1>0, <2>1, <2>2, <2>3, <2>4 DEF ListInv
  <2> QED
    BY <1>3, <2>2, <2>3, <2>5
<1>14. ASSUME Link(p) PROVE Same
  <2>0. PICK k \in Keys : k = f.key
    BY <1>0, <1>14 DEF Link, FrameInv
  <2>1. /\ f.pc = "link" /\ data' = data /\ list' = <<k>> \o list /\ f.op \in {"set", "get"}
        /\ f.op = "set" => /\ f'.pc = "put" /\ f'.op = f.op /\ f'.key = k /\ f'.need = f.need /\ f'.purging = f.purging
        /\ f.op = "get" => f'.pc = "idle" /\ f'.op = "none"
    BY <1>0, <1>1, <1>14, <2>0 DEF Link, AtHead, Frames, FrameInv
  <2>2. Tail(<<k>> \o list) = list
    BY <1>0, InFront
  <2>3. f.op = "get" => Present(k)
    BY <2>0, <2>1 DEF ListInv, Placed
  <2>4. Present(k)' <=> Present(k)
    BY <2>1 DEF Present
  <2>5. Order' = Order
    <3>1. Order = IF Present(k) THEN <<k>> \o list ELSE list
      BY <1>0, <2>0, <2>1 DEF View
    <3>2. Order' = IF f'.pc = "put" /\ ~Present(k)' THEN Tail(list') ELSE list'
      <4>1. f'.pc = "put" => f'.key = k
        BY <2>1
      <4>2. f'.pc \in {"put", "idle"}
        BY <2>1
      <4> QED
        BY <1>0, <4>1, <4>2 DEF View, Present
    <3> QED
      BY <2>1, <2>2, <2>3, <2>4, <3>1, <3>2
  <2>6. SizeOf' = SizeOf
    BY <2>1
  <2>7. Incoming' = Incoming
    BY <1>0, <2>0, <2>1 DEF View
  <2> QED
    BY <2>5, <2>6, <2>7 DEF Same
<1>15. CASE UNCHANGED vars
  <2>1. UNCHANGED <<data, list, frame>>
    BY <1>15 DEF vars
  <2>2. View(p)' => Same
    BY <1>0, <2>1 DEF View, Present, Same
  <2> QED
    BY <1>0, <1>2, <2>2
\* Set has decided: the item comes in, and room is made only if it does not fit.
<1>16. ASSUME Decide(p) PROVE LRUCache!Offer(f.key, f.need, f'.purging) /\ f.key \in Keys /\ f.need \in Sizes
                              /\ f'.purging \in BOOLEAN
  <2>1. /\ f'.pc \in {"find", "link", "scan"} /\ f.pc = "decide" /\ UNCHANGED <<data, list>>
        /\ f'.op = f.op /\ f'.key = f.key /\ f'.need = f.need
        /\ f'.purging = IF Fits(p) THEN f.purging ELSE TRUE
        /\ f'.pc = "link" => ~(f.old > 0)
    <3>1. CASE Fits(p)
      <4>1. frame' = [frame EXCEPT ![p].pc = Enlist(p)] /\ f.pc = "decide" /\ UNCHANGED <<data, list>>
        BY <1>16, <3>1 DEF Decide
      <4>2. Enlist(p) \in {"find", "link"} /\ (Enlist(p) = "link" => ~(f.old > 0))
        BY DEF Enlist
      <4> HIDE DEF Fits
      <4> QED
        BY <1>0, <3>1, <4>1, <4>2 DEF Frames
    <3>2. CASE ~Fits(p)
      <4>1. /\ frame' = [frame EXCEPT ![p].pc = "scan", ![p].purging = TRUE, ![p].i = Len(list)]
            /\ f.pc = "decide" /\ UNCHANGED <<data, list>>
        BY <1>16, <3>2 DEF Decide
      <4> QED
        BY <1>0, <3>2, <4>1 DEF Frames
    <3> QED
      BY <3>1, <3>2
  <2>2. /\ f.op = "set" /\ f.key \in Keys /\ f.need \in Sizes /\ f.old = data[f.key].size /\ f.purging = FALSE
        /\ f.need \in Nat /\ f.old \in Nat
    BY <1>0, <2>1 DEF CountInv, FrameInv, Frames
  <2>3. f'.pc = "link" => ~Present(f'.key)
    BY <1>0, <2>1, <2>2
  <2>4. Order = list /\ Order' = list
    BY <1>0, <2>1, <2>3 DEF View, Present
  <2>5. SizeOf' = SizeOf
    BY <2>1
  <2>6. Incoming = Nothing /\ Incoming' = [key |-> f.key, size |-> f.need, evicting |-> f'.purging]
    BY <1>0, <2>1, <2>2 DEF View
  <2>7. f'.purging => LRUCache!Sum - SizeOf[f.key] + f.need > Limit
    <3>1. SUFFICES ASSUME ~Fits(p) PROVE LRUCache!Sum - SizeOf[f.key] + f.need > Limit
      BY <2>1, <2>2
    <3>2. Ahead(p) = 0 /\ SizeOf[f.key] = f.old
      BY <2>1, <2>2 DEF Ahead
    <3>3. Sum \in Nat /\ used \in Int /\ used - Ahead(p) <= Sum /\ Limit \in Nat
      BY <1>0, SumType, MaxCacheAssumption DEF CountInv, TypeOK
    <3>4. used <= Sum
      <4>1. \A i \in Int : i - 0 = i
        OBVIOUS
      <4> QED
        BY <3>2, <3>3, <4>1
    <3>5. Sum - f.old + f.need > Limit
      BY <2>2, <3>1, <3>3, <3>4 DEF Fits
    <3> QED
      BY <3>2, <3>5, SameSum
  <2> QED
    BY <2>1, <2>2, <2>4, <2>5, <2>6, <2>7 DEF LRUCache!Offer, LRUCache!Nothing
\* The key is taken out of the list, to be put at its head.
<1>17. ASSUME Unlink(p) PROVE LRUCache!Touch(f.key) /\ f.key \in Keys
  <2>1. PICK j \in 1..Len(list) : j = f.i /\ list[j] = f.key
    BY <1>17 DEF Unlink, ListInv, Placed
  <2>2. f.pc = "unlink" /\ f.key \in Keys /\ f.op \in {"set", "get"}
    BY <1>0, <1>17 DEF Unlink, FrameInv, Frames
  <2>3. list' = RemoveAt(list, j) /\ frame' = [frame EXCEPT ![p].pc = "link"] /\ data' = data
    BY <1>0, <1>17, <2>1 DEF Unlink
  <2>4. f'.pc = "link" /\ f'.op = f.op /\ f'.key = f.key /\ f'.need = f.need /\ f'.purging = f.purging
    BY <1>0, <2>3 DEF Frames
  <2>5. Present(f.key) /\ data[f.key].size > 0
    <3>1. Listed(f.key)
      BY <2>1 DEF Listed
    <3> QED
      BY <1>0, <2>2, <3>1 DEF ListInv
  <2>6. data'[f'.key] = data[f.key]
    BY <2>3, <2>4
  <2>7. Order = list /\ Order' = <<f.key>> \o RemoveAt(list, j)
    BY <1>0, <2>2, <2>3, <2>4, <2>5, <2>6 DEF View, Present
  <2>8. RemoveAt(list, j) = LRUCache!RemoveFirst(list, f.key)
    BY <1>0, <2>1, RemoveFirstPlace, SameRemoval DEF ListInv, Distinct
  <2>9. SizeOf' = SizeOf /\ SizeOf[f.key] > 0
    BY <2>2, <2>3, <2>5
  <2>10. Incoming' = Incoming /\ (Incoming = Nothing \/ Incoming.key = f.key)
    BY <1>0, <2>2, <2>4 DEF View
  <2> QED
    BY <2>2, <2>7, <2>8, <2>9, <2>10 DEF LRUCache!Touch, LRUCache!Nothing
\* An item goes that Delete was called for.
<1>18. ASSUME Evict(p), f.ret = "idle" PROVE LRUCache!Delete(f.victim) /\ f.victim \in Keys
  <2>1. f.pc = "evict" /\ f.victim \in Keys /\ Forget(f.victim) /\ f.op = "none" /\ Listed(f.victim)
    BY <1>0, <1>18 DEF Evict, FrameInv, ListInv, Scanned
  <2>2. PICK j \in 1..Len(list) : list[j] = f.victim
    BY <2>1 DEF Listed
  <2>3. f'.pc = "idle" /\ f'.op = "none"
    BY <1>0, <1>1, <1>18 DEF Evict
  <2>4. list' = RemoveFirst(list, f.victim)
    BY <1>0, <2>1, <2>2, ListForgets DEF ListInv
  <2>5. Order = list /\ Order' = LRUCache!RemoveFirst(list, f.victim)
    BY <1>0, <2>1, <2>3, <2>4, SameRemoval DEF View
  <2>6. SizeOf' = [SizeOf EXCEPT ![f.victim] = 0]
    <3>1. None.size = 0 /\ data' = [data EXCEPT ![f.victim] = None]
      BY <2>1 DEF None, Forget
    <3> QED
      BY <1>0, <3>1 DEF TypeOK
  <2>7. Incoming' = Incoming /\ Incoming = Nothing
    BY <1>0, <2>1, <2>3 DEF View
  <2> QED
    BY <2>1, <2>5, <2>6, <2>7 DEF LRUCache!Delete, LRUCache!Nothing
\* The item goes that was used longest ago.
<1>19. ASSUME Evict(p), f.ret = "purge" PROVE LRUCache!EvictColdest
  <2>1. /\ f.pc = "evict" /\ f.victim \in Keys /\ Forget(f.victim) /\ f.op = "set"
        /\ Len(list) > 0 /\ f.victim = list[Len(list)]
    BY <1>0, <1>19 DEF Evict, FrameInv, ListInv, Scanned
  <2>2. f.purging = TRUE
    BY <1>0, <2>1 DEF CountInv
  <2>3. f'.pc = "purge" /\ f'.op = f.op /\ f'.key = f.key /\ f'.need = f.need /\ f'.purging = f.purging
    BY <1>0, <1>19 DEF Evict, Frames
  <2>4. list # << >> /\ list' = SubSeq(list, 1, Len(list) - 1)
    <3>1. Len(list) \in 1..Len(list)
      BY <1>0, <2>1
    <3>2. list' = RemoveAt(list, Len(list))
      BY <1>0, <2>1, <3>1, ListForgets DEF ListInv
    <3>3. list # << >>
      BY <2>1
    <3> QED
      BY <1>0, <3>2, <3>3, RemoveLast
  <2>5. Order = list /\ Order' = SubSeq(list, 1, Len(list) - 1)
    BY <1>0, <2>1, <2>3, <2>4 DEF View
  <2>6. SizeOf' = [SizeOf EXCEPT ![list[Len(list)]] = 0]
    <3>1. None.size = 0 /\ data' = [data EXCEPT ![f.victim] = None]
      BY <2>1 DEF None, Forget
    <3> QED
      BY <1>0, <2>1, <3>1 DEF TypeOK
  <2>7. Incoming' = Incoming /\ Incoming.evicting
    BY <1>0, <2>1, <2>2, <2>3 DEF View
  <2> QED
    BY <2>4, <2>5, <2>6, <2>7 DEF LRUCache!EvictColdest
\* The item is stored: its key is at the head of the list by now.
<1>20. ASSUME Put(p) PROVE LRUCache!Accept
  <2>1. /\ f.pc = "put" /\ f.op = "set" /\ f.key \in Keys /\ f.need \in Sizes /\ f.need # 0
        /\ Len(list) > 0 /\ list[1] = f.key
        /\ data' = [data EXCEPT ![f.key] = [size |-> f.need, life |-> f.life]]
        /\ list' = list /\ f'.pc = "idle" /\ f'.op = "none"
    BY <1>0, <1>1, <1>20 DEF Put, ListInv, Placed, FrameInv
  <2>2. Incoming = [key |-> f.key, size |-> f.need, evicting |-> f.purging] /\ Incoming' = Nothing
    BY <1>0, <2>1 DEF View
  <2>3. Incoming # Nothing /\ Incoming.key = f.key /\ Incoming.size = f.need
    BY <2>1, <2>2
  <2>4. SizeOf' = [SizeOf EXCEPT ![f.key] = f.need]
    BY <1>0, <2>1 DEF TypeOK
  <2>5. Order' = list
    BY <1>0, <2>1 DEF View
  <2>6. <<f.key>> \o RemoveFirst(Order, f.key) = list
    <3>1. <<f.key>> \o RemoveFirst(list, f.key) = list
      BY <1>0, <2>1, FrontAgain DEF ListInv, Distinct
    <3>2. CASE Present(f.key)
      BY <1>0, <2>1, <3>1, <3>2 DEF View
    <3>3. CASE ~Present(f.key)
      <4>1. Order = Tail(list)
        BY <1>0, <2>1, <3>3 DEF View
      <4>2. /\ Tail(list) \in Seq(Keys) /\ Len(Tail(list)) = Len(list) - 1
            /\ \A i \in 1..(Len(list) - 1) : Tail(list)[i] = list[i + 1]
        BY <1>0, <2>1
      <4>3. ~\E i \in 1..Len(Tail(list)) : Tail(list)[i] = f.key
        <5>1. ASSUME NEW i \in 1..Len(Tail(list)), Tail(list)[i] = f.key PROVE FALSE
          <6>1. i + 1 \in 1..Len(list) /\ 1 \in 1..Len(list) /\ i + 1 # 1 /\ list[i + 1] = list[1]
            BY <1>0, <2>1, <4>2, <5>1
          <6> QED
            BY <6>1 DEF ListInv, Distinct
        <5> QED
          BY <5>1
      <4>4. RemoveFirst(Tail(list), f.key) = Tail(list)
        BY <4>3, RemoveFirstAbsent
      <4>5. <<f.key>> \o Tail(list) = list
        BY <1>0, <2>1
      <4> QED
        BY <4>1, <4>4, <4>5
    <3> QED
      BY <3>2, <3>3
  <2> QED
    BY <2>2, <2>3, <2>4, <2>5, <2>6, SameRemoval DEF LRUCache!Accept, LRUCache!Nothing
<1>21. ASSUME Background PROVE FALSE
  BY <1>0, <1>21 DEF Background, SweepStart, SweepOne, SweepEnd, Expire, CountInv
<1>22. ASSUME Evict(p) PROVE f.ret \in {"idle", "purge"}
  BY <1>22 DEF Evict, CountInv
<1>23. Decide(p) \/ Unlink(p) \/ Evict(p) \/ Put(p) => LRUCache!Next
  <2>1. Decide(p) => LRUCache!Next
    BY <1>16 DEF LRUCache!Next
  <2>2. ASSUME Unlink(p) PROVE LRUCache!Next
    <3>1. PICK k \in Keys : k = f.key
      BY <1>17, <2>2
    <3>2. LRUCache!Touch(k)
      BY <1>17, <2>2, <3>1
    <3> QED
      BY <3>2 DEF LRUCache!Next
  <2>3. ASSUME Evict(p) PROVE LRUCache!Next
    <3>1. CASE f.ret = "idle"
      <4>1. LRUCache!Delete(f.victim) /\ f.victim \in Keys
        BY <1>18, <2>3, <3>1
      <4>2. PICK k \in Keys : k = f.victim
        BY <4>1
      <4>3. LRUCache!Delete(k)
        BY <4>1, <4>2 DEF LRUCache!Delete
      <4> QED
        BY <4>3 DEF LRUCache!Next
    <3>2. CASE f.ret = "purge"
      BY <1>19, <2>3, <3>2 DEF LRUCache!Next
    <3> QED
      BY <1>22, <2>3, <3>1, <3>2
  <2>4. Put(p) => LRUCache!Next
    BY <1>20 DEF LRUCache!Next
  <2> QED
    BY <2>1, <2>2, <2>3, <2>4
<1>24. Call(p) => Same
  BY <1>4, <1>5, <1>6 DEF Call
<1>25. Step(p) => Same \/ LRUCache!Next
  BY <1>7, <1>8, <1>9, <1>10, <1>11, <1>12, <1>13, <1>14, <1>23 DEF Step
<1>26. Call(p) \/ Step(p) \/ UNCHANGED vars
  BY <1>21 DEF Next
<1> QED
  BY <1>2, <1>15, <1>24, <1>25, <1>26

-----------------------------------------------------------------------------
(* Theorems *)

\* The types of all variables, the local ones of the calls included.
LEMMA TypeAlways == Spec => []TypeInv
BY TypeInit, TypeStep, PTL DEF Spec

\* The variables have their types, and the counter never exceeds m.max, whatever
\* Set, Get, Delete, the sweeper and the callback do at the same time: line 62 and
\* the charge of line 97 are under one lock, and evictions only lower the counter.
THEOREM TypeCorrect == Spec => []TypeOK
<1>1. TypeInv => TypeOK
  BY DEF TypeInv
<1> QED
  BY <1>1, TypeAlways, PTL

\* No return path of Set, Get and Delete leaves one of the two mutexes locked, for
\* any number of goroutines (lines 70-79, 89, 98).
THEOREM LocksReleased == Spec => []NoLockLeak
<1>1. LockInv => NoLockLeak
  BY DEF LockInv, NoLockLeak, Guards, At
<1>2. TypeInv /\ LockInv /\ [Next]_vars => LockInv'
  BY LockStep
<1> QED
  BY <1>1, <1>2, LockInit, TypeAlways, PTL DEF Spec

\* One goroutine, and items without deadlines.
Sequential == (\E p : Procs = {p}) /\ Lives \subseteq {"never"}

\* The counter of a cache with the one user p.
LEMMA CountAlways ==
  ASSUME NEW CONSTANT p, Procs = {p}, Lives \subseteq {"never"}
  PROVE  Spec => []CountInv(p)
<1>1. Init => CountInv(p)
  BY CountInit
<1>2. TypeInv /\ CountInv(p) /\ [Next]_vars => CountInv(p)'
  BY CountStep
<1> QED
  BY <1>1, <1>2, TypeAlways, PTL DEF Spec

\* Between the calls of a single goroutine the counter is exactly the number of
\* stored bytes as long as no Set has made room.
THEOREM CounterExact == Sequential => (Spec => []AccountingExact)
<1> SUFFICES ASSUME Sequential PROVE Spec => []AccountingExact
  OBVIOUS
<1>1. PICK p : Procs = {p} /\ Lives \subseteq {"never"}
  BY DEF Sequential
<1>2. TypeInv /\ CountInv(p) => AccountingExact
  BY <1>1, SumType, MaxCacheAssumption DEF CountInv, AccountingExact, AllIdle, At, Ahead, TypeInv, TypeOK
<1> QED
  BY <1>1, <1>2, TypeAlways, CountAlways, PTL

\* Nor does it ever claim more than is stored once a Set has.
THEOREM CounterLow == Sequential => (Spec => []NeverOvercounted)
<1> SUFFICES ASSUME Sequential PROVE Spec => []NeverOvercounted
  OBVIOUS
<1>1. PICK p : Procs = {p} /\ Lives \subseteq {"never"}
  BY DEF Sequential
<1>2. TypeInv /\ CountInv(p) => NeverOvercounted
  BY <1>1, SumType DEF CountInv, NeverOvercounted, AllIdle, At, Ahead, TypeInv, TypeOK
<1> QED
  BY <1>1, <1>2, TypeAlways, CountAlways, PTL

\* The list of a cache with the one user p.
LEMMA ListAlways ==
  ASSUME NEW CONSTANT p, Procs = {p}, Lives \subseteq {"never"}, 0 \notin Sizes
  PROVE  Spec => []ListInv(p)
<1>1. Init => ListInv(p)
  BY ListInit
<1>2. TypeInv /\ CountInv(p) /\ ListInv(p) /\ [Next]_vars => ListInv(p)'
  BY ListStep
<1> QED
  BY <1>1, <1>2, TypeAlways, CountAlways, PTL DEF Spec

\* A cache with one user, whose items have no deadlines and are not empty, is an
\* LRU cache of its size: Set, Get, Delete and the evictions of Set keep exactly
\* the stored keys in the list, in the order of their last use, give up keys only
\* from its end and only for an item that does not fit, and never fail
\* (lines 54-115, 121-150).
THEOREM LeastRecentlyUsed == Sequential /\ 0 \notin Sizes => (Spec => IsLRUCache)
<1> SUFFICES ASSUME Sequential, 0 \notin Sizes PROVE Spec => IsLRUCache
  OBVIOUS
<1>1. PICK p : Procs = {p} /\ Lives \subseteq {"never"}
  BY DEF Sequential
<1>2. Init => LRUCache!Init
  BY <1>1, RefInit
<1>3. TypeInv /\ CountInv(p) /\ ListInv(p) /\ [Next]_vars => [LRUCache!Next]_(LRUCache!vars)
  BY <1>1, RefStep
<1> QED
  BY <1>1, <1>2, <1>3, TypeAlways, CountAlways, ListAlways, PTL DEF Spec, IsLRUCache, LRUCache!Spec

=============================================================================
