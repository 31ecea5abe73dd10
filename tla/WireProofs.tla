----------------------------- MODULE WireProofs -----------------------------
(***************************************************************************)
(* Theorems about Wire, for bytes, lengths and messages of any size.       *)
(***************************************************************************)
EXTENDS Wire, DataLemmas, SequenceTheorems

-----------------------------------------------------------------------------
(* Slices *)

Text == Seq(Bytes)

\* A slice from the beginning, and what it leaves.
LEMMA Slices ==
  ASSUME NEW S, NEW s \in Seq(S), NEW n \in 0..Len(s)
  PROVE  /\ SubSeq(s, 1, n) \in Seq(S) /\ Len(SubSeq(s, 1, n)) = n
         /\ \A j \in 1..n : SubSeq(s, 1, n)[j] = s[j]
         /\ From(s, n) \in Seq(S) /\ Len(From(s, n)) = Len(s) - n
         /\ \A j \in 1..(Len(s) - n) : From(s, n)[j] = s[n + j]
<1>1. Len(s) \in Nat /\ (\A j \in 1..Len(s) : s[j] \in S) /\ n \in Nat /\ n <= Len(s)
  BY LenProperties, ElementOfSeq
<1>2. /\ SubSeq(s, 1, n) \in Seq(S) /\ Len(SubSeq(s, 1, n)) = IF 1 <= n THEN n - 1 + 1 ELSE 0
      /\ \A j \in 1..(n - 1 + 1) : SubSeq(s, 1, n)[j] = s[1 + j - 1]
  <2>1. 1 \in Int /\ n \in Int /\ \A j \in 1..n : s[j] \in S
    BY <1>1
  <2> QED
    BY <2>1, SubSeqProperties
<1>3. LET m == n + 1
      IN  /\ SubSeq(s, m, Len(s)) \in Seq(S)
          /\ Len(SubSeq(s, m, Len(s))) = IF m <= Len(s) THEN Len(s) - m + 1 ELSE 0
          /\ \A j \in 1..(Len(s) - m + 1) : SubSeq(s, m, Len(s))[j] = s[m + j - 1]
  <2>1. n + 1 \in Int /\ Len(s) \in Int /\ \A j \in n + 1 .. Len(s) : s[j] \in S
    BY <1>1
  <2> QED
    BY <2>1, SubSeqProperties
<1>4. \A j \in 1..n : j \in 1..(n - 1 + 1) /\ 1 + j - 1 = j
  BY <1>1
<1>5. \A j \in 1..(Len(s) - n) : j \in 1..(Len(s) - (n + 1) + 1) /\ (n + 1) + j - 1 = n + j
  BY <1>1
<1>6. Len(SubSeq(s, 1, n)) = n
  BY <1>1, <1>2
<1>7. Len(From(s, n)) = Len(s) - n
  BY <1>1, <1>3 DEF From
<1> QED
  BY <1>2, <1>3, <1>4, <1>5, <1>6, <1>7 DEF From

\* Two texts one after the other are taken apart where the second begins.
LEMMA Apart ==
  ASSUME NEW S, NEW s \in Seq(S), NEW t \in Seq(S)
  PROVE  SubSeq(s \o t, 1, Len(s)) = s /\ From(s \o t, Len(s)) = t
<1>1. Len(s) \in Nat /\ Len(t) \in Nat
  BY LenProperties
<1>2. /\ s \o t \in Seq(S) /\ Len(s \o t) = Len(s) + Len(t)
      /\ \A i \in 1..Len(s) + Len(t) : (s \o t)[i] = IF i <= Len(s) THEN s[i] ELSE t[i - Len(s)]
  BY ConcatProperties
<1>3. Len(s) \in 0..Len(s \o t)
  BY <1>1, <1>2
<1>4. /\ SubSeq(s \o t, 1, Len(s)) \in Seq(S) /\ Len(SubSeq(s \o t, 1, Len(s))) = Len(s)
      /\ \A j \in 1..Len(s) : SubSeq(s \o t, 1, Len(s))[j] = (s \o t)[j]
      /\ From(s \o t, Len(s)) \in Seq(S) /\ Len(From(s \o t, Len(s))) = Len(s \o t) - Len(s)
      /\ \A j \in 1..(Len(s \o t) - Len(s)) : From(s \o t, Len(s))[j] = (s \o t)[Len(s) + j]
  BY <1>2, <1>3, Slices
<1>5. \A j \in 1..Len(s) : (s \o t)[j] = s[j]
  BY <1>1, <1>2
<1>6. Len(s \o t) - Len(s) = Len(t) /\ \A j \in 1..Len(t) : (s \o t)[Len(s) + j] = t[j]
  BY <1>1, <1>2
<1>7. SubSeq(s \o t, 1, Len(s)) = s
  BY <1>4, <1>5, SeqEqual
<1>8. From(s \o t, Len(s)) = t
  BY <1>4, <1>6, SeqEqual
<1> QED
  BY <1>7, <1>8

\* A slice of the first of two texts, and what it leaves of both.
LEMMA SliceOfFirst ==
  ASSUME NEW S, NEW s \in Seq(S), NEW t \in Seq(S), NEW n \in 0..Len(s)
  PROVE  /\ SubSeq(s \o t, 1, n) = SubSeq(s, 1, n)
         /\ From(s \o t, n) = From(s, n) \o t
         /\ SubSeq(s, 1, n) \o From(s, n) = s
<1> DEFINE b == SubSeq(s, 1, n)
           e == From(s, n)
<1>1. b \in Seq(S) /\ e \in Seq(S) /\ Len(b) = n /\ Len(e) = Len(s) - n /\ Len(s) \in Nat /\ n \in Nat
  BY Slices, LenProperties
<1>2. b \o e = s
  <2>1. (\A j \in 1..n : b[j] = s[j]) /\ (\A j \in 1..(Len(s) - n) : e[j] = s[n + j])
    BY Slices
  <2> HIDE DEF b, e
  <2>2. /\ b \o e \in Seq(S) /\ Len(b \o e) = Len(b) + Len(e)
        /\ \A i \in 1..Len(b) + Len(e) : (b \o e)[i] = IF i <= Len(b) THEN b[i] ELSE e[i - Len(b)]
    BY <1>1, ConcatProperties
  <2>3. Len(b \o e) = Len(s)
    BY <1>1, <2>2
  <2>4. ASSUME NEW i \in 1..Len(s) PROVE (b \o e)[i] = s[i]
    <3>1. CASE i <= n
      BY <1>1, <2>1, <2>2, <3>1
    <3>2. CASE ~(i <= n)
      <4>1. i - n \in 1..(Len(s) - n) /\ n + (i - n) = i
        BY <1>1, <3>2
      <4> QED
        BY <1>1, <2>1, <2>2, <3>2, <4>1
    <3> QED
      BY <3>1, <3>2
  <2> QED
    BY <2>2, <2>3, <2>4, SeqEqual
<1> HIDE DEF b, e
<1>3. s \o t = b \o (e \o t)
  <2>1. (b \o e) \o t = b \o (e \o t)
    BY SMTT(30), <1>1
  <2> QED
    BY <1>2, <2>1
<1>4. e \o t \in Seq(S)
  BY <1>1, ConcatProperties
<1>5. SubSeq(b \o (e \o t), 1, Len(b)) = b /\ From(b \o (e \o t), Len(b)) = e \o t
  BY <1>1, <1>4, Apart
<1> QED
  BY <1>1, <1>2, <1>3, <1>5 DEF b, e

\* A buffer into which a text of its size is copied.
LEMMA PaddedFull ==
  ASSUME NEW S, NEW s \in Seq(S), NEW n \in Nat, n = Len(s)
  PROVE  Padded(s, n) = s
<1>1. Padded(s, n) = [i \in 1..n |-> s[i]]
  BY DEF Padded
<1>2. s \in [1..Len(s) -> S]
  BY LenProperties
<1> QED
  BY <1>1, <1>2

\* A buffer holds bytes; it begins with the text if that is not longer.
LEMMA PaddedText ==
  ASSUME NEW s \in Text, NEW n \in Nat
  PROVE  /\ Padded(s, n) \in Text /\ Len(Padded(s, n)) = n
         /\ Len(s) <= n => \E t \in Text : Padded(s, n) = s \o t
<1>0. 0 \in Bytes
  BY WireAssumption DEF Bytes
<1>1. Len(s) \in Nat /\ \A i \in 1..Len(s) : s[i] \in Bytes
  BY LenProperties, ElementOfSeq DEF Text
<1>2. \A i \in 1..n : (IF i <= Len(s) THEN s[i] ELSE 0) \in Bytes
  BY <1>0, <1>1
<1>3. Padded(s, n) \in [1..n -> Bytes]
  BY <1>2 DEF Padded
<1>4. Padded(s, n) \in Text /\ Len(Padded(s, n)) = n
  BY <1>3 DEF Text
<1>5. ASSUME Len(s) <= n PROVE SubSeq(Padded(s, n), 1, Len(s)) = s
  <2>1. Len(s) \in 0..Len(Padded(s, n))
    BY <1>1, <1>4, <1>5
  <2>2. /\ SubSeq(Padded(s, n), 1, Len(s)) \in Text /\ Len(SubSeq(Padded(s, n), 1, Len(s))) = Len(s)
        /\ \A j \in 1..Len(s) : SubSeq(Padded(s, n), 1, Len(s))[j] = Padded(s, n)[j]
    BY <1>4, <2>1, Slices DEF Text
  <2>3. \A j \in 1..Len(s) : Padded(s, n)[j] = s[j]
    BY <1>1, <1>5 DEF Padded
  <2> QED
    BY <2>2, <2>3, SeqEqual DEF Text
<1>6. ASSUME Len(s) <= n PROVE \E t \in Text : Padded(s, n) = s \o t
  <2>1. Len(s) \in 0..Len(Padded(s, n))
    BY <1>1, <1>4, <1>6
  <2>2. From(Padded(s, n), Len(s)) \in Text
    BY <1>4, <2>1, Slices DEF Text
  <2>3. << >> \in Text
    BY DEF Text
  <2>4. SubSeq(Padded(s, n), 1, Len(s)) \o From(Padded(s, n), Len(s)) = Padded(s, n)
    BY <1>4, <2>1, <2>3, SliceOfFirst DEF Text
  <2> QED
    BY <1>5, <1>6, <2>2, <2>4
<1> QED
  BY <1>4, <1>6

-----------------------------------------------------------------------------
(* Numbers in bytes *)

\* The constants.
LEMMA Constants ==
  /\ Base \in Nat \ {0} /\ FieldBytes \in Nat \ {0} /\ Fixed \in Nat \ {0} /\ 2 * FieldBytes \in Nat
  /\ 2 * FieldBytes < Fixed /\ 0 \in Bytes /\ Bytes \subseteq Nat
BY WireAssumption DEF Fixed, Bytes

\* The powers of Base up to Width.
LEMMA Powers ==
  /\ \A i \in 0..FieldBytes : Power[i] \in Nat \ {0}
  /\ Power[0] = 1 /\ \A i \in 1..FieldBytes : Power[i] = Power[i - 1] * Base
  /\ Width \in Nat \ {0} /\ Fixed < Width
<1> DEFINE Loop(f) == f = [n \in 0..FieldBytes |-> IF n = 0 THEN 1 ELSE f[n - 1] * Base]
           V == Nat \ {0}
           G == [n \in Nat |-> [v \in V |-> v * Base]]
<1>1. PICK f \in [0..FieldBytes -> V] : f[0] = 1 /\ \A i \in 1..FieldBytes : f[i] = G[i][f[i - 1]]
  <2>1. \A n \in Nat : \A v \in V : G[n][v] \in V
    BY Constants
  <2>2. Rounds(G, V)
    BY <2>1 DEF Rounds
  <2>3. FieldBytes \in Nat
    BY Constants
  <2>4. 1 \in V
    OBVIOUS
  <2> HIDE DEF G, V
  <2>5. HasLoop(V, 1, G, FieldBytes)
    BY <2>2, <2>3, <2>4, LoopExists
  <2> QED
    BY <2>5 DEF HasLoop
<1>2. \A i \in 0..FieldBytes : i # 0 => f[i] = f[i - 1] * Base
  <2>1. \A i \in 0..FieldBytes : i # 0 => i \in 1..FieldBytes /\ i \in Nat /\ i - 1 \in 0..FieldBytes
    BY Constants
  <2> QED
    BY <1>1, <2>1
<1>3. Loop(f)
  BY <1>1, <1>2
<1>4. Loop(Power)
  <2>1. Power = CHOOSE g : Loop(g)
    BY DEF Power
  <2> HIDE DEF Loop
  <2> QED
    BY <1>3, <2>1
<1>5. Power[0] = 1 /\ \A i \in 1..FieldBytes : Power[i] = Power[i - 1] * Base
  <2>1. \A i \in 1..FieldBytes : i \in 0..FieldBytes /\ i # 0
    OBVIOUS
  <2>2. 0 \in 0..FieldBytes
    BY Constants
  <2> QED
    BY <1>4, <2>1, <2>2
<1> HIDE DEF Loop, G
<1>6. \A i \in 0..FieldBytes : Power[i] \in V
  <2>1. Power[0] \in V /\ FieldBytes \in Nat
    BY <1>5, Constants
  <2>2. \A n \in 1..FieldBytes : Power[n - 1] \in V => Power[n] \in V
    BY <1>5, Constants
  <2> HIDE DEF V
  <2> QED
    BY <2>1, <2>2, LoopInvariant
<1>7. FieldBytes \in 0..FieldBytes
  BY Constants
<1> QED
  BY <1>5, <1>6, <1>7, WireAssumption DEF Width

\* The quotients of which Field takes the digits.
LEMMA Shifts ==
  ASSUME NEW n \in 0..(Width - 1)
  PROVE  LET shifted[i \in 0..FieldBytes] == IF i = 0 THEN n ELSE shifted[i - 1] \div Base
         IN  /\ shifted[0] = n /\ shifted[FieldBytes] = 0
             /\ \A i \in 1..FieldBytes : shifted[i] = shifted[i - 1] \div Base
             /\ \A i \in 0..FieldBytes : shifted[i] \in Nat
<1> DEFINE Loop(f) == f = [i \in 0..FieldBytes |-> IF i = 0 THEN n ELSE f[i - 1] \div Base]
           G == [i \in Nat |-> [v \in Nat |-> v \div Base]]
           shifted == CHOOSE f : Loop(f)
<1>0. n \in Nat /\ n < Width
  BY Powers
<1>1. PICK f \in [0..FieldBytes -> Nat] : f[0] = n /\ \A i \in 1..FieldBytes : f[i] = G[i][f[i - 1]]
  <2>1. \A i \in Nat : \A v \in Nat : G[i][v] \in Nat
    BY Constants
  <2>2. Rounds(G, Nat)
    BY <2>1 DEF Rounds
  <2>3. FieldBytes \in Nat
    BY Constants
  <2>4. n \in Nat
    BY <1>0
  <2> HIDE DEF G
  <2>5. HasLoop(Nat, n, G, FieldBytes)
    BY <2>2, <2>3, <2>4, LoopExists
  <2> QED
    BY <2>5 DEF HasLoop
<1>2. \A i \in 0..FieldBytes : i # 0 => f[i] = f[i - 1] \div Base
  <2>1. \A i \in 0..FieldBytes : i # 0 => i \in 1..FieldBytes /\ i \in Nat /\ i - 1 \in 0..FieldBytes
    BY Constants
  <2>2. \A i \in 0..FieldBytes : i # 0 => f[i] = G[i][f[i - 1]] /\ i \in Nat /\ f[i - 1] \in Nat
    BY <1>1, <2>1
  <2> QED
    BY <2>2
<1>3. Loop(f)
  BY <1>1, <1>2
<1>4. Loop(shifted)
  <2> HIDE DEF Loop
  <2> QED
    BY <1>3
<1> HIDE DEF G, shifted
<1>5. shifted[0] = n /\ \A i \in 1..FieldBytes : shifted[i] = shifted[i - 1] \div Base
  <2>1. \A i \in 1..FieldBytes : i \in 0..FieldBytes /\ i # 0
    OBVIOUS
  <2>2. 0 \in 0..FieldBytes
    BY Constants
  <2> QED
    BY <1>4, <2>1, <2>2
<1> HIDE DEF Loop
<1> DEFINE T == {i \in 0..FieldBytes : shifted[i] \in Nat /\ shifted[i] < Power[FieldBytes - i]}
<1>6. \A i \in 0..FieldBytes : i \in T
  <2>1. 0 \in T
    BY <1>0, <1>5, Constants DEF Width
  <2>2. ASSUME NEW i \in 1..FieldBytes, i - 1 \in T PROVE i \in T
    <3>1. /\ FieldBytes - i \in 0..FieldBytes /\ FieldBytes - (i - 1) \in 1..FieldBytes
          /\ (FieldBytes - (i - 1)) - 1 = FieldBytes - i /\ i \in 0..FieldBytes
      BY Constants
    <3>2. Power[FieldBytes - (i - 1)] = Power[FieldBytes - i] * Base /\ Power[FieldBytes - i] \in Nat
      BY <3>1, Powers
    <3>3. shifted[i - 1] \in Nat /\ shifted[i - 1] < Power[FieldBytes - i] * Base
      BY <2>2, <3>2
    <3>4. shifted[i - 1] \div Base \in Nat /\ shifted[i - 1] \div Base < Power[FieldBytes - i]
      BY <3>2, <3>3, Constants, Quotient
    <3>5. shifted[i] = shifted[i - 1] \div Base
      BY <1>5
    <3> QED
      BY <3>1, <3>4, <3>5
  <2>3. FieldBytes \in Nat
    BY Constants
  <2> HIDE DEF T
  <2> QED
    BY <2>1, <2>2, <2>3, BoundedInduction
<1>7. FieldBytes \in T
  BY <1>6, Constants
<1>8. shifted[FieldBytes] = 0
  <2>1. FieldBytes - FieldBytes = 0
    BY Constants
  <2> QED
    BY <1>7, <2>1, Powers
<1>9. \A i \in 0..FieldBytes : shifted[i] \in Nat
  BY <1>6
<1> HIDE DEF T
<1> QED
  BY <1>5, <1>8, <1>9 DEF shifted, Loop

\* The number that some bytes stand for, from the first byte to the last.
LEMMA Sums ==
  ASSUME NEW bs \in Text
  PROVE  LET upTo[i \in 0..Len(bs)] == IF i = 0 THEN 0 ELSE upTo[i - 1] * Base + bs[i]
         IN  upTo[0] = 0 /\ \A i \in 1..Len(bs) : upTo[i] = upTo[i - 1] * Base + bs[i]
<1> DEFINE Loop(f) == f = [i \in 0..Len(bs) |-> IF i = 0 THEN 0 ELSE f[i - 1] * Base + bs[i]]
           G == [i \in Nat |-> [v \in Nat |-> IF i \in 1..Len(bs) THEN v * Base + bs[i] ELSE v]]
           upTo == CHOOSE f : Loop(f)
<1>0. Len(bs) \in Nat /\ \A i \in 1..Len(bs) : bs[i] \in Nat
  BY LenProperties, ElementOfSeq, Constants DEF Text
<1>1. PICK f \in [0..Len(bs) -> Nat] : f[0] = 0 /\ \A i \in 1..Len(bs) : f[i] = G[i][f[i - 1]]
  <2>1. \A i \in Nat : \A v \in Nat : G[i][v] \in Nat
    BY <1>0, Constants
  <2>2. Rounds(G, Nat)
    BY <2>1 DEF Rounds
  <2>3. Len(bs) \in Nat
    BY <1>0
  <2>4. 0 \in Nat
    OBVIOUS
  <2> HIDE DEF G
  <2>5. HasLoop(Nat, 0, G, Len(bs))
    BY <2>2, <2>3, <2>4, LoopExists
  <2> QED
    BY <2>5 DEF HasLoop
<1>2. \A i \in 0..Len(bs) : i # 0 => f[i] = f[i - 1] * Base + bs[i]
  <2>1. \A i \in 0..Len(bs) : i # 0 => i \in 1..Len(bs) /\ i \in Nat /\ i - 1 \in 0..Len(bs)
    BY <1>0
  <2>2. \A i \in 0..Len(bs) : i # 0 => f[i] = G[i][f[i - 1]] /\ i \in Nat /\ f[i - 1] \in Nat
    BY <1>1, <2>1
  <2> QED
    BY <2>1, <2>2
<1>3. Loop(f)
  BY <1>1, <1>2
<1>4. Loop(upTo)
  <2> HIDE DEF Loop
  <2> QED
    BY <1>3
<1> HIDE DEF G, upTo
<1>5. upTo[0] = 0 /\ \A i \in 1..Len(bs) : upTo[i] = upTo[i - 1] * Base + bs[i]
  <2>1. \A i \in 1..Len(bs) : i \in 0..Len(bs) /\ i # 0
    OBVIOUS
  <2>2. 0 \in 0..Len(bs)
    BY <1>0
  <2> QED
    BY <1>4, <2>1, <2>2
<1> QED
  BY <1>5 DEF upTo, Loop

\* A length is below Width.
LEMMA NumberType ==
  ASSUME NEW bs \in Text, Len(bs) = FieldBytes
  PROVE  Number(bs) \in 0..(Width - 1)
<1> DEFINE Loop(f) == f = [i \in 0..Len(bs) |-> IF i = 0 THEN 0 ELSE f[i - 1] * Base + bs[i]]
           upTo == CHOOSE f : Loop(f)
           T == {i \in 0..FieldBytes : upTo[i] \in Nat /\ upTo[i] < Power[i]}
<1>1. upTo[0] = 0 /\ \A i \in 1..Len(bs) : upTo[i] = upTo[i - 1] * Base + bs[i]
  BY Sums
<1>2. \A i \in 1..FieldBytes : bs[i] \in Bytes
  BY ElementOfSeq DEF Text
<1>3. Number(bs) = upTo[FieldBytes]
  BY DEF Number
<1> HIDE DEF upTo
<1>4. \A i \in 0..FieldBytes : i \in T
  <2>1. 0 \in T
    BY <1>1, Powers, Constants
  <2>2. ASSUME NEW i \in 1..FieldBytes, i - 1 \in T PROVE i \in T
    <3>1. i \in 0..FieldBytes /\ i - 1 \in 0..FieldBytes
      BY Constants
    <3>2. Power[i] = Power[i - 1] * Base /\ Power[i - 1] \in Nat
      BY <3>1, Powers
    <3>3. upTo[i - 1] \in Nat /\ upTo[i - 1] < Power[i - 1]
      BY <2>2
    <3>4. bs[i] \in 0..(Base - 1)
      BY <1>2 DEF Bytes
    <3>5. upTo[i - 1] * Base + bs[i] \in Nat /\ upTo[i - 1] * Base + bs[i] < Power[i - 1] * Base
      BY <3>2, <3>3, <3>4, Constants, DigitMore
    <3>6. upTo[i] = upTo[i - 1] * Base + bs[i]
      BY <1>1
    <3> QED
      BY <3>1, <3>2, <3>5, <3>6
  <2>3. FieldBytes \in Nat
    BY Constants
  <2> HIDE DEF T
  <2> QED
    BY <2>1, <2>2, <2>3, BoundedInduction
<1>5. FieldBytes \in T
  BY <1>4, Constants
<1>6. upTo[FieldBytes] \in Nat /\ upTo[FieldBytes] < Power[FieldBytes]
  BY <1>5
<1> HIDE DEF T
<1> QED
  BY <1>3, <1>6, Powers DEF Width

\* A number that is written into bytes is read from them as it was.
LEMMA FieldRead ==
  ASSUME NEW n \in 0..(Width - 1)
  PROVE  Field(n) \in Text /\ Len(Field(n)) = FieldBytes /\ Number(Field(n)) = n
<1> DEFINE Down(f) == f = [i \in 0..FieldBytes |-> IF i = 0 THEN n ELSE f[i - 1] \div Base]
           shifted == CHOOSE f : Down(f)
           bs == Field(n)
           Loop(f) == f = [i \in 0..Len(bs) |-> IF i = 0 THEN 0 ELSE f[i - 1] * Base + bs[i]]
           upTo == CHOOSE f : Loop(f)
           T == {i \in 0..FieldBytes : upTo[i] = shifted[FieldBytes - i]}
<1>1. /\ shifted[0] = n /\ shifted[FieldBytes] = 0
      /\ \A i \in 1..FieldBytes : shifted[i] = shifted[i - 1] \div Base
      /\ \A i \in 0..FieldBytes : shifted[i] \in Nat
  BY Shifts
<1>2. bs = [i \in 1..FieldBytes |-> shifted[FieldBytes - i] % Base]
  BY DEF Field
<1> HIDE DEF shifted
<1>3. \A i \in 1..FieldBytes : FieldBytes - i \in 0..FieldBytes
  BY Constants
<1>4. \A i \in 1..FieldBytes : shifted[FieldBytes - i] % Base \in Bytes
  BY <1>1, <1>3, Constants, Digits DEF Bytes
<1>5. bs \in [1..FieldBytes -> Bytes]
  <2> HIDE DEF bs
  <2> QED
    BY <1>2, <1>4
<1>6. bs \in Text /\ Len(bs) = FieldBytes
  <2> HIDE DEF bs
  <2> QED
    BY <1>5, Constants DEF Text
<1>7. upTo[0] = 0 /\ \A i \in 1..Len(bs) : upTo[i] = upTo[i - 1] * Base + bs[i]
  BY <1>6, Sums
<1>8. Number(bs) = upTo[Len(bs)]
  BY DEF Number
<1> HIDE DEF upTo, bs
<1>9. \A i \in 0..FieldBytes : i \in T
  <2>1. 0 \in T
    <3>1. FieldBytes - 0 = FieldBytes /\ 0 \in 0..FieldBytes
      BY Constants
    <3> QED
      BY <1>1, <1>7, <3>1
  <2>2. ASSUME NEW i \in 1..FieldBytes, i - 1 \in T PROVE i \in T
    <3>1. /\ FieldBytes - i \in 0..FieldBytes /\ FieldBytes - (i - 1) \in 1..FieldBytes
          /\ (FieldBytes - (i - 1)) - 1 = FieldBytes - i /\ i \in 0..FieldBytes
      BY Constants
    <3>2. shifted[FieldBytes - (i - 1)] = shifted[FieldBytes - i] \div Base
      BY <1>1, <3>1
    <3>3. upTo[i - 1] = shifted[FieldBytes - i] \div Base
      BY <2>2, <3>2
    <3>4. upTo[i] = upTo[i - 1] * Base + bs[i]
      BY <1>6, <1>7
    <3>5. bs[i] = shifted[FieldBytes - i] % Base
      BY <1>2
    <3>6. shifted[FieldBytes - i] \in Nat
      BY <1>1, <3>1
    <3> DEFINE x == shifted[FieldBytes - i]
    <3>7. x = (x \div Base) * Base + (x % Base)
      <4> HIDE DEF x
      <4>1. x \in Nat
        BY <3>6 DEF x
      <4> QED
        BY <4>1, Constants, Digits
    <3>8. upTo[i] = x
      BY <3>3, <3>4, <3>5, <3>7
    <3> QED
      BY <3>1, <3>8
  <2>3. FieldBytes \in Nat
    BY Constants
  <2> HIDE DEF T
  <2> QED
    BY <2>1, <2>2, <2>3, BoundedInduction
<1>10. upTo[FieldBytes] = shifted[FieldBytes - FieldBytes]
  BY <1>9, Constants
<1>11. upTo[FieldBytes] = n
  <2>1. FieldBytes - FieldBytes = 0
    BY Constants
  <2> QED
    BY <1>1, <1>10, <2>1
<1>12. Number(bs) = n
  BY <1>6, <1>8, <1>11
<1> QED
  BY <1>6, <1>12 DEF bs

-----------------------------------------------------------------------------
(* Messages and their lengths *)

\* A slice in the middle.
LEMMA SliceBetween ==
  ASSUME NEW S, NEW s \in Seq(S), NEW a \in 0..Len(s), NEW b \in a..Len(s)
  PROVE  SubSeq(s, a + 1, b) = SubSeq(From(s, a), 1, b - a)
<1>1. Len(s) \in Nat /\ \A j \in 1..Len(s) : s[j] \in S
  BY LenProperties, ElementOfSeq
<1>2. /\ From(s, a) \in Seq(S) /\ Len(From(s, a)) = Len(s) - a
      /\ \A j \in 1..(Len(s) - a) : From(s, a)[j] = s[a + j]
  BY Slices
<1>3. b - a \in 0..Len(From(s, a))
  BY <1>1, <1>2
<1>4. /\ SubSeq(From(s, a), 1, b - a) \in Seq(S) /\ Len(SubSeq(From(s, a), 1, b - a)) = b - a
      /\ \A j \in 1..(b - a) : SubSeq(From(s, a), 1, b - a)[j] = From(s, a)[j]
  BY <1>2, <1>3, Slices
<1>5. LET m == a + 1
      IN  /\ SubSeq(s, m, b) \in Seq(S) /\ Len(SubSeq(s, m, b)) = IF m <= b THEN b - m + 1 ELSE 0
          /\ \A j \in 1..(b - m + 1) : SubSeq(s, m, b)[j] = s[m + j - 1]
  <2>1. a + 1 \in Int /\ b \in Int /\ \A j \in a + 1 .. b : s[j] \in S
    BY <1>1
  <2> QED
    BY <2>1, SubSeqProperties
<1>6. \A j \in 1..(b - a) : /\ j \in 1..(b - (a + 1) + 1) /\ (a + 1) + j - 1 = a + j
                            /\ j \in 1..(Len(s) - a)
  BY <1>1
<1>7. Len(SubSeq(s, a + 1, b)) = b - a /\ SubSeq(s, a + 1, b) \in Seq(S)
  BY <1>1, <1>5
<1>8. \A j \in 1..(b - a) : SubSeq(s, a + 1, b)[j] = s[a + j]
  BY <1>5, <1>6
<1>9. \A j \in 1..(b - a) : SubSeq(From(s, a), 1, b - a)[j] = s[a + j]
  BY <1>2, <1>4, <1>6
<1> QED
  BY <1>4, <1>7, <1>8, <1>9, SeqEqual

\* Texts one after the other.
LEMMA Joined ==
  ASSUME NEW s \in Text, NEW t \in Text
  PROVE  s \o t \in Text /\ Len(s \o t) = Len(s) + Len(t) /\ Len(s) \in Nat /\ Len(t) \in Nat
BY ConcatProperties, LenProperties DEF Text

\* The two lengths with which a message begins are read as they were written.
LEMMA Lengths ==
  ASSUME NEW head \in 0..(Width - 1), NEW body \in 0..(Width - 1), NEW t \in Text
  PROVE  /\ HeadOf(Field(head) \o Field(body) \o t) = head
         /\ BodyOf(Field(head) \o Field(body) \o t) = body
         /\ SubSeq(Field(head) \o Field(body) \o t, 1, 2 * FieldBytes) = Field(head) \o Field(body)
         /\ From(Field(head) \o Field(body) \o t, 2 * FieldBytes) = t
<1> DEFINE f == Field(head)
           g == Field(body)
<1>1. f \in Text /\ Len(f) = FieldBytes /\ Number(f) = head /\ g \in Text /\ Len(g) = FieldBytes /\ Number(g) = body
  BY FieldRead
<1> HIDE DEF f, g
<1>2. g \o t \in Text /\ f \o g \in Text /\ Len(f \o g) = 2 * FieldBytes /\ Len(g \o t) = FieldBytes + Len(t)
  <2>1. Len(f \o g) = Len(f) + Len(g) /\ f \o g \in Text
    BY <1>1, Joined
  <2>2. Len(g \o t) = Len(g) + Len(t) /\ g \o t \in Text
    BY <1>1, Joined
  <2> QED
    BY <1>1, <2>1, <2>2, Constants
<1>3. (f \o g) \o t = f \o (g \o t)
  <2> f \in Seq(Bytes) /\ g \in Seq(Bytes) /\ t \in Seq(Bytes)
    BY <1>1 DEF Text
  <2> QED
    OBVIOUS
<1>4. SubSeq(f \o (g \o t), 1, Len(f)) = f /\ From(f \o (g \o t), Len(f)) = g \o t
  BY <1>1, <1>2, Apart DEF Text
<1>5. HeadOf((f \o g) \o t) = head
  BY <1>1, <1>3, <1>4 DEF HeadOf
<1>6. SubSeq(g \o t, 1, Len(g)) = g
  BY <1>1, <1>2, Apart DEF Text
<1>7. SubSeq(f \o (g \o t), FieldBytes + 1, 2 * FieldBytes) = g
  <2> DEFINE s == f \o (g \o t)
  <2>1. s \in Text /\ Len(s) = FieldBytes + (FieldBytes + Len(t)) /\ Len(t) \in Nat
    <3>1. s \in Text /\ Len(s) = Len(f) + Len(g \o t) /\ Len(t) \in Nat
      BY <1>1, <1>2, Joined
    <3> QED
      BY <1>1, <1>2, <3>1
  <2> HIDE DEF s
  <2>2. FieldBytes \in 0..Len(s) /\ 2 * FieldBytes \in FieldBytes..Len(s) /\ 2 * FieldBytes - FieldBytes = FieldBytes
    BY <2>1, Constants
  <2>3. SubSeq(s, FieldBytes + 1, 2 * FieldBytes) = SubSeq(From(s, FieldBytes), 1, 2 * FieldBytes - FieldBytes)
    BY <2>1, <2>2, SliceBetween DEF Text
  <2> QED
    BY <1>1, <1>4, <1>6, <2>2, <2>3 DEF s
<1>8. BodyOf((f \o g) \o t) = body
  BY <1>1, <1>3, <1>7 DEF BodyOf
<1>9. SubSeq((f \o g) \o t, 1, 2 * FieldBytes) = f \o g /\ From((f \o g) \o t, 2 * FieldBytes) = t
  BY <1>2, Apart DEF Text
<1> QED
  BY <1>5, <1>8, <1>9 DEF f, g

\* The fixed part of a header.
IsHeader(h, head, body, c, z) ==
  /\ h \in Text /\ Len(h) = Fixed /\ h[Fixed - 1] = c /\ h[Fixed] = z
  /\ body \in 0..(Width - 1)
  /\ \E t \in Text : h = Field(head) \o Field(body) \o t

\* The fixed part of a header can be read back field by field.
LEMMA HeaderRead ==
  ASSUME NEW head \in 0..(Width - 1), NEW m, NEW data \in Text, NEW c \in Bytes, NEW z \in Bytes,
         m.data = data, m.compresser = c, m.serializer = z
  PROVE  IsHeader(Header(head, m), head, BodyLength(m), c, z)
<1> DEFINE body == BodyLength(m)
           f == Field(head)
           g == Field(body)
           zeros == Zeros(FieldBytes)
           codes == <<0, c, z>>
           p == (f \o g) \o zeros
<1>1. body = Len(data) % Width
  BY DEF BodyLength
<1>2. body \in 0..(Width - 1)
  <2>1. Len(data) \in Nat
    BY LenProperties DEF Text
  <2> QED
    BY <1>1, <2>1, Powers, Digits
<1>3. Header(head, m) = p \o codes
  BY DEF Header
<1> HIDE DEF body
<1>4. f \in Text /\ Len(f) = FieldBytes /\ g \in Text /\ Len(g) = FieldBytes
  BY <1>2, FieldRead
<1>5. zeros \in Text /\ Len(zeros) = FieldBytes
  BY Constants DEF Zeros, Text
<1>6. codes \in Text /\ Len(codes) = 3 /\ codes[2] = c /\ codes[3] = z
  BY Constants DEF Text
<1> HIDE DEF f, g, zeros, codes
<1>7. f \o g \in Text /\ Len(f \o g) = FieldBytes + FieldBytes
  <2>1. f \o g \in Text /\ Len(f \o g) = Len(f) + Len(g)
    BY <1>4, Joined
  <2> QED
    BY <1>4, <2>1
<1>8. p \in Text /\ Len(p) = (FieldBytes + FieldBytes) + FieldBytes
  BY <1>5, <1>7, Joined
<1>9. p \o codes = (f \o g) \o (zeros \o codes)
  <2> f \o g \in Seq(Bytes) /\ zeros \in Seq(Bytes) /\ codes \in Seq(Bytes)
    BY <1>5, <1>6, <1>7 DEF Text
  <2> QED
    OBVIOUS
<1>10. zeros \o codes \in Text
  BY <1>5, <1>6, Joined
<1> HIDE DEF p
<1>11. /\ p \o codes \in Text /\ Len(p \o codes) = Fixed
       /\ (p \o codes)[Fixed - 1] = c /\ (p \o codes)[Fixed] = z
  <2>1. Len(p) = Fixed - 3 /\ Fixed - 1 = Len(p) + 2 /\ Fixed = Len(p) + 3 /\ Len(p) \in Nat
    BY <1>8, Constants DEF Fixed
  <2>2. \A i \in 1..(Len(p) + Len(codes)) : (p \o codes)[i] = IF i <= Len(p) THEN p[i] ELSE codes[i - Len(p)]
    BY <1>6, <1>8, ConcatProperties DEF Text
  <2>3. (p \o codes)[Len(p) + 2] = codes[2] /\ (p \o codes)[Len(p) + 3] = codes[3]
    <3>1. \A i \in {2, 3} : /\ Len(p) + i \in 1..(Len(p) + Len(codes)) /\ ~(Len(p) + i <= Len(p))
                            /\ (Len(p) + i) - Len(p) = i
      BY <1>6, <2>1
    <3> QED
      BY <2>2, <3>1
  <2>4. p \o codes \in Text /\ Len(p \o codes) = Len(p) + 3
    BY <1>6, <1>8, Joined
  <2>5. (p \o codes)[Fixed - 1] = codes[2] /\ (p \o codes)[Fixed] = codes[3]
    BY <2>1, <2>3
  <2> QED
    BY <1>6, <2>1, <2>4, <2>5
<1> QED
  BY <1>1, <1>2, <1>3, <1>9, <1>10, <1>11 DEF IsHeader, body, f, g

\* A message whose length is the one it announces.
Framed(bs) ==
  /\ bs \in Text /\ Len(bs) \in Fixed..(Width - 1)
  /\ Announced(SubSeq(bs, 1, 2 * FieldBytes)) = Len(bs)

\* What can be read from a message: names, the text after its fixed part, are whole,
\* and so are the data if the lengths do not wrap.
Holds(bs, names, data, c, z) ==
  /\ Framed(bs)
  /\ HeadOf(bs) = Fixed + Len(names) /\ Fixed + Len(names) <= Len(bs)
  /\ SubSeq(bs, Fixed + 1, HeadOf(bs)) = names
  /\ bs[Fixed - 1] = c /\ bs[Fixed] = z
  /\ Fixed + Len(names) + Len(data) < Width => DataOf(bs) = data

\* A buffer that is large enough for the first of two texts begins with it.
LEMMA PaddedFirst ==
  ASSUME NEW s \in Text, NEW t \in Text, NEW n \in Nat, Len(s) <= n
  PROVE  /\ Padded(s \o t, n) \in Text /\ Len(Padded(s \o t, n)) = n
         /\ \E u \in Text : Padded(s \o t, n) = s \o u
<1> DEFINE p == Padded(s \o t, n)
<1>1. s \o t \in Text /\ Len(s \o t) = Len(s) + Len(t) /\ Len(s) \in Nat /\ Len(t) \in Nat
  BY Joined
<1>2. p \in Text /\ Len(p) = n
  BY <1>1, PaddedText
<1>3. Len(s) \in 0..Len(p)
  BY <1>1, <1>2
<1>4. \A j \in 1..Len(s) : p[j] = s[j]
  <2>1. \A i \in 1..Len(s) + Len(t) : (s \o t)[i] = IF i <= Len(s) THEN s[i] ELSE t[i - Len(s)]
    BY ConcatProperties DEF Text
  <2>2. \A j \in 1..Len(s) : j \in 1..Len(s) + Len(t) /\ j \in 1..n /\ j <= Len(s) /\ j <= Len(s \o t)
    BY <1>1
  <2> QED
    BY <2>1, <2>2 DEF Padded
<1> HIDE DEF p
<1>5. /\ SubSeq(p, 1, Len(s)) \in Text /\ Len(SubSeq(p, 1, Len(s))) = Len(s)
      /\ \A j \in 1..Len(s) : SubSeq(p, 1, Len(s))[j] = p[j]
      /\ From(p, Len(s)) \in Text
  BY <1>2, <1>3, Slices DEF Text
<1>6. SubSeq(p, 1, Len(s)) = s
  BY <1>4, <1>5, SeqEqual DEF Text
<1>7. SubSeq(p, 1, Len(s)) \o From(p, Len(s)) = p
  <2>1. << >> \in Text
    BY DEF Text
  <2> QED
    BY <1>2, <1>3, <2>1, SliceOfFirst DEF Text
<1> QED
  BY <1>2, <1>5, <1>6, <1>7 DEF p

\* What Frame makes of a header and data: a panic, or a message that can be read.
LEMMA FrameRead ==
  ASSUME NEW head, NEW m, NEW data \in Text, NEW c \in Bytes, NEW z \in Bytes, NEW names \in Text,
         m.data = data, m.compresser = c, m.serializer = z,
         head = (Fixed + Len(names)) % Width
  PROVE  LET f == Frame(head, Header(head, m) \o names, data)
         IN  /\ f.panics \in BOOLEAN /\ f.bytes \in Text
             /\ ~f.panics => Holds(f.bytes, names, data, c, z)
             /\ f.panics => ~(Fixed + Len(names) + Len(data) < Width)
<1> DEFINE header == Header(head, m)
           hn == header \o names
           length == (head + Len(data)) % Width
           bs == Padded(hn \o data, length)
<1>1. Len(names) \in Nat /\ Len(data) \in Nat
  BY Joined
<1>2. head \in 0..(Width - 1)
  <2>1. Fixed + Len(names) \in Nat
    BY <1>1, Constants
  <2> QED
    BY <2>1, Digits, Powers
<1>3. length \in 0..(Width - 1)
  <2>1. head + Len(data) \in Nat
    BY <1>1, <1>2, Powers
  <2> QED
    BY <2>1, Digits, Powers
<1>4. /\ header \in Text /\ Len(header) = Fixed
      /\ header[Fixed - 1] = c /\ header[Fixed] = z
      /\ BodyLength(m) = Len(data) % Width /\ BodyLength(m) \in 0..(Width - 1)
      /\ \E t \in Text : header = Field(head) \o Field(BodyLength(m)) \o t
  <2>1. IsHeader(header, head, BodyLength(m), c, z)
    BY <1>2, HeaderRead
  <2>2. BodyLength(m) = Len(data) % Width
    BY DEF BodyLength
  <2> HIDE DEF header
  <2> QED
    BY <2>1, <2>2 DEF IsHeader
<1> HIDE DEF header
<1>5. hn \in Text /\ Len(hn) = Fixed + Len(names)
  <2>1. hn \in Text /\ Len(hn) = Len(header) + Len(names)
    BY <1>4, Joined
  <2> QED
    BY <1>4, <2>1
<1>6. hn \o data \in Text /\ Len(hn \o data) = (Fixed + Len(names)) + Len(data)
  <2> HIDE DEF hn
  <2>1. hn \o data \in Text /\ Len(hn \o data) = Len(hn) + Len(data)
    BY <1>5, Joined
  <2> QED
    BY <1>5, <2>1
<1>7. bs \in Text /\ Len(bs) = length
  <2>1. length \in Nat
    BY <1>3, Powers
  <2> HIDE DEF length, hn
  <2> QED
    BY <1>6, <2>1, PaddedText
<1>8. Frame(head, hn, data) = [panics |-> length < Len(hn), bytes |-> bs]
  BY DEF Frame
<1> HIDE DEF hn, bs, length
<1>9. ASSUME ~(length < Len(hn)) PROVE Holds(bs, names, data, c, z)
  <2>1. length >= Fixed + Len(names) /\ Fixed + Len(names) < Width /\ length \in Nat
    BY SMTT(30), <1>1, <1>3, <1>5, <1>9, Constants, Powers
  <2>2. head = Fixed + Len(names)
    <3>1. Fixed + Len(names) \in Nat
      BY <1>1, Constants
    <3>2. (Fixed + Len(names)) % Width = Fixed + Len(names)
      BY <2>1, <3>1, Powers, Wrapless
    <3> QED
      BY <3>2
  <2>3. PICK u \in Text : bs = hn \o u
    <3>1. Len(hn) <= length
      BY <1>5, <2>1
    <3> QED
      BY <1>5, <2>1, <3>1, PaddedFirst DEF bs
  <2>4. PICK t \in Text : header = Field(head) \o Field(BodyLength(m)) \o t
    BY <1>4
  <2>5. PICK v \in Text : bs = Field(head) \o Field(BodyLength(m)) \o v
    <3> DEFINE g == Field(head) \o Field(BodyLength(m))
    <3>1. g \in Text
      BY <1>2, <1>4, FieldRead, Joined
    <3> HIDE DEF g
    <3>2. ((g \o t) \o names) \o u = g \o ((t \o names) \o u)
      <4> g \in Seq(Bytes) /\ t \in Seq(Bytes) /\ names \in Seq(Bytes) /\ u \in Seq(Bytes)
        BY <3>1 DEF Text
      <4> QED
        BY SMTT(30)
    <3>3. (t \o names) \o u \in Text
      BY Joined
    <3>4. bs = ((g \o t) \o names) \o u
      BY <2>3, <2>4 DEF g, hn
    <3> QED
      BY <3>2, <3>3, <3>4 DEF g
  <2>6. /\ HeadOf(bs) = head /\ BodyOf(bs) = BodyLength(m)
        /\ SubSeq(bs, 1, 2 * FieldBytes) = Field(head) \o Field(BodyLength(m))
    <3> DEFINE body == BodyLength(m)
    <3>1. body \in 0..(Width - 1)
      BY <1>4
    <3> HIDE DEF body
    <3>2. HeadOf(Field(head) \o Field(body) \o v) = head
      BY <1>2, <3>1, Lengths
    <3>3. BodyOf(Field(head) \o Field(body) \o v) = body
      BY <1>2, <3>1, Lengths
    <3>4. SubSeq(Field(head) \o Field(body) \o v, 1, 2 * FieldBytes) = Field(head) \o Field(body)
      BY <1>2, <3>1, Lengths
    <3>5. bs = Field(head) \o Field(body) \o v
      BY <2>5 DEF body
    <3>6. HeadOf(bs) = head /\ BodyOf(bs) = body
      BY <3>2, <3>3, <3>5
    <3>7. SubSeq(bs, 1, 2 * FieldBytes) = Field(head) \o Field(body)
      BY <3>4, <3>5
    <3> QED
      BY <3>6, <3>7 DEF body
  <2>7. Announced(SubSeq(bs, 1, 2 * FieldBytes)) = length
    <3> DEFINE g == Field(head) \o Field(BodyLength(m))
    <3>1. << >> \in Text /\ g \in Text
      BY <1>2, <1>4, FieldRead, Joined DEF Text
    <3>2. HeadOf(g \o << >>) = head /\ BodyOf(g \o << >>) = BodyLength(m)
      <4>1. PICK e \in Text : e = << >>
        BY <3>1
      <4>2. HeadOf(g \o e) = head /\ BodyOf(g \o e) = BodyLength(m)
        BY <1>2, <1>4, Lengths
      <4> QED
        BY <4>1, <4>2
    <3> HIDE DEF g
    <3>3. g \o << >> = g
      BY <3>1, ConcatEmptySeq DEF Text
    <3>4. Announced(g) = (head + (Len(data) % Width)) % Width
      BY <1>4, <3>2, <3>3 DEF Announced
    <3>5. (head + (Len(data) % Width)) % Width = (head + Len(data)) % Width
      <4>1. head \in Nat
        BY <1>2, Powers
      <4> QED
        BY <1>1, <4>1, Powers, Wraps
    <3> QED
      BY <2>6, <3>4, <3>5 DEF g, length
  <2>8. Framed(bs)
    <3>1. length \in Fixed..(Width - 1)
      BY <1>1, <1>3, <2>1, Constants, Powers
    <3> QED
      BY <1>7, <2>7, <3>1 DEF Framed
  <2>9. SubSeq(bs, 1, Len(hn)) = hn /\ From(bs, Len(hn)) = u
    BY <1>5, <2>3, Apart DEF Text
  <2>10. SubSeq(bs, Fixed + 1, head) = names
    <3>1. Fixed \in 0..Len(bs) /\ head \in Fixed..Len(bs) /\ head - Fixed = Len(names)
      BY <1>1, <1>7, <2>1, <2>2, Constants
    <3>2. SubSeq(bs, Fixed + 1, head) = SubSeq(From(bs, Fixed), 1, Len(names))
      <4>1. SubSeq(bs, Fixed + 1, head) = SubSeq(From(bs, Fixed), 1, head - Fixed)
        BY <1>7, <3>1, SliceBetween DEF Text
      <4> QED
        BY <3>1, <4>1
    <3>3. (header \o names) \o u = header \o (names \o u)
      <4> header \in Seq(Bytes) /\ names \in Seq(Bytes) /\ u \in Seq(Bytes)
        BY <1>4 DEF Text
      <4> QED
        OBVIOUS
    <3>4. From(bs, Fixed) = names \o u
      <4>1. names \o u \in Text
        BY Joined
      <4>2. From(header \o (names \o u), Len(header)) = names \o u
        BY <1>4, <4>1, Apart DEF Text
      <4> QED
        BY <1>4, <2>3, <3>3, <4>2 DEF hn
    <3>5. SubSeq(names \o u, 1, Len(names)) = names
      BY Apart DEF Text
    <3> QED
      BY <3>2, <3>4, <3>5
  <2>11. bs[Fixed - 1] = c /\ bs[Fixed] = z
    <3>1. \A i \in 1..Len(header) + Len(names \o u) :
            (header \o (names \o u))[i] = IF i <= Len(header) THEN header[i] ELSE (names \o u)[i - Len(header)]
      <4>1. names \o u \in Text
        BY Joined
      <4> QED
        BY ZenonT(30), <1>4, <4>1, ConcatProperties DEF Text
    <3>2. (header \o names) \o u = header \o (names \o u)
      <4> header \in Seq(Bytes) /\ names \in Seq(Bytes) /\ u \in Seq(Bytes)
        BY <1>4 DEF Text
      <4> QED
        OBVIOUS
    <3>3. Len(names \o u) \in Nat
      BY Joined
    <3>4. Fixed > 1
      BY Constants DEF Fixed
    <3>5. \A i \in {Fixed - 1, Fixed} : i \in 1..Len(header) + Len(names \o u) /\ i <= Len(header)
      <4>1. Len(header) = Fixed /\ Fixed \in Nat
        BY <1>4, Constants
      <4> QED
        BY <3>3, <3>4, <4>1
    <3> QED
      BY <1>4, <2>3, <3>1, <3>2, <3>5 DEF hn
  <2>12. ASSUME Fixed + Len(names) + Len(data) < Width PROVE DataOf(bs) = data
    <3>1. length = (Fixed + Len(names)) + Len(data) /\ BodyLength(m) = Len(data)
      <4>1. (Fixed + Len(names)) + Len(data) \in Nat /\ Len(data) < Width
        BY <1>1, <2>12, Constants, Powers
      <4>2. ((Fixed + Len(names)) + Len(data)) % Width = (Fixed + Len(names)) + Len(data)
        BY <2>12, <4>1, Powers, Wrapless
      <4>3. Len(data) % Width = Len(data)
        BY <1>1, <4>1, Powers, Wrapless
      <4> QED
        BY <1>4, <2>2, <4>2, <4>3 DEF length
    <3>2. bs = hn \o data
      <4>1. length \in Nat /\ length = Len(hn \o data)
        BY <1>6, <2>1, <3>1
      <4> QED
        BY <1>6, <4>1, PaddedFull DEF bs, Text
    <3>3. From(bs, head) = data
      <4>1. From(hn \o data, Len(hn)) = data
        BY <1>5, Apart DEF Text
      <4> QED
        BY <1>5, <2>2, <3>2, <4>1
    <3>4. Len(data) = 0 => data = << >>
      BY EmptySeq DEF Text
    <3> QED
      BY <2>6, <3>1, <3>3, <3>4 DEF DataOf
  <2> QED
    BY <1>7, <2>1, <2>2, <2>6, <2>8, <2>10, <2>11, <2>12 DEF Holds
<1>10. ASSUME length < Len(hn) PROVE ~(Fixed + Len(names) + Len(data) < Width)
  <2> SUFFICES ASSUME Fixed + Len(names) + Len(data) < Width PROVE FALSE
    OBVIOUS
  <2>1. Fixed + Len(names) \in Nat /\ (Fixed + Len(names)) + Len(data) \in Nat /\ Fixed + Len(names) < Width
    <3>1. Fixed \in Nat /\ Len(names) \in Nat /\ Len(data) \in Nat /\ Width \in Nat
      <4>1. Fixed \in Nat
        BY Constants
      <4>2. Width \in Nat
        BY Powers
      <4> QED
        BY <1>1, <4>1, <4>2
    <3> QED
      BY <3>1
  <2>2. head = Fixed + Len(names)
    BY <2>1, Powers, Wrapless
  <2>3. ((Fixed + Len(names)) + Len(data)) % Width = (Fixed + Len(names)) + Len(data)
    BY <2>1, Powers, Wrapless
  <2>4. length = (Fixed + Len(names)) + Len(data)
    BY <2>2, <2>3 DEF length
  <2> QED
    BY <1>1, <1>5, <1>10, <2>1, <2>4
<1> DEFINE f == Frame(head, hn, data)
<1>11. f.panics = (length < Len(hn)) /\ f.bytes = bs
  BY <1>8
<1> HIDE DEF f
<1>12. /\ f.panics \in BOOLEAN /\ f.bytes \in Text
       /\ ~f.panics => Holds(f.bytes, names, data, c, z)
       /\ f.panics => ~(Fixed + Len(names) + Len(data) < Width)
  <2>1. f.panics \in BOOLEAN /\ f.bytes \in Text
    BY <1>7, <1>11
  <2>2. ~f.panics => Holds(f.bytes, names, data, c, z)
    BY <1>9, <1>11
  <2>3. f.panics => ~(Fixed + Len(names) + Len(data) < Width)
    BY <1>10, <1>11
  <2> QED
    BY <2>1, <2>2, <2>3
<1> QED
  BY <1>12 DEF f, hn, header

-----------------------------------------------------------------------------
(* The frames of requests and of answers *)

\* The text after the fixed part of a request's header, line by line.
LEMMA Endings ==
  ASSUME NEW lines \in Seq(Text)
  PROVE  LET upTo[n \in 0..Len(lines)] == IF n = 0 THEN << >> ELSE upTo[n - 1] \o lines[n] \o <<NL>>
         IN  /\ upTo[0] = << >>
             /\ \A n \in 1..Len(lines) : upTo[n] = upTo[n - 1] \o lines[n] \o <<NL>>
             /\ \A n \in 0..Len(lines) : upTo[n] \in Text
<1> DEFINE Loop(f) == f = [n \in 0..Len(lines) |-> IF n = 0 THEN << >> ELSE f[n - 1] \o lines[n] \o <<NL>>]
           G == [n \in Nat |-> [v \in Text |-> IF n \in 1..Len(lines) THEN v \o lines[n] \o <<NL>> ELSE v]]
           upTo == CHOOSE f : Loop(f)
<1>0. Len(lines) \in Nat /\ (\A n \in 1..Len(lines) : lines[n] \in Text) /\ <<NL>> \in Text /\ << >> \in Text
  <2>1. NL \in Bytes
    BY WireAssumption
  <2>2. <<NL>> \in Text /\ << >> \in Text
    BY <2>1 DEF Text
  <2> QED
    BY <2>2, LenProperties, ElementOfSeq
<1>1. PICK f \in [0..Len(lines) -> Text] : f[0] = << >> /\ \A n \in 1..Len(lines) : f[n] = G[n][f[n - 1]]
  <2>1. \A n \in Nat : \A v \in Text : G[n][v] \in Text
    <3> SUFFICES ASSUME NEW n \in Nat, NEW v \in Text PROVE G[n][v] \in Text
      OBVIOUS
    <3>1. CASE n \in 1..Len(lines)
      <4>1. v \o lines[n] \in Text
        BY <1>0, <3>1, Joined
      <4>2. (v \o lines[n]) \o <<NL>> \in Text
        BY <1>0, <4>1, Joined
      <4> QED
        BY <3>1, <4>2
    <3> QED
      BY <3>1
  <2>2. Rounds(G, Text)
    BY <2>1 DEF Rounds
  <2>3. Len(lines) \in Nat /\ << >> \in Text
    BY <1>0
  <2> HIDE DEF G
  <2>4. HasLoop(Text, << >>, G, Len(lines))
    BY <2>2, <2>3, LoopExists
  <2> QED
    BY <2>4 DEF HasLoop
<1>2. \A n \in 0..Len(lines) : n # 0 => f[n] = f[n - 1] \o lines[n] \o <<NL>>
  <2>1. \A n \in 0..Len(lines) : n # 0 => n \in 1..Len(lines) /\ n \in Nat /\ n - 1 \in 0..Len(lines)
    BY <1>0
  <2>2. \A n \in 0..Len(lines) : n # 0 => f[n] = G[n][f[n - 1]] /\ n \in Nat /\ f[n - 1] \in Text
    BY <1>1, <2>1
  <2> QED
    BY <2>1, <2>2
<1>3. Loop(f)
  BY <1>1, <1>2
<1>4. Loop(upTo)
  <2> HIDE DEF Loop
  <2> QED
    BY <1>3
<1> HIDE DEF G, upTo
<1>5. upTo[0] = << >> /\ \A n \in 1..Len(lines) : upTo[n] = upTo[n - 1] \o lines[n] \o <<NL>>
  <2>1. \A n \in 1..Len(lines) : n \in 0..Len(lines) /\ n # 0
    OBVIOUS
  <2>2. 0 \in 0..Len(lines)
    BY <1>0
  <2> QED
    BY <1>4, <2>1, <2>2
<1> HIDE DEF Loop
<1>6. \A n \in 0..Len(lines) : upTo[n] \in Text
  <2>1. upTo[0] \in Text
    BY <1>0, <1>5
  <2>2. ASSUME NEW n \in 1..Len(lines), upTo[n - 1] \in Text PROVE upTo[n] \in Text
    <3>1. upTo[n - 1] \o lines[n] \in Text
      BY <1>0, <2>2, Joined
    <3>2. (upTo[n - 1] \o lines[n]) \o <<NL>> \in Text
      BY <1>0, <3>1, Joined
    <3> QED
      BY <1>5, <3>2
  <2> QED
    BY <1>0, <2>1, <2>2, LoopInvariant
<1> QED
  BY <1>5, <1>6 DEF upTo, Loop

\* Lines with their separators are bytes.
LEMMA EndedText ==
  ASSUME NEW lines \in Seq(Text)
  PROVE  Ended(lines) \in Text
<1> DEFINE Loop(f) == f = [n \in 0..Len(lines) |-> IF n = 0 THEN << >> ELSE f[n - 1] \o lines[n] \o <<NL>>]
           upTo == CHOOSE f : Loop(f)
<1>1. \A n \in 0..Len(lines) : upTo[n] \in Text
  BY Endings
<1>2. Ended(lines) = upTo[Len(lines)]
  BY DEF Ended
<1>3. Len(lines) \in 0..Len(lines)
  BY LenProperties
<1> HIDE DEF upTo
<1> QED
  BY <1>1, <1>2, <1>3

\* The fields of a request.
LEMMA RequestFields ==
  ASSUME NEW req, IsRequest(req)
  PROVE  /\ req.service \in Text /\ req.method \in Text /\ req.data \in Text
         /\ req.compresser \in Bytes /\ req.serializer \in Bytes
         /\ IsFiniteSet(DOMAIN req.meta) /\ req.meta = [k \in DOMAIN req.meta |-> req.meta[k]]
         /\ \A k \in DOMAIN req.meta : k \in Text /\ req.meta[k] \in Text
<1> DEFINE service == req.service
           method == req.method
           meta == req.meta
           data == req.data
           c == req.compresser
           z == req.serializer
<1>1. /\ {service, method, data} \subseteq Seq(Bytes) /\ {c, z} \subseteq Bytes
      /\ IsFiniteSet(DOMAIN meta) /\ meta \in [DOMAIN meta -> Seq(Bytes)]
      /\ \A k \in DOMAIN meta : k \in Seq(Bytes)
  BY Zenon DEF IsRequest
<1> HIDE DEF service, method, meta, data, c, z
<1>2. /\ service \in Text /\ method \in Text /\ data \in Text /\ c \in Bytes /\ z \in Bytes
      /\ IsFiniteSet(DOMAIN meta) /\ meta = [k \in DOMAIN meta |-> meta[k]]
      /\ \A k \in DOMAIN meta : k \in Text /\ meta[k] \in Text
  BY <1>1 DEF Text
<1> QED
  BY <1>2 DEF service, method, meta, data, c, z

\* An order of the metadata: each key once.
LEMMA OrderType ==
  ASSUME NEW S, IsFiniteSet(S), NEW order \in SetToSeqs(S)
  PROVE  /\ order \in Seq(S) /\ Len(order) \in Nat
         /\ \A i, j \in 1..Len(order) : order[i] = order[j] => i = j
         /\ \A k \in S : \E i \in 1..Len(order) : order[i] = k
<1> DEFINE D == 1..Cardinality(S)
<1>1. Cardinality(S) \in Nat
  BY FS_CardinalityType
<1>2. order \in [D -> S] /\ \A i, j \in D : i # j => order[i] # order[j]
  BY DEF SetToSeqs
<1>3. order \in Seq(S) /\ Len(order) = Cardinality(S)
  BY <1>1, <1>2
<1>4. order \in Injection(D, S)
  BY <1>2 DEF Injection, IsInjective
<1>5. IsFiniteSet(D) /\ Cardinality(D) = Cardinality(S)
  BY <1>1, FS_Interval
<1> HIDE DEF D
<1>6. order \in Surjection(D, S)
  BY <1>4, <1>5, FS_Injection
<1>7. \A k \in S : \E i \in D : order[i] = k
  BY <1>6 DEF Surjection
<1> QED
  BY <1>1, <1>2, <1>3, <1>7 DEF D

\* Two elements and what follows them.
LEMMA AfterTwo ==
  ASSUME NEW S, NEW a \in S, NEW b \in S, NEW t \in Seq(S)
  PROVE  /\ <<a, b>> \o t \in Seq(S) /\ Len(<<a, b>> \o t) = Len(t) + 2
         /\ (<<a, b>> \o t)[1] = a /\ (<<a, b>> \o t)[2] = b
         /\ \A n \in 1..Len(t) : (<<a, b>> \o t)[n + 2] = t[n]
         /\ From(<<a, b>> \o t, 2) = t
<1> DEFINE s == <<a, b>>
<1>1. s \in Seq(S) /\ Len(s) = 2 /\ s[1] = a /\ s[2] = b /\ Len(t) \in Nat
  BY LenProperties
<1> HIDE DEF s
<1>2. /\ s \o t \in Seq(S) /\ Len(s \o t) = Len(s) + Len(t)
      /\ \A i \in 1..Len(s) + Len(t) : (s \o t)[i] = IF i <= Len(s) THEN s[i] ELSE t[i - Len(s)]
  BY <1>1, ConcatProperties
<1>3. /\ 1 \in 1..Len(s) + Len(t) /\ 2 \in 1..Len(s) + Len(t) /\ 1 <= Len(s) /\ 2 <= Len(s)
      /\ \A n \in 1..Len(t) : n + 2 \in 1..Len(s) + Len(t) /\ ~(n + 2 <= Len(s)) /\ (n + 2) - Len(s) = n
  BY <1>1
<1>4. From(s \o t, Len(s)) = t
  BY <1>1, Apart
<1>5. \A n \in 1..Len(t) : (s \o t)[n + 2] = t[n]
  BY <1>2, <1>3
<1>6. (s \o t)[1] = a /\ (s \o t)[2] = b
  BY <1>1, <1>2, <1>3
<1>7. Len(s \o t) = Len(t) + 2
  BY <1>1, <1>2
<1> QED
  BY <1>1, <1>2, <1>4, <1>5, <1>6, <1>7 DEF s

\* The lines of a request.
LEMMA WrittenType ==
  ASSUME NEW req, IsRequest(req), NEW order \in SetToSeqs(DOMAIN req.meta)
  PROVE  /\ Written(req, order) \in Seq(Text) /\ Len(Written(req, order)) = Len(order) + 2
         /\ Written(req, order)[1] = req.service /\ Written(req, order)[2] = req.method
         /\ \A n \in 1..Len(order) :
              Written(req, order)[n + 2] = order[n] \o <<CR>> \o req.meta[order[n]]
         /\ From(Written(req, order), 2) = Pairs(req.meta, order)
         /\ order \in Seq(DOMAIN req.meta)
<1> DEFINE meta == req.meta
           pairs == Pairs(meta, order)
           s == req.service
           m == req.method
<1>1. /\ s \in Text /\ m \in Text /\ IsFiniteSet(DOMAIN meta)
      /\ \A k \in DOMAIN meta : k \in Text /\ meta[k] \in Text
  BY RequestFields
<1> HIDE DEF s, m
<1>2. order \in Seq(DOMAIN meta) /\ Len(order) \in Nat
  BY <1>1, OrderType
<1>3. ASSUME NEW n \in 1..Len(order) PROVE order[n] \o <<CR>> \o meta[order[n]] \in Text
  <2>1. order[n] \in DOMAIN meta
    BY <1>2, ElementOfSeq
  <2>2. CR \in Bytes
    BY WireAssumption
  <2>3. <<CR>> \in Text
    BY <2>2 DEF Text
  <2>4. order[n] \in Text /\ meta[order[n]] \in Text
    BY <1>1, <2>1
  <2>5. order[n] \o <<CR>> \in Text
    BY <2>3, <2>4, Joined
  <2> QED
    BY <2>4, <2>5, Joined
<1> HIDE DEF meta
<1>4. pairs \in Seq(Text) /\ Len(pairs) = Len(order)
      /\ \A n \in 1..Len(order) : pairs[n] = order[n] \o <<CR>> \o meta[order[n]]
  <2>1. pairs = [n \in 1..Len(order) |-> order[n] \o <<CR>> \o meta[order[n]]]
    BY DEF Pairs
  <2> HIDE DEF pairs
  <2>2. pairs \in [1..Len(order) -> Text]
    BY <1>3, <2>1
  <2>3. \A n \in 1..Len(order) : pairs[n] = order[n] \o <<CR>> \o meta[order[n]]
    BY <2>1
  <2>4. pairs \in Seq(Text) /\ Len(pairs) = Len(order)
    BY <1>2, <2>2
  <2> QED
    BY <2>3, <2>4
<1>5. Written(req, order) = <<s, m>> \o pairs
  BY DEF Written, s, m, meta
<1> HIDE DEF pairs
<1>6. /\ <<s, m>> \o pairs \in Seq(Text) /\ Len(<<s, m>> \o pairs) = Len(pairs) + 2
      /\ (<<s, m>> \o pairs)[1] = s /\ (<<s, m>> \o pairs)[2] = m
      /\ \A n \in 1..Len(pairs) : (<<s, m>> \o pairs)[n + 2] = pairs[n]
      /\ From(<<s, m>> \o pairs, 2) = pairs
  BY <1>1, <1>4, AfterTwo
<1> DEFINE w == <<s, m>> \o pairs
<1> HIDE DEF w
<1>7. /\ w \in Seq(Text) /\ Len(w) = Len(order) + 2 /\ w[1] = s /\ w[2] = m
      /\ \A n \in 1..Len(order) : w[n + 2] = order[n] \o <<CR>> \o meta[order[n]]
      /\ From(w, 2) = pairs
  BY <1>4, <1>6 DEF w
<1> QED
  BY <1>2, <1>5, <1>7 DEF s, m, meta, w, pairs

\* What EncodeReq makes of a request.
LEMMA RequestRead ==
  ASSUME NEW req, IsRequest(req), NEW order \in SetToSeqs(DOMAIN req.meta)
  PROVE  LET f == EncodeReq(req, order)
         IN  /\ f.panics \in BOOLEAN /\ f.bytes \in Text
             /\ ~f.panics => Holds(f.bytes, Names(req, order), req.data, req.compresser, req.serializer)
             /\ f.panics => ~ReqFits(req)
<1>1. req.data \in Text /\ req.compresser \in Bytes /\ req.serializer \in Bytes
  BY RequestFields
<1>2. Names(req, order) \in Text
  BY WrittenType, EndedText DEF Names
<1> DEFINE names == Names(req, order)
           head == ReqHeadLength(req, order)
           data == req.data
           c == req.compresser
           z == req.serializer
           f == Frame(head, Header(head, req) \o names, data)
<1>3. head = (Fixed + Len(names)) % Width
  BY DEF ReqHeadLength
<1>4. EncodeReq(req, order) = f
  BY DEF EncodeReq
<1>5. ReqFits(req) => Fixed + Len(names) + Len(data) < Width
  BY DEF ReqFits
<1>6. /\ data \in Text /\ c \in Bytes /\ z \in Bytes /\ names \in Text
      /\ req.data = data /\ req.compresser = c /\ req.serializer = z
  BY <1>1, <1>2
<1> HIDE DEF names, head, data, c, z
<1>7. /\ f.panics \in BOOLEAN /\ f.bytes \in Text
      /\ ~f.panics => Holds(f.bytes, names, data, c, z)
      /\ f.panics => ~(Fixed + Len(names) + Len(data) < Width)
  BY <1>3, <1>6, FrameRead
<1> HIDE DEF f
<1> QED
  BY <1>4, <1>5, <1>7 DEF names, data, c, z

\* What EncodeResp makes of an answer.
LEMMA ResponseRead ==
  ASSUME NEW text \in Text, NEW data \in Text, NEW c \in Bytes, NEW z \in Bytes
  PROVE  LET f == EncodeResp([error |-> text, data |-> data, compresser |-> c, serializer |-> z])
         IN  /\ f.panics \in BOOLEAN /\ f.bytes \in Text
             /\ ~f.panics => Holds(f.bytes, text, data, c, z)
             /\ f.panics => ~(Fixed + Len(text) + Len(data) < Width)
<1> DEFINE resp == [error |-> text, data |-> data, compresser |-> c, serializer |-> z]
           head == RespHeadLength(resp)
           f == Frame(head, Header(head, resp) \o text, data)
<1>1. resp.error = text /\ resp.data = data /\ resp.compresser = c /\ resp.serializer = z
  OBVIOUS
<1> HIDE DEF resp
<1>2. head = (Fixed + Len(text)) % Width /\ EncodeResp(resp) = f
  BY <1>1 DEF RespHeadLength, EncodeResp
<1> HIDE DEF head
<1>3. /\ f.panics \in BOOLEAN /\ f.bytes \in Text
      /\ ~f.panics => Holds(f.bytes, text, data, c, z)
      /\ f.panics => ~(Fixed + Len(text) + Len(data) < Width)
  BY <1>1, <1>2, FrameRead
<1> HIDE DEF f
<1> QED
  BY <1>2, <1>3 DEF resp

-----------------------------------------------------------------------------
(* What the state holds *)

Reader == [pc : States, bytes : Text, size : 0..(Width - 1)]

\* What TypeOK leaves open: the domains, and the request the server is about to serve.
Typed ==
  /\ inbox \in [Ends -> Text] /\ reader \in [Ends -> Reader] /\ DOMAIN heard = Ends
  /\ \A e \in Ends : reader[e].pc = "rest" => 2 * FieldBytes <= reader[e].size
  /\ reader["server"].pc # "idle" /\ reader["client"].pc # "serve"
  /\ reader["server"].pc = "serve" =>
       {heard["server"].compresser, heard["server"].serializer} \subseteq Bytes
  /\ sent \in Seq(Calls) /\ IsAnswer(served) /\ told.val \in Values \union {Nothing}
  /\ short \in BOOLEAN /\ calls \in 0..MaxCalls

\* The lesser of two.
LEMMA Lesser ==
  ASSUME NEW a \in Nat, NEW b \in Nat
  PROVE  Min({a, b}) \in Nat /\ Min({a, b}) <= a /\ Min({a, b}) <= b /\ Min({a, b}) \in {a, b}
<1>1. \E x \in {a, b} : \A y \in {a, b} : x <= y
  OBVIOUS
<1> QED
  BY <1>1 DEF Min

\* What a Read may return.
LEMMA SizesType ==
  ASSUME NEW available \in Nat, NEW wanted \in Nat, NEW n \in Sizes(available, wanted)
  PROVE  n \in 0..available /\ n <= wanted
<1> DEFINE most == Min({available, wanted})
<1>1. most \in Nat /\ most <= available /\ most <= wanted
  BY Lesser
<1>2. n \in IF short \/ most = 0 THEN {most} ELSE 1..most
  BY DEF Sizes
<1> HIDE DEF most
<1> QED
  BY <1>1, <1>2

\* A sum of lengths is a length.
LEMMA AnnouncedType ==
  ASSUME NEW lens \in Text, Len(lens) = 2 * FieldBytes
  PROVE  Announced(lens) \in 0..(Width - 1)
<1> DEFINE a == SubSeq(lens, 1, FieldBytes)
           b == SubSeq(lens, FieldBytes + 1, 2 * FieldBytes)
<1>1. /\ FieldBytes \in 0..Len(lens) /\ 2 * FieldBytes \in FieldBytes..Len(lens)
      /\ 2 * FieldBytes - FieldBytes = FieldBytes /\ Len(lens) - FieldBytes = FieldBytes
  BY Constants
<1>2. a \in Text /\ Len(a) = FieldBytes /\ From(lens, FieldBytes) \in Text /\ Len(From(lens, FieldBytes)) = FieldBytes
  BY <1>1, Slices DEF Text
<1>3. b = SubSeq(From(lens, FieldBytes), 1, FieldBytes)
  <2>1. b = SubSeq(From(lens, FieldBytes), 1, 2 * FieldBytes - FieldBytes)
    BY <1>1, SliceBetween DEF Text
  <2> QED
    BY <1>1, <2>1
<1>4. b \in Text /\ Len(b) = FieldBytes
  <2> DEFINE t == From(lens, FieldBytes)
  <2>1. t \in Text /\ FieldBytes \in 0..Len(t)
    BY <1>2, Constants
  <2> HIDE DEF t
  <2>2. SubSeq(t, 1, FieldBytes) \in Text /\ Len(SubSeq(t, 1, FieldBytes)) = FieldBytes
    BY <2>1, Slices DEF Text
  <2> QED
    BY <1>3, <2>2 DEF t
<1> HIDE DEF a, b
<1>5. Number(a) \in 0..(Width - 1) /\ Number(b) \in 0..(Width - 1)
  BY <1>2, <1>4, NumberType
<1>6. Number(a) + Number(b) \in Nat
  BY <1>5, Powers
<1>7. (Number(a) + Number(b)) % Width \in 0..(Width - 1)
  BY <1>6, Powers, Digits
<1> QED
  BY <1>7 DEF Announced, HeadOf, BodyOf, a, b

\* The streams are empty at first.
LEMMA TypedInit == Init => Typed
<1> SUFFICES ASSUME Init PROVE Typed
  OBVIOUS
<1>1. Ready("length") \in Reader /\ Ready("idle") \in Reader
  BY Powers DEF Ready, Reader, States, Text
<1>2. reader["server"] = Ready("length") /\ reader["client"] = Ready("idle") /\ DOMAIN reader = Ends
  BY DEF Init, Ends
<1>3. reader \in [Ends -> Reader]
  <2>1. reader = [e \in Ends |-> IF e = "server" THEN Ready("length") ELSE Ready("idle")]
    BY DEF Init, Ends
  <2> QED
    BY <1>1, <2>1
<1>4. inbox \in [Ends -> Text] /\ DOMAIN heard = Ends
  BY DEF Init, Text
<1>5. \A e \in Ends : reader[e].pc # "rest"
  BY <1>2 DEF Ends, Ready
<1>6. IsAnswer(served) /\ told.val \in Values \union {Nothing}
  <2>1. Untold.val = Nothing /\ Untold.failed = FALSE /\ Untold.text = << >> /\ << >> \in Seq(Bytes)
    BY DEF Untold
  <2> QED
    BY <2>1 DEF Init, IsAnswer
<1>7. sent \in Seq(Calls) /\ short \in BOOLEAN /\ calls \in 0..MaxCalls
  <2>1. MaxCalls \in Nat
    BY WireAssumption
  <2>2. sent = << >> /\ short = FALSE /\ calls = 0
    BY DEF Init
  <2>3. << >> \in Seq(Calls)
    OBVIOUS
  <2>4. calls \in 0..MaxCalls
    BY <2>1, <2>2
  <2> QED
    BY <2>2, <2>3, <2>4
<1> QED
  BY <1>2, <1>3, <1>4, <1>5, <1>6, <1>7 DEF Typed, Ready

\* The lengths that are read.
LEMMA LengthsType ==
  ASSUME Typed, NEW e \in Ends, NEW n \in Sizes(Len(inbox[e]), 2 * FieldBytes)
  PROVE  LET lens == Padded(SubSeq(inbox[e], 1, n), 2 * FieldBytes)
         IN  /\ lens \in Text /\ Len(lens) = 2 * FieldBytes /\ Announced(lens) \in 0..(Width - 1)
             /\ From(inbox[e], n) \in Text /\ n \in Nat /\ n <= 2 * FieldBytes
<1> DEFINE s == inbox[e]
<1>1. s \in Text /\ Len(s) \in Nat
  BY LenProperties DEF Typed, Text
<1>2. n \in 0..Len(s) /\ n <= 2 * FieldBytes
  BY <1>1, Constants, SizesType
<1> HIDE DEF s
<1>3. SubSeq(s, 1, n) \in Text /\ From(s, n) \in Text
  BY <1>1, <1>2, Slices DEF Text
<1>4. Padded(SubSeq(s, 1, n), 2 * FieldBytes) \in Text /\ Len(Padded(SubSeq(s, 1, n), 2 * FieldBytes)) = 2 * FieldBytes
  BY <1>3, Constants, PaddedText
<1>5. Announced(Padded(SubSeq(s, 1, n), 2 * FieldBytes)) \in 0..(Width - 1)
  BY <1>4, AnnouncedType
<1> QED
  BY <1>1, <1>2, <1>3, <1>4, <1>5 DEF s

\* Each action keeps the types, the Reads first.
LEMMA TypedReadLengths ==
  ASSUME Typed, NEW e \in Ends, ReadLengths(e)
  PROVE  Typed'
<1>1. PICK n \in Sizes(Len(inbox[e]), 2 * FieldBytes) :
        LET lens == Padded(SubSeq(inbox[e], 1, n), 2 * FieldBytes)
        IN  /\ Read(e, 2 * FieldBytes, n)
            /\ reader' = [reader EXCEPT ![e] =
                 [pc |-> IF Announced(lens) < 2 * FieldBytes THEN "dead" ELSE "rest",
                  bytes |-> lens, size |-> Announced(lens)]]
  BY DEF ReadLengths
<1> DEFINE lens == Padded(SubSeq(inbox[e], 1, n), 2 * FieldBytes)
           size == Announced(lens)
           r == [pc |-> IF size < 2 * FieldBytes THEN "dead" ELSE "rest", bytes |-> lens, size |-> size]
<1>2. lens \in Text /\ size \in 0..(Width - 1) /\ From(inbox[e], n) \in Text /\ n \in Nat
  BY LengthsType
<1>3. reader' = [reader EXCEPT ![e] = r] /\ inbox' = [inbox EXCEPT ![e] = From(@, n)] /\ short' \in BOOLEAN
  BY <1>1 DEF Read
<1> HIDE DEF lens, size
<1>4. r \in Reader /\ r.pc \in {"dead", "rest"} /\ (r.pc = "rest" => 2 * FieldBytes <= r.size)
  BY <1>2, Constants, Powers DEF Reader, States
<1> HIDE DEF r
<1>5. inbox' \in [Ends -> Text] /\ reader' \in [Ends -> Reader]
  BY <1>2, <1>3, <1>4 DEF Typed
<1>6. \A x \in Ends : reader'[x] = IF x = e THEN r ELSE reader[x]
  BY <1>3 DEF Typed
<1>7. UNCHANGED <<heard, sent, served, told, calls>>
  BY DEF ReadLengths
<1>8. \A x \in Ends : reader'[x].pc = "rest" => 2 * FieldBytes <= reader'[x].size
  BY <1>4, <1>6 DEF Typed
<1>9. /\ reader'["server"].pc # "idle" /\ reader'["client"].pc # "serve"
      /\ reader'["server"].pc = "serve" => reader["server"].pc = "serve"
  BY <1>4, <1>6 DEF Typed, Ends
<1> QED
  BY <1>3, <1>5, <1>7, <1>8, <1>9 DEF Typed

LEMMA TypedReadRest ==
  ASSUME Typed, NEW e \in Ends, ReadRest(e)
  PROVE  Typed'
<1> DEFINE wanted == reader[e].size - 2 * FieldBytes
<1>1. PICK n \in Sizes(Len(inbox[e]), wanted) :
        /\ Read(e, wanted, n)
        /\ reader' = [reader EXCEPT ![e] =
             [pc |-> "decode", bytes |-> @.bytes \o Padded(SubSeq(inbox[e], 1, n), wanted),
              size |-> @.size]]
  BY DEF ReadRest
<1> DEFINE more == Padded(SubSeq(inbox[e], 1, n), wanted)
           r == [pc |-> "decode", bytes |-> reader[e].bytes \o more, size |-> reader[e].size]
<1>2. /\ reader[e] \in Reader /\ reader[e].bytes \in Text /\ reader[e].size \in 0..(Width - 1)
      /\ wanted \in Nat /\ inbox[e] \in Text /\ Len(inbox[e]) \in Nat
  <2>1. reader[e] \in Reader /\ reader[e].pc = "rest" /\ inbox[e] \in Text
    BY DEF Typed, ReadRest
  <2>2. reader[e].bytes \in Text /\ reader[e].size \in 0..(Width - 1) /\ 2 * FieldBytes <= reader[e].size
    BY <2>1 DEF Reader, Typed
  <2>3. wanted \in Nat
    BY <2>2, Constants, Powers
  <2> QED
    BY <2>1, <2>2, <2>3, LenProperties DEF Text
<1>3. n \in 0..Len(inbox[e])
  BY <1>2, SizesType
<1>4. SubSeq(inbox[e], 1, n) \in Text /\ From(inbox[e], n) \in Text
  BY <1>2, <1>3, Slices DEF Text
<1>5. more \in Text
  BY <1>2, <1>4, PaddedText
<1>6. reader[e].bytes \o more \in Text
  <2> HIDE DEF more
  <2> QED
    BY <1>2, <1>5, Joined
<1>7. reader' = [reader EXCEPT ![e] = r] /\ inbox' = [inbox EXCEPT ![e] = From(@, n)] /\ short' \in BOOLEAN
  <2>1. reader' = [reader EXCEPT ![e] = r]
    BY <1>1
  <2> QED
    BY <1>1, <2>1 DEF Read
<1> HIDE DEF more
<1>8. r \in Reader /\ r.pc = "decode"
  BY <1>2, <1>6 DEF Reader, States
<1> HIDE DEF r
<1>9. inbox' \in [Ends -> Text] /\ reader' \in [Ends -> Reader]
  BY <1>4, <1>7, <1>8 DEF Typed
<1>10. \A x \in Ends : reader'[x] = IF x = e THEN r ELSE reader[x]
  BY <1>7 DEF Typed
<1>11. UNCHANGED <<heard, sent, served, told, calls>>
  BY DEF ReadRest
<1>12. \A x \in Ends : reader'[x].pc = "rest" => 2 * FieldBytes <= reader'[x].size
  BY <1>8, <1>10 DEF Typed
<1>13. /\ reader'["server"].pc # "idle" /\ reader'["client"].pc # "serve"
       /\ reader'["server"].pc = "serve" => reader["server"].pc = "serve"
  BY <1>8, <1>10 DEF Typed, Ends
<1> QED
  BY <1>7, <1>9, <1>11, <1>12, <1>13 DEF Typed

\* One end does something else.
LEMMA ReaderStep ==
  ASSUME Typed, NEW e \in Ends, NEW r \in Reader, reader' = [reader EXCEPT ![e] = r],
         r.pc # "rest", e = "server" => r.pc # "idle", e = "client" => r.pc # "serve"
  PROVE  /\ reader' \in [Ends -> Reader]
         /\ \A x \in Ends : reader'[x] = IF x = e THEN r ELSE reader[x]
         /\ \A x \in Ends : reader'[x].pc = "rest" => 2 * FieldBytes <= reader'[x].size
         /\ reader'["server"].pc # "idle" /\ reader'["client"].pc # "serve"
<1>1. reader' \in [Ends -> Reader]
  BY DEF Typed
<1>2. \A x \in Ends : reader'[x] = IF x = e THEN r ELSE reader[x]
  BY DEF Typed
<1>3. \A x \in Ends : reader'[x].pc = "rest" => 2 * FieldBytes <= reader'[x].size
  BY <1>2 DEF Typed
<1>4. reader'["server"].pc # "idle" /\ reader'["client"].pc # "serve"
  BY <1>2 DEF Typed, Ends
<1> QED
  BY <1>1, <1>2, <1>3, <1>4

\* A reader at the beginning of something.
LEMMA ReadyType ==
  ASSUME NEW pc \in States
  PROVE  Ready(pc) \in Reader /\ Ready(pc).pc = pc
<1>1. 0 \in 0..(Width - 1) /\ << >> \in Text
  BY Powers DEF Text
<1> QED
  BY <1>1 DEF Ready, Reader

LEMMA TypedCall ==
  ASSUME Typed, NEW req \in Calls, Call(req)
  PROVE  Typed'
<1>1. PICK order \in SetToSeqs(DOMAIN req.meta) :
        LET f == EncodeReq(req, order)
        IN  /\ IF f.panics THEN Dies("client")
               ELSE reader' = [reader EXCEPT !.client = Ready(IF IsOneway(req) THEN "idle" ELSE "length")]
            /\ inbox' = IF f.panics THEN inbox ELSE [inbox EXCEPT !.server = @ \o f.bytes]
  BY DEF Call
<1> DEFINE f == EncodeReq(req, order)
           pc == IF f.panics THEN "dead" ELSE IF IsOneway(req) THEN "idle" ELSE "length"
<1>2. IsRequest(req)
  <2>1. \A r \in Calls : IsRequest(r)
    BY WireAssumption
  <2> QED
    BY <2>1
<1>3. f.bytes \in Text
  BY <1>2, RequestRead
<1>4. reader' = [reader EXCEPT !["client"] = Ready(pc)]
  BY <1>1 DEF Dies
<1>5. pc \in {"dead", "idle", "length"}
  OBVIOUS
<1>6. inbox' \in [Ends -> Text]
  <2> DEFINE b == f.bytes
             p == f.panics
  <2>1. inbox' = IF p THEN inbox ELSE [inbox EXCEPT !["server"] = @ \o b]
    BY <1>1
  <2>2. b \in Text
    BY <1>3
  <2> HIDE DEF b, p
  <2>3. inbox["server"] \o b \in Text
    BY <2>2, Joined DEF Typed, Ends
  <2> QED
    BY <2>1, <2>3 DEF Typed
<1> HIDE DEF f, pc
<1>7. Ready(pc) \in Reader /\ Ready(pc).pc = pc
  BY <1>5, ReadyType DEF States
<1>8. "client" \in Ends /\ Ready(pc).pc # "rest" /\ Ready(pc).pc # "serve"
  BY <1>5, <1>7 DEF Ends
<1> DEFINE r == Ready(pc)
           e == "client"
<1> HIDE DEF r, e
<1>9. /\ reader' \in [Ends -> Reader]
      /\ \A x \in Ends : reader'[x] = IF x = e THEN r ELSE reader[x]
      /\ \A x \in Ends : reader'[x].pc = "rest" => 2 * FieldBytes <= reader'[x].size
      /\ reader'["server"].pc # "idle" /\ reader'["client"].pc # "serve"
  <2>1. e = "client" /\ r \in Reader /\ e \in Ends /\ reader' = [reader EXCEPT ![e] = r] /\ r.pc # "rest" /\ r.pc # "serve"
    BY <1>4, <1>7, <1>8 DEF r, e
  <2> QED
    BY <2>1, ReaderStep
<1>10. reader'["server"] = reader["server"]
  BY <1>9 DEF e, Ends
<1>11. /\ sent' \in Seq(Calls) /\ calls' \in 0..MaxCalls /\ told' = Untold
       /\ UNCHANGED <<heard, served, short>>
  <2>1. sent' = Append(sent, req) /\ sent \in Seq(Calls) /\ calls' = calls + 1 /\ calls < MaxCalls /\ calls \in 0..MaxCalls
    BY DEF Call, Typed
  <2>2. MaxCalls \in Nat
    BY WireAssumption
  <2>3. calls' \in 0..MaxCalls
    BY <2>1, <2>2
  <2>4. sent' \in Seq(Calls)
    BY <2>1
  <2> QED
    BY <2>3, <2>4 DEF Call
<1>12. told'.val \in Values \union {Nothing}
  BY <1>11 DEF Untold
<1> QED
  BY <1>6, <1>9, <1>10, <1>11, <1>12 DEF Typed

\* One end is ready to do something else, and the bytes under way are some more or the same.
LEMMA TypedTurn ==
  ASSUME Typed, NEW e \in Ends, NEW pc \in States, reader' = [reader EXCEPT ![e] = Ready(pc)],
         pc # "rest", e = "server" => pc \notin {"idle"}, e = "client" => pc # "serve",
         inbox' \in [Ends -> Text], DOMAIN heard' = Ends,
         reader'["server"].pc = "serve" =>
           {heard'["server"].compresser, heard'["server"].serializer} \subseteq Bytes,
         sent' \in Seq(Calls), IsAnswer(served)', told'.val \in Values \union {Nothing},
         UNCHANGED <<short, calls>>
  PROVE  Typed'
<1>1. Ready(pc) \in Reader /\ Ready(pc).pc = pc
  BY ReadyType
<1> DEFINE r == Ready(pc)
<1>2. r \in Reader /\ r.pc = pc
  BY <1>1
<1>3. reader' = [reader EXCEPT ![e] = r]
  OBVIOUS
<1> HIDE DEF r
<1>4. /\ reader' \in [Ends -> Reader]
      /\ \A x \in Ends : reader'[x].pc = "rest" => 2 * FieldBytes <= reader'[x].size
      /\ reader'["server"].pc # "idle" /\ reader'["client"].pc # "serve"
  <2>1. r.pc # "rest" /\ (e = "server" => r.pc # "idle") /\ (e = "client" => r.pc # "serve")
    BY <1>2
  <2> QED
    BY <1>2, <1>3, <2>1, ReaderStep
<1> QED
  BY <1>4 DEF Typed

\* A value is decoded, or none.
LEMMA DecodedType ==
  ASSUME NEW data
  PROVE  Decoded(data) \in Values \union {Nothing}
BY DEF Decoded

LEMMA TypedReceive ==
  ASSUME Typed, Receive
  PROVE  Typed'
<1>1. UNCHANGED <<inbox, sent, served, short, calls>> /\ "client" \in Ends
  BY DEF Receive, Ends
<1>2. inbox' \in [Ends -> Text] /\ sent' \in Seq(Calls)
  BY <1>1 DEF Typed
<1>3. IsAnswer(served)'
  BY <1>1 DEF Typed, IsAnswer
<1>4. reader["server"].pc = "serve" =>
        {heard["server"].compresser, heard["server"].serializer} \subseteq Bytes
  BY DEF Typed
<1>5. CASE DecodeRespPanics(reader.client.bytes)
  <2>1. reader' = [reader EXCEPT !["client"] = Ready("dead")] /\ UNCHANGED <<heard, told>>
    BY <1>5 DEF Receive, Dies
  <2>2. reader'["server"] = reader["server"] /\ "dead" \in States
    BY <2>1 DEF Typed, Ends, States
  <2>3. DOMAIN heard' = Ends /\ told'.val \in Values \union {Nothing}
    BY <2>1 DEF Typed
  <2>4. reader'["server"].pc = "serve" =>
          {heard'["server"].compresser, heard'["server"].serializer} \subseteq Bytes
    BY <1>4, <2>1, <2>2
  <2> QED
    BY <1>1, <1>2, <1>3, <2>1, <2>2, <2>3, <2>4, TypedTurn
<1>6. CASE ~DecodeRespPanics(reader.client.bytes)
  <2> DEFINE resp == DecodeResp(reader.client.bytes)
  <2>1. TellCaller(resp)
    BY <1>6 DEF Receive
  <2> HIDE DEF resp
  <2>2. heard' = [heard EXCEPT !["client"] = resp]
    BY <2>1 DEF TellCaller
  <2>3. reader' = [reader EXCEPT !["client"] = Ready("idle")] /\ told'.val \in Values \union {Nothing}
    <3>1. Zero \in Values
      BY WireAssumption
    <3>2. CASE resp.data # << >> /\ Decoded(resp.data) = Nothing
      <4>1. Told(Zero, TRUE, Garbled)
        BY <2>1, <3>2 DEF TellCaller
      <4> QED
        BY <3>1, <4>1 DEF Told
    <3>3. CASE ~(resp.data # << >> /\ Decoded(resp.data) = Nothing)
      <4> DEFINE v == IF resp.data = << >> THEN Zero ELSE Decoded(resp.data)
      <4>1. Told(v, resp.error # << >>, resp.error)
        BY <2>1, <3>3 DEF TellCaller
      <4>2. v \in Values \union {Nothing}
        BY <3>1, DecodedType
      <4> HIDE DEF v
      <4> QED
        BY <4>1, <4>2 DEF Told
    <3> QED
      BY <3>2, <3>3
  <2>4. reader'["server"] = reader["server"] /\ "idle" \in States
    BY <2>3 DEF Typed, Ends, States
  <2>5. DOMAIN heard' = Ends /\ heard'["server"] = heard["server"]
    BY <2>2 DEF Typed, Ends
  <2>6. reader'["server"].pc = "serve" =>
          {heard'["server"].compresser, heard'["server"].serializer} \subseteq Bytes
    BY <1>4, <2>4, <2>5
  <2> QED
    BY <1>1, <1>2, <1>3, <2>3, <2>4, <2>5, <2>6, TypedTurn
<1> QED
  BY <1>5, <1>6

LEMMA TypedConnectionLost ==
  ASSUME Typed, ConnectionLost
  PROVE  Typed'
<1>1. UNCHANGED <<inbox, heard, sent, served, short, calls>> /\ "client" \in Ends /\ "idle" \in States
  BY DEF ConnectionLost, Ends, States
<1>2. Zero \in Values
  BY WireAssumption
<1>3. reader' = [reader EXCEPT !["client"] = Ready("idle")] /\ told'.val \in Values \union {Nothing}
  BY <1>2 DEF ConnectionLost, Told
<1>4. inbox' \in [Ends -> Text] /\ sent' \in Seq(Calls) /\ DOMAIN heard' = Ends
  BY <1>1 DEF Typed
<1>5. IsAnswer(served)'
  BY <1>1 DEF Typed, IsAnswer
<1>6. reader'["server"] = reader["server"]
  BY <1>3 DEF Typed, Ends
<1>7. reader'["server"].pc = "serve" =>
        {heard'["server"].compresser, heard'["server"].serializer} \subseteq Bytes
  BY <1>1, <1>6 DEF Typed
<1> QED
  BY <1>1, <1>3, <1>4, <1>5, <1>7, TypedTurn

\* The request that is decoded has codes.
LEMMA AcceptedCodes ==
  ASSUME NEW bs \in Text, ~DecodeReqPanics(bs)
  PROVE  {DecodeReq(bs).compresser, DecodeReq(bs).serializer} \subseteq Bytes
<1>1. Len(bs) \in Nat /\ ~(Len(bs) < Fixed)
  BY LenProperties DEF DecodeReqPanics, Text
<1>2. Fixed - 1 \in 1..Len(bs) /\ Fixed \in 1..Len(bs)
  <2>1. Fixed > 1
    BY Constants DEF Fixed
  <2> QED
    BY <1>1, <2>1, Constants
<1>3. bs[Fixed - 1] \in Bytes /\ bs[Fixed] \in Bytes
  BY <1>2, ElementOfSeq DEF Text
<1>4. DecodeReq(bs).compresser = bs[Fixed - 1] /\ DecodeReq(bs).serializer = bs[Fixed]
  BY DEF DecodeReq
<1> QED
  BY <1>3, <1>4

LEMMA TypedAccept ==
  ASSUME Typed, Accept
  PROVE  Typed'
<1>1. UNCHANGED <<inbox, sent, served, told, short, calls>> /\ "server" \in Ends
  BY DEF Accept, Ends
<1>2. inbox' \in [Ends -> Text] /\ sent' \in Seq(Calls) /\ told'.val \in Values \union {Nothing}
  BY <1>1 DEF Typed
<1>3. IsAnswer(served)'
  BY <1>1 DEF Typed, IsAnswer
<1> DEFINE bs == reader.server.bytes
<1>4. CASE DecodeReqPanics(bs)
  <2>1. reader' = [reader EXCEPT !["server"] = Ready("dead")] /\ UNCHANGED heard /\ "dead" \in States
    BY <1>4 DEF Accept, Dies, States
  <2>2. DOMAIN heard' = Ends
    BY <2>1 DEF Typed
  <2>3. reader'["server"].pc = "dead"
    BY <2>1 DEF Typed, Ends, Ready
  <2> QED
    BY <1>1, <1>2, <1>3, <2>1, <2>2, <2>3, TypedTurn
<1>5. CASE ~DecodeReqPanics(bs)
  <2> DEFINE req == DecodeReq(bs)
  <2>1. /\ reader' = [reader EXCEPT !["server"] = Ready("serve")] /\ "serve" \in States
        /\ heard' = [heard EXCEPT !["server"] = req]
    BY <1>5 DEF Accept, States
  <2>2. bs \in Text
    BY DEF Typed, Reader, Ends
  <2>3. {req.compresser, req.serializer} \subseteq Bytes
    BY <1>5, <2>2, AcceptedCodes
  <2> HIDE DEF req
  <2>4. DOMAIN heard' = Ends /\ heard'["server"] = req
    BY <2>1 DEF Typed, Ends
  <2>5. {heard'["server"].compresser, heard'["server"].serializer} \subseteq Bytes
    BY <2>3, <2>4
  <2> QED
    BY <1>1, <1>2, <1>3, <2>1, <2>4, <2>5, TypedTurn
<1> QED
  BY <1>4, <1>5

\* The data of an answer.
Returned(a) == IF a.val = Nothing THEN << >> ELSE Encoded[a.val]

\* What an answer is made of are bytes.
LEMMA ReturnedType ==
  ASSUME NEW a, IsAnswer(a)
  PROVE  Returned(a) \in Text /\ a.text \in Text
<1>1. \A v \in Values : Encoded[v] \in Text
  BY WireAssumption DEF Text
<1>2. << >> \in Text
  BY DEF Text
<1>3. a.val \in Values \union {Nothing} /\ a.text \in Text
  BY DEF IsAnswer, Text
<1> QED
  BY <1>1, <1>2, <1>3 DEF Returned

\* What handleConn writes.
LEMMA AnswerRead ==
  ASSUME NEW a, IsAnswer(a), NEW req, {req.compresser, req.serializer} \subseteq Bytes
  PROVE  LET f == Response(req, a)
         IN  /\ f.panics \in BOOLEAN /\ f.bytes \in Text
             /\ ~f.panics => Holds(f.bytes, a.text, Returned(a), req.compresser, req.serializer)
             /\ f.panics => ~RespFits(a)
<1> DEFINE text == a.text
           data == Returned(a)
           c == req.compresser
           z == req.serializer
           f == EncodeResp([error |-> text, data |-> data, compresser |-> c, serializer |-> z])
<1>1. Response(req, a) = f
  BY DEF Response, Returned
<1>2. text \in Text /\ data \in Text
  BY ReturnedType
<1>3. c \in Bytes /\ z \in Bytes
  OBVIOUS
<1>4. RespFits(a) => Fixed + Len(text) + Len(data) < Width
  <2>1. CASE a.val = Nothing
    <3>1. Len(data) = 0
      BY <2>1 DEF Returned
    <3>2. Fixed + Len(text) + 0 = Fixed + Len(text) + Len(data)
      BY <3>1
    <3> QED
      BY <2>1, <3>2 DEF RespFits
  <2>2. CASE a.val # Nothing
    BY <2>2 DEF RespFits, Returned
  <2> QED
    BY <2>1, <2>2
<1> HIDE DEF text, data, c, z
<1>5. /\ f.panics \in BOOLEAN /\ f.bytes \in Text
      /\ ~f.panics => Holds(f.bytes, text, data, c, z)
      /\ f.panics => ~(Fixed + Len(text) + Len(data) < Width)
  BY <1>2, <1>3, ResponseRead
<1> HIDE DEF f
<1> QED
  BY <1>1, <1>4, <1>5 DEF text, data, c, z

\* The results the service may have are answers.
LEMMA ResultsType ==
  ASSUME NEW req, NEW a \in Results(req)
  PROVE  IsAnswer(a)
<1>1. \A t \in {NotFound, Unsupported, Garbled} : IsAnswer(Refusal(t))
  <2>1. \A t \in {NotFound, Unsupported, Garbled} : t \in Seq(Bytes)
    BY WireAssumption
  <2> QED
    BY <2>1 DEF Refusal, IsAnswer
<1>2. \A x \in Answers : IsAnswer(x)
  BY WireAssumption
<1>3. a \in {Refusal(NotFound), Refusal(Unsupported), Refusal(Garbled)} \union Answers
  BY Zenon DEF Results
<1> QED
  BY <1>1, <1>2, <1>3

LEMMA TypedReply ==
  ASSUME Typed, NEW a, IsAnswer(a), Reply(a), reader["server"].pc = "serve",
         UNCHANGED <<heard, told, short, calls>>
  PROVE  Typed'
<1> DEFINE f == Response(heard.server, a)
           b == f.bytes
           p == f.panics
           pc == IF p THEN "dead" ELSE "length"
<1>1. b \in Text
  BY AnswerRead DEF Typed
<1>2. /\ served' = a /\ sent' = IF p \/ sent = << >> THEN sent ELSE Tail(sent)
      /\ reader' = [reader EXCEPT !["server"] = Ready(pc)]
      /\ inbox' = IF p THEN inbox ELSE [inbox EXCEPT !["client"] = @ \o b]
  BY DEF Reply, Dies
<1>3. pc \in {"dead", "length"}
  OBVIOUS
<1> HIDE DEF f, b, p, pc
<1>4. inbox' \in [Ends -> Text]
  <2>1. inbox["client"] \o b \in Text
    BY <1>1, Joined DEF Typed, Ends
  <2> QED
    BY <1>2, <2>1 DEF Typed
<1>5. sent' \in Seq(Calls)
  <2>1. sent \in Seq(Calls)
    BY DEF Typed
  <2>2. sent # << >> => Tail(sent) \in Seq(Calls)
    BY <2>1, HeadTailProperties
  <2> QED
    BY <1>2, <2>1, <2>2
<1>6. IsAnswer(served)'
  BY <1>2 DEF IsAnswer
<1>7. DOMAIN heard' = Ends /\ told'.val \in Values \union {Nothing} /\ "server" \in Ends
  BY DEF Typed, Ends
<1>8. pc \in States /\ pc # "rest" /\ pc # "serve" /\ pc # "idle"
  BY <1>3 DEF States
<1>9. reader'["server"].pc = pc
  BY <1>2, <1>7 DEF Typed, Ready
<1> QED
  BY <1>2, <1>4, <1>5, <1>6, <1>7, <1>8, <1>9, TypedTurn

LEMMA TypedServe ==
  ASSUME Typed, Serve
  PROVE  Typed'
<1>1. UNCHANGED <<heard, told, short, calls>> /\ reader["server"].pc = "serve"
  BY DEF Serve
<1>2. CASE ServePanics(heard.server)
  <2>1. reader' = [reader EXCEPT !["server"] = Ready("dead")] /\ UNCHANGED <<served, sent, inbox>>
    BY <1>2 DEF Serve, Dies
  <2>2. inbox' \in [Ends -> Text] /\ sent' \in Seq(Calls) /\ told'.val \in Values \union {Nothing} /\ DOMAIN heard' = Ends
    BY <1>1, <2>1 DEF Typed
  <2>3. IsAnswer(served)'
    BY <2>1 DEF Typed, IsAnswer
  <2>4. "server" \in Ends /\ "dead" \in States
    BY DEF Ends, States
  <2>5. reader'["server"].pc = "dead"
    BY <2>1, <2>4 DEF Typed, Ready
  <2> QED
    BY <1>1, <2>1, <2>2, <2>3, <2>4, <2>5, TypedTurn
<1>3. CASE ~ServePanics(heard.server)
  <2>1. PICK a \in Results(heard.server) : Reply(a)
    BY <1>3 DEF Serve
  <2>2. IsAnswer(a)
    BY <2>1, ResultsType
  <2> QED
    BY <1>1, <2>1, <2>2, TypedReply
<1> QED
  BY <1>2, <1>3

LEMMA TypedStep == Typed /\ [Next]_vars => Typed'
<1> SUFFICES ASSUME Typed, [Next]_vars PROVE Typed'
  OBVIOUS
<1>1. ASSUME NEW e \in Ends, ReadLengths(e) PROVE Typed'
  BY <1>1, TypedReadLengths
<1>2. ASSUME NEW e \in Ends, ReadRest(e) PROVE Typed'
  BY <1>2, TypedReadRest
<1>3. CASE Receive
  BY <1>3, TypedReceive
<1>4. CASE ConnectionLost
  BY <1>4, TypedConnectionLost
<1>5. CASE Accept
  BY <1>5, TypedAccept
<1>6. CASE Serve
  BY <1>6, TypedServe
<1>7. ASSUME NEW req \in Calls, Call(req) PROVE Typed'
  BY <1>7, TypedCall
<1>8. CASE UNCHANGED vars
  BY <1>8 DEF vars, Typed, IsAnswer
<1> QED
  BY <1>1, <1>2, <1>3, <1>4, <1>5, <1>6, <1>7, <1>8 DEF Next

LEMMA AlwaysTyped == Spec => []Typed
BY TypedInit, TypedStep, PTL DEF Spec

\* Bytes are bytes and lengths are lengths in every buffer, whatever the streams
\* hold and wherever a Read cuts them: no sum of lengths is wider than a length.
THEOREM TypeCorrect == Spec => []TypeOK
<1>1. Typed => TypeOK
  <2> SUFFICES ASSUME Typed PROVE TypeOK
    OBVIOUS
  <2>1. ASSUME NEW e \in Ends
        PROVE  /\ inbox[e] \in Seq(Bytes) /\ reader[e].bytes \in Seq(Bytes)
               /\ reader[e].pc \in States /\ reader[e].size \in 0..(Width - 1)
    BY DEF Typed, Reader, Text
  <2>2. served.val \in Values \union {Nothing}
    BY DEF Typed, IsAnswer
  <2> QED
    BY <2>1, <2>2 DEF Typed, TypeOK
<1> QED
  BY <1>1, AlwaysTyped, PTL

-----------------------------------------------------------------------------
(* Streams *)

\* The stream s is n messages, whole and nothing else, the i-th of them one of K[i].
Carries(s, n, K) ==
  \E rest \in [0..n -> Text] :
    /\ rest[0] = s /\ rest[n] = << >>
    /\ \A i \in 1..n : \E f \in K[i] : Framed(f) /\ rest[i - 1] = f \o rest[i]

\* The stream begins with one of F, and the n messages of K follow.
Begins(s, F, n, K) == \E f \in F : \E t \in Text : Framed(f) /\ s = f \o t /\ Carries(t, n, K)

\* Three texts one after the other.
LEMMA Associates ==
  ASSUME NEW r \in Text, NEW s \in Text, NEW t \in Text
  PROVE  (r \o s) \o t = r \o (s \o t)
<1> r \in Seq(Bytes) /\ s \in Seq(Bytes) /\ t \in Seq(Bytes)
  BY DEF Text
<1> QED
  OBVIOUS

\* No message is no byte.
LEMMA CarriesNone ==
  ASSUME NEW K
  PROVE  Carries(<< >>, 0, K) /\ \A s : Carries(s, 0, K) => s = << >>
<1> DEFINE rest == [i \in 0..0 |-> << >>]
<1>1. rest \in [0..0 -> Text] /\ rest[0] = << >>
  BY DEF Text
<1> HIDE DEF rest
<1>2. Carries(<< >>, 0, K)
  BY <1>1 DEF Carries
<1> QED
  BY <1>2 DEF Carries

\* Only the messages that are there matter.
LEMMA CarriesSame ==
  ASSUME NEW s, NEW n \in Nat, NEW K, Carries(s, n, K), NEW K2, \A i \in 1..n : K2[i] = K[i]
  PROVE  Carries(s, n, K2)
BY DEF Carries

\* A message is written.
LEMMA CarriesMore ==
  ASSUME NEW s, NEW n \in Nat, NEW K, Carries(s, n, K), NEW K2, \A i \in 1..n : K2[i] = K[i],
         NEW f \in K2[n + 1], Framed(f)
  PROVE  Carries(s \o f, n + 1, K2)
<1>1. PICK rest \in [0..n -> Text] :
        /\ rest[0] = s /\ rest[n] = << >>
        /\ \A i \in 1..n : \E g \in K[i] : Framed(g) /\ rest[i - 1] = g \o rest[i]
  BY DEF Carries
<1> DEFINE more == [i \in 0..(n + 1) |-> IF i = n + 1 THEN << >> ELSE rest[i] \o f]
<1>2. f \in Text /\ << >> \in Text /\ f \o << >> = f /\ << >> \o f = f
  <2>1. f \in Text /\ << >> \in Text
    BY DEF Framed, Text
  <2> QED
    BY <2>1, ConcatEmptySeq DEF Text
<1>3. \A i \in 0..n : rest[i] \o f \in Text
  BY <1>1, <1>2, Joined
<1>4. \A i \in 0..(n + 1) : i # n + 1 => i \in 0..n
  OBVIOUS
<1>5. more \in [0..(n + 1) -> Text]
  BY <1>2, <1>3, <1>4
<1>6. more[0] = s \o f /\ more[n + 1] = << >>
  BY <1>1
<1>7. ASSUME NEW i \in 1..(n + 1) PROVE \E g \in K2[i] : Framed(g) /\ more[i - 1] = g \o more[i]
  <2>1. CASE i = n + 1
    <3>1. i - 1 = n /\ n \in 0..(n + 1) /\ n # n + 1 /\ i \in 0..(n + 1)
      BY <2>1
    <3>2. more[i - 1] = rest[n] \o f /\ more[i] = << >>
      BY <2>1, <3>1
    <3>3. more[i - 1] = f \o more[i]
      BY <1>1, <1>2, <3>2
    <3> QED
      BY <2>1, <3>3
  <2>2. CASE i # n + 1
    <3>1. i \in 1..n /\ i \in 0..(n + 1) /\ i - 1 \in 0..(n + 1) /\ i - 1 # n + 1 /\ i \in 0..n /\ i - 1 \in 0..n
      BY <2>2
    <3>2. PICK g \in K[i] : Framed(g) /\ rest[i - 1] = g \o rest[i]
      BY <1>1, <3>1
    <3>3. more[i - 1] = rest[i - 1] \o f /\ more[i] = rest[i] \o f
      BY <2>2, <3>1
    <3>4. (g \o rest[i]) \o f = g \o (rest[i] \o f)
      <4>1. g \in Text /\ rest[i] \in Text
        BY <1>1, <3>1, <3>2 DEF Framed
      <4> QED
        BY <1>2, <4>1, Associates, Zenon
    <3>5. K2[i] = K[i]
      BY <3>1
    <3> QED
      BY <3>2, <3>3, <3>4, <3>5
  <2> QED
    BY <2>1, <2>2
<1> HIDE DEF more
<1> QED
  BY <1>5, <1>6, <1>7 DEF Carries

\* The first message.
LEMMA CarriesFirst ==
  ASSUME NEW s, NEW n \in Nat, NEW K, Carries(s, n, K), n # 0, NEW K2, \A i \in 1..(n - 1) : K2[i] = K[i + 1]
  PROVE  Begins(s, K[1], n - 1, K2)
<1>1. PICK rest \in [0..n -> Text] :
        /\ rest[0] = s /\ rest[n] = << >>
        /\ \A i \in 1..n : \E g \in K[i] : Framed(g) /\ rest[i - 1] = g \o rest[i]
  BY DEF Carries
<1>2. PICK f \in K[1] : Framed(f) /\ s = f \o rest[1]
  <2>1. 1 \in 1..n /\ 1 - 1 = 0
    OBVIOUS
  <2> QED
    BY <1>1, <2>1
<1> DEFINE less == [i \in 0..(n - 1) |-> rest[i + 1]]
<1>3. \A i \in 0..(n - 1) : i + 1 \in 0..n
  OBVIOUS
<1>4. less \in [0..(n - 1) -> Text]
  BY <1>1, <1>3
<1>5. less[0] = rest[1] /\ less[n - 1] = << >>
  <2>1. 0 \in 0..(n - 1) /\ n - 1 \in 0..(n - 1) /\ (n - 1) + 1 = n /\ 0 + 1 = 1
    OBVIOUS
  <2> QED
    BY <1>1, <2>1
<1>6. ASSUME NEW i \in 1..(n - 1) PROVE \E g \in K2[i] : Framed(g) /\ less[i - 1] = g \o less[i]
  <2>1. i + 1 \in 1..n /\ (i + 1) - 1 = i /\ i - 1 \in 0..(n - 1) /\ i \in 0..(n - 1) /\ (i - 1) + 1 = i
    OBVIOUS
  <2>2. PICK g \in K[i + 1] : Framed(g) /\ rest[(i + 1) - 1] = g \o rest[i + 1]
    BY <1>1, <2>1
  <2>3. less[i - 1] = rest[i] /\ less[i] = rest[i + 1]
    BY <2>1
  <2> QED
    BY <2>1, <2>2, <2>3
<1> HIDE DEF less
<1>7. Carries(less[0], n - 1, K2)
  BY <1>4, <1>5, <1>6 DEF Carries
<1>8. less[0] \in Text
  BY <1>4
<1> QED
  BY <1>2, <1>5, <1>7, <1>8 DEF Begins

\* The lengths of the first message are those of its rest, which has been written.
LEMMA CarriesRest ==
  ASSUME NEW lens \in Text, Len(lens) = 2 * FieldBytes, NEW s \in Text,
         NEW n \in Nat, NEW K, Carries(lens \o s, n, K),
         NEW K2, \A i \in 1..(n - 1) : K2[i] = K[i + 1]
  PROVE  LET wanted == Announced(lens) - 2 * FieldBytes
         IN  /\ n # 0 /\ wanted \in 1..Len(s) /\ Announced(lens) >= Fixed
             /\ lens \o SubSeq(s, 1, wanted) \in K[1]
             /\ Framed(lens \o SubSeq(s, 1, wanted))
             /\ Carries(From(s, wanted), n - 1, K2)
<1>1. lens \o s \in Text /\ Len(lens \o s) = Len(lens) + Len(s) /\ Len(s) \in Nat
  BY Joined
<1>2. n # 0
  <2>1. lens \o s # << >>
    BY <1>1, Constants
  <2> QED
    BY <2>1, CarriesNone
<1>3. PICK f \in K[1] : \E t \in Text : Framed(f) /\ lens \o s = f \o t /\ Carries(t, n - 1, K2)
  <2>1. Begins(lens \o s, K[1], n - 1, K2)
    BY <1>2, CarriesFirst
  <2> QED
    BY <2>1 DEF Begins
<1>4. PICK t \in Text : Framed(f) /\ lens \o s = f \o t /\ Carries(t, n - 1, K2)
  BY <1>3
<1> DEFINE g == From(f, 2 * FieldBytes)
<1>5. f \in Text /\ Len(f) \in Nat /\ 2 * FieldBytes < Len(f) /\ Len(f) >= Fixed
      /\ Announced(SubSeq(f, 1, 2 * FieldBytes)) = Len(f) /\ 2 * FieldBytes \in 0..Len(f)
  <2>1. f \in Text /\ Len(f) \in Fixed..(Width - 1) /\ Announced(SubSeq(f, 1, 2 * FieldBytes)) = Len(f)
    BY <1>4 DEF Framed
  <2> QED
    BY <2>1, Constants, Powers
<1>6. /\ SubSeq(f \o t, 1, 2 * FieldBytes) = SubSeq(f, 1, 2 * FieldBytes)
      /\ From(f \o t, 2 * FieldBytes) = g \o t
      /\ SubSeq(f, 1, 2 * FieldBytes) \o g = f
  BY <1>5, SliceOfFirst DEF Text
<1>7. SubSeq(lens \o s, 1, 2 * FieldBytes) = lens /\ From(lens \o s, 2 * FieldBytes) = s
  <2>1. SubSeq(lens \o s, 1, Len(lens)) = lens /\ From(lens \o s, Len(lens)) = s
    BY Apart DEF Text
  <2> QED
    BY <2>1
<1>8. lens = SubSeq(f, 1, 2 * FieldBytes) /\ s = g \o t /\ lens \o g = f /\ Announced(lens) = Len(f)
  BY <1>4, <1>5, <1>6, <1>7
<1>9. g \in Text /\ Len(g) = Len(f) - 2 * FieldBytes
  BY <1>5, Slices DEF Text
<1> HIDE DEF g
<1>10. SubSeq(g \o t, 1, Len(g)) = g /\ From(g \o t, Len(g)) = t /\ Len(s) = Len(g) + Len(t) /\ Len(t) \in Nat
  BY <1>8, <1>9, Apart, Joined DEF Text
<1> DEFINE wanted == Announced(lens) - 2 * FieldBytes
<1>11. wanted = Len(g)
  BY <1>8, <1>9
<1> HIDE DEF wanted
<1>12. wanted \in 1..Len(s)
  BY <1>5, <1>9, <1>10, <1>11
<1>13. SubSeq(s, 1, wanted) = g /\ From(s, wanted) = t
  BY <1>8, <1>10, <1>11
<1>14. lens \o SubSeq(s, 1, wanted) = f
  BY <1>8, <1>13
<1>15. Carries(From(s, wanted), n - 1, K2)
  BY <1>4, <1>13
<1> QED
  BY <1>2, <1>3, <1>4, <1>5, <1>8, <1>12, <1>14, <1>15 DEF wanted

\* The lengths of the first message.
LEMMA CarriesLengths ==
  ASSUME NEW s \in Text, s # << >>, NEW n \in Nat, NEW K, Carries(s, n, K)
  PROVE  LET lens == SubSeq(s, 1, 2 * FieldBytes)
         IN  /\ n # 0 /\ 2 * FieldBytes \in 0..Len(s)
             /\ lens \in Text /\ Len(lens) = 2 * FieldBytes
             /\ From(s, 2 * FieldBytes) \in Text /\ lens \o From(s, 2 * FieldBytes) = s
             /\ Announced(lens) >= Fixed
<1>1. n # 0
  BY CarriesNone
<1> DEFINE K2 == [i \in 1..(n - 1) |-> K[i + 1]]
<1>2. \A i \in 1..(n - 1) : K2[i] = K[i + 1]
  OBVIOUS
<1> HIDE DEF K2
<1>3. Begins(s, K[1], n - 1, K2)
  BY <1>1, <1>2, CarriesFirst
<1>4. PICK f \in K[1] : \E t \in Text : Framed(f) /\ s = f \o t
  BY <1>3 DEF Begins
<1>5. PICK t \in Text : Framed(f) /\ s = f \o t
  BY <1>4
<1>6. f \in Text /\ Len(f) \in Fixed..(Width - 1) /\ Len(s) = Len(f) + Len(t) /\ Len(t) \in Nat
  <2>1. f \in Text /\ Len(f) \in Fixed..(Width - 1)
    BY <1>5 DEF Framed
  <2>2. Len(f \o t) = Len(f) + Len(t) /\ Len(t) \in Nat
    BY <2>1, Joined
  <2> QED
    BY <1>5, <2>1, <2>2
<1>7. 2 * FieldBytes \in 0..Len(s)
  BY <1>6, Constants, Powers
<1>8. << >> \in Text
  BY DEF Text
<1> DEFINE lens == SubSeq(s, 1, 2 * FieldBytes)
           g == From(s, 2 * FieldBytes)
<1>9. lens \in Text /\ Len(lens) = 2 * FieldBytes /\ g \in Text /\ lens \o g = s
  BY <1>7, <1>8, Slices, SliceOfFirst DEF Text
<1> HIDE DEF lens, g
<1>10. Carries(lens \o g, n, K)
  BY <1>9
<1>11. Announced(lens) >= Fixed
  <2>1. LET wanted == Announced(lens) - 2 * FieldBytes
        IN  /\ n # 0 /\ wanted \in 1..Len(g) /\ Announced(lens) >= Fixed
            /\ lens \o SubSeq(g, 1, wanted) \in K[1]
            /\ Framed(lens \o SubSeq(g, 1, wanted))
            /\ Carries(From(g, wanted), n - 1, K2)
    BY <1>2, <1>9, <1>10, CarriesRest
  <2> QED
    BY <2>1
<1> QED
  BY <1>1, <1>7, <1>9, <1>11 DEF lens, g

\* Nothing but no message at all is empty.
LEMMA CarriesEmpty ==
  ASSUME NEW n \in Nat, NEW K, NEW s, Carries(s, n, K), s = << >>
  PROVE  n = 0
<1> SUFFICES ASSUME n # 0 PROVE FALSE
  OBVIOUS
<1>1. << >> \in Text /\ s \in Text
  BY DEF Text
<1> DEFINE K2 == [i \in 1..(n - 1) |-> K[i + 1]]
<1>2. \A i \in 1..(n - 1) : K2[i] = K[i + 1]
  OBVIOUS
<1> HIDE DEF K2
<1>3. Begins(s, K[1], n - 1, K2)
  BY <1>2, CarriesFirst
<1>4. PICK f \in K[1] : \E t \in Text : Framed(f) /\ s = f \o t
  BY <1>3 DEF Begins
<1>5. PICK t \in Text : Framed(f) /\ s = f \o t
  BY <1>4
<1>6. Len(f \o t) = Len(f) + Len(t) /\ Len(f) \in Nat /\ Len(t) \in Nat /\ Len(f) >= Fixed
  <2>1. f \in Text /\ Len(f) \in Fixed..(Width - 1)
    BY <1>5 DEF Framed
  <2> QED
    BY <2>1, Joined, Constants, Powers
<1>7. Len(s) = 0
  OBVIOUS
<1>8. Len(f) > 0
  BY <1>6, Constants
<1>9. Len(f \o t) > 0
  <2> DEFINE a == Len(f)
             b == Len(t)
  <2>1. a \in Nat /\ b \in Nat /\ a > 0 /\ Len(f \o t) = a + b
    BY <1>6, <1>8
  <2> HIDE DEF a, b
  <2> QED
    BY <2>1
<1> QED
  BY <1>5, <1>7, <1>9

\* A full Read of the lengths.
LEMMA WholeLengths ==
  ASSUME Typed, NEW e \in Ends, ReadLengths(e), ~short', NEW n \in Nat, NEW K, Carries(inbox[e], n, K)
  PROVE  /\ ~short /\ reader'[e].pc = "rest" /\ Len(reader'[e].bytes) = 2 * FieldBytes
         /\ reader'[e].size = Announced(reader'[e].bytes) /\ n # 0
         /\ Carries(reader'[e].bytes \o inbox'[e], n, K)
         /\ \A x \in Ends \ {e} : reader'[x] = reader[x] /\ inbox'[x] = inbox[x]
<1>1. PICK r \in Sizes(Len(inbox[e]), 2 * FieldBytes) :
        LET lens == Padded(SubSeq(inbox[e], 1, r), 2 * FieldBytes)
        IN  /\ Read(e, 2 * FieldBytes, r)
            /\ reader' = [reader EXCEPT ![e] =
                 [pc |-> IF Announced(lens) < 2 * FieldBytes THEN "dead" ELSE "rest",
                  bytes |-> lens, size |-> Announced(lens)]]
  BY DEF ReadLengths
<1> DEFINE s == inbox[e]
           wanted == 2 * FieldBytes
           head == SubSeq(s, 1, wanted)
<1>2. s \in Text /\ Len(s) \in Nat /\ wanted \in Nat /\ wanted # 0
  BY LenProperties, Constants DEF Typed, Text
<1>3. r \in 0..Len(s) /\ r <= wanted
  BY <1>2, SizesType
<1>4. r > 0 /\ ~(r < wanted) /\ ~short /\ inbox' = [inbox EXCEPT ![e] = From(@, r)]
  BY <1>1, <1>2 DEF Read
<1>5. r = wanted /\ Len(s) > 0
  BY <1>2, <1>3, <1>4
<1> HIDE DEF s, wanted
<1>6. s # << >> /\ wanted = 2 * FieldBytes /\ Carries(s, n, K)
  BY <1>5 DEF s, wanted
<1>7. /\ n # 0 /\ wanted \in 0..Len(s) /\ head \in Text /\ Len(head) = wanted
      /\ From(s, wanted) \in Text /\ head \o From(s, wanted) = s /\ Announced(head) >= Fixed
  BY <1>2, <1>6, CarriesLengths
<1>8. Padded(head, wanted) = head
  BY <1>2, <1>7, PaddedFull DEF Text
<1>9. Padded(SubSeq(inbox[e], 1, r), 2 * FieldBytes) = head
  BY <1>5, <1>8 DEF s, wanted
<1> HIDE DEF head
<1>10. ~(Announced(head) < 2 * FieldBytes)
  <2>1. Announced(head) \in 0..(Width - 1)
    BY <1>6, <1>7, AnnouncedType
  <2> QED
    BY <1>7, <2>1, Constants, Powers
<1>11. reader' = [reader EXCEPT ![e] = [pc |-> "rest", bytes |-> head, size |-> Announced(head)]]
  BY <1>1, <1>9, <1>10
<1>12. reader'[e].pc = "rest" /\ reader'[e].bytes = head /\ reader'[e].size = Announced(head)
  BY <1>11 DEF Typed
<1>13. inbox'[e] = From(s, wanted)
  BY <1>4, <1>5 DEF Typed, s
<1>14. \A x \in Ends \ {e} : reader'[x] = reader[x] /\ inbox'[x] = inbox[x]
  BY <1>4, <1>11 DEF Typed
<1>15. Carries(reader'[e].bytes \o inbox'[e], n, K)
  BY <1>6, <1>7, <1>12, <1>13
<1> QED
  BY <1>4, <1>6, <1>7, <1>12, <1>14, <1>15

\* A full Read of the rest.
LEMMA WholeRest ==
  ASSUME Typed, NEW e \in Ends, ReadRest(e), ~short', NEW n \in Nat, NEW K,
         Len(reader[e].bytes) = 2 * FieldBytes, reader[e].size = Announced(reader[e].bytes),
         Carries(reader[e].bytes \o inbox[e], n, K), NEW K2, \A i \in 1..(n - 1) : K2[i] = K[i + 1]
  PROVE  /\ ~short /\ n # 0 /\ reader'[e].pc = "decode"
         /\ reader'[e].bytes \in K[1] /\ Framed(reader'[e].bytes)
         /\ Carries(inbox'[e], n - 1, K2)
         /\ \A x \in Ends \ {e} : reader'[x] = reader[x] /\ inbox'[x] = inbox[x]
<1> DEFINE s == inbox[e]
           lens == reader[e].bytes
           wanted == reader[e].size - 2 * FieldBytes
           rest == SubSeq(s, 1, wanted)
<1>1. PICK r \in Sizes(Len(inbox[e]), wanted) :
        /\ Read(e, wanted, r)
        /\ reader' = [reader EXCEPT ![e] =
             [pc |-> "decode", bytes |-> @.bytes \o Padded(SubSeq(inbox[e], 1, r), wanted),
              size |-> @.size]]
  BY DEF ReadRest
<1>2. s \in Text /\ Len(s) \in Nat /\ lens \in Text
  BY LenProperties DEF Typed, Text, Reader
<1>3. /\ n # 0 /\ wanted \in 1..Len(s) /\ lens \o SubSeq(s, 1, wanted) \in K[1]
      /\ Framed(lens \o SubSeq(s, 1, wanted))
      /\ Carries(From(s, wanted), n - 1, K2)
  <2>1. reader[e].size = Announced(lens) /\ Len(lens) = 2 * FieldBytes /\ Carries(lens \o s, n, K)
    OBVIOUS
  <2> HIDE DEF lens, s
  <2>2. LET w == Announced(lens) - 2 * FieldBytes
        IN  /\ n # 0 /\ w \in 1..Len(s) /\ Announced(lens) >= Fixed
            /\ lens \o SubSeq(s, 1, w) \in K[1]
            /\ Framed(lens \o SubSeq(s, 1, w))
            /\ Carries(From(s, w), n - 1, K2)
    BY <1>2, <2>1, CarriesRest
  <2> QED
    BY <2>1, <2>2
<1>4. r \in 0..Len(s) /\ r <= wanted
  <2>1. wanted \in Nat
    BY <1>2, <1>3
  <2> HIDE DEF wanted
  <2> QED
    BY <1>2, <2>1, SizesType
<1>5. ~(r < wanted) /\ ~short /\ inbox' = [inbox EXCEPT ![e] = From(@, r)]
  BY <1>1 DEF Read
<1>6. r = wanted
  BY <1>2, <1>3, <1>4, <1>5
<1>7. Padded(SubSeq(inbox[e], 1, r), wanted) = rest
  <2>1. wanted \in 0..Len(s) /\ wanted \in Nat
    BY <1>2, <1>3
  <2> HIDE DEF wanted, s
  <2>2. rest \in Text /\ Len(rest) = wanted
    BY <1>2, <2>1, Slices DEF Text
  <2>3. Padded(rest, wanted) = rest
    BY <2>1, <2>2, PaddedFull DEF Text
  <2> QED
    BY <1>6, <2>3 DEF s
<1> HIDE DEF rest
<1>8. reader' = [reader EXCEPT ![e] = [pc |-> "decode", bytes |-> lens \o rest, size |-> reader[e].size]]
  BY <1>1, <1>7
<1> HIDE DEF lens
<1>9. reader'[e].pc = "decode" /\ reader'[e].bytes = lens \o rest
  BY <1>8 DEF Typed
<1>10. inbox'[e] = From(s, wanted)
  BY <1>5, <1>6 DEF Typed
<1>11. \A x \in Ends \ {e} : reader'[x] = reader[x] /\ inbox'[x] = inbox[x]
  BY <1>5, <1>8 DEF Typed
<1>12. reader'[e].bytes \in K[1] /\ Framed(reader'[e].bytes)
  BY <1>3, <1>9 DEF rest
<1>13. Carries(inbox'[e], n - 1, K2)
  BY <1>3, <1>10
<1> QED
  BY <1>3, <1>5, <1>9, <1>11, <1>12, <1>13

\* The frames of a request, one for each order in which its metadata may be written.
ReqFrames(req) ==
  {EncodeReq(req, order).bytes :
     order \in {o \in SetToSeqs(DOMAIN req.meta) : ~EncodeReq(req, o).panics}}

\* Frames of requests, without the first k.
Due(reqs, k) == [i \in 1..(Len(reqs) - k) |-> ReqFrames(reqs[i + k])]

\* The requests that are written and not answered: the one that does not fit into
\* its frame has been the last.
Unanswered == IF reader["client"].pc = "dead" THEN Len(sent) - 1 ELSE Len(sent)

\* What the server may make of a request.
Heard(req) == {DecodeReq(f) : f \in {b \in ReqFrames(req) : ~DecodeReqPanics(b)}}
Kills(req) == \E f \in ReqFrames(req) : DecodeReqPanics(f) \/ ServePanics(DecodeReq(f))

\* The server reads the requests that were written, one after the other.
RequestsWhole ==
  ~short =>
    /\ Unanswered \in Nat
    /\ reader["client"].pc = "dead" => ~ReqFits(Last(sent))
    /\ reader["server"].pc = "length" => Carries(inbox["server"], Unanswered, Due(sent, 0))
    /\ reader["server"].pc = "rest" =>
         /\ Len(reader["server"].bytes) = 2 * FieldBytes
         /\ reader["server"].size = Announced(reader["server"].bytes)
         /\ Carries(reader["server"].bytes \o inbox["server"], Unanswered, Due(sent, 0))
    /\ reader["server"].pc \in {"decode", "serve"} =>
         Unanswered # 0 /\ Carries(inbox["server"], Unanswered - 1, Due(sent, 1))
    /\ reader["server"].pc = "decode" => reader["server"].bytes \in ReqFrames(sent[1])
    /\ reader["server"].pc = "serve" => heard["server"] \in Heard(sent[1])
    /\ reader["server"].pc = "dead" => ~RespFits(served) \/ (sent # << >> /\ Kills(sent[1]))

\* Any answer.
AnyAnswer == [i \in Nat |-> {f \in Text : Framed(f) /\ HeadOf(f) \in Fixed..Len(f)}]

\* m answers are on their way to the client.
Underway(m) ==
  /\ reader["client"].pc # "rest" => Carries(inbox["client"], m, AnyAnswer)
  /\ reader["client"].pc = "rest" =>
       /\ Len(reader["client"].bytes) = 2 * FieldBytes
       /\ reader["client"].size = Announced(reader["client"].bytes)
       /\ Carries(reader["client"].bytes \o inbox["client"], m, AnyAnswer)
  /\ reader["client"].pc = "decode" => reader["client"].bytes \in AnyAnswer[1]
  /\ reader["client"].pc \in {"length", "rest"} => m + Len(sent) > 0

AnswersWhole == ~short => \E m \in Nat : Underway(m)

\* A message that holds a text and data can be read by the client.
LEMMA HoldsAnswer ==
  ASSUME NEW bs, NEW names \in Text, NEW data, NEW c, NEW z, Holds(bs, names, data, c, z)
  PROVE  Framed(bs) /\ bs \in AnyAnswer[1] /\ \A i \in Nat : AnyAnswer[i] = AnyAnswer[1]
<1>1. Framed(bs) /\ HeadOf(bs) = Fixed + Len(names) /\ Fixed + Len(names) <= Len(bs)
  BY DEF Holds
<1>2. bs \in Text /\ Len(names) \in Nat /\ Len(bs) \in Nat
  BY <1>1, LenProperties DEF Framed, Text
<1>3. HeadOf(bs) \in Fixed..Len(bs)
  BY <1>1, <1>2, Constants
<1> QED
  BY <1>1, <1>2, <1>3 DEF AnyAnswer

\* The frames of the requests that are sent.
LEMMA ReqFramesFramed ==
  ASSUME NEW req \in Calls, NEW f \in ReqFrames(req)
  PROVE  Framed(f) /\ f \in Text
<1>1. IsRequest(req)
  <2>1. \A r \in Calls : IsRequest(r)
    BY WireAssumption
  <2> QED
    BY <2>1
<1>2. PICK order \in SetToSeqs(DOMAIN req.meta) :
        f = EncodeReq(req, order).bytes /\ ~EncodeReq(req, order).panics
  BY DEF ReqFrames
<1>3. Holds(f, Names(req, order), req.data, req.compresser, req.serializer)
  BY <1>1, <1>2, RequestRead
<1> QED
  BY <1>3 DEF Holds, Framed

\* What the answer to the first of some requests leaves.
LEMMA LastFirst ==
  ASSUME NEW S, NEW s \in Seq(S), s # << >>
  PROVE  /\ Tail(s) \in Seq(S) /\ Len(Tail(s)) = Len(s) - 1 /\ Len(s) \in Nat \ {0}
         /\ \A i \in 1..(Len(s) - 1) : Tail(s)[i] = s[i + 1]
         /\ Len(s) # 1 => Last(Tail(s)) = Last(s)
         /\ s[1] \in S /\ Head(s) = s[1]
<1>1. /\ Tail(s) \in Seq(S) /\ Len(Tail(s)) = Len(s) - 1 /\ Len(s) \in Nat \ {0}
      /\ \A i \in 1..Len(Tail(s)) : Tail(s)[i] = s[i + 1]
  <2>1. Len(s) \in Nat /\ Len(s) # 0
    BY LenProperties, EmptySeq
  <2> QED
    BY <2>1, HeadTailProperties
<1>2. s[1] \in S /\ Head(s) = s[1]
  BY <1>1, ElementOfSeq
<1>3. ASSUME Len(s) # 1 PROVE Last(Tail(s)) = Last(s)
  <2>1. Len(Tail(s)) \in 1..Len(Tail(s)) /\ Len(Tail(s)) + 1 = Len(s)
    BY <1>1, <1>3
  <2> QED
    BY <1>1, <2>1 DEF Last
<1> QED
  BY <1>1, <1>2, <1>3

-----------------------------------------------------------------------------
(* The requests are read as they were written *)

\* The frames that are due are those of the requests that are sent.
LEMMA DueTypes ==
  ASSUME NEW reqs \in Seq(Calls)
  PROVE  /\ Len(reqs) \in Nat
         /\ \A i \in 1..Len(reqs) : Due(reqs, 0)[i] = ReqFrames(reqs[i]) /\ reqs[i] \in Calls
         /\ \A i \in 1..(Len(reqs) - 1) : Due(reqs, 1)[i] = ReqFrames(reqs[i + 1])
<1>1. Len(reqs) \in Nat /\ \A i \in 1..Len(reqs) : reqs[i] \in Calls
  BY LenProperties, ElementOfSeq
<1>2. Len(reqs) - 0 = Len(reqs) /\ \A i \in 1..Len(reqs) : i + 0 = i
  BY <1>1
<1>3. \A i \in 1..Len(reqs) : Due(reqs, 0)[i] = ReqFrames(reqs[i])
  BY <1>2 DEF Due
<1>4. \A i \in 1..(Len(reqs) - 1) : Due(reqs, 1)[i] = ReqFrames(reqs[i + 1])
  BY DEF Due
<1> QED
  BY <1>1, <1>3, <1>4

\* All that is sent is due, but for a request that did not fit.
LEMMA UnansweredType ==
  ASSUME Typed, Unanswered \in Nat
  PROVE  /\ Len(sent) \in Nat /\ Unanswered <= Len(sent) /\ Len(sent) - 1 <= Unanswered
         /\ Unanswered # 0 => sent # << >>
         /\ reader["client"].pc = "dead" <=> Unanswered = Len(sent) - 1
<1>1. Len(sent) \in Nat /\ (Len(sent) # 0 => sent # << >>)
  BY LenProperties DEF Typed
<1> QED
  BY <1>1 DEF Unanswered

\* Steps that the server has no part in.
LEMMA ServerSame ==
  ASSUME Typed, RequestsWhole, ~short, reader'["server"] = reader["server"],
         inbox'["server"] = inbox["server"], heard'["server"] = heard["server"],
         UNCHANGED <<sent, served>>,
         reader'["client"].pc = "dead" <=> reader["client"].pc = "dead"
  PROVE  RequestsWhole'
<1>1. Unanswered' = Unanswered
  BY DEF Unanswered
<1>2. Last(sent)' = Last(sent) /\ RespFits(served)' = RespFits(served)
  BY DEF RespFits
<1> QED
  BY <1>1, <1>2 DEF RequestsWhole

\* No request is under way at first, and each action keeps them in order.
LEMMA RequestsInit == Init => RequestsWhole
<1> SUFFICES ASSUME Init PROVE RequestsWhole
  OBVIOUS
<1>1. reader["server"].pc = "length" /\ reader["client"].pc = "idle" /\ sent = << >> /\ inbox["server"] = << >>
  BY DEF Init, Ready, Ends
<1>2. Unanswered = 0
  BY <1>1 DEF Unanswered
<1>3. Carries(<< >>, 0, Due(sent, 0))
  BY CarriesNone
<1> QED
  BY <1>1, <1>2, <1>3 DEF RequestsWhole

LEMMA RequestsReadLengths ==
  ASSUME Typed, RequestsWhole, AnswersWhole, NEW e \in Ends, ReadLengths(e), ~short'
  PROVE  RequestsWhole'
<1>1. UNCHANGED <<heard, sent, served>> /\ reader[e].pc = "length"
  BY DEF ReadLengths
<1>2. CASE e = "server"
  <2>1. ~short
    BY DEF ReadLengths, Read
  <2>2. Carries(inbox[e], Unanswered, Due(sent, 0)) /\ Unanswered \in Nat
    BY <1>1, <1>2, <2>1 DEF RequestsWhole
  <2>3. /\ reader'[e].pc = "rest" /\ Len(reader'[e].bytes) = 2 * FieldBytes
        /\ reader'[e].size = Announced(reader'[e].bytes)
        /\ Carries(reader'[e].bytes \o inbox'[e], Unanswered, Due(sent, 0))
        /\ \A x \in Ends \ {e} : reader'[x] = reader[x] /\ inbox'[x] = inbox[x]
    BY <2>2, WholeLengths
  <2>4. reader'["client"] = reader["client"]
    BY <1>2, <2>3 DEF Ends
  <2>5. Unanswered' = Unanswered
    BY <1>1, <2>4 DEF Unanswered
  <2> QED
    BY <1>1, <1>2, <2>1, <2>3, <2>4, <2>5 DEF RequestsWhole
<1>3. CASE e = "client"
  <2>1. ~short
    BY DEF ReadLengths, Read
  <2>2. PICK m \in Nat : Underway(m)
    BY <2>1 DEF AnswersWhole
  <2>3. Carries(inbox[e], m, AnyAnswer)
    BY <1>1, <1>3, <2>2 DEF Underway
  <2>4. /\ reader'[e].pc = "rest"
        /\ \A x \in Ends \ {e} : reader'[x] = reader[x] /\ inbox'[x] = inbox[x]
    BY <2>3, WholeLengths
  <2>5. reader'["server"] = reader["server"] /\ inbox'["server"] = inbox["server"]
    BY <1>3, <2>4 DEF Ends
  <2> QED
    BY <1>1, <1>3, <2>1, <2>4, <2>5, ServerSame
<1> QED
  BY <1>2, <1>3 DEF Ends

LEMMA RequestsReadRest ==
  ASSUME Typed, RequestsWhole, AnswersWhole, NEW e \in Ends, ReadRest(e), ~short'
  PROVE  RequestsWhole'
<1>1. UNCHANGED <<heard, sent, served>> /\ reader[e].pc = "rest" /\ ~short
  BY DEF ReadRest, Read
<1>2. CASE e = "server"
  <2>1. /\ Len(reader[e].bytes) = 2 * FieldBytes /\ reader[e].size = Announced(reader[e].bytes)
        /\ Carries(reader[e].bytes \o inbox[e], Unanswered, Due(sent, 0)) /\ Unanswered \in Nat
    BY <1>1, <1>2 DEF RequestsWhole
  <2>2. \A i \in 1..(Unanswered - 1) : Due(sent, 1)[i] = Due(sent, 0)[i + 1]
    <3>1. Len(sent) \in Nat /\ Unanswered <= Len(sent)
      BY <2>1, UnansweredType
    <3>2. \A i \in 1..(Unanswered - 1) : i \in 1..(Len(sent) - 1) /\ i + 1 \in 1..Len(sent)
      BY <2>1, <3>1
    <3> QED
      BY <3>2, DueTypes DEF Typed
  <2>3. /\ Unanswered # 0 /\ reader'[e].pc = "decode"
        /\ reader'[e].bytes \in Due(sent, 0)[1]
        /\ Carries(inbox'[e], Unanswered - 1, Due(sent, 1))
        /\ \A x \in Ends \ {e} : reader'[x] = reader[x] /\ inbox'[x] = inbox[x]
    BY <2>1, <2>2, WholeRest
  <2>4. reader'["client"] = reader["client"]
    BY <1>2, <2>3 DEF Ends
  <2>5. Unanswered' = Unanswered
    BY <1>1, <2>4 DEF Unanswered
  <2>6. reader'[e].bytes \in ReqFrames(sent[1])
    <3>1. 1 \in 1..Len(sent)
      BY <2>1, <2>3, UnansweredType
    <3> QED
      BY <2>3, <3>1, DueTypes DEF Typed
  <2> QED
    BY <1>1, <1>2, <2>3, <2>4, <2>5, <2>6 DEF RequestsWhole
<1>3. CASE e = "client"
  <2>1. PICK m \in Nat : Underway(m)
    BY <1>1 DEF AnswersWhole
  <2>2. /\ Len(reader[e].bytes) = 2 * FieldBytes /\ reader[e].size = Announced(reader[e].bytes)
        /\ Carries(reader[e].bytes \o inbox[e], m, AnyAnswer)
    BY <1>1, <1>3, <2>1 DEF Underway
  <2>3. \A i \in 1..(m - 1) : AnyAnswer[i] = AnyAnswer[i + 1]
    BY DEF AnyAnswer
  <2>4. /\ reader'[e].pc = "decode"
        /\ \A x \in Ends \ {e} : reader'[x] = reader[x] /\ inbox'[x] = inbox[x]
    BY <2>2, <2>3, WholeRest
  <2>5. reader'["server"] = reader["server"] /\ inbox'["server"] = inbox["server"]
    BY <1>3, <2>4 DEF Ends
  <2> QED
    BY <1>1, <1>3, <2>4, <2>5, ServerSame
<1> QED
  BY <1>2, <1>3 DEF Ends

\* The client can read the answer it has.
LEMMA AnswerReadable ==
  ASSUME NEW f \in AnyAnswer[1]
  PROVE  ~DecodeRespPanics(f)
<1>1. f \in Text /\ Framed(f) /\ HeadOf(f) \in Fixed..Len(f)
  BY DEF AnyAnswer
<1>2. Len(f) \in Nat
  BY <1>1, LenProperties DEF Text
<1> QED
  BY <1>1, <1>2, Constants DEF DecodeRespPanics

\* The client is done with an answer, or with the connection.
LEMMA RequestsReceive ==
  ASSUME Typed, RequestsWhole, AnswersWhole, Receive \/ ConnectionLost, ~short'
  PROVE  RequestsWhole'
<1>1. UNCHANGED <<inbox, sent, served, short>> /\ reader["client"].pc # "dead"
  BY DEF Receive, ConnectionLost
<1>2. reader' = [reader EXCEPT !["client"] = Ready("idle")] /\ heard'["server"] = heard["server"]
  <2>1. CASE Receive
    <3>1. PICK m \in Nat : Underway(m)
      BY <1>1 DEF AnswersWhole
    <3>2. ~DecodeRespPanics(reader["client"].bytes)
      BY <2>1, <3>1, AnswerReadable DEF Underway, Receive
    <3>3. TellCaller(DecodeResp(reader["client"].bytes))
      BY <2>1, <3>2 DEF Receive
    <3> DEFINE resp == DecodeResp(reader["client"].bytes)
    <3>4. TellCaller(resp)
      BY <3>3
    <3> HIDE DEF resp
    <3>5. heard' = [heard EXCEPT !["client"] = resp]
      BY <3>4 DEF TellCaller
    <3>6. reader' = [reader EXCEPT !["client"] = Ready("idle")]
      BY <3>4 DEF TellCaller, Told
    <3> QED
      BY <3>5, <3>6 DEF Typed, Ends
  <2>2. CASE ConnectionLost
    BY <2>2 DEF ConnectionLost, Told
  <2> QED
    BY <2>1, <2>2
<1>3. reader'["server"] = reader["server"] /\ reader'["client"].pc = "idle"
  BY <1>2 DEF Typed, Ends, Ready
<1> QED
  BY <1>1, <1>2, <1>3, ServerSame

\* One more request, written or not.
LEMMA DueMore ==
  ASSUME NEW reqs \in Seq(Calls), NEW req \in Calls
  PROVE  LET more == Append(reqs, req)
         IN  /\ Len(more) = Len(reqs) + 1 /\ Last(more) = req
             /\ \A i \in 1..Len(reqs) : Due(more, 0)[i] = Due(reqs, 0)[i]
             /\ Due(more, 0)[Len(reqs) + 1] = ReqFrames(req)
             /\ \A i \in 1..(Len(reqs) - 1) : Due(more, 1)[i] = Due(reqs, 1)[i]
             /\ Len(reqs) # 0 => Due(more, 1)[(Len(reqs) - 1) + 1] = ReqFrames(req) /\ more[1] = reqs[1]
<1> DEFINE more == Append(reqs, req)
<1>1. /\ more \in Seq(Calls) /\ Len(more) = Len(reqs) + 1 /\ Len(reqs) \in Nat
      /\ \A i \in 1..Len(reqs) : more[i] = reqs[i]
      /\ more[Len(reqs) + 1] = req
  BY AppendProperties, LenProperties
<1> HIDE DEF more
<1>2. /\ \A i \in 1..Len(more) : Due(more, 0)[i] = ReqFrames(more[i])
      /\ \A i \in 1..(Len(more) - 1) : Due(more, 1)[i] = ReqFrames(more[i + 1])
  BY <1>1, DueTypes
<1>3. /\ \A i \in 1..Len(reqs) : Due(reqs, 0)[i] = ReqFrames(reqs[i])
      /\ \A i \in 1..(Len(reqs) - 1) : Due(reqs, 1)[i] = ReqFrames(reqs[i + 1])
  BY DueTypes
<1>4. Last(more) = req
  BY <1>1 DEF Last
<1>5. \A i \in 1..Len(reqs) : Due(more, 0)[i] = Due(reqs, 0)[i]
  <2>1. \A i \in 1..Len(reqs) : i \in 1..Len(more)
    BY <1>1
  <2> QED
    BY <1>1, <1>2, <1>3, <2>1
<1>6. Due(more, 0)[Len(reqs) + 1] = ReqFrames(req)
  <2>1. Len(reqs) + 1 \in 1..Len(more)
    BY <1>1
  <2> QED
    BY <1>1, <1>2, <2>1
<1>7. \A i \in 1..(Len(reqs) - 1) : Due(more, 1)[i] = Due(reqs, 1)[i]
  <2>1. \A i \in 1..(Len(reqs) - 1) : i \in 1..(Len(more) - 1) /\ i + 1 \in 1..Len(reqs)
    BY <1>1
  <2> QED
    BY <1>1, <1>2, <1>3, <2>1
<1>8. ASSUME Len(reqs) # 0 PROVE Due(more, 1)[(Len(reqs) - 1) + 1] = ReqFrames(req) /\ more[1] = reqs[1]
  <2>1. Len(reqs) \in 1..(Len(more) - 1) /\ (Len(reqs) - 1) + 1 = Len(reqs) /\ 1 \in 1..Len(reqs)
    BY <1>1, <1>8
  <2>2. Due(more, 1)[Len(reqs)] = ReqFrames(more[Len(reqs) + 1])
    BY <1>2, <2>1
  <2> QED
    BY <1>1, <2>1, <2>2
<1> QED
  BY <1>1, <1>4, <1>5, <1>6, <1>7, <1>8 DEF more

\* A request is written behind those that are under way.
LEMMA DueWritten ==
  ASSUME NEW reqs \in Seq(Calls), NEW req \in Calls, NEW f \in ReqFrames(req), NEW s, NEW k \in {0, 1},
         k <= Len(reqs), Carries(s, Len(reqs) - k, Due(reqs, k))
  PROVE  Carries(s \o f, Len(Append(reqs, req)) - k, Due(Append(reqs, req), k))
<1> DEFINE more == Append(reqs, req)
           n == Len(reqs) - k
<1>1. /\ Len(more) = Len(reqs) + 1 /\ Len(reqs) \in Nat
      /\ \A i \in 1..Len(reqs) : Due(more, 0)[i] = Due(reqs, 0)[i]
      /\ Due(more, 0)[Len(reqs) + 1] = ReqFrames(req)
      /\ \A i \in 1..(Len(reqs) - 1) : Due(more, 1)[i] = Due(reqs, 1)[i]
      /\ Len(reqs) # 0 => Due(more, 1)[(Len(reqs) - 1) + 1] = ReqFrames(req)
  BY DueMore, LenProperties
<1> HIDE DEF more
<1>2. n \in Nat /\ n + 1 = Len(more) - k
  BY <1>1
<1>3. (\A i \in 1..n : Due(more, k)[i] = Due(reqs, k)[i]) /\ Due(more, k)[n + 1] = ReqFrames(req)
  <2>1. CASE k = 0
    <3>1. n = Len(reqs)
      BY <1>1, <2>1
    <3> QED
      BY <1>1, <2>1, <3>1
  <2>2. CASE k = 1
    <3>1. n = Len(reqs) - 1 /\ Len(reqs) # 0
      BY <1>1, <2>2
    <3> QED
      BY <1>1, <2>2, <3>1
  <2> QED
    BY <2>1, <2>2
<1>4. Framed(f) /\ f \in Due(more, k)[n + 1]
  BY <1>3, ReqFramesFramed
<1>5. Carries(s, n, Due(reqs, k))
  OBVIOUS
<1> HIDE DEF n
<1>6. Carries(s \o f, n + 1, Due(more, k))
  BY <1>2, <1>3, <1>4, <1>5, CarriesMore
<1> QED
  BY <1>2, <1>6 DEF more

\* A request that does not fit leaves those that are under way.
LEMMA DueUnwritten ==
  ASSUME NEW reqs \in Seq(Calls), NEW req \in Calls, NEW s, NEW k \in {0, 1},
         k <= Len(reqs), Carries(s, Len(reqs) - k, Due(reqs, k))
  PROVE  Carries(s, Len(reqs) - k, Due(Append(reqs, req), k))
<1> DEFINE more == Append(reqs, req)
           n == Len(reqs) - k
<1>1. /\ Len(reqs) \in Nat
      /\ \A i \in 1..Len(reqs) : Due(more, 0)[i] = Due(reqs, 0)[i]
      /\ \A i \in 1..(Len(reqs) - 1) : Due(more, 1)[i] = Due(reqs, 1)[i]
  BY DueMore, LenProperties
<1> HIDE DEF more
<1>2. n \in Nat
  BY <1>1
<1>3. \A i \in 1..n : Due(more, k)[i] = Due(reqs, k)[i]
  <2>1. CASE k = 0
    <3>1. n = Len(reqs)
      BY <1>1, <2>1
    <3> QED
      BY <1>1, <2>1, <3>1
  <2>2. CASE k = 1
    BY <1>1, <2>2
  <2> QED
    BY <2>1, <2>2
<1>4. Carries(s, n, Due(reqs, k))
  OBVIOUS
<1> HIDE DEF n
<1>5. Carries(s, n, Due(more, k))
  BY <1>2, <1>3, <1>4, CarriesSame
<1> QED
  BY <1>5 DEF more, n

LEMMA RequestsCall ==
  ASSUME Typed, RequestsWhole, NEW req \in Calls, Call(req), ~short'
  PROVE  RequestsWhole'
<1>1. PICK order \in SetToSeqs(DOMAIN req.meta) :
        LET f == EncodeReq(req, order)
        IN  /\ IF f.panics THEN Dies("client")
               ELSE reader' = [reader EXCEPT !.client = Ready(IF IsOneway(req) THEN "idle" ELSE "length")]
            /\ inbox' = IF f.panics THEN inbox ELSE [inbox EXCEPT !.server = @ \o f.bytes]
  BY DEF Call
<1> DEFINE f == EncodeReq(req, order)
           b == f.bytes
           more == Append(sent, req)
<1>2. /\ sent' = more /\ UNCHANGED <<heard, served, short>> /\ ~short
      /\ reader["client"].pc = "idle" /\ reader["server"].pc # "dead"
  BY DEF Call
<1>3. IsRequest(req) /\ sent \in Seq(Calls) /\ Len(sent) \in Nat
  <2>1. \A r \in Calls : IsRequest(r)
    BY WireAssumption
  <2> QED
    BY <2>1, LenProperties DEF Typed
<1>4. Unanswered = Len(sent)
  BY <1>2 DEF Unanswered
<1>5. Len(more) = Len(sent) + 1 /\ Last(more) = req /\ (Len(sent) # 0 => more[1] = sent[1])
  BY <1>3, DueMore
<1> HIDE DEF more
<1>6. CASE ~f.panics
  <2>1. b \in ReqFrames(req) /\ b \in Text
    BY <1>3, <1>6, RequestRead DEF ReqFrames
  <2> DEFINE pc == IF IsOneway(req) THEN "idle" ELSE "length"
  <2>2. reader' = [reader EXCEPT !["client"] = Ready(pc)] /\ inbox' = [inbox EXCEPT !["server"] = @ \o b]
    BY <1>1, <1>6
  <2>3. pc \in {"idle", "length"}
    OBVIOUS
  <2> HIDE DEF pc, f, b
  <2>4. /\ reader'["server"] = reader["server"] /\ reader'["client"].pc # "dead"
        /\ inbox'["server"] = inbox["server"] \o b
    BY <2>2, <2>3 DEF Typed, Ends, Ready
  <2>5. Unanswered' = Len(more) /\ Unanswered' \in Nat
    BY <1>2, <1>3, <1>5, <2>4 DEF Unanswered
  <2>6. CASE reader["server"].pc = "length"
    <3>1. Carries(inbox["server"], Len(sent) - 0, Due(sent, 0)) /\ 0 <= Len(sent)
      BY <1>2, <1>3, <1>4, <2>6 DEF RequestsWhole
    <3>2. Carries(inbox["server"] \o b, Len(more) - 0, Due(more, 0))
      BY <1>3, <2>1, <3>1, DueWritten DEF more
    <3>3. Len(more) - 0 = Len(more)
      BY <1>3, <1>5
    <3>4. Carries(inbox'["server"], Unanswered', Due(sent', 0))
      BY <1>2, <2>4, <2>5, <3>2, <3>3
    <3> QED
      BY <2>4, <2>5, <2>6, <3>4 DEF RequestsWhole
  <2>7. CASE reader["server"].pc = "rest"
    <3> DEFINE lens == reader["server"].bytes
    <3>1. /\ Len(lens) = 2 * FieldBytes /\ reader["server"].size = Announced(lens)
          /\ Carries(lens \o inbox["server"], Len(sent) - 0, Due(sent, 0)) /\ 0 <= Len(sent)
      BY <1>2, <1>3, <1>4, <2>7 DEF RequestsWhole
    <3>2. lens \in Text /\ inbox["server"] \in Text
      BY DEF Typed, Ends, Reader
    <3> HIDE DEF lens
    <3>3. Carries((lens \o inbox["server"]) \o b, Len(more) - 0, Due(more, 0))
      BY <1>3, <2>1, <3>1, DueWritten DEF more
    <3>4. Len(more) - 0 = Len(more)
      BY <1>3, <1>5
    <3>5. (lens \o inbox["server"]) \o b = lens \o inbox'["server"]
      <4>1. (lens \o inbox["server"]) \o b = lens \o (inbox["server"] \o b)
        BY <2>1, <3>2, Associates, Zenon
      <4> QED
        BY <2>4, <4>1
    <3>6. Carries(lens \o inbox'["server"], Unanswered', Due(sent', 0))
      BY <1>2, <2>5, <3>3, <3>4, <3>5
    <3> QED
      BY <2>4, <2>5, <2>7, <3>1, <3>6 DEF RequestsWhole, lens
  <2>8. CASE reader["server"].pc \in {"decode", "serve"}
    <3>1. Len(sent) # 0 /\ Carries(inbox["server"], Len(sent) - 1, Due(sent, 1))
      BY <1>2, <1>4, <2>8 DEF RequestsWhole
    <3>2. 1 <= Len(sent)
      BY <1>3, <3>1
    <3>3. Carries(inbox["server"] \o b, Len(more) - 1, Due(more, 1))
      BY <1>3, <2>1, <3>1, <3>2, DueWritten DEF more
    <3>4. Carries(inbox'["server"], Unanswered' - 1, Due(sent', 1)) /\ Unanswered' # 0
      BY <1>2, <1>3, <1>5, <2>4, <2>5, <3>3
    <3>5. sent'[1] = sent[1]
      BY <1>2, <1>5, <3>1
    <3>6. /\ reader["server"].pc = "decode" => reader["server"].bytes \in ReqFrames(sent[1])
          /\ reader["server"].pc = "serve" => heard["server"] \in Heard(sent[1])
      BY <1>2 DEF RequestsWhole
    <3> QED
      BY <1>2, <2>4, <2>5, <2>8, <3>4, <3>5, <3>6 DEF RequestsWhole
  <2> QED
    BY <1>2, <2>6, <2>7, <2>8 DEF Typed, Ends, Reader, States
<1>7. CASE f.panics
  <2>1. ~ReqFits(req)
    BY <1>3, <1>7, RequestRead
  <2>2. reader' = [reader EXCEPT !["client"] = Ready("dead")] /\ inbox' = inbox
    BY <1>1, <1>7 DEF Dies
  <2> HIDE DEF f, b
  <2>3. reader'["server"] = reader["server"] /\ reader'["client"].pc = "dead"
    BY <2>2 DEF Typed, Ends, Ready
  <2>4. Unanswered' = Len(sent) /\ Unanswered' \in Nat
    BY <1>2, <1>3, <1>5, <2>3 DEF Unanswered
  <2>5. ~ReqFits(Last(sent))'
    BY <1>2, <1>5, <2>1 DEF ReqFits
  <2>6. ASSUME NEW s, NEW k \in {0, 1}, k <= Len(sent), Carries(s, Len(sent) - k, Due(sent, k))
        PROVE  Carries(s, Unanswered' - k, Due(sent', k))
    BY <1>2, <1>3, <2>4, <2>6, DueUnwritten DEF more
  <2>7. Len(sent) - 0 = Len(sent) /\ Unanswered' - 0 = Unanswered' /\ 0 <= Len(sent)
    BY <1>3, <2>4
  <2>8. CASE reader["server"].pc = "length"
    <3>1. Carries(inbox["server"], Len(sent) - 0, Due(sent, 0))
      BY <1>2, <1>4, <2>7, <2>8 DEF RequestsWhole
    <3>2. Carries(inbox["server"], Unanswered' - 0, Due(sent', 0))
      BY <2>6, <2>7, <3>1
    <3> QED
      BY <2>2, <2>3, <2>4, <2>5, <2>7, <2>8, <3>2 DEF RequestsWhole
  <2>9. CASE reader["server"].pc = "rest"
    <3>1. /\ Len(reader["server"].bytes) = 2 * FieldBytes
          /\ reader["server"].size = Announced(reader["server"].bytes)
          /\ Carries(reader["server"].bytes \o inbox["server"], Len(sent) - 0, Due(sent, 0))
      BY <1>2, <1>4, <2>7, <2>9 DEF RequestsWhole
    <3>2. Carries(reader["server"].bytes \o inbox["server"], Unanswered' - 0, Due(sent', 0))
      BY <2>6, <2>7, <3>1
    <3> QED
      BY <2>2, <2>3, <2>4, <2>5, <2>7, <2>9, <3>1, <3>2 DEF RequestsWhole
  <2>10. CASE reader["server"].pc \in {"decode", "serve"}
    <3>1. Len(sent) # 0 /\ Carries(inbox["server"], Len(sent) - 1, Due(sent, 1))
      BY <1>2, <1>4, <2>10 DEF RequestsWhole
    <3>2. 1 <= Len(sent)
      BY <1>3, <3>1
    <3>3. Carries(inbox["server"], Unanswered' - 1, Due(sent', 1))
      BY <2>6, <3>1, <3>2
    <3>4. sent'[1] = sent[1]
      BY <1>2, <1>5, <3>1
    <3>5. /\ reader["server"].pc = "decode" => reader["server"].bytes \in ReqFrames(sent[1])
          /\ reader["server"].pc = "serve" => heard["server"] \in Heard(sent[1])
      BY <1>2 DEF RequestsWhole
    <3> QED
      BY <1>2, <2>2, <2>3, <2>4, <2>5, <2>10, <3>1, <3>3, <3>4, <3>5 DEF RequestsWhole
  <2> QED
    BY <1>2, <2>8, <2>9, <2>10 DEF Typed, Ends, Reader, States
<1>8. f.panics \in BOOLEAN
  BY <1>3, RequestRead
<1> QED
  BY <1>6, <1>7, <1>8

LEMMA RequestsAccept ==
  ASSUME Typed, RequestsWhole, Accept, ~short'
  PROVE  RequestsWhole'
<1>1. UNCHANGED <<inbox, sent, served, short>> /\ reader["server"].pc = "decode"
  BY DEF Accept
<1> DEFINE bs == reader["server"].bytes
<1>2. /\ Unanswered \in Nat /\ (reader["client"].pc = "dead" => ~ReqFits(Last(sent)))
      /\ Unanswered # 0 /\ Carries(inbox["server"], Unanswered - 1, Due(sent, 1))
      /\ bs \in ReqFrames(sent[1])
  BY <1>1 DEF RequestsWhole
<1>3. sent # << >>
  BY <1>2, UnansweredType
<1>4. CASE DecodeReqPanics(bs)
  <2>1. reader' = [reader EXCEPT !["server"] = Ready("dead")]
    BY <1>4 DEF Accept, Dies
  <2>2. reader'["server"].pc = "dead" /\ reader'["client"] = reader["client"]
    BY <2>1 DEF Typed, Ends, Ready
  <2>3. Unanswered' = Unanswered /\ ReqFits(Last(sent))' = ReqFits(Last(sent))
    BY <1>1, <2>2 DEF Unanswered, ReqFits
  <2>4. Kills(sent[1])'
    BY <1>1, <1>2, <1>4 DEF Kills
  <2> QED
    BY <1>1, <1>2, <1>3, <2>2, <2>3, <2>4 DEF RequestsWhole
<1>5. CASE ~DecodeReqPanics(bs)
  <2> DEFINE req == DecodeReq(bs)
  <2>1. reader' = [reader EXCEPT !["server"] = Ready("serve")] /\ heard' = [heard EXCEPT !["server"] = req]
    BY <1>5 DEF Accept
  <2>2. req \in Heard(sent[1])
    BY <1>2, <1>5 DEF Heard
  <2> HIDE DEF req
  <2>3. /\ reader'["server"].pc = "serve" /\ reader'["client"] = reader["client"]
        /\ heard'["server"] = req
    BY <2>1 DEF Typed, Ends, Ready
  <2>4. Unanswered' = Unanswered /\ ReqFits(Last(sent))' = ReqFits(Last(sent))
    BY <1>1, <2>3 DEF Unanswered, ReqFits
  <2> QED
    BY <1>1, <1>2, <2>2, <2>3, <2>4 DEF RequestsWhole
<1> QED
  BY <1>4, <1>5

LEMMA RequestsServe ==
  ASSUME Typed, RequestsWhole, Serve, ~short'
  PROVE  RequestsWhole'
<1>1. UNCHANGED <<heard, short>> /\ reader["server"].pc = "serve" /\ ~short
  BY DEF Serve
<1>2. /\ Unanswered \in Nat /\ (reader["client"].pc = "dead" => ~ReqFits(Last(sent)))
      /\ Unanswered # 0 /\ Carries(inbox["server"], Unanswered - 1, Due(sent, 1))
      /\ heard["server"] \in Heard(sent[1])
  BY <1>1 DEF RequestsWhole
<1>3. sent # << >> /\ sent \in Seq(Calls)
  BY <1>2, UnansweredType DEF Typed
<1>4. CASE ServePanics(heard.server)
  <2>1. reader' = [reader EXCEPT !["server"] = Ready("dead")] /\ UNCHANGED <<served, sent, inbox>>
    BY <1>4 DEF Serve, Dies
  <2>2. reader'["server"].pc = "dead" /\ reader'["client"] = reader["client"]
    BY <2>1 DEF Typed, Ends, Ready
  <2>3. Unanswered' = Unanswered /\ ReqFits(Last(sent))' = ReqFits(Last(sent))
    BY <2>1, <2>2 DEF Unanswered, ReqFits
  <2>4. Kills(sent[1])
    <3>1. PICK f \in ReqFrames(sent[1]) : heard["server"] = DecodeReq(f)
      BY <1>2 DEF Heard
    <3>2. ServePanics(DecodeReq(f))
      BY <1>4, <3>1
    <3> QED
      BY <3>2 DEF Kills
  <2> QED
    BY <1>2, <1>3, <2>1, <2>2, <2>3, <2>4 DEF RequestsWhole
<1>5. CASE ~ServePanics(heard.server)
  <2>1. PICK a \in Results(heard.server) : Reply(a)
    BY <1>5 DEF Serve
  <2>2. IsAnswer(a)
    BY <2>1, ResultsType
  <2> DEFINE f == Response(heard.server, a)
             p == f.panics
  <2>3. p \in BOOLEAN /\ (p => ~RespFits(a))
    BY <1>1, <2>2, AnswerRead DEF Typed
  <2>4. CASE p
    <3>1. reader' = [reader EXCEPT !["server"] = Ready("dead")] /\ served' = a /\ UNCHANGED <<sent, inbox>>
      BY <2>1, <2>4 DEF Reply, Dies
    <3> HIDE DEF p, f
    <3>2. reader'["server"].pc = "dead" /\ reader'["client"] = reader["client"]
      BY <3>1 DEF Typed, Ends, Ready
    <3>3. Unanswered' = Unanswered /\ ReqFits(Last(sent))' = ReqFits(Last(sent))
      BY <3>1, <3>2 DEF Unanswered, ReqFits
    <3>4. ~RespFits(served)'
      BY <2>3, <2>4, <3>1 DEF RespFits
    <3> QED
      BY <1>2, <3>2, <3>3, <3>4 DEF RequestsWhole
  <2>5. CASE ~p
    <3> DEFINE b == f.bytes
    <3>1. /\ reader' = [reader EXCEPT !["server"] = Ready("length")] /\ sent' = Tail(sent)
          /\ inbox' = [inbox EXCEPT !["client"] = @ \o b]
      BY <1>3, <2>1, <2>5 DEF Reply
    <3> HIDE DEF p, f, b
    <3>2. /\ reader'["server"].pc = "length" /\ reader'["client"] = reader["client"]
          /\ inbox'["server"] = inbox["server"]
      BY <3>1 DEF Typed, Ends, Ready
    <3>3. /\ Tail(sent) \in Seq(Calls) /\ Len(Tail(sent)) = Len(sent) - 1 /\ Len(sent) \in Nat \ {0}
          /\ \A i \in 1..(Len(sent) - 1) : Tail(sent)[i] = sent[i + 1]
          /\ Len(sent) # 1 => Last(Tail(sent)) = Last(sent)
      BY <1>3, LastFirst
    <3>4. Unanswered' = Unanswered - 1 /\ Unanswered' \in Nat
      BY <1>2, <3>1, <3>2, <3>3 DEF Unanswered
    <3>5. reader'["client"].pc = "dead" => ~ReqFits(Last(sent))'
      <4> SUFFICES ASSUME reader["client"].pc = "dead" PROVE ~ReqFits(Last(sent))'
        BY <3>2
      <4>1. Len(sent) # 1
        BY <1>2, <3>3 DEF Unanswered
      <4>2. Last(sent)' = Last(sent)
        BY <3>1, <3>3, <4>1
      <4> QED
        BY <1>2, <4>2 DEF ReqFits
    <3>6. Carries(inbox["server"], Unanswered - 1, Due(Tail(sent), 0))
      <4> DEFINE t == Tail(sent)
                 n == Unanswered - 1
      <4>1. t \in Seq(Calls) /\ Len(t) = Len(sent) - 1 /\ \A i \in 1..Len(t) : t[i] = sent[i + 1]
        BY <3>3
      <4>2. n \in Nat /\ n <= Len(t) /\ Carries(inbox["server"], n, Due(sent, 1))
        <5>1. Unanswered <= Len(sent)
          BY <1>2, UnansweredType
        <5>2. \A u, l \in Nat : u # 0 /\ u <= l => u - 1 \in Nat /\ u - 1 <= l - 1
          OBVIOUS
        <5> QED
          BY <1>2, <3>3, <5>1, <5>2
      <4> HIDE DEF t, n
      <4>3. \A i \in 1..Len(t) : Due(t, 0)[i] = Due(sent, 1)[i]
        BY <1>3, <4>1, DueTypes
      <4>4. \A i \in 1..n : Due(t, 0)[i] = Due(sent, 1)[i]
        BY <3>3, <4>1, <4>2, <4>3
      <4>5. Carries(inbox["server"], n, Due(t, 0))
        BY <4>2, <4>4, CarriesSame
      <4> QED
        BY <4>5 DEF t, n
    <3> QED
      BY <3>1, <3>2, <3>4, <3>5, <3>6 DEF RequestsWhole
  <2> QED
    BY <2>3, <2>4, <2>5
<1> QED
  BY <1>4, <1>5

-----------------------------------------------------------------------------
(* And so are the answers *)

\* No answer is under way at first, and each action keeps them whole.
LEMMA AnswersInit == Init => AnswersWhole
<1> SUFFICES ASSUME Init PROVE AnswersWhole
  OBVIOUS
<1>1. reader["client"].pc = "idle" /\ inbox["client"] = << >>
  BY DEF Init, Ready, Ends
<1>2. Carries(<< >>, 0, AnyAnswer)
  BY CarriesNone
<1>3. Underway(0)
  BY <1>1, <1>2 DEF Underway
<1> QED
  BY <1>3 DEF AnswersWhole

\* Steps that the client has no part in.
LEMMA AnswersSame ==
  ASSUME Typed, AnswersWhole, ~short, reader'["client"] = reader["client"],
         inbox'["client"] = inbox["client"], UNCHANGED sent
  PROVE  AnswersWhole'
<1>1. PICK m \in Nat : Underway(m)
  BY DEF AnswersWhole
<1>2. Underway(m)'
  BY <1>1 DEF Underway, AnyAnswer, Framed, Announced, HeadOf, BodyOf, Carries
<1> QED
  BY <1>2 DEF AnswersWhole

LEMMA AnswersReadLengths ==
  ASSUME Typed, AnswersWhole, RequestsWhole, NEW e \in Ends, ReadLengths(e), ~short'
  PROVE  AnswersWhole'
<1>1. UNCHANGED sent /\ reader[e].pc = "length" /\ ~short
  BY DEF ReadLengths, Read
<1>2. CASE e = "server"
  <2>1. Carries(inbox[e], Unanswered, Due(sent, 0)) /\ Unanswered \in Nat
    BY <1>1, <1>2 DEF RequestsWhole
  <2>2. \A x \in Ends \ {e} : reader'[x] = reader[x] /\ inbox'[x] = inbox[x]
    BY <2>1, WholeLengths
  <2>3. reader'["client"] = reader["client"] /\ inbox'["client"] = inbox["client"]
    BY <1>2, <2>2 DEF Ends
  <2> QED
    BY <1>1, <2>3, AnswersSame
<1>3. CASE e = "client"
  <2>1. PICK m \in Nat : Underway(m)
    BY <1>1 DEF AnswersWhole
  <2>2. Carries(inbox[e], m, AnyAnswer) /\ m + Len(sent) > 0
    BY <1>1, <1>3, <2>1 DEF Underway
  <2>3. /\ reader'[e].pc = "rest" /\ Len(reader'[e].bytes) = 2 * FieldBytes
        /\ reader'[e].size = Announced(reader'[e].bytes)
        /\ Carries(reader'[e].bytes \o inbox'[e], m, AnyAnswer)
    BY <2>2, WholeLengths
  <2>4. Underway(m)'
    BY <1>1, <1>3, <2>2, <2>3 DEF Underway
  <2> QED
    BY <2>4 DEF AnswersWhole
<1> QED
  BY <1>2, <1>3 DEF Ends

LEMMA AnswersReadRest ==
  ASSUME Typed, AnswersWhole, RequestsWhole, NEW e \in Ends, ReadRest(e), ~short'
  PROVE  AnswersWhole'
<1>1. UNCHANGED sent /\ reader[e].pc = "rest" /\ ~short
  BY DEF ReadRest, Read
<1>2. CASE e = "server"
  <2>1. /\ Len(reader[e].bytes) = 2 * FieldBytes /\ reader[e].size = Announced(reader[e].bytes)
        /\ Carries(reader[e].bytes \o inbox[e], Unanswered, Due(sent, 0)) /\ Unanswered \in Nat
    BY <1>1, <1>2 DEF RequestsWhole
  <2> DEFINE K2 == [i \in 1..(Unanswered - 1) |-> Due(sent, 0)[i + 1]]
  <2>2. \A i \in 1..(Unanswered - 1) : K2[i] = Due(sent, 0)[i + 1]
    OBVIOUS
  <2> HIDE DEF K2
  <2>3. \A x \in Ends \ {e} : reader'[x] = reader[x] /\ inbox'[x] = inbox[x]
    BY SMTT(30), <2>1, <2>2, WholeRest
  <2>4. reader'["client"] = reader["client"] /\ inbox'["client"] = inbox["client"]
    BY <1>2, <2>3 DEF Ends
  <2> QED
    BY <1>1, <2>4, AnswersSame
<1>3. CASE e = "client"
  <2>1. PICK m \in Nat : Underway(m)
    BY <1>1 DEF AnswersWhole
  <2>2. /\ Len(reader[e].bytes) = 2 * FieldBytes /\ reader[e].size = Announced(reader[e].bytes)
        /\ Carries(reader[e].bytes \o inbox[e], m, AnyAnswer)
    BY <1>1, <1>3, <2>1 DEF Underway
  <2>3. \A i \in 1..(m - 1) : AnyAnswer[i] = AnyAnswer[i + 1]
    BY DEF AnyAnswer
  <2>4. /\ m # 0 /\ reader'[e].pc = "decode" /\ reader'[e].bytes \in AnyAnswer[1]
        /\ Carries(inbox'[e], m - 1, AnyAnswer)
    BY <2>2, <2>3, WholeRest
  <2>5. m - 1 \in Nat
    BY <2>4
  <2>6. Underway(m - 1)'
    BY <1>3, <2>4 DEF Underway
  <2> QED
    BY <2>5, <2>6 DEF AnswersWhole
<1> QED
  BY <1>2, <1>3 DEF Ends

LEMMA AnswersReceive ==
  ASSUME Typed, AnswersWhole, Receive \/ ConnectionLost, ~short'
  PROVE  AnswersWhole'
<1>1. UNCHANGED <<inbox, sent, short>> /\ ~short
  <2>1. UNCHANGED <<inbox, sent, served, short>>
    BY DEF Receive, ConnectionLost
  <2> QED
    BY <2>1
<1>2. PICK m \in Nat : Underway(m)
  BY <1>1 DEF AnswersWhole
<1>3. CASE Receive
  <2>1. reader["client"].pc = "decode"
    BY <1>3 DEF Receive
  <2>2. ~DecodeRespPanics(reader["client"].bytes)
    BY <1>2, <2>1, AnswerReadable DEF Underway
  <2> DEFINE resp == DecodeResp(reader["client"].bytes)
  <2>3. TellCaller(resp)
    BY <1>3, <2>2 DEF Receive
  <2> HIDE DEF resp
  <2>4. reader' = [reader EXCEPT !["client"] = Ready("idle")]
    BY <2>3 DEF TellCaller, Told
  <2>5. reader'["client"].pc = "idle"
    BY <2>4 DEF Typed, Ends, Ready
  <2>6. Underway(m)'
    BY <1>1, <1>2, <2>1, <2>5 DEF Underway
  <2> QED
    BY <2>6 DEF AnswersWhole
<1>4. CASE ConnectionLost
  <2>1. reader' = [reader EXCEPT !["client"] = Ready("idle")] /\ inbox["client"] = << >>
    BY <1>4 DEF ConnectionLost, Told
  <2>2. reader'["client"].pc = "idle"
    BY <2>1 DEF Typed, Ends, Ready
  <2>3. Carries(<< >>, 0, AnyAnswer)
    BY CarriesNone
  <2>4. Underway(0)'
    BY <1>1, <2>1, <2>2, <2>3 DEF Underway
  <2> QED
    BY <2>4 DEF AnswersWhole
<1> QED
  BY <1>3, <1>4

LEMMA AnswersCall ==
  ASSUME Typed, AnswersWhole, NEW req \in Calls, Call(req), ~short'
  PROVE  AnswersWhole'
<1>1. PICK order \in SetToSeqs(DOMAIN req.meta) :
        LET f == EncodeReq(req, order)
        IN  /\ IF f.panics THEN Dies("client")
               ELSE reader' = [reader EXCEPT !.client = Ready(IF IsOneway(req) THEN "idle" ELSE "length")]
            /\ inbox' = IF f.panics THEN inbox ELSE [inbox EXCEPT !.server = @ \o f.bytes]
  BY DEF Call
<1> DEFINE p == EncodeReq(req, order).panics
           b == EncodeReq(req, order).bytes
           pc == IF p THEN "dead" ELSE IF IsOneway(req) THEN "idle" ELSE "length"
<1>2. /\ reader' = [reader EXCEPT !["client"] = Ready(pc)]
      /\ inbox' = IF p THEN inbox ELSE [inbox EXCEPT !["server"] = @ \o b]
  BY <1>1 DEF Dies
<1>3. pc \in {"dead", "idle", "length"}
  OBVIOUS
<1> HIDE DEF p, b, pc
<1>4. reader'["client"].pc = pc /\ inbox'["client"] = inbox["client"]
  BY <1>2, <1>3 DEF Typed, Ends, Ready
<1>5. sent' = Append(sent, req) /\ ~short /\ reader["client"].pc = "idle"
  BY DEF Call
<1>6. Len(sent') \in Nat /\ Len(sent') > 0
  <2>1. Len(Append(sent, req)) = Len(sent) + 1 /\ Len(sent) \in Nat
    BY AppendProperties, LenProperties DEF Typed
  <2> QED
    BY <1>5, <2>1
<1>7. PICK m \in Nat : Underway(m)
  BY <1>5 DEF AnswersWhole
<1>8. m + Len(sent') > 0
  BY <1>6
<1>9. Underway(m)'
  BY <1>3, <1>4, <1>5, <1>7, <1>8 DEF Underway
<1> QED
  BY <1>9 DEF AnswersWhole

LEMMA AnswersAccept ==
  ASSUME Typed, AnswersWhole, Accept, ~short'
  PROVE  AnswersWhole'
<1>1. UNCHANGED <<inbox, sent, short>>
  BY DEF Accept
<1>2. reader' = [reader EXCEPT !["server"] = Ready("dead")] \/ reader' = [reader EXCEPT !["server"] = Ready("serve")]
  BY DEF Accept, Dies
<1>3. reader'["client"] = reader["client"]
  BY <1>2 DEF Typed, Ends
<1> QED
  BY <1>1, <1>3, AnswersSame

LEMMA AnswersServe ==
  ASSUME Typed, AnswersWhole, Serve, ~short'
  PROVE  AnswersWhole'
<1>1. ~short /\ reader["server"].pc = "serve"
  BY DEF Serve
<1>2. CASE ServePanics(heard.server)
  <2>1. reader' = [reader EXCEPT !["server"] = Ready("dead")] /\ UNCHANGED <<sent, inbox>>
    BY <1>2 DEF Serve, Dies
  <2>2. reader'["client"] = reader["client"]
    BY <2>1 DEF Typed, Ends
  <2> QED
    BY <1>1, <2>1, <2>2, AnswersSame
<1>3. CASE ~ServePanics(heard.server)
  <2>1. PICK a \in Results(heard.server) : Reply(a)
    BY <1>3 DEF Serve
  <2>2. IsAnswer(a)
    BY <2>1, ResultsType
  <2> DEFINE f == Response(heard.server, a)
             p == f.panics
             b == f.bytes
  <2>3. /\ p \in BOOLEAN /\ b \in Text
        /\ ~p => Holds(b, a.text, Returned(a), heard["server"].compresser, heard["server"].serializer)
    BY <1>1, <2>2, AnswerRead DEF Typed
  <2>4. CASE p
    <3>1. reader' = [reader EXCEPT !["server"] = Ready("dead")] /\ UNCHANGED <<sent, inbox>>
      BY <2>1, <2>4 DEF Reply, Dies
    <3>2. reader'["client"] = reader["client"]
      BY <3>1 DEF Typed, Ends
    <3> QED
      BY <1>1, <3>1, <3>2, AnswersSame
  <2>5. CASE ~p
    <3>1. /\ reader' = [reader EXCEPT !["server"] = Ready("length")]
          /\ inbox' = [inbox EXCEPT !["client"] = @ \o b]
          /\ sent' = IF sent = << >> THEN sent ELSE Tail(sent)
      BY <2>1, <2>5 DEF Reply
    <3>2. Framed(b) /\ b \in AnyAnswer[1] /\ \A i \in Nat : AnyAnswer[i] = AnyAnswer[1]
      <4>1. a.text \in Text
        BY <2>2, ReturnedType
      <4> QED
        BY <2>3, <2>5, <4>1, HoldsAnswer
    <3> HIDE DEF f, p, b
    <3>3. reader'["client"] = reader["client"] /\ inbox'["client"] = inbox["client"] \o b
      BY <3>1 DEF Typed, Ends
    <3>4. PICK m \in Nat : Underway(m)
      BY <1>1 DEF AnswersWhole
    <3>5. Len(sent') \in Nat
      <4>1. sent \in Seq(Calls)
        BY DEF Typed
      <4>2. sent' \in Seq(Calls)
        BY <3>1, <4>1, HeadTailProperties
      <4> QED
        BY <4>2, LenProperties
    <3>6. (m + 1) + Len(sent') > 0 /\ m + 1 \in Nat
      BY <3>5
    <3>7. b \in AnyAnswer[m + 1]
      BY <3>2, <3>6
    <3>8. ASSUME NEW s, Carries(s, m, AnyAnswer) PROVE Carries(s \o b, m + 1, AnyAnswer)
      BY <3>2, <3>7, <3>8, CarriesMore
    <3>9. CASE reader["client"].pc # "rest"
      <4>1. Carries(inbox["client"], m, AnyAnswer)
        BY <3>4, <3>9 DEF Underway
      <4>2. Carries(inbox'["client"], m + 1, AnyAnswer)
        BY <3>3, <3>8, <4>1
      <4>3. Underway(m + 1)'
        BY <3>3, <3>4, <3>6, <3>9, <4>2 DEF Underway
      <4> QED
        BY <3>6, <4>3 DEF AnswersWhole
    <3>10. CASE reader["client"].pc = "rest"
      <4> DEFINE lens == reader["client"].bytes
                 s == inbox["client"]
      <4>1. lens \in Text /\ s \in Text
        BY DEF Typed, Reader, Ends
      <4>2. Len(lens) = 2 * FieldBytes /\ reader["client"].size = Announced(lens) /\ Carries(lens \o s, m, AnyAnswer)
        BY <3>4, <3>10 DEF Underway
      <4> HIDE DEF lens, s
      <4>3. (lens \o s) \o b = lens \o (s \o b)
        BY <2>3, <4>1, Associates DEF b
      <4>4. Carries(lens \o (s \o b), m + 1, AnyAnswer)
        BY <3>8, <4>2, <4>3
      <4>5. Carries(lens \o inbox'["client"], m + 1, AnyAnswer)
        BY <3>3, <4>4 DEF s
      <4>6. Underway(m + 1)'
        BY <3>3, <3>6, <3>10, <4>2, <4>5 DEF Underway, lens
      <4> QED
        BY <3>6, <4>6 DEF AnswersWhole
    <3> QED
      BY <3>9, <3>10
  <2> QED
    BY <2>3, <2>4, <2>5
<1> QED
  BY <1>2, <1>3

-----------------------------------------------------------------------------
(* The streams *)

Whole == Typed /\ RequestsWhole /\ AnswersWhole

\* Typed, RequestsWhole and AnswersWhole are inductive together.
LEMMA WholeStep == Whole /\ [Next]_vars => Whole'
<1> SUFFICES ASSUME Whole, [Next]_vars PROVE Whole'
  OBVIOUS
<1>1. Typed /\ RequestsWhole /\ AnswersWhole
  BY DEF Whole
<1>2. Typed'
  BY <1>1, TypedStep
<1>3. CASE short'
  BY <1>2, <1>3 DEF RequestsWhole, AnswersWhole, Whole
<1>4. CASE ~short'
  <2>1. ASSUME NEW e \in Ends, ReadLengths(e) PROVE Whole'
    <3>1. RequestsWhole'
      BY <1>1, <1>4, <2>1, RequestsReadLengths
    <3>2. AnswersWhole'
      BY <1>1, <1>4, <2>1, AnswersReadLengths
    <3> QED
      BY <1>2, <3>1, <3>2 DEF Whole
  <2>2. ASSUME NEW e \in Ends, ReadRest(e) PROVE Whole'
    <3>1. RequestsWhole'
      BY <1>1, <1>4, <2>2, RequestsReadRest
    <3>2. AnswersWhole'
      BY <1>1, <1>4, <2>2, AnswersReadRest
    <3> QED
      BY <1>2, <3>1, <3>2 DEF Whole
  <2>3. CASE Receive \/ ConnectionLost
    <3>1. RequestsWhole'
      BY <1>1, <1>4, <2>3, RequestsReceive
    <3>2. AnswersWhole'
      BY <1>1, <1>4, <2>3, AnswersReceive
    <3> QED
      BY <1>2, <3>1, <3>2 DEF Whole
  <2>4. CASE Accept
    <3>1. RequestsWhole'
      BY <1>1, <1>4, <2>4, RequestsAccept
    <3>2. AnswersWhole'
      BY <1>1, <1>4, <2>4, AnswersAccept
    <3> QED
      BY <1>2, <3>1, <3>2 DEF Whole
  <2>5. CASE Serve
    <3>1. RequestsWhole'
      BY <1>1, <1>4, <2>5, RequestsServe
    <3>2. AnswersWhole'
      BY <1>1, <1>4, <2>5, AnswersServe
    <3> QED
      BY <1>2, <3>1, <3>2 DEF Whole
  <2>6. ASSUME NEW req \in Calls, Call(req) PROVE Whole'
    <3>1. RequestsWhole'
      BY <1>1, <1>4, <2>6, RequestsCall
    <3>2. AnswersWhole'
      BY <1>1, <1>4, <2>6, AnswersCall
    <3> QED
      BY <1>2, <3>1, <3>2 DEF Whole
  <2>7. CASE UNCHANGED vars
    <3>1. /\ reader'["server"] = reader["server"] /\ inbox'["server"] = inbox["server"]
          /\ reader'["client"] = reader["client"] /\ inbox'["client"] = inbox["client"]
          /\ heard'["server"] = heard["server"] /\ UNCHANGED <<sent, served>> /\ ~short
      BY <1>4, <2>7 DEF vars
    <3>2. reader'["client"].pc = "dead" <=> reader["client"].pc = "dead"
      BY <3>1
    <3> QED
      <4>1. RequestsWhole'
        BY <1>1, <3>1, <3>2, ServerSame
      <4>2. AnswersWhole'
        BY <1>1, <3>1, AnswersSame
      <4> QED
        BY <1>2, <4>1, <4>2 DEF Whole
  <2> QED
    BY <2>1, <2>2, <2>3, <2>4, <2>5, <2>6, <2>7 DEF Next
<1> QED
  BY <1>3, <1>4

LEMMA AlwaysWhole == Spec => []Whole
<1>1. Init => Whole
  BY TypedInit, RequestsInit, AnswersInit DEF Whole
<1> QED
  BY <1>1, WholeStep, PTL DEF Spec

\* Whatever is called and answered: an end that waits for bytes waits for what is
\* under way.  No length says more than what follows it, and no caller waits while
\* the server waits for it, though handleConn and send read whatever a length says.
THEOREM NeitherWaitsInVain == Spec => []NoneWaitsInVain
<1>1. Whole => NoneWaitsInVain
  <2> SUFFICES ASSUME Whole, ~short PROVE NoneWaitsInVain
    BY DEF NoneWaitsInVain
  <2>1. Typed /\ RequestsWhole /\ AnswersWhole
    BY DEF Whole
  <2>2. PICK m \in Nat : Underway(m)
    BY <2>1 DEF AnswersWhole
  <2>3. ASSUME NEW e \in Ends, reader[e].pc = "rest", NEW n \in Nat, NEW K,
               Len(reader[e].bytes) = 2 * FieldBytes, reader[e].size = Announced(reader[e].bytes),
               Carries(reader[e].bytes \o inbox[e], n, K)
        PROVE  Len(inbox[e]) >= reader[e].size - 2 * FieldBytes /\ inbox[e] # << >>
    <3> DEFINE lens == reader[e].bytes
               s == inbox[e]
               K2 == [i \in 1..(n - 1) |-> K[i + 1]]
    <3>1. lens \in Text /\ s \in Text /\ Len(s) \in Nat
      BY <2>1, LenProperties DEF Typed, Reader, Text
    <3>2. Len(lens) = 2 * FieldBytes /\ reader[e].size = Announced(lens) /\ Carries(lens \o s, n, K)
      BY <2>3
    <3>3. \A i \in 1..(n - 1) : K2[i] = K[i + 1]
      OBVIOUS
    <3> HIDE DEF lens, s, K2
    <3>4. LET w == Announced(lens) - 2 * FieldBytes
          IN  /\ n # 0 /\ w \in 1..Len(s) /\ Announced(lens) >= Fixed
              /\ lens \o SubSeq(s, 1, w) \in K[1]
              /\ Framed(lens \o SubSeq(s, 1, w))
              /\ Carries(From(s, w), n - 1, K2)
      BY <3>1, <3>2, <3>3, CarriesRest
    <3>5. reader[e].size - 2 * FieldBytes \in 1..Len(s)
      BY <3>2, <3>4
    <3>6. Len(s) > 0 /\ Len(s) >= reader[e].size - 2 * FieldBytes
      BY <3>1, <3>5
    <3>7. s # << >>
      BY <3>6
    <3> QED
      BY <3>6, <3>7 DEF s
  <2>4. ASSUME NEW e \in Ends, reader[e].pc = "rest"
        PROVE  Len(inbox[e]) >= reader[e].size - 2 * FieldBytes /\ inbox[e] # << >>
    <3>1. CASE e = "server"
      <4>1. /\ Len(reader[e].bytes) = 2 * FieldBytes /\ reader[e].size = Announced(reader[e].bytes)
            /\ Carries(reader[e].bytes \o inbox[e], Unanswered, Due(sent, 0)) /\ Unanswered \in Nat
        BY <2>1, <2>4, <3>1 DEF RequestsWhole
      <4> QED
        BY <2>3, <2>4, <4>1
    <3>2. CASE e = "client"
      <4>1. /\ Len(reader[e].bytes) = 2 * FieldBytes /\ reader[e].size = Announced(reader[e].bytes)
            /\ Carries(reader[e].bytes \o inbox[e], m, AnyAnswer)
        BY <2>2, <2>4, <3>2 DEF Underway
      <4> QED
        BY <2>3, <2>4, <4>1
    <3> QED
      BY <3>1, <3>2 DEF Ends
  <2>5. ASSUME reader["client"].pc \in {"length", "rest"}, inbox["server"] = << >>, reader["server"].pc = "length"
        PROVE  inbox["client"] # << >>
    <3>1. Carries(inbox["server"], Unanswered, Due(sent, 0)) /\ Unanswered \in Nat
      BY <2>1, <2>5 DEF RequestsWhole
    <3>2. Unanswered = 0
      BY <2>5, <3>1, CarriesEmpty
    <3>3. Len(sent) = 0
      BY <2>5, <3>2 DEF Unanswered
    <3>4. m # 0
      BY <2>2, <2>5, <3>3 DEF Underway
    <3>5. CASE reader["client"].pc = "rest"
      BY <2>4, <3>5 DEF Ends
    <3>6. CASE reader["client"].pc = "length"
      <4>1. Carries(inbox["client"], m, AnyAnswer)
        BY <2>2, <3>6 DEF Underway
      <4> QED
        BY <3>4, <4>1, CarriesEmpty
    <3> QED
      BY <2>5, <3>5, <3>6
  <2> QED
    BY <2>4, <2>5 DEF NoneWaitsInVain
<1> QED
  BY <1>1, AlwaysWhole, PTL

-----------------------------------------------------------------------------
(* The lines of a header are found where they were written *)

\* A text without the byte, the byte, and whatever follows.
LEMMA IndexFirst ==
  ASSUME NEW byte \in Bytes, NEW t \in Text, Absent(byte, t), NEW r \in Text
  PROVE  LET s == (t \o <<byte>>) \o r
         IN  /\ s \in Text /\ Index(s, byte) = Len(t) + 1 /\ Len(s) = Len(t) + 1 + Len(r)
             /\ SubSeq(s, 1, Index(s, byte) - 1) = t /\ From(s, Index(s, byte)) = r
<1> DEFINE e == <<byte>>
           g == t \o e
           s == g \o r
           I == {i \in 1..Len(s) : s[i] = byte}
<1>1. e \in Text /\ Len(e) = 1 /\ e[1] = byte
  BY DEF Text
<1> HIDE DEF e
<1>2. g \in Text /\ Len(g) = Len(t) + 1 /\ Len(t) \in Nat
  <2>1. g \in Text /\ Len(g) = Len(t) + Len(e) /\ Len(t) \in Nat
    BY <1>1, Joined
  <2> QED
    BY <1>1, <2>1
<1>3. \A i \in 1..Len(t) + Len(e) : g[i] = IF i <= Len(t) THEN t[i] ELSE e[i - Len(t)]
  BY <1>1, ConcatProperties DEF Text
<1>4. (\A i \in 1..Len(t) : g[i] = t[i]) /\ g[Len(t) + 1] = byte
  <2>1. /\ \A i \in 1..Len(t) : i \in 1..Len(t) + Len(e) /\ i <= Len(t)
        /\ Len(t) + 1 \in 1..Len(t) + Len(e) /\ ~(Len(t) + 1 <= Len(t)) /\ (Len(t) + 1) - Len(t) = 1
    BY <1>1, <1>2
  <2> QED
    BY <1>1, <1>3, <2>1
<1>5. /\ SubSeq(g, 1, Len(t)) = t
  BY <1>1, Apart DEF Text
<1> HIDE DEF g
<1>6. s \in Text /\ Len(s) = Len(g) + Len(r) /\ Len(r) \in Nat
  BY <1>2, Joined
<1>7. \A i \in 1..Len(g) + Len(r) : s[i] = IF i <= Len(g) THEN g[i] ELSE r[i - Len(g)]
  BY <1>2, ConcatProperties DEF Text
<1>8. From(s, Len(g)) = r /\ SubSeq(s, 1, Len(t)) = SubSeq(g, 1, Len(t))
  <2>1. Len(t) \in 0..Len(g)
    BY <1>2
  <2> QED
    BY <1>2, <2>1, Apart, SliceOfFirst DEF Text
<1> HIDE DEF s
<1>9. (\A i \in 1..Len(t) : s[i] = t[i] /\ i \in 1..Len(s)) /\ s[Len(t) + 1] = byte /\ Len(t) + 1 \in 1..Len(s)
  <2>1. \A i \in 1..(Len(t) + 1) : i \in 1..Len(g) + Len(r) /\ i <= Len(g) /\ i \in 1..Len(s)
    BY <1>2, <1>6
  <2>2. (\A i \in 1..Len(t) : i \in 1..(Len(t) + 1)) /\ Len(t) + 1 \in 1..(Len(t) + 1)
    BY <1>2
  <2> QED
    BY <1>4, <1>7, <2>1, <2>2
<1>10. \A i \in 1..Len(t) : s[i] # byte
  BY <1>2, <1>9, LenProperties DEF Absent, ToSet, Text
<1>11. Len(t) + 1 \in I /\ \A i \in I : i \in Nat /\ Len(t) + 1 <= i
  <2>1. \A i \in 1..Len(s) : ~(Len(t) + 1 <= i) => i \in 1..Len(t)
    BY <1>2
  <2>2. \A i \in 1..Len(s) : i \in Nat
    OBVIOUS
  <2> QED
    BY <1>9, <1>10, <2>1, <2>2
<1>12. Index(s, byte) = IF I # {} THEN Min(I) ELSE 0
  BY DEF Index, SelectInSeq
<1> HIDE DEF I
<1>13. Min(I) = Len(t) + 1
  <2>1. \A x \in I : (\A y \in I : x <= y) => x = Len(t) + 1
    BY <1>2, <1>11
  <2> QED
    BY <1>11, <2>1 DEF Min
<1>14. Index(s, byte) = Len(t) + 1
  BY <1>11, <1>12, <1>13
<1>15. SubSeq(s, 1, Index(s, byte) - 1) = t
  <2>1. Index(s, byte) - 1 = Len(t)
    BY <1>2, <1>14
  <2> QED
    BY <1>5, <1>8, <2>1
<1>16. From(s, Index(s, byte)) = r
  BY <1>2, <1>8, <1>14
<1>17. Len(s) = Len(t) + 1 + Len(r)
  BY <1>2, <1>6
<1> QED
  BY <1>6, <1>14, <1>15, <1>16, <1>17 DEF s, g, e

\* What is left of the lines, behind each of them.
LEMMA EndedRests ==
  ASSUME NEW lines \in Seq(Text)
  PROVE  \E rest \in [0..Len(lines) -> Text] :
           /\ rest[0] = Ended(lines) /\ rest[Len(lines)] = << >>
           /\ \A n \in 1..Len(lines) : rest[n - 1] = (lines[n] \o <<NL>>) \o rest[n]
           /\ Len(lines) <= Len(Ended(lines))
<1> DEFINE N == Len(lines)
           Loop(f) == f = [n \in 0..Len(lines) |-> IF n = 0 THEN << >> ELSE f[n - 1] \o lines[n] \o <<NL>>]
           upTo == CHOOSE f : Loop(f)
           E == Ended(lines)
<1>1. /\ upTo[0] = << >>
      /\ \A n \in 1..N : upTo[n] = upTo[n - 1] \o lines[n] \o <<NL>>
      /\ \A n \in 0..N : upTo[n] \in Text
  BY Endings
<1>2. E = upTo[N]
  BY DEF Ended
<1>3. N \in Nat /\ (\A n \in 1..N : lines[n] \in Text) /\ <<NL>> \in Text /\ Len(<<NL>>) = 1 /\ << >> \in Text
  <2>1. NL \in Bytes
    BY WireAssumption
  <2>2. <<NL>> \in Text /\ << >> \in Text
    BY <2>1 DEF Text
  <2> QED
    BY <2>2, LenProperties, ElementOfSeq
<1> HIDE DEF N, Loop, upTo, E
<1> DEFINE rest == [n \in 0..N |-> From(E, Len(upTo[n]))]
           T == {k \in 0..N : E = upTo[N - k] \o rest[N - k] /\ rest[N - k] \in Text}
<1>4. E \in Text
  BY <1>1, <1>2, <1>3
<1>5. \A n \in 0..N : rest[n] = From(E, Len(upTo[n]))
  OBVIOUS
<1> HIDE DEF rest
<1>6. rest[N] = << >> /\ E = upTo[N] \o rest[N]
  <2>1. N \in 0..N
    BY <1>3
  <2>2. E \o << >> = E
    BY <1>4, ConcatEmptySeq DEF Text
  <2>3. From(E \o << >>, Len(E)) = << >>
    <3>1. PICK z \in Text : z = << >>
      BY <1>3
    <3>2. From(E \o z, Len(E)) = z
      BY <1>4, Apart DEF Text
    <3> QED
      BY <3>1, <3>2
  <2>4. rest[N] = << >>
    BY <1>2, <1>5, <2>1, <2>2, <2>3
  <2> QED
    BY <1>2, <2>2, <2>4
<1>7. ASSUME NEW n \in 1..N, E = upTo[n] \o rest[n], rest[n] \in Text
      PROVE  E = upTo[n - 1] \o rest[n - 1] /\ rest[n - 1] = (lines[n] \o <<NL>>) \o rest[n] /\ rest[n - 1] \in Text
  <2> DEFINE u == upTo[n - 1]
             l == lines[n]
             r == rest[n]
             z == <<NL>>
  <2>1. u \in Text /\ l \in Text /\ r \in Text /\ z \in Text /\ upTo[n] = (u \o l) \o z
    <3>1. n - 1 \in 0..N
      BY <1>3
    <3>2. u \in Text
      BY <1>1, <3>1
    <3>3. l \in Text /\ z \in Text /\ r \in Text
      BY <1>3, <1>7
    <3>4. upTo[n] = (u \o l) \o z
      BY <1>1
    <3> QED
      BY <3>2, <3>3, <3>4
  <2>2. rest[n - 1] = From(E, Len(u))
    BY <1>3, <1>5
  <2> HIDE DEF u, l, r, z
  <2>3. ((u \o l) \o z) \o r = u \o ((l \o z) \o r)
    <3>1. u \o l \in Text /\ z \o r \in Text /\ l \o z \in Text
      BY <2>1, Joined
    <3>2. ((u \o l) \o z) \o r = (u \o l) \o (z \o r)
      <4> DEFINE w == u \o l
      <4>1. w \in Text
        BY <3>1
      <4> HIDE DEF w
      <4>2. (w \o z) \o r = w \o (z \o r)
        BY <2>1, <4>1, Associates
      <4> QED
        BY <4>2 DEF w
    <3>3. (u \o l) \o (z \o r) = u \o (l \o (z \o r))
      BY <2>1, <3>1, Associates, ZenonT(30)
    <3>4. (l \o z) \o r = l \o (z \o r)
      BY <2>1, Associates
    <3> QED
      BY <3>2, <3>3, <3>4
  <2>4. (l \o z) \o r \in Text
    <3>1. l \o z \in Text
      BY <2>1, Joined
    <3> QED
      BY <2>1, <3>1, Joined
  <2>5. From(u \o ((l \o z) \o r), Len(u)) = (l \o z) \o r
    BY <2>1, <2>4, Apart DEF Text
  <2>6. E = u \o ((l \o z) \o r)
    BY <1>7, <2>1, <2>3 DEF r
  <2> QED
    BY <2>2, <2>4, <2>5, <2>6 DEF u, l, r, z
<1>8. \A k \in 0..N : k \in T
  <2>1. 0 \in T
    <3>1. N - 0 = N /\ 0 \in 0..N
      BY <1>3
    <3> QED
      BY <1>3, <1>6, <3>1
  <2>2. ASSUME NEW k \in 1..N, k - 1 \in T PROVE k \in T
    <3>1. N - (k - 1) \in 1..N /\ (N - (k - 1)) - 1 = N - k /\ k \in 0..N
      BY <1>3
    <3>2. E = upTo[N - (k - 1)] \o rest[N - (k - 1)] /\ rest[N - (k - 1)] \in Text
      BY <2>2
    <3>3. E = upTo[(N - (k - 1)) - 1] \o rest[(N - (k - 1)) - 1] /\ rest[(N - (k - 1)) - 1] \in Text
      BY <1>7, <3>1, <3>2
    <3> QED
      BY <3>1, <3>3
  <2> HIDE DEF T
  <2> QED
    BY <1>3, <2>1, <2>2, BoundedInduction
<1>9. \A n \in 0..N : E = upTo[n] \o rest[n] /\ rest[n] \in Text
  <2> SUFFICES ASSUME NEW n \in 0..N PROVE E = upTo[n] \o rest[n] /\ rest[n] \in Text
    OBVIOUS
  <2>1. N - n \in 0..N /\ N - (N - n) = n
    BY <1>3
  <2>2. N - n \in T
    BY <1>8, <2>1
  <2> QED
    BY <2>1, <2>2
<1> HIDE DEF T
<1>10. rest \in [0..N -> Text]
  BY <1>9 DEF rest
<1>11. rest[0] = E
  <2>0. 0 \in 0..N
    BY <1>3
  <2>1. 0 \in 0..N /\ rest[0] \in Text
    BY <1>9, <2>0
  <2>2. E = << >> \o rest[0]
    BY <1>1, <1>9, <2>1
  <2> QED
    BY <2>1, <2>2, ConcatEmptySeq DEF Text
<1>12. \A n \in 1..N : rest[n - 1] = (lines[n] \o <<NL>>) \o rest[n]
  <2>1. \A n \in 1..N : n \in 0..N
    OBVIOUS
  <2> QED
    BY <1>7, <1>9, <2>1
<1>13. N <= Len(E)
  <2> DEFINE U == {n \in 0..N : n <= Len(upTo[n])}
  <2>1. 0 \in U
    BY <1>1, <1>3
  <2>2. ASSUME NEW n \in 1..N, n - 1 \in U PROVE n \in U
    <3> DEFINE u == upTo[n - 1]
               l == lines[n]
    <3>1. u \in Text /\ l \in Text /\ n - 1 <= Len(u) /\ n \in 0..N
      BY <1>1, <1>3, <2>2
    <3>2. upTo[n] = (u \o l) \o <<NL>>
      BY <1>1
    <3> HIDE DEF u, l
    <3>3. u \o l \in Text /\ Len(u \o l) = Len(u) + Len(l) /\ Len(u) \in Nat /\ Len(l) \in Nat
      BY <3>1, Joined
    <3>4. Len((u \o l) \o <<NL>>) = Len(u \o l) + Len(<<NL>>)
      BY <1>3, <3>3, Joined
    <3>5. n <= Len(upTo[n])
      BY <1>3, <3>1, <3>2, <3>3, <3>4
    <3> QED
      BY <3>1, <3>5
  <2> HIDE DEF U
  <2>3. \A n \in 0..N : n \in U
    BY <1>3, <2>1, <2>2, BoundedInduction
  <2>4. N \in U
    BY <1>3, <2>3
  <2> QED
    BY <1>2, <2>4 DEF U
<1> QED
  BY <1>6, <1>10, <1>11, <1>12, <1>13 DEF N, E

\* A slice that is longer by one.
LEMMA SliceMore ==
  ASSUME NEW S, NEW s \in Seq(S), NEW n \in 1..Len(s)
  PROVE  Append(SubSeq(s, 1, n - 1), s[n]) = SubSeq(s, 1, n)
<1> DEFINE a == SubSeq(s, 1, n - 1)
           b == SubSeq(s, 1, n)
<1>1. Len(s) \in Nat /\ n - 1 \in 0..Len(s) /\ n \in 0..Len(s) /\ s[n] \in S
  BY LenProperties, ElementOfSeq
<1>2. a \in Seq(S) /\ Len(a) = n - 1 /\ \A j \in 1..(n - 1) : a[j] = s[j]
  BY <1>1, Slices
<1>3. b \in Seq(S) /\ Len(b) = n /\ \A j \in 1..n : b[j] = s[j]
  BY <1>1, Slices
<1> HIDE DEF a, b
<1>4. /\ Append(a, s[n]) \in Seq(S) /\ Len(Append(a, s[n])) = (n - 1) + 1
      /\ \A j \in 1..(n - 1) : Append(a, s[n])[j] = a[j]
      /\ Append(a, s[n])[(n - 1) + 1] = s[n]
  BY <1>1, <1>2, AppendProperties
<1>5. \A j \in 1..n : Append(a, s[n])[j] = s[j]
  <2>1. \A j \in 1..n : j \in 1..(n - 1) \/ j = n
    OBVIOUS
  <2>2. (n - 1) + 1 = n
    OBVIOUS
  <2> QED
    BY <1>2, <1>4, <2>1, <2>2
<1>6. Len(Append(a, s[n])) = Len(b)
  BY <1>3, <1>4
<1> DEFINE c == Append(a, s[n])
<1>7. c \in Seq(S) /\ Len(c) = n /\ \A j \in 1..n : c[j] = s[j]
  BY <1>4, <1>5
<1> HIDE DEF c
<1>8. c = b
  BY <1>3, <1>7, SeqEqual
<1> QED
  BY <1>8 DEF a, b, c

\* No separator is found in nothing.
LEMMA IndexNone ==
  ASSUME NEW byte
  PROVE  Index(<< >>, byte) = 0
<1> DEFINE I == {i \in 1..Len(<< >>) : << >>[i] = byte}
<1>1. I = {}
  OBVIOUS
<1>2. Index(<< >>, byte) = IF I # {} THEN Min(I) ELSE 0
  BY DEF Index, SelectInSeq
<1> QED
  BY <1>1, <1>2

\* The decoder finds the lines that were written, if none of them holds a separator.
LEMMA LinesEnded ==
  ASSUME NEW lines \in Seq(Text), \A n \in 1..Len(lines) : Absent(NL, lines[n])
  PROVE  Lines(Ended(lines)) = lines
<1> DEFINE bs == Ended(lines)
           N == Len(lines)
           m == Len(bs)
           Loop(f) == f = [n \in 0..Len(bs) |->
                             IF n = 0 THEN [lines |-> << >>, rest |-> bs] ELSE CutLine(f[n - 1])]
           after == CHOOSE f : Loop(f)
<1>1. PICK rest \in [0..N -> Text] :
        /\ rest[0] = bs /\ rest[N] = << >>
        /\ \A n \in 1..N : rest[n - 1] = (lines[n] \o <<NL>>) \o rest[n]
        /\ N <= Len(bs)
  BY EndedRests
<1>2. bs \in Text /\ m \in Nat /\ N \in Nat /\ N <= m /\ NL \in Bytes /\ \A n \in 1..N : lines[n] \in Text
  <2>1. NL \in Bytes
    BY WireAssumption
  <2>2. bs \in Text
    BY EndedText
  <2> HIDE DEF bs
  <2> QED
    BY <1>1, <2>1, <2>2, LenProperties, ElementOfSeq DEF Text
<1> DEFINE k(n) == IF n <= N THEN n ELSE N
           f == [n \in 0..m |-> [lines |-> SubSeq(lines, 1, k(n)), rest |-> rest[k(n)]]]
<1>3. Lines(bs) = after[m].lines
  BY DEF Lines
<1> HIDE DEF bs
<1>4. ASSUME NEW n \in 1..N
      PROVE  CutLine([lines |-> SubSeq(lines, 1, n - 1), rest |-> rest[n - 1]])
               = [lines |-> SubSeq(lines, 1, n), rest |-> rest[n]]
  <2> DEFINE t == lines[n]
             r == rest[n]
             s == rest[n - 1]
             l == SubSeq(lines, 1, n - 1)
  <2>1. t \in Text /\ Absent(NL, t) /\ r \in Text /\ s = (t \o <<NL>>) \o r /\ Len(t) \in Nat
    <3>1. n \in 0..N /\ n \in 1..Len(lines)
      BY <1>2
    <3>2. t \in Text /\ r \in Text
      BY <1>1, <1>2, <3>1
    <3> QED
      BY <1>1, <3>1, <3>2, LenProperties DEF Text
  <2>2. Append(l, t) = SubSeq(lines, 1, n)
    BY SliceMore
  <2> HIDE DEF t, r, s, l
  <2>3. Index(s, NL) = Len(t) + 1 /\ SubSeq(s, 1, Index(s, NL) - 1) = t /\ From(s, Index(s, NL)) = r
    BY <1>2, <2>1, IndexFirst
  <2>4. Index(s, NL) # 0
    BY <2>1, <2>3
  <2> DEFINE v == [lines |-> l, rest |-> s]
  <2>5. v.rest = s /\ v.lines = l
    OBVIOUS
  <2> HIDE DEF v
  <2>6. CutLine(v) = [lines |-> Append(l, t), rest |-> r]
    BY <2>3, <2>4, <2>5 DEF CutLine
  <2> QED
    BY <2>2, <2>6 DEF v, l, s, r
<1>5. CutLine([lines |-> SubSeq(lines, 1, N), rest |-> rest[N]]) = [lines |-> SubSeq(lines, 1, N), rest |-> rest[N]]
  <2> DEFINE v == [lines |-> SubSeq(lines, 1, N), rest |-> rest[N]]
  <2>1. v.rest = << >>
    BY <1>1
  <2> HIDE DEF v
  <2>2. CutLine(v) = v
    BY <2>1, IndexNone DEF CutLine
  <2> QED
    BY <2>2 DEF v
<1>6. ASSUME NEW n \in 0..m, n # 0 PROVE CutLine(f[n - 1]) = f[n]
  <2>1. n - 1 \in 0..m
    BY <1>2, <1>6
  <2>2. /\ f[n - 1] = [lines |-> SubSeq(lines, 1, k(n - 1)), rest |-> rest[k(n - 1)]]
        /\ f[n] = [lines |-> SubSeq(lines, 1, k(n)), rest |-> rest[k(n)]]
    BY <2>1
  <2>3. CASE n <= N
    <3>1. k(n - 1) = n - 1 /\ k(n) = n /\ n \in 1..N
      BY <1>2, <1>6, <2>3
    <3> HIDE DEF f, k
    <3> QED
      BY <1>4, <2>2, <3>1
  <2>4. CASE ~(n <= N)
    <3>1. k(n - 1) = N /\ k(n) = N
      BY <1>2, <1>6, <2>4
    <3> HIDE DEF f, k
    <3> QED
      BY <1>5, <2>2, <3>1
  <2> QED
    BY <2>3, <2>4
<1>7. f[0] = [lines |-> << >>, rest |-> bs]
  <2>1. 0 \in 0..m /\ k(0) = 0
    BY <1>2
  <2>2. SubSeq(lines, 1, 0) = << >>
    OBVIOUS
  <2> QED
    BY <1>1, <2>1, <2>2
<1>8. Loop(f)
  <2>1. f = [n \in 0..m |-> f[n]]
    OBVIOUS
  <2>2. \A n \in 0..m : f[n] = IF n = 0 THEN [lines |-> << >>, rest |-> bs] ELSE CutLine(f[n - 1])
    <3> HIDE DEF f
    <3> QED
      BY <1>6, <1>7
  <2> HIDE DEF f
  <2> QED
    BY <2>1, <2>2
<1>9. Loop(after)
  <2> HIDE DEF f, Loop
  <2> QED
    BY <1>8
<1> HIDE DEF after, m
<1>10. \A n \in 0..m : after[n] = f[n]
  <2> DEFINE T == {n \in 0..m : after[n] = f[n]}
  <2>0. \A n \in 0..m : after[n] = IF n = 0 THEN [lines |-> << >>, rest |-> bs] ELSE CutLine(after[n - 1])
    BY <1>9 DEF m
  <2> HIDE DEF Loop, f
  <2>1. 0 \in T
    BY <1>2, <1>7, <2>0
  <2>2. ASSUME NEW n \in 1..m, n - 1 \in T PROVE n \in T
    <3>1. n \in 0..m /\ n # 0
      BY <1>2
    <3>2. after[n] = CutLine(after[n - 1]) /\ f[n] = CutLine(f[n - 1]) /\ after[n - 1] = f[n - 1]
      BY <1>6, <2>0, <2>2, <3>1
    <3> QED
      BY <3>1, <3>2
  <2> HIDE DEF T
  <2>3. \A n \in 0..m : n \in T
    BY <1>2, <2>1, <2>2, BoundedInduction
  <2> QED
    BY <2>3 DEF T
<1>11. f[m].lines = SubSeq(lines, 1, N)
  <2>1. m \in 0..m /\ k(m) = N
    BY <1>2
  <2> QED
    BY <2>1
<1>12. SubSeq(lines, 1, N) = lines
  <2>1. N \in 0..Len(lines)
    BY <1>2
  <2>2. /\ SubSeq(lines, 1, N) \in Seq(Text) /\ Len(SubSeq(lines, 1, N)) = N
        /\ \A j \in 1..N : SubSeq(lines, 1, N)[j] = lines[j]
    BY <2>1, Slices
  <2> DEFINE l == SubSeq(lines, 1, N)
  <2> HIDE DEF l
  <2>3. l \in Seq(Text) /\ Len(l) = Len(lines) /\ \A j \in 1..Len(l) : l[j] = lines[j]
    BY <2>2 DEF l
  <2>4. l = lines
    BY <2>3, SeqEqual
  <2> QED
    BY <2>4 DEF l
<1> HIDE DEF f
<1>13. after[m].lines = lines
  <2>1. after[m] = f[m]
    BY <1>2, <1>10
  <2> QED
    BY <1>11, <1>12, <2>1
<1> QED
  BY <1>3, <1>13 DEF bs

-----------------------------------------------------------------------------
(* The server decodes what was written *)

\* What is in neither of two texts is not in both together.
LEMMA AbsentBoth ==
  ASSUME NEW byte, NEW s \in Text, NEW t \in Text, Absent(byte, s), Absent(byte, t)
  PROVE  Absent(byte, s \o t)
<1> DEFINE r == s \o t
<1>1. /\ Len(s) \in Nat /\ Len(t) \in Nat /\ r \in Text /\ Len(r) = Len(s) + Len(t)
      /\ \A i \in 1..Len(s) + Len(t) : r[i] = IF i <= Len(s) THEN s[i] ELSE t[i - Len(s)]
  BY Joined, ConcatProperties DEF Text
<1> HIDE DEF r
<1>2. (\A i \in 1..Len(s) : s[i] # byte) /\ (\A i \in 1..Len(t) : t[i] # byte)
  BY LenProperties DEF Absent, ToSet, Text
<1>3. \A i \in 1..Len(r) : r[i] # byte
  <2>1. \A i \in 1..Len(s) + Len(t) : ~(i <= Len(s)) => i - Len(s) \in 1..Len(t)
    BY <1>1
  <2>2. \A i \in 1..Len(s) + Len(t) : i <= Len(s) => i \in 1..Len(s)
    BY <1>1
  <2> QED
    BY <1>1, <1>2, <2>1, <2>2
<1>4. DOMAIN r = 1..Len(r)
  BY <1>1, LenProperties DEF Text
<1>5. Absent(byte, r)
  BY <1>3, <1>4 DEF Absent, ToSet
<1> QED
  BY <1>5 DEF r

\* One byte is no other byte.
LEMMA AbsentOne ==
  ASSUME NEW byte, NEW b, b # byte
  PROVE  Absent(byte, <<b>>)
BY DEF Absent, ToSet

\* A pair is cut where it was joined.
LEMMA PairRead ==
  ASSUME NEW k \in Text, NEW v \in Text, Absent(CR, k)
  PROVE  LET pair == k \o <<CR>> \o v
         IN  Cut(pair) # 0 /\ Key(pair) = k /\ ValueIn(pair) = v
<1> DEFINE pair == (k \o <<CR>>) \o v
<1>1. CR \in Bytes
  BY WireAssumption
<1>2. Index(pair, CR) = Len(k) + 1 /\ SubSeq(pair, 1, Index(pair, CR) - 1) = k /\ From(pair, Index(pair, CR)) = v
  BY <1>1, IndexFirst
<1> HIDE DEF pair
<1>3. Len(k) \in Nat
  BY LenProperties DEF Text
<1>4. Cut(pair) # 0 /\ Key(pair) = k /\ ValueIn(pair) = v
  BY <1>2, <1>3 DEF Cut, Key, ValueIn
<1> QED
  BY <1>4 DEF pair

\* The lines of a legal request hold no separator, and its pairs are cut right.
LEMMA WrittenLegal ==
  ASSUME NEW req, IsRequest(req), Legal(req), NEW order \in SetToSeqs(DOMAIN req.meta)
  PROVE  LET lines == Written(req, order)
         IN  /\ \A n \in 1..Len(lines) : Absent(NL, lines[n])
             /\ \A n \in 1..Len(order) :
                  /\ order[n] \in DOMAIN req.meta
                  /\ Cut(lines[n + 2]) # 0 /\ Key(lines[n + 2]) = order[n]
                  /\ ValueIn(lines[n + 2]) = req.meta[order[n]]
<1> DEFINE lines == Written(req, order)
           meta == req.meta
<1>1. /\ lines \in Seq(Text) /\ Len(lines) = Len(order) + 2
      /\ lines[1] = req.service /\ lines[2] = req.method
      /\ \A n \in 1..Len(order) : lines[n + 2] = order[n] \o <<CR>> \o meta[order[n]]
      /\ order \in Seq(DOMAIN meta)
  BY WrittenType
<1>2. Absent(NL, lines[1]) /\ Absent(NL, lines[2])
  BY <1>1 DEF Legal
<1>3. \A k \in DOMAIN meta : k \in Text /\ meta[k] \in Text
  BY RequestFields
<1>4. \A k \in DOMAIN meta : Absent(NL, k) /\ Absent(CR, k) /\ Absent(NL, meta[k])
  BY DEF Legal
<1>5. CR \in Bytes /\ CR # NL
  BY WireAssumption
<1>6. <<CR>> \in Text /\ Absent(NL, <<CR>>)
  BY <1>5, AbsentOne DEF Text
<1> HIDE DEF lines, meta
<1>7. ASSUME NEW n \in 1..Len(order)
      PROVE  /\ order[n] \in DOMAIN meta /\ Absent(NL, lines[n + 2])
             /\ Cut(lines[n + 2]) # 0 /\ Key(lines[n + 2]) = order[n]
             /\ ValueIn(lines[n + 2]) = meta[order[n]]
  <2> DEFINE k == order[n]
             v == meta[k]
  <2>1. k \in DOMAIN meta
    BY <1>1, ElementOfSeq
  <2>2. k \in Text /\ v \in Text /\ Absent(NL, k) /\ Absent(CR, k) /\ Absent(NL, v)
    BY <1>3, <1>4, <2>1
  <2>3. lines[n + 2] = k \o <<CR>> \o v
    BY <1>1
  <2> HIDE DEF k, v
  <2>4. Cut(k \o <<CR>> \o v) # 0 /\ Key(k \o <<CR>> \o v) = k /\ ValueIn(k \o <<CR>> \o v) = v
    BY <2>2, PairRead
  <2>5. k \o <<CR>> \in Text /\ Absent(NL, k \o <<CR>>)
    BY <1>6, <2>2, Joined, AbsentBoth
  <2> DEFINE g == k \o <<CR>>
  <2> HIDE DEF g
  <2>6. Absent(NL, g \o v)
    BY <2>2, <2>5, AbsentBoth DEF g
  <2> QED
    BY <2>1, <2>3, <2>4, <2>6 DEF g, k, v
<1>8. \A n \in 1..Len(lines) : Absent(NL, lines[n])
  <2> SUFFICES ASSUME NEW n \in 1..Len(lines), n # 1, n # 2 PROVE Absent(NL, lines[n])
    BY <1>2
  <2>1. Len(order) \in Nat
    BY <1>1, LenProperties
  <2>2. n - 2 \in 1..Len(order) /\ (n - 2) + 2 = n
    BY <1>1, <2>1
  <2>3. Absent(NL, lines[(n - 2) + 2])
    BY <1>7, <2>2
  <2> QED
    BY <2>2, <2>3
<1> QED
  BY <1>7, <1>8 DEF lines, meta

\* The metadata are what they were, in whatever order they were written.
LEMMA MetaRead ==
  ASSUME NEW req, IsRequest(req), Legal(req), NEW order \in SetToSeqs(DOMAIN req.meta)
  PROVE  MetaOf(Pairs(req.meta, order)) = req.meta
<1> DEFINE lines == Written(req, order)
           meta == req.meta
           pairs == Pairs(meta, order)
<1>1. /\ Len(lines) = Len(order) + 2
      /\ \A n \in 1..Len(order) : lines[n + 2] = order[n] \o <<CR>> \o meta[order[n]]
  BY WrittenType
<1>2. \A n \in 1..Len(order) :
        /\ order[n] \in DOMAIN meta
        /\ Cut(lines[n + 2]) # 0 /\ Key(lines[n + 2]) = order[n]
        /\ ValueIn(lines[n + 2]) = meta[order[n]]
  BY WrittenLegal
<1>3. IsFiniteSet(DOMAIN meta) /\ meta = [k \in DOMAIN meta |-> meta[k]]
  BY RequestFields
<1> HIDE DEF lines, meta
<1>4. /\ order \in Seq(DOMAIN meta) /\ Len(order) \in Nat
      /\ \A i, j \in 1..Len(order) : order[i] = order[j] => i = j
      /\ \A k \in DOMAIN meta : \E i \in 1..Len(order) : order[i] = k
  BY <1>3, OrderType DEF meta
<1>5. DOMAIN pairs = 1..Len(order) /\ \A n \in 1..Len(order) : pairs[n] = lines[n + 2]
  BY <1>1 DEF Pairs
<1> HIDE DEF pairs
<1>6. \A n \in DOMAIN pairs : Key(pairs[n]) = order[n] /\ ValueIn(pairs[n]) = meta[order[n]]
  BY <1>2, <1>5
<1>7. {Key(pairs[n]) : n \in DOMAIN pairs} = DOMAIN meta
  <2>1. \A n \in DOMAIN pairs : Key(pairs[n]) \in DOMAIN meta
    BY <1>2, <1>5, <1>6
  <2>2. ASSUME NEW k \in DOMAIN meta PROVE \E n \in DOMAIN pairs : Key(pairs[n]) = k
    <3>1. PICK i \in 1..Len(order) : order[i] = k
      BY <1>4
    <3>2. i \in DOMAIN pairs /\ Key(pairs[i]) = k
      BY <1>5, <1>6, <3>1
    <3> QED
      BY <3>2
  <2> QED
    BY <2>1, <2>2
<1>8. ASSUME NEW k \in DOMAIN meta
      PROVE  ValueIn(pairs[Max({n \in DOMAIN pairs : Key(pairs[n]) = k})]) = meta[k]
  <2>1. PICK i \in 1..Len(order) : order[i] = k
    BY <1>4
  <2> DEFINE I == {n \in DOMAIN pairs : Key(pairs[n]) = k}
  <2>2. I = {i}
    <3>1. i \in I
      BY <1>5, <1>6, <2>1
    <3>2. \A n \in I : n \in 1..Len(order) /\ order[n] = order[i]
      BY <1>5, <1>6, <2>1
    <3> HIDE DEF I
    <3>3. \A n \in I : n = i
      BY <1>4, <3>2
    <3> QED
      BY <3>1, <3>3
  <2> HIDE DEF I
  <2>3. Max(I) = i
    <3>1. i \in Int /\ i >= i
      OBVIOUS
    <3> QED
      BY <2>2, <3>1 DEF Max
  <2>4. ValueIn(pairs[i]) = meta[k]
    BY <1>5, <1>6, <2>1
  <2> QED
    BY <2>3, <2>4 DEF I
<1>9. MetaOf(pairs) = [k \in DOMAIN meta |-> meta[k]]
  BY <1>7, <1>8 DEF MetaOf
<1> QED
  BY <1>3, <1>9 DEF meta, pairs

\* A frame of a legal request is decoded as that request; its data are only if its
\* lengths do not wrap.
LEMMA FrameDecoded ==
  ASSUME NEW req \in Calls, Legal(req), NEW f \in ReqFrames(req)
  PROVE  /\ ~DecodeReqPanics(f)
         /\ \E data : DecodeReq(f) = [service |-> req.service, method |-> req.method, meta |-> req.meta,
                                      compresser |-> req.compresser, serializer |-> req.serializer,
                                      data |-> data]
         /\ ReqFits(req) => DecodeReq(f) = req
<1>1. IsRequest(req)
  <2>1. \A r \in Calls : IsRequest(r)
    BY WireAssumption
  <2> QED
    BY <2>1
<1>2. PICK order \in SetToSeqs(DOMAIN req.meta) :
        f = EncodeReq(req, order).bytes /\ ~EncodeReq(req, order).panics
  BY DEF ReqFrames
<1> DEFINE lines == Written(req, order)
           names == Names(req, order)
           data == req.data
           c == req.compresser
           z == req.serializer
<1>3. Holds(f, names, data, c, z)
  BY <1>1, <1>2, RequestRead
<1>4. /\ lines \in Seq(Text) /\ Len(lines) = Len(order) + 2
      /\ lines[1] = req.service /\ lines[2] = req.method
      /\ From(lines, 2) = Pairs(req.meta, order) /\ order \in Seq(DOMAIN req.meta)
  BY <1>1, WrittenType
<1>5. /\ \A n \in 1..Len(lines) : Absent(NL, lines[n])
      /\ \A n \in 1..Len(order) : Cut(lines[n + 2]) # 0
  BY <1>1, WrittenLegal
<1>6. names = Ended(lines)
  BY DEF Names
<1>7. MetaOf(From(lines, 2)) = req.meta
  BY <1>1, <1>4, MetaRead
<1>8. ReqFits(req) => Fixed + Len(names) + Len(data) < Width
  BY DEF ReqFits
<1>9. names \in Text
  BY <1>4, <1>6, EndedText
<1> HIDE DEF lines, names, c, z
<1>10. LinesOf(f) = lines
  <2>1. SubSeq(f, Fixed + 1, HeadOf(f)) = names
    BY <1>3 DEF Holds
  <2>2. Lines(names) = lines
    BY <1>4, <1>5, <1>6, LinesEnded
  <2> QED
    BY <2>1, <2>2 DEF LinesOf
<1>11. Len(order) \in Nat
  BY <1>4, LenProperties
<1>12. ~DecodeReqPanics(f)
  <2>1. HeadOf(f) = Fixed + Len(names) /\ Fixed + Len(names) <= Len(f) /\ Len(f) \in Fixed..(Width - 1)
    BY <1>3 DEF Holds, Framed
  <2>2. Len(names) \in Nat /\ Fixed \in Nat
    BY <1>9, Constants, LenProperties DEF Text
  <2>3. Width \in Nat
    BY Powers
  <2> DEFINE k == Len(f)
             h == HeadOf(f)
  <2>4. ~(k < Fixed) /\ ~(h < Fixed) /\ ~(h > k)
    <3>1. h = Fixed + Len(names) /\ Fixed + Len(names) <= k /\ k \in Fixed..(Width - 1)
      BY <2>1
    <3> HIDE DEF k, h
    <3> QED
      BY <2>2, <2>3, <3>1
  <2>5. ~(Len(lines) < 2)
    BY <1>4, <1>11
  <2>6. \A n \in 3..Len(lines) : Cut(lines[n]) # 0
    <3> SUFFICES ASSUME NEW n \in 3..Len(lines) PROVE Cut(lines[n]) # 0
      OBVIOUS
    <3>1. n - 2 \in 1..Len(order) /\ (n - 2) + 2 = n
      BY <1>4, <1>11
    <3>2. Cut(lines[(n - 2) + 2]) # 0
      BY <1>5, <3>1
    <3> QED
      BY <3>1, <3>2
  <2> QED
    BY <1>10, <2>4, <2>5, <2>6 DEF DecodeReqPanics
<1>13. DecodeReq(f) = [service |-> req.service, method |-> req.method, meta |-> req.meta,
                       compresser |-> req.compresser, serializer |-> req.serializer, data |-> DataOf(f)]
  <2>1. f[Fixed - 1] = req.compresser /\ f[Fixed] = req.serializer
    BY <1>3 DEF Holds, c, z
  <2> QED
    BY <1>4, <1>7, <1>10, <2>1 DEF DecodeReq
<1>14. ASSUME ReqFits(req) PROVE DecodeReq(f) = req
  <2>1. DataOf(f) = req.data
    BY <1>3, <1>8, <1>14 DEF Holds
  <2>2. req = [service |-> req.service, method |-> req.method, meta |-> req.meta,
               compresser |-> req.compresser, serializer |-> req.serializer, data |-> req.data]
    BY <1>1, Zenon DEF IsRequest
  <2> QED
    BY <1>13, <2>1, <2>2, Zenon
<1> QED
  BY <1>12, <1>13, <1>14

\* RequestsArrive, whatever calls the application makes and in whatever steps their
\* bytes are read: lines, pairs and lengths are found where EncodeReq has put them.
THEOREM RequestsRead == Spec => []RequestsArrive
<1>1. Whole => RequestsArrive
  <2> SUFFICES ASSUME Whole, reader["server"].pc = "serve", ~short, Legal(Head(sent)), ReqFits(Head(sent))
               PROVE  heard["server"] = Head(sent)
    BY DEF RequestsArrive
  <2>1. Typed /\ RequestsWhole
    BY DEF Whole
  <2>2. heard["server"] \in Heard(sent[1]) /\ Unanswered # 0 /\ Unanswered \in Nat
    BY <2>1 DEF RequestsWhole
  <2>3. sent # << >> /\ sent \in Seq(Calls)
    BY <2>1, <2>2, UnansweredType DEF Typed
  <2>4. sent[1] \in Calls /\ Head(sent) = sent[1]
    BY <2>3, LastFirst
  <2>5. PICK f \in ReqFrames(sent[1]) : heard["server"] = DecodeReq(f)
    BY <2>2 DEF Heard
  <2>6. Legal(sent[1]) /\ ReqFits(sent[1])
    BY <2>4
  <2>7. DecodeReq(f) = sent[1]
    BY <2>4, <2>6, FrameDecoded
  <2> QED
    BY <2>4, <2>5, <2>7
<1> QED
  BY <1>1, AlwaysWhole, PTL

\* PanicsExplained: EncodeReq, DecodeReq and Server.Invoke panic for the reasons it
\* lists and for no other, however many calls have been made before.
THEOREM PanicsHaveCauses == Spec => []PanicsExplained
<1>1. Whole => PanicsExplained
  <2> SUFFICES ASSUME Whole PROVE PanicsExplained
    OBVIOUS
  <2>1. Typed /\ RequestsWhole
    BY DEF Whole
  <2>2. ASSUME reader["client"].pc = "dead", ~short PROVE ~ReqFits(Last(sent)) \/ ~RespFits(served)
    BY <2>1, <2>2 DEF RequestsWhole
  <2>3. ASSUME reader["server"].pc = "dead", ~short, RespFits(served), Legal(Head(sent))
        PROVE  ServePanics(Head(sent))
    <3>1. sent # << >> /\ Kills(sent[1]) /\ sent \in Seq(Calls)
      BY <2>1, <2>3 DEF RequestsWhole, Typed
    <3>2. sent[1] \in Calls /\ Head(sent) = sent[1]
      BY <3>1, LastFirst
    <3> DEFINE req == sent[1]
    <3>3. PICK f \in ReqFrames(req) : DecodeReqPanics(f) \/ ServePanics(DecodeReq(f))
      BY <3>1 DEF Kills
    <3>4. req \in Calls /\ Legal(req)
      BY <2>3, <3>2
    <3> HIDE DEF req
    <3>5. /\ ~DecodeReqPanics(f)
          /\ \E data : DecodeReq(f) = [service |-> req.service, method |-> req.method, meta |-> req.meta,
                                      compresser |-> req.compresser, serializer |-> req.serializer,
                                      data |-> data]
      BY <3>4, FrameDecoded
    <3> DEFINE got == DecodeReq(f)
    <3>6. ServePanics(got) /\ got.service = req.service /\ got.method = req.method /\ got.meta = req.meta
      BY <3>3, <3>5
    <3> HIDE DEF got
    <3>7. ServePanics(req)
      BY <3>6 DEF ServePanics, IsOneway
    <3> QED
      BY <3>2, <3>7 DEF req
  <2> QED
    BY <2>2, <2>3 DEF PanicsExplained
<1> QED
  BY <1>1, AlwaysWhole, PTL

-----------------------------------------------------------------------------
(* What the caller is told *)

\* The service's answer as one frame.
TheAnswer ==
  [i \in Nat |-> {f \in Text : \E c, z \in Bytes : Holds(f, served.text, Returned(served), c, z)}]

\* The caller has been told what the service answered last.
ToldServed ==
  told # Untold /\ RespFits(served) =>
    /\ told.val = IF served.val = Nothing THEN Zero ELSE served.val
    /\ told.text = served.text
    /\ told.failed = (served.failed /\ served.text # << >>)

\* While the server lives, the requests without an answer are one-way but for the one
\* the caller waits for; and what is in the stream is the answer to that one.
Answering ==
  ~short /\ reader["server"].pc # "dead" =>
    /\ \A i \in 1..(Len(sent) - 1) : IsOneway(sent[i])
    /\ reader["client"].pc = "idle" =>
         inbox["client"] = << >> /\ ToldServed /\ \A i \in 1..Len(sent) : IsOneway(sent[i])
    /\ reader["client"].pc = "length" /\ inbox["client"] # << >> =>
         sent = << >> /\ Carries(inbox["client"], 1, TheAnswer)
    /\ reader["client"].pc = "rest" =>
         /\ sent = << >> /\ Len(reader["client"].bytes) = 2 * FieldBytes
         /\ reader["client"].size = Announced(reader["client"].bytes)
         /\ Carries(reader["client"].bytes \o inbox["client"], 1, TheAnswer)
    /\ reader["client"].pc = "decode" =>
         sent = << >> /\ inbox["client"] = << >> /\ reader["client"].bytes \in TheAnswer[1]

\* Every one-way call can be decoded and names a service the server has: the server
\* ends, and no answer to it stays in the stream for the next caller.
OnewaysKnown == \A req \in Calls : IsOneway(req) => Legal(req) /\ req.service \in DOMAIN Services

\* The answer of the service is an answer the client can read.
LEMMA TheAnswerFrames ==
  ASSUME NEW i \in Nat, NEW f \in TheAnswer[i], IsAnswer(served)
  PROVE  f \in TheAnswer[1] /\ f \in AnyAnswer[1]
<1>1. PICK c \in Bytes, z \in Bytes : Holds(f, served.text, Returned(served), c, z)
  BY DEF TheAnswer
<1>2. f \in AnyAnswer[1]
  BY <1>1, ReturnedType, HoldsAnswer
<1> QED
  BY <1>2 DEF TheAnswer

\* A value is deserialized to itself.
LEMMA DecodedEncoded ==
  ASSUME NEW v \in Values
  PROVE  Decoded(Encoded[v]) = v
<1>1. \A w \in Values : Encoded[w] = Encoded[v] => w = v
  BY WireAssumption
<1> QED
  BY <1>1 DEF Decoded

\* The answer is decoded, and the caller told.
LEMMA AnswerTold ==
  ASSUME Typed, NEW f \in TheAnswer[1], TellCaller(DecodeResp(f)), UNCHANGED served
  PROVE  ToldServed'
<1> DEFINE a == served
           resp == DecodeResp(f)
           d == resp.data
           t == resp.error
<1>1. IsAnswer(a)
  BY DEF Typed
<1>2. PICK c \in Bytes, z \in Bytes : Holds(f, a.text, Returned(a), c, z)
  BY DEF TheAnswer
<1>3. t = a.text
  BY <1>2 DEF Holds, DecodeResp
<1>4. RespFits(a) => d = Returned(a)
  <2> SUFFICES ASSUME RespFits(a) PROVE d = Returned(a)
    OBVIOUS
  <2>1. Fixed + Len(a.text) + Len(Returned(a)) < Width
    <3>1. CASE a.val = Nothing
      <4>1. Len(Returned(a)) = 0
        BY <3>1 DEF Returned
      <4> QED
        BY <3>1, <4>1 DEF RespFits
    <3>2. CASE a.val # Nothing
      BY <3>2 DEF RespFits, Returned
    <3> QED
      BY <3>1, <3>2
  <2>2. DataOf(f) = Returned(a)
    BY <1>2, <2>1 DEF Holds
  <2> QED
    BY <2>2 DEF DecodeResp
<1>5. TellCaller(resp)
  OBVIOUS
<1> HIDE DEF resp
<1>6. \E val, failed, text :
        /\ told' = [val |-> val, failed |-> failed, text |-> text]
        /\ IF d # << >> /\ Decoded(d) = Nothing THEN val = Zero /\ failed = TRUE /\ text = Garbled
           ELSE /\ val = IF d = << >> THEN Zero ELSE Decoded(d)
                /\ failed = (t # << >>) /\ text = t
  BY <1>5 DEF TellCaller, Told
<1> HIDE DEF d, t
<1>7. ASSUME RespFits(a)
      PROVE  /\ told'.val = IF a.val = Nothing THEN Zero ELSE a.val
             /\ told'.text = a.text
             /\ told'.failed = (a.failed /\ a.text # << >>)
  <2>1. /\ a.val \in Values \union {Nothing} /\ a.failed \in BOOLEAN
        /\ a.text # << >> => a.failed
    BY <1>1 DEF IsAnswer
  <2>2. d # << >> => a.val \in Values /\ Decoded(d) = a.val
    <3> SUFFICES ASSUME d # << >> PROVE a.val \in Values /\ Decoded(d) = a.val
      OBVIOUS
    <3>1. a.val # Nothing /\ d = Encoded[a.val]
      BY <1>4, <1>7 DEF Returned
    <3> QED
      BY <2>1, <3>1, DecodedEncoded
  <2>3. Nothing \notin Values
    BY WireAssumption
  <2>4. d = << >> => (IF a.val = Nothing THEN Zero ELSE a.val) = Zero
    <3>1. \A v \in Values : Encoded[v] = << >> => v = Zero
      BY WireAssumption
    <3> QED
      BY <1>4, <1>7, <2>1, <3>1 DEF Returned
  <2>5. ~(d # << >> /\ Decoded(d) = Nothing)
    BY <2>2, <2>3
  <2>6. PICK val, failed, text :
          /\ told' = [val |-> val, failed |-> failed, text |-> text]
          /\ val = IF d = << >> THEN Zero ELSE Decoded(d)
          /\ failed = (t # << >>) /\ text = t
    BY <1>6, <2>5
  <2>7. told'.val = val /\ told'.failed = failed /\ told'.text = text
    BY <2>6
  <2>8. told'.val = IF a.val = Nothing THEN Zero ELSE a.val
    BY <2>2, <2>3, <2>4, <2>6, <2>7
  <2>9. told'.failed = (a.failed /\ a.text # << >>)
    BY <1>3, <2>1, <2>6, <2>7
  <2> QED
    BY <1>3, <2>6, <2>7, <2>8, <2>9
<1>8. served' = a
  OBVIOUS
<1>9. RespFits(served)' <=> RespFits(a)
  BY <1>8 DEF RespFits
<1> HIDE DEF a
<1> QED
  BY <1>7, <1>8, <1>9 DEF ToldServed

\* Nobody has been told anything at first, and each action keeps the caller's answer its own.
LEMMA AnsweringInit == Init => Answering
<1> SUFFICES ASSUME Init PROVE Answering
  OBVIOUS
<1>1. reader["client"].pc = "idle" /\ sent = << >> /\ inbox["client"] = << >> /\ told = Untold
  BY DEF Init, Ready, Ends
<1>2. \A i \in 1..Len(sent) : IsOneway(sent[i])
  BY <1>1
<1> QED
  BY <1>1, <1>2 DEF Answering, ToldServed

\* Steps that the client has no part in.
LEMMA AnsweringSame ==
  ASSUME Answering, ~short, reader["server"].pc # "dead", reader'["client"] = reader["client"],
         inbox'["client"] = inbox["client"], UNCHANGED <<sent, served, told>>
  PROVE  Answering'
<1>1. TheAnswer' = TheAnswer /\ (ToldServed <=> ToldServed')
  BY DEF TheAnswer, Returned, ToldServed, RespFits
<1> QED
  BY <1>1 DEF Answering

\* The server is gone: the caller is told nothing any more.
LEMMA AnsweringOver ==
  ASSUME reader'["server"].pc = "dead"
  PROVE  Answering'
BY DEF Answering

LEMMA AnsweringReadLengths ==
  ASSUME Typed, Answering, NEW e \in Ends, ReadLengths(e), ~short'
  PROVE  Answering'
<1>1. UNCHANGED <<sent, served, told>> /\ reader[e].pc = "length" /\ ~short
  BY DEF ReadLengths, Read
<1>2. CASE e = "server"
  <2>1. PICK r \in Sizes(Len(inbox[e]), 2 * FieldBytes) :
          LET lens == Padded(SubSeq(inbox[e], 1, r), 2 * FieldBytes)
          IN  /\ Read(e, 2 * FieldBytes, r)
              /\ reader' = [reader EXCEPT ![e] =
                   [pc |-> IF Announced(lens) < 2 * FieldBytes THEN "dead" ELSE "rest",
                    bytes |-> lens, size |-> Announced(lens)]]
    BY DEF ReadLengths
  <2>2. reader'["client"] = reader["client"] /\ inbox'["client"] = inbox["client"]
    BY <1>2, <2>1 DEF Read, Typed, Ends
  <2> QED
    BY <1>1, <1>2, <2>2, AnsweringSame
<1>3. CASE e = "client"
  <2> SUFFICES ASSUME reader'["server"].pc # "dead" PROVE Answering'
    BY AnsweringOver
  <2>1. PICK r \in Sizes(Len(inbox[e]), 2 * FieldBytes) :
          LET lens == Padded(SubSeq(inbox[e], 1, r), 2 * FieldBytes)
          IN  /\ Read(e, 2 * FieldBytes, r)
              /\ reader' = [reader EXCEPT ![e] =
                   [pc |-> IF Announced(lens) < 2 * FieldBytes THEN "dead" ELSE "rest",
                    bytes |-> lens, size |-> Announced(lens)]]
    BY DEF ReadLengths
  <2>2. reader'["server"] = reader["server"]
    BY <1>3, <2>1 DEF Typed, Ends
  <2>3. inbox[e] # << >>
    <3> SUFFICES ASSUME inbox[e] = << >> PROVE FALSE
      OBVIOUS
    <3>1. Len(inbox[e]) = 0
      OBVIOUS
    <3>2. 2 * FieldBytes \in Nat /\ 2 * FieldBytes # 0
      BY Constants
    <3>3. r \in 0..0
      BY <3>1, <3>2, SizesType
    <3>4. r > 0
      BY <2>1, <3>2 DEF Read
    <3> QED
      BY <3>3, <3>4
  <2>4. sent = << >> /\ Carries(inbox[e], 1, TheAnswer)
    BY <1>1, <1>3, <2>2, <2>3 DEF Answering
  <2>5. /\ reader'[e].pc = "rest" /\ Len(reader'[e].bytes) = 2 * FieldBytes
        /\ reader'[e].size = Announced(reader'[e].bytes)
        /\ Carries(reader'[e].bytes \o inbox'[e], 1, TheAnswer)
    BY <2>4, WholeLengths
  <2>6. TheAnswer' = TheAnswer
    BY <1>1 DEF TheAnswer, Returned
  <2>7. sent' = << >> /\ Len(sent') = 0
    BY <1>1, <2>4
  <2> QED
    BY <1>3, <2>5, <2>6, <2>7 DEF Answering
<1> QED
  BY <1>2, <1>3 DEF Ends

LEMMA AnsweringReadRest ==
  ASSUME Typed, Answering, NEW e \in Ends, ReadRest(e), ~short'
  PROVE  Answering'
<1>1. UNCHANGED <<sent, served, told>> /\ reader[e].pc = "rest" /\ ~short
  BY DEF ReadRest, Read
<1>2. PICK r \in Sizes(Len(inbox[e]), reader[e].size - 2 * FieldBytes) :
        /\ Read(e, reader[e].size - 2 * FieldBytes, r)
        /\ reader' = [reader EXCEPT ![e] =
             [pc |-> "decode",
              bytes |-> @.bytes \o Padded(SubSeq(inbox[e], 1, r), reader[e].size - 2 * FieldBytes),
              size |-> @.size]]
  BY DEF ReadRest
<1>3. CASE e = "server"
  <2>1. reader'["client"] = reader["client"] /\ inbox'["client"] = inbox["client"]
    BY <1>2, <1>3 DEF Read, Typed, Ends
  <2> QED
    BY <1>1, <1>3, <2>1, AnsweringSame
<1>4. CASE e = "client"
  <2> SUFFICES ASSUME reader'["server"].pc # "dead" PROVE Answering'
    BY AnsweringOver
  <2>1. reader'["server"] = reader["server"]
    BY <1>2, <1>4 DEF Typed, Ends
  <2>2. /\ sent = << >> /\ Len(reader[e].bytes) = 2 * FieldBytes
        /\ reader[e].size = Announced(reader[e].bytes)
        /\ Carries(reader[e].bytes \o inbox[e], 1, TheAnswer)
    BY <1>1, <1>4, <2>1 DEF Answering
  <2>3. \A i \in 1..(1 - 1) : TheAnswer[i] = TheAnswer[i + 1]
    OBVIOUS
  <2>4. /\ reader'[e].pc = "decode" /\ reader'[e].bytes \in TheAnswer[1]
        /\ Carries(inbox'[e], 1 - 1, TheAnswer)
    BY <2>2, <2>3, WholeRest
  <2>5. inbox'[e] = << >>
    <3>1. 1 - 1 = 0
      OBVIOUS
    <3> QED
      BY <2>4, <3>1, CarriesNone
  <2>6. TheAnswer' = TheAnswer
    BY <1>1 DEF TheAnswer, Returned
  <2>7. sent' = << >> /\ Len(sent') = 0
    BY <1>1, <2>2
  <2> QED
    BY <1>4, <2>4, <2>5, <2>6, <2>7 DEF Answering
<1> QED
  BY <1>3, <1>4 DEF Ends

LEMMA AnsweringReceive ==
  ASSUME Typed, Answering, Receive \/ ConnectionLost, ~short'
  PROVE  Answering'
<1>1. UNCHANGED <<inbox, sent, served, short>> /\ ~short
  <2>1. UNCHANGED <<inbox, sent, served, short>>
    BY DEF Receive, ConnectionLost
  <2> QED
    BY <2>1
<1>2. CASE ConnectionLost
  <2>1. reader["server"].pc = "dead" /\ reader' = [reader EXCEPT !["client"] = Ready("idle")]
    BY <1>2 DEF ConnectionLost, Told
  <2>2. reader'["server"].pc = "dead"
    BY <2>1 DEF Typed, Ends
  <2> QED
    BY <2>2, AnsweringOver
<1>3. CASE Receive /\ reader["server"].pc = "dead"
  <2>1. \E r : reader' = [reader EXCEPT !["client"] = r]
    BY <1>3 DEF Receive, Dies, TellCaller, Told
  <2>2. reader'["server"] = reader["server"]
    BY <2>1 DEF Typed, Ends
  <2> QED
    BY <1>3, <2>2, AnsweringOver
<1>4. CASE Receive /\ reader["server"].pc # "dead"
  <2> DEFINE f == reader["client"].bytes
  <2>1. sent = << >> /\ inbox["client"] = << >> /\ f \in TheAnswer[1] /\ reader["client"].pc = "decode"
    BY <1>1, <1>4 DEF Answering, Receive
  <2>2. ~DecodeRespPanics(f)
    <3>1. f \in AnyAnswer[1]
      BY <2>1, TheAnswerFrames DEF Typed
    <3> QED
      BY <3>1, AnswerReadable
  <2>3. TellCaller(DecodeResp(f))
    BY <1>4, <2>2 DEF Receive
  <2>4. reader' = [reader EXCEPT !["client"] = Ready("idle")]
    BY <2>3 DEF TellCaller, Told
  <2> HIDE DEF f
  <2>5. ToldServed'
    BY <1>1, <2>1, <2>3, AnswerTold
  <2>6. reader'["client"].pc = "idle"
    BY <2>4 DEF Typed, Ends, Ready
  <2>7. sent' = << >> /\ Len(sent') = 0 /\ inbox'["client"] = << >>
    BY <1>1, <2>1
  <2> QED
    BY <2>5, <2>6, <2>7 DEF Answering
<1> QED
  BY <1>2, <1>3, <1>4

LEMMA AnsweringCall ==
  ASSUME Typed, Answering, NEW req \in Calls, Call(req), ~short'
  PROVE  Answering'
<1>1. PICK order \in SetToSeqs(DOMAIN req.meta) :
        LET f == EncodeReq(req, order)
        IN  /\ IF f.panics THEN Dies("client")
               ELSE reader' = [reader EXCEPT !.client = Ready(IF IsOneway(req) THEN "idle" ELSE "length")]
            /\ inbox' = IF f.panics THEN inbox ELSE [inbox EXCEPT !.server = @ \o f.bytes]
  BY DEF Call
<1> DEFINE p == EncodeReq(req, order).panics
           b == EncodeReq(req, order).bytes
           pc == IF p THEN "dead" ELSE IF IsOneway(req) THEN "idle" ELSE "length"
<1>2. /\ reader' = [reader EXCEPT !["client"] = Ready(pc)]
      /\ inbox' = IF p THEN inbox ELSE [inbox EXCEPT !["server"] = @ \o b]
  BY <1>1 DEF Dies
<1>3. pc \in {"dead", "idle", "length"} /\ (pc = "idle" => IsOneway(req))
  OBVIOUS
<1> HIDE DEF p, b, pc
<1>4. reader'["client"].pc = pc /\ inbox'["client"] = inbox["client"]
  BY <1>2, <1>3 DEF Typed, Ends, Ready
<1> DEFINE more == Append(sent, req)
<1>5. /\ sent' = more /\ told' = Untold /\ ~short
      /\ reader["client"].pc = "idle" /\ reader["server"].pc # "dead"
  BY DEF Call
<1>6. inbox["client"] = << >> /\ \A i \in 1..Len(sent) : IsOneway(sent[i])
  BY <1>5 DEF Answering
<1>7. /\ Len(more) = Len(sent) + 1 /\ Len(sent) \in Nat /\ more[Len(sent) + 1] = req
      /\ \A i \in 1..Len(sent) : more[i] = sent[i]
  BY AppendProperties, LenProperties DEF Typed
<1> HIDE DEF more
<1>8. \A i \in 1..(Len(more) - 1) : IsOneway(more[i])
  BY <1>6, <1>7
<1>9. pc = "idle" => \A i \in 1..Len(more) : IsOneway(more[i])
  <2> SUFFICES ASSUME pc = "idle", NEW i \in 1..Len(more) PROVE IsOneway(more[i])
    OBVIOUS
  <2>1. CASE i = Len(sent) + 1
    BY <1>3, <1>7, <2>1
  <2>2. CASE i # Len(sent) + 1
    <3>1. i \in 1..(Len(more) - 1)
      BY <1>7, <2>2
    <3> QED
      BY <1>8, <3>1
  <2> QED
    BY <2>1, <2>2
<1>10. ToldServed'
  BY <1>5 DEF ToldServed
<1>11. inbox'["client"] = << >>
  BY <1>4, <1>6
<1> QED
  BY <1>3, <1>4, <1>5, <1>8, <1>9, <1>10, <1>11 DEF Answering

LEMMA AnsweringAccept ==
  ASSUME Typed, Answering, Accept, ~short'
  PROVE  Answering'
<1>1. UNCHANGED <<inbox, sent, served, told, short>> /\ reader["server"].pc = "decode"
  BY DEF Accept
<1>2. reader' = [reader EXCEPT !["server"] = Ready("dead")] \/ reader' = [reader EXCEPT !["server"] = Ready("serve")]
  BY DEF Accept, Dies
<1>3. reader'["client"] = reader["client"]
  BY <1>2 DEF Typed, Ends
<1> QED
  BY <1>1, <1>3, AnsweringSame

\* Only the request that the caller waits for is answered: it is the last one.
LEMMA AnsweringServe ==
  ASSUME OnewaysKnown, Typed, RequestsWhole, Answering, Serve, ~short'
  PROVE  Answering'
<1>1. ~short /\ reader["server"].pc = "serve" /\ UNCHANGED told
  BY DEF Serve
<1>2. CASE ServePanics(heard.server)
  <2>1. reader' = [reader EXCEPT !["server"] = Ready("dead")]
    BY <1>2 DEF Serve, Dies
  <2>2. reader'["server"].pc = "dead"
    BY <2>1 DEF Typed, Ends, Ready
  <2> QED
    BY <2>2, AnsweringOver
<1>3. CASE ~ServePanics(heard.server)
  <2>1. PICK a \in Results(heard.server) : Reply(a)
    BY <1>3 DEF Serve
  <2>2. IsAnswer(a)
    BY <2>1, ResultsType
  <2> DEFINE f == Response(heard.server, a)
             p == f.panics
             b == f.bytes
             c == heard["server"].compresser
             z == heard["server"].serializer
  <2>3. p \in BOOLEAN /\ b \in Text /\ (~p => Holds(b, a.text, Returned(a), c, z)) /\ c \in Bytes /\ z \in Bytes
    BY <1>1, <2>2, AnswerRead DEF Typed
  <2>4. CASE p
    <3>1. reader' = [reader EXCEPT !["server"] = Ready("dead")]
      BY <2>1, <2>4 DEF Reply, Dies
    <3>2. reader'["server"].pc = "dead"
      BY <3>1 DEF Typed, Ends, Ready
    <3> QED
      BY <3>2, AnsweringOver
  <2>5. CASE ~p
    <3>1. /\ reader' = [reader EXCEPT !["server"] = Ready("length")] /\ served' = a
          /\ inbox' = [inbox EXCEPT !["client"] = @ \o b]
          /\ sent' = IF sent = << >> THEN sent ELSE Tail(sent)
      BY <2>1, <2>5 DEF Reply
    <3> HIDE DEF f, p, b, c, z
    <3>2. reader'["client"] = reader["client"] /\ inbox'["client"] = inbox["client"] \o b
      BY <3>1 DEF Typed, Ends
    <3>3. sent # << >> /\ sent[1] \in Calls /\ heard["server"] \in Heard(sent[1]) /\ sent \in Seq(Calls)
      <4>1. Unanswered # 0 /\ Unanswered \in Nat /\ heard["server"] \in Heard(sent[1])
        BY <1>1 DEF RequestsWhole
      <4>2. sent # << >> /\ sent \in Seq(Calls)
        BY <4>1, UnansweredType DEF Typed
      <4> QED
        BY <4>1, <4>2, LastFirst
    <3>4. ~IsOneway(sent[1])
      <4> SUFFICES ASSUME IsOneway(sent[1]) PROVE FALSE
        OBVIOUS
      <4> DEFINE req == sent[1]
                 got == heard["server"]
      <4>1. req \in Calls /\ Legal(req) /\ req.service \in DOMAIN Services /\ IsOneway(req)
        BY <3>3 DEF OnewaysKnown
      <4>2. PICK g \in ReqFrames(req) : got = DecodeReq(g)
        BY <3>3 DEF Heard
      <4> HIDE DEF req, got
      <4>3. \E data : got = [service |-> req.service, method |-> req.method, meta |-> req.meta,
                             compresser |-> req.compresser, serializer |-> req.serializer,
                             data |-> data]
        BY <4>1, <4>2, FrameDecoded
      <4>4. got.service = req.service /\ got.meta = req.meta
        BY <4>3
      <4>5. ServePanics(got)
        BY <4>1, <4>4 DEF ServePanics, IsOneway
      <4> QED
        BY <1>3, <4>5 DEF got
    <3>5. Len(sent) = 1 /\ sent' = << >>
      <4>1. Len(sent) \in Nat \ {0} /\ Tail(sent) \in Seq(Calls) /\ Len(Tail(sent)) = Len(sent) - 1
        BY <3>3, LastFirst
      <4>2. \A i \in 1..(Len(sent) - 1) : IsOneway(sent[i])
        BY <1>1 DEF Answering
      <4>3. Len(sent) = 1
        <5> SUFFICES ASSUME Len(sent) # 1 PROVE FALSE
          OBVIOUS
        <5>1. 1 \in 1..(Len(sent) - 1)
          BY <4>1
        <5> QED
          BY <3>4, <4>2, <5>1
      <4>4. Len(Tail(sent)) = 0
        BY <4>1, <4>3
      <4>5. Tail(sent) = << >>
        BY <4>1, <4>4, EmptySeq
      <4> QED
        BY <3>1, <3>3, <4>3, <4>5
    <3>6. /\ reader["client"].pc \notin {"idle", "rest", "decode"}
          /\ reader["client"].pc = "length" => inbox["client"] = << >>
      <4>1. 1 \in 1..Len(sent)
        BY <3>5
      <4>2. reader["client"].pc # "idle"
        BY <1>1, <3>4, <4>1 DEF Answering
      <4>3. reader["client"].pc \notin {"rest", "decode"} /\ (reader["client"].pc = "length" => inbox["client"] = << >>)
        BY <1>1, <3>3 DEF Answering
      <4> QED
        BY <4>2, <4>3
    <3>7. Len(sent') = 0
      BY <3>5
    <3>8. ASSUME reader["client"].pc = "length" PROVE Carries(inbox'["client"], 1, TheAnswer')
      <4>1. b \in TheAnswer'[1] /\ Framed(b)
        <5>1. Holds(b, served'.text, Returned(served)', c, z)
          BY <2>3, <2>5, <3>1 DEF Returned
        <5> QED
          BY <2>3, <5>1 DEF TheAnswer, Holds
      <4> DEFINE K == TheAnswer'
      <4>2. b \in K[0 + 1] /\ \A i \in 1..0 : K[i] = K[i]
        BY <4>1
      <4> HIDE DEF K
      <4>3. Carries(<< >>, 0, K)
        BY CarriesNone
      <4>4. Carries(<< >> \o b, 0 + 1, K)
        BY <4>1, <4>2, <4>3, CarriesMore
      <4>5. << >> \o b = inbox'["client"] /\ 0 + 1 = 1
        <5>1. << >> \o b = b
          BY <2>3, ConcatEmptySeq DEF Text
        <5>2. inbox["client"] = << >>
          BY <3>6, <3>8
        <5>3. inbox'["client"] = b
          BY <3>2, <5>1, <5>2, Zenon
        <5> QED
          BY <5>1, <5>3
      <4> QED
        BY <4>4, <4>5 DEF K
    <3> QED
      BY <3>2, <3>5, <3>6, <3>7, <3>8 DEF Answering
  <2> QED
    BY <2>3, <2>4, <2>5
<1> QED
  BY <1>2, <1>3

LEMMA AnsweringStep == OnewaysKnown /\ Whole /\ Answering /\ [Next]_vars => Answering'
<1> SUFFICES ASSUME OnewaysKnown, Whole, Answering, [Next]_vars PROVE Answering'
  OBVIOUS
<1>1. Typed /\ RequestsWhole
  BY DEF Whole
<1>2. CASE short'
  BY <1>2 DEF Answering
<1>3. CASE ~short'
  <2>1. ASSUME NEW e \in Ends, ReadLengths(e) PROVE Answering'
    BY <1>1, <1>3, <2>1, AnsweringReadLengths
  <2>2. ASSUME NEW e \in Ends, ReadRest(e) PROVE Answering'
    BY <1>1, <1>3, <2>2, AnsweringReadRest
  <2>3. CASE Receive \/ ConnectionLost
    BY <1>1, <1>3, <2>3, AnsweringReceive
  <2>4. CASE Accept
    BY <1>1, <1>3, <2>4, AnsweringAccept
  <2>5. CASE Serve
    BY <1>1, <1>3, <2>5, AnsweringServe
  <2>6. ASSUME NEW req \in Calls, Call(req) PROVE Answering'
    BY <1>1, <1>3, <2>6, AnsweringCall
  <2>7. CASE UNCHANGED vars
    <3>1. /\ reader' = reader /\ inbox' = inbox /\ UNCHANGED <<sent, served, told>> /\ ~short
      BY <1>3, <2>7 DEF vars
    <3>2. CASE reader["server"].pc = "dead"
      BY <3>1, <3>2, AnsweringOver
    <3>3. CASE reader["server"].pc # "dead"
      BY <3>1, <3>3, AnsweringSame
    <3> QED
      BY <3>2, <3>3
  <2> QED
    BY <2>1, <2>2, <2>3, <2>4, <2>5, <2>6, <2>7 DEF Next
<1> QED
  BY <1>2, <1>3

\* CallerTold, for calls of which every one-way one names a service the server has:
\* the answer to any other stays in the stream, and the next caller is told what the
\* service answered to a stranger.
THEOREM CallersAreTold == OnewaysKnown => (Spec => []CallerTold)
<1>1. Answering => CallerTold
  BY DEF Answering, ToldServed, CallerTold
<1>2. Init => Answering
  BY AnsweringInit
<1>3. OnewaysKnown /\ Whole /\ Answering /\ [Next]_vars => Answering'
  BY AnsweringStep
<1> SUFFICES ASSUME OnewaysKnown PROVE Spec => []CallerTold
  OBVIOUS
<1>4. Whole /\ Answering /\ [Next]_vars => Answering'
  BY <1>3
<1> QED
  BY <1>1, <1>2, <1>4, AlwaysWhole, PTL DEF Spec
=============================================================================
