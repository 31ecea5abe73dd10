-------------------------- MODULE HTTPRouterProofs --------------------------
(***************************************************************************)
(* Theorems about HTTPRouter, for trees, paths and requests of any size,   *)
(* with any words, names and expressions.                                  *)
(*                                                                         *)
(* The loops of addRoute, findRoute and findMdls are recursive functions   *)
(* over the indices of the path (and of the current level).  WalkInv,      *)
(* FindInv and Reached are their loop invariants; IInv is the invariant of *)
(* the router between two calls.                                           *)
(***************************************************************************)
EXTENDS HTTPRouter, DataLemmas, SequenceTheorems

-----------------------------------------------------------------------------
(* Sequences *)

\* The beginnings of a sequence.
LEMMA Beginning ==
  ASSUME NEW S, NEW n \in Seq(S), NEW i \in 0..Len(n)
  PROVE  /\ SubSeq(n, 1, i) \in Seq(S) /\ Len(SubSeq(n, 1, i)) = i
         /\ \A j \in 1..i : SubSeq(n, 1, i)[j] = n[j]
<1>1. Len(n) \in Nat /\ \A j \in 1..Len(n) : n[j] \in S
  BY LenProperties, ElementOfSeq
<1>2. i \in Int /\ \A j \in 1..i : n[j] \in S
  BY <1>1
<1>3. /\ SubSeq(n, 1, i) \in Seq(S) /\ Len(SubSeq(n, 1, i)) = IF 1 <= i THEN i - 1 + 1 ELSE 0
      /\ \A j \in 1..(i - 1 + 1) : SubSeq(n, 1, i)[j] = n[1 + j - 1]
  BY <1>2, SubSeqProperties
<1> QED
  BY <1>1, <1>2, <1>3

\* Two sequences that agree up to i begin with the same i elements.
LEMMA SameBeginning ==
  ASSUME NEW S, NEW n \in Seq(S), NEW m \in Seq(S), NEW i \in 0..Len(n), i <= Len(m),
         \A j \in 1..i : n[j] = m[j]
  PROVE  SubSeq(n, 1, i) = SubSeq(m, 1, i)
<1>1. Len(m) \in Nat /\ i \in 0..Len(m)
  BY LenProperties
<1>2. /\ SubSeq(n, 1, i) \in Seq(S) /\ Len(SubSeq(n, 1, i)) = i
      /\ \A j \in 1..i : SubSeq(n, 1, i)[j] = n[j]
  BY Beginning
<1>3. /\ SubSeq(m, 1, i) \in Seq(S) /\ Len(SubSeq(m, 1, i)) = i
      /\ \A j \in 1..i : SubSeq(m, 1, i)[j] = m[j]
  BY <1>1, Beginning
<1>4. \A j \in 1..Len(SubSeq(n, 1, i)) : SubSeq(n, 1, i)[j] = SubSeq(m, 1, i)[j]
  BY <1>2, <1>3
<1> QED
  BY <1>2, <1>3, <1>4, SeqEqual

\* The beginning of a node up to i is the child of its beginning up to i - 1.
LEMMA NextBeginning ==
  ASSUME NEW S, NEW n \in Seq(S), NEW i \in 1..Len(n)
  PROVE  /\ SubSeq(n, 1, i) = Append(SubSeq(n, 1, i - 1), n[i])
         /\ n[i] \in S
<1> DEFINE p == SubSeq(n, 1, i - 1)
<1>1. Len(n) \in Nat /\ i \in 0..Len(n) /\ i - 1 \in 0..Len(n) /\ i \in Nat /\ n[i] \in S
  BY LenProperties, ElementOfSeq
<1>2. p \in Seq(S) /\ Len(p) = i - 1 /\ \A j \in 1..(i - 1) : p[j] = n[j]
  BY <1>1, Beginning
<1>3. SubSeq(n, 1, i) \in Seq(S) /\ Len(SubSeq(n, 1, i)) = i /\ \A j \in 1..i : SubSeq(n, 1, i)[j] = n[j]
  BY <1>1, Beginning
<1> HIDE DEF p
<1>4. /\ Append(p, n[i]) \in Seq(S) /\ Len(Append(p, n[i])) = i
      /\ \A j \in 1..(i - 1) : Append(p, n[i])[j] = n[j]
      /\ Append(p, n[i])[i] = n[i]
  BY <1>1, <1>2, AppendProperties
<1>5. \A j \in 1..i : Append(p, n[i])[j] = n[j]
  <2>1. \A j \in 1..i : j = i \/ j \in 1..(i - 1)
    BY <1>1
  <2> QED
    BY <1>4, <2>1
<1> QED
  BY <1>1, <1>3, <1>4, <1>5, SeqEqual DEF p

\* An appended sequence is not empty.
LEMMA AppendNotEmpty ==
  ASSUME NEW S, NEW n \in Seq(S), NEW x
  PROVE  Append(n, x) # << >>
<1>1. n \in Seq(S \union {x}) /\ x \in S \union {x}
  BY SeqMonotonic
<1> QED
  BY <1>1, AppendProperties

\* The child of a node: its parent, its edge and the nodes on the way to it.
LEMMA Child ==
  ASSUME NEW S, NEW n \in Seq(S), NEW e \in S
  PROVE  /\ Append(n, e) \in Seq(S) /\ Append(n, e) # << >>
         /\ Len(n) \in Nat /\ Len(Append(n, e)) = Len(n) + 1
         /\ Last(Append(n, e)) = e /\ Front(Append(n, e)) = n
         /\ \A i \in 1..Len(n) : Append(n, e)[i] = n[i]
         /\ Append(n, e)[Len(n) + 1] = e
         /\ SubSeq(n, 1, Len(n)) = n
         /\ SubSeq(Append(n, e), 1, Len(n) + 1) = Append(n, e)
         /\ \A i \in 0..Len(n) : SubSeq(Append(n, e), 1, i) = SubSeq(n, 1, i)
<1>1. /\ Append(n, e) \in Seq(S) /\ Append(n, e) # << >>
      /\ Len(n) \in Nat /\ Len(Append(n, e)) = Len(n) + 1
      /\ \A i \in 1..Len(n) : Append(n, e)[i] = n[i]
      /\ Append(n, e)[Len(n) + 1] = e
  BY AppendProperties, LenProperties
<1>2. SubSeq(n, 1, Len(n)) = n /\ SubSeq(Append(n, e), 1, Len(n) + 1) = Append(n, e)
  BY <1>1, SubSeqFull
<1>3. \A i \in 0..Len(n) : SubSeq(Append(n, e), 1, i) = SubSeq(n, 1, i)
  <2> TAKE i \in 0..Len(n)
  <2>1. i \in 0..Len(Append(n, e)) /\ i <= Len(n) /\ \A j \in 1..i : Append(n, e)[j] = n[j]
    BY <1>1
  <2> QED
    BY <1>1, <2>1, SameBeginning
<1>4. Last(Append(n, e)) = e
  BY <1>1 DEF Last
<1>5. Front(Append(n, e)) = n
  <2>1. Len(n) \in 0..Len(n) /\ Len(Append(n, e)) - 1 = Len(n)
    BY <1>1
  <2> QED
    BY <1>2, <1>3, <2>1 DEF Front
<1> QED
  BY <1>1, <1>2, <1>3, <1>4, <1>5

-----------------------------------------------------------------------------
(* Route trees *)

Edges == {s.edge : s \in Segments}
Nodes == Seq(Edges)
Names == {s.name : s \in Segments} \union {NoName}
Expressions == {s.expr : s \in Segments} \union {""}
Node == [name : Names, expr : Expressions, handler : Nat]
Trees == UNION {[D -> Node] : D \in SUBSET Nodes}

\* With a node there are those on the way to it; every node but the root is what a
\* segment made it; there are no two wildcards below a node.
WellGrown(t) ==
  /\ \A n \in DOMAIN t : \A i \in 0..Len(n) : SubSeq(n, 1, i) \in DOMAIN t
  /\ \A n \in DOMAIN t : n # Root =>
       \E s \in Segments : s.edge = Last(n) /\ s.name = t[n].name /\ s.expr = t[n].expr
  /\ \A n \in Nodes : \A e, f \in Wild : Has(t, n, e) /\ Has(t, n, f) => e = f

\* What u has beyond t: nodes that have no handler.
Extends(t, u) ==
  /\ DOMAIN t \subseteq DOMAIN u
  /\ \A n \in DOMAIN t : u[n] = t[n]
  /\ \A n \in DOMAIN u \ DOMAIN t : u[n].handler = NoHandler

\* A node that exists is kept and one that does not is added.
LEMMA GrowTree ==
  ASSUME NEW t \in Trees, NEW n \in Nodes, NEW s, s.name \in Names, s.expr \in Expressions
  PROVE  /\ Grow(t, n, s) \in Trees /\ DOMAIN Grow(t, n, s) = DOMAIN t \union {n}
         /\ Extends(t, Grow(t, n, s))
         /\ n \in DOMAIN t \/ Grow(t, n, s)[n] = NewNode(s)
<1>1. PICK D \in SUBSET Nodes : t \in [D -> Node]
  BY DEF Trees
<1>2. CASE n \in DOMAIN t
  BY <1>2 DEF Grow, Extends
<1>3. CASE n \notin DOMAIN t
  <2> DEFINE u == [m \in DOMAIN t \union {n} |-> IF m = n THEN NewNode(s) ELSE t[m]]
  <2>1. Grow(t, n, s) = u
    BY <1>3 DEF Grow
  <2>2. NewNode(s) \in Node /\ NewNode(s).handler = NoHandler
    BY DEF NewNode, Node, NoHandler
  <2>3. DOMAIN t = D /\ \A m \in D : t[m] \in Node
    BY <1>1
  <2>4. u \in [D \union {n} -> Node] /\ D \union {n} \in SUBSET Nodes
    <3> HIDE DEF Node, NewNode
    <3> QED
      BY <2>2, <2>3
  <2>5. u \in Trees
    <3> HIDE DEF u
    <3> QED
      BY <2>4 DEF Trees
  <2>6. Extends(t, u) /\ DOMAIN u = DOMAIN t \union {n} /\ u[n] = NewNode(s)
    BY <1>3, <2>2 DEF Extends
  <2> HIDE DEF u
  <2> QED
    BY <2>1, <2>5, <2>6
<1> QED
  BY <1>2, <1>3

\* Growing goes on.
LEMMA ExtendsTransitive ==
  ASSUME NEW t, NEW u, NEW v, Extends(t, u), Extends(u, v)
  PROVE  Extends(t, v)
BY DEF Extends

\* The root can always be added.
LEMMA GrowRoot ==
  ASSUME NEW t \in Trees, WellGrown(t), NEW s, s.name \in Names, s.expr \in Expressions
  PROVE  WellGrown(Grow(t, Root, s))
<1> DEFINE u == Grow(t, Root, s)
<1>1. Root \in Nodes /\ Len(Root) = 0
  BY EmptySeq DEF Root, Nodes
<1>2. u \in Trees /\ DOMAIN u = DOMAIN t \union {Root} /\ Extends(t, u)
  BY <1>1, GrowTree
<1> HIDE DEF u
<1>3. ASSUME NEW n \in DOMAIN u, NEW i \in 0..Len(n) PROVE SubSeq(n, 1, i) \in DOMAIN u
  <2>1. CASE n \in DOMAIN t
    BY <1>2, <2>1 DEF WellGrown
  <2>2. CASE n = Root
    <3>1. i = 0
      BY <1>1, <2>2
    <3>2. SubSeq(n, 1, 0) = << >>
      BY SubSeqEmpty
    <3> QED
      BY <1>2, <3>1, <3>2 DEF Root
  <2> QED
    BY <1>2, <2>1, <2>2
<1>4. ASSUME NEW n \in DOMAIN u, n # Root
      PROVE  \E r \in Segments : r.edge = Last(n) /\ r.name = u[n].name /\ r.expr = u[n].expr
  BY <1>2, <1>4 DEF WellGrown, Extends
<1>5. ASSUME NEW n \in Nodes, NEW e \in Wild, NEW f \in Wild, Has(u, n, e), Has(u, n, f)
      PROVE  e = f
  <2>1. Append(n, e) # Root /\ Append(n, f) # Root
    <3>1. \A x : Append(n, x) # << >>
      BY AppendNotEmpty DEF Nodes
    <3> QED
      BY <3>1 DEF Root
  <2> QED
    BY <1>2, <1>5, <2>1 DEF WellGrown, Has
<1> QED
  BY <1>3, <1>4, <1>5 DEF WellGrown, u

\* A child that childOrCreate does not refuse can be added.
LEMMA GrowChild ==
  ASSUME NEW t \in Trees, WellGrown(t), NEW n \in DOMAIN t, NEW s \in Segments, ~Panics(t, n, s)
  PROVE  WellGrown(Grow(t, Append(n, s.edge), s))
<1> DEFINE c == Append(n, s.edge)
           u == Grow(t, c, s)
<1>1. n \in Nodes /\ s.edge \in Edges /\ s.name \in Names /\ s.expr \in Expressions /\ DOMAIN t \subseteq Nodes
  BY DEF Trees, Edges, Names, Expressions
<1>2. /\ c \in Nodes /\ c # Root /\ Last(c) = s.edge /\ Len(n) \in Nat /\ Len(c) = Len(n) + 1
      /\ SubSeq(n, 1, Len(n)) = n /\ SubSeq(c, 1, Len(n) + 1) = c
      /\ \A i \in 0..Len(n) : SubSeq(c, 1, i) = SubSeq(n, 1, i)
  BY <1>1, Child DEF Nodes, Root
<1>3. /\ u \in Trees /\ DOMAIN u = DOMAIN t \union {c} /\ Extends(t, u)
      /\ c \in DOMAIN t \/ u[c] = NewNode(s)
  BY <1>1, <1>2, GrowTree
<1>4. CASE c \in DOMAIN t
  BY <1>4 DEF Grow
<1>5. CASE c \notin DOMAIN t
  <2> HIDE DEF u
  <2>1. ASSUME NEW m \in DOMAIN u, NEW i \in 0..Len(m) PROVE SubSeq(m, 1, i) \in DOMAIN u
    <3>1. CASE m \in DOMAIN t
      BY <1>3, <3>1 DEF WellGrown
    <3>2. CASE m = c
      <4>1. CASE i = Len(n) + 1
        BY <1>2, <1>3, <3>2, <4>1
      <4>2. CASE i # Len(n) + 1
        <5>1. i \in 0..Len(n)
          BY <1>2, <3>2, <4>2
        <5>2. SubSeq(n, 1, i) \in DOMAIN t
          BY <5>1 DEF WellGrown
        <5> HIDE DEF c
        <5> QED
          BY <1>2, <1>3, <3>2, <5>1, <5>2
      <4> QED
        BY <4>1, <4>2
    <3> QED
      BY <1>3, <3>1, <3>2
  <2>2. ASSUME NEW m \in DOMAIN u, m # Root
        PROVE  \E r \in Segments : r.edge = Last(m) /\ r.name = u[m].name /\ r.expr = u[m].expr
    <3>1. CASE m \in DOMAIN t
      BY <1>3, <2>2, <3>1 DEF WellGrown, Extends
    <3>2. CASE m = c
      BY <1>2, <1>3, <1>5, <3>2 DEF NewNode
    <3> QED
      BY <1>3, <3>1, <3>2
  <2>3. ASSUME NEW m \in Nodes, NEW e \in Wild, NEW f \in Wild, Has(u, m, e), Has(u, m, f)
        PROVE  e = f
    <3>1. \A x : Has(u, m, x) => Has(t, m, x) \/ (m = n /\ x = s.edge)
      <4>1. ASSUME NEW x, Append(m, x) = c PROVE m = n /\ x = s.edge
        BY <1>1, <4>1 DEF Nodes
      <4> HIDE DEF c
      <4> QED
        BY <1>3, <4>1 DEF Has
    <3>2. s.edge \in Wild => \A x \in Wild : Has(t, n, x) => x = s.edge
      <4>1. ~Clashes(t, n, s)
        BY DEF Panics
      <4>2. s.edge = "star" => ~Has(t, n, "param") /\ ~Has(t, n, "reg")
        BY <4>1 DEF Clashes
      <4>3. s.edge = "param" => ~Has(t, n, "star") /\ ~Has(t, n, "reg")
        BY <4>1 DEF Clashes
      <4>4. s.edge = "reg" => ~Has(t, n, "star") /\ ~Has(t, n, "param")
        BY <4>1 DEF Clashes
      <4> QED
        BY <4>2, <4>3, <4>4 DEF Wild
    <3> QED
      BY <2>3, <3>1, <3>2 DEF WellGrown
  <2> QED
    BY <2>1, <2>2, <2>3 DEF WellGrown, u
<1> QED
  BY <1>4, <1>5

-----------------------------------------------------------------------------
(* Registration *)

Walks == [tree : Trees, at : Nodes, through : BOOLEAN]

\* What holds after i rounds of the loop of addRoute.
WalkInv(i, w) ==
  /\ w \in Walks
  /\ WellGrown(w.tree) /\ Extends(tree, w.tree)
  /\ w.at \in DOMAIN w.tree /\ Len(w.at) <= i
  /\ \A n \in DOMAIN w.tree \ DOMAIN tree : Len(n) <= i

\* A round of the loop leaves a walk.
LEMMA ProceedType ==
  ASSUME NEW w \in Walks, NEW s \in Segments
  PROVE  Proceed(w, s) \in Walks
<1>1. w.tree \in Trees /\ w.at \in Nodes /\ s.edge \in Edges /\ s.name \in Names /\ s.expr \in Expressions
  BY DEF Walks, Edges, Names, Expressions
<1>2. Append(w.at, s.edge) \in Nodes
  BY <1>1, Child DEF Nodes
<1>3. Grow(w.tree, Append(w.at, s.edge), s) \in Trees
  BY <1>1, <1>2, GrowTree
<1> QED
  BY <1>1, <1>2, <1>3 DEF Proceed, Walks

\* A round of the loop keeps what holds after the rounds before it.
LEMMA ProceedInv ==
  ASSUME NEW w, NEW i \in Nat, WalkInv(i, w), NEW s \in Segments
  PROVE  WalkInv(i + 1, Proceed(w, s))
<1>1. /\ w.tree \in Trees /\ w.at \in Nodes /\ s.edge \in Edges /\ s.name \in Names /\ s.expr \in Expressions
      /\ WellGrown(w.tree) /\ Extends(tree, w.tree) /\ w.at \in DOMAIN w.tree /\ Len(w.at) <= i
      /\ DOMAIN w.tree \subseteq Nodes
  BY DEF WalkInv, Walks, Edges, Names, Expressions, Trees
<1>2. \A n \in Nodes : Len(n) \in Nat
  BY LenProperties DEF Nodes
<1>3. CASE ~w.through \/ Panics(w.tree, w.at, s)
  <2>1. Proceed(w, s) \in Walks /\ Proceed(w, s).tree = w.tree /\ Proceed(w, s).at = w.at
    BY <1>3, ProceedType DEF Proceed, WalkInv, Walks
  <2> QED
    BY <1>1, <1>2, <2>1 DEF WalkInv
<1>4. CASE w.through /\ ~Panics(w.tree, w.at, s)
  <2> DEFINE c == Append(w.at, s.edge)
             u == Grow(w.tree, c, s)
  <2>1. Proceed(w, s) \in Walks /\ Proceed(w, s).tree = u /\ Proceed(w, s).at = c
    BY <1>4, ProceedType DEF Proceed, WalkInv
  <2>2. c \in Nodes /\ Len(c) = Len(w.at) + 1
    BY <1>1, Child DEF Nodes
  <2>3. u \in Trees /\ DOMAIN u = DOMAIN w.tree \union {c} /\ Extends(w.tree, u)
    BY <1>1, <2>2, GrowTree
  <2>4. WellGrown(u)
    BY <1>1, <1>4, GrowChild
  <2> HIDE DEF c, u
  <2>5. Extends(tree, u)
    BY <1>1, <2>3, ExtendsTransitive
  <2>6. Len(c) <= i + 1
    BY <1>1, <1>2, <2>2
  <2>7. \A n \in DOMAIN u \ DOMAIN tree : Len(n) <= i + 1
    BY <1>1, <1>2, <2>3, <2>6 DEF WalkInv
  <2> QED
    BY <2>1, <2>3, <2>4, <2>5, <2>6, <2>7 DEF WalkInv
<1> QED
  BY <1>3, <1>4

\* The loop of addRoute runs: its rounds follow each other.
LEMMA WalkRuns ==
  ASSUME NEW start \in Walks, NEW path \in Seq(Segments), NEW walk,
         walk = CHOOSE f : f = [i \in 0..Len(path) |-> IF i = 0 THEN start ELSE Proceed(f[i - 1], path[i])]
  PROVE  walk[0] = start /\ \A i \in 1..Len(path) : walk[i] = Proceed(walk[i - 1], path[i])
<1> DEFINE Loop(f) == f = [i \in 0..Len(path) |-> IF i = 0 THEN start ELSE Proceed(f[i - 1], path[i])]
           G == [i \in Nat |-> [w \in Walks |-> IF i \in 1..Len(path) THEN Proceed(w, path[i]) ELSE w]]
<1>1. Len(path) \in Nat /\ \A i \in 1..Len(path) : path[i] \in Segments
  BY LenProperties, ElementOfSeq
<1>2. PICK f \in [0..Len(path) -> Walks] : f[0] = start /\ \A i \in 1..Len(path) : f[i] = G[i][f[i - 1]]
  <2>1. \A i \in Nat : \A w \in Walks : G[i][w] \in Walks
    BY <1>1, ProceedType
  <2>2. Rounds(G, Walks)
    BY <2>1 DEF Rounds
  <2>3. Len(path) \in Nat
    BY <1>1
  <2> HIDE DEF G
  <2>4. HasLoop(Walks, start, G, Len(path))
    BY <2>2, <2>3, LoopExists
  <2> QED
    BY <2>4 DEF HasLoop
<1>3. Loop(f)
  <2>1. \A i \in 0..Len(path) : i # 0 => i \in 1..Len(path) /\ i \in Nat /\ f[i - 1] \in Walks
    BY <1>1, <1>2
  <2>2. \A i \in 0..Len(path) : i # 0 => f[i] = Proceed(f[i - 1], path[i])
    BY <1>2, <2>1
  <2> QED
    BY <1>2, <2>2
<1>4. Loop(walk)
  <2>1. walk = CHOOSE g : Loop(g)
    OBVIOUS
  <2> HIDE DEF Loop
  <2> QED
    BY <1>3, <2>1
<1> HIDE DEF G
<1>5. walk = [i \in 0..Len(path) |-> IF i = 0 THEN start ELSE Proceed(walk[i - 1], path[i])]
  BY <1>4
<1>6. \A i \in 0..Len(path) : walk[i] = IF i = 0 THEN start ELSE Proceed(walk[i - 1], path[i])
  BY <1>5
<1>7. 0 \in 0..Len(path) /\ \A i \in 1..Len(path) : i \in 0..Len(path) /\ i # 0
  BY <1>1
<1> QED
  BY <1>6, <1>7

\* What addRoute leaves when its loop has come to an end or has panicked: a route
\* tree that has every node it had.
LEMMA WalkGrows ==
  ASSUME tree \in Trees, WellGrown(tree), NEW path \in Seq(Segments)
  PROVE  /\ Walk(path) \in Walks
         /\ WellGrown(Walk(path).tree) /\ Extends(tree, Walk(path).tree)
         /\ Walk(path).through => Walk(path).at \in DOMAIN Walk(path).tree
         /\ \A n \in DOMAIN Walk(path).tree \ DOMAIN tree : Len(n) <= Len(path)
<1> DEFINE r == [edge |-> "root", name |-> NoName, expr |-> ""]
           start == [tree |-> Grow(tree, Root, r), at |-> Root, through |-> TRUE]
           m == Len(path)
           walk == CHOOSE f : f = [i \in 0..m |-> IF i = 0 THEN start ELSE Proceed(f[i - 1], path[i])]
<1>1. m \in Nat /\ \A i \in 1..m : path[i] \in Segments
  BY LenProperties, ElementOfSeq
<1>2. Root \in Nodes /\ Len(Root) = 0
  BY EmptySeq DEF Root, Nodes
<1>3. r.name \in Names /\ r.expr \in Expressions
  BY DEF Names, Expressions
<1>4. WalkInv(0, start)
  <2> HIDE DEF r
  <2>1. /\ Grow(tree, Root, r) \in Trees /\ DOMAIN Grow(tree, Root, r) = DOMAIN tree \union {Root}
        /\ Extends(tree, Grow(tree, Root, r)) /\ WellGrown(Grow(tree, Root, r))
    BY <1>2, <1>3, GrowTree, GrowRoot
  <2> QED
    BY <1>2, <2>1 DEF WalkInv, Walks
<1> HIDE DEF r, start, m
<1>5. walk[0] = start /\ \A i \in 1..m : walk[i] = Proceed(walk[i - 1], path[i])
  <2>1. start \in Walks
    BY <1>4 DEF WalkInv
  <2> QED
    BY <2>1, WalkRuns DEF m
<1>6. WalkInv(m, walk[m])
  <2> HIDE DEF walk
  <2> DEFINE T == {i \in 0..m : WalkInv(i, walk[i])}
  <2>1. 0 \in T
    BY <1>1, <1>4, <1>5
  <2>2. ASSUME NEW i \in 1..m, i - 1 \in T PROVE i \in T
    <3>1. i - 1 \in Nat /\ (i - 1) + 1 = i /\ i \in 0..m /\ WalkInv(i - 1, walk[i - 1])
      BY <1>1, <2>2
    <3>2. WalkInv(i, walk[i])
      BY <1>1, <1>5, <3>1, ProceedInv
    <3> QED
      BY <3>1, <3>2
  <2> HIDE DEF T
  <2>3. \A i \in 0..m : i \in T
    BY <1>1, <2>1, <2>2, BoundedInduction
  <2> QED
    BY <1>1, <2>3 DEF T
<1>7. CASE path # << >> /\ Last(path).edge = ""
  <2>1. Walk(path) = [tree |-> tree, at |-> Root, through |-> FALSE]
    BY <1>7 DEF Walk
  <2>2. Extends(tree, tree)
    BY DEF Extends
  <2> QED
    BY <1>2, <2>1, <2>2 DEF Walks
<1>8. CASE ~(path # << >> /\ Last(path).edge = "")
  <2>1. Walk(path) = walk[m]
    BY <1>8 DEF Walk, m, start, r
  <2> HIDE DEF walk
  <2> QED
    BY <1>6, <2>1 DEF WalkInv, m
<1> QED
  BY <1>7, <1>8

\* The bounds are natural numbers.
LEMMA Bounds == MaxDepth \in Nat /\ MaxCalls \in Nat
BY RouterAssumption, Zenon

\* A registered path is a sequence of segments.
LEMMA PathType ==
  ASSUME NEW path \in Paths
  PROVE  path \in Seq(Segments) /\ Len(path) \in Nat /\ Len(path) <= MaxDepth
<1>1. PICK d \in 0..MaxDepth : path \in [1..d -> Segments]
  BY DEF Paths, UpTo
<1>2. d \in Nat /\ d <= MaxDepth
  BY Bounds
<1>3. path \in Seq(Segments) /\ Len(path) = d
  BY <1>1, <1>2
<1> QED
  BY <1>2, <1>3

\* A change of handlers leaves a route tree as it was grown.
LEMMA HandlersAside ==
  ASSUME NEW t, NEW u, WellGrown(t), DOMAIN u = DOMAIN t,
         \A n \in DOMAIN t : u[n].name = t[n].name /\ u[n].expr = t[n].expr
  PROVE  WellGrown(u)
BY DEF WellGrown, Has

\* The middlewares of a node are calls made, the earlier ones first, and no two
\* nodes have one in common.
Slices(k) ==
  \A n \in DOMAIN mws :
    /\ n \in DOMAIN tree
    /\ mws[n] \in Seq(1..k)
    /\ \A i, j \in 1..Len(mws[n]) : i < j => mws[n][i] < mws[n][j]
    /\ \A m \in DOMAIN mws : \A i \in 1..Len(mws[m]), j \in 1..Len(mws[n]) :
         mws[m][i] = mws[n][j] => m = n

\* The invariant of the router.
IInv ==
  /\ tree \in Trees /\ WellGrown(tree)
  /\ calls \in 0..MaxCalls
  /\ \A n \in DOMAIN tree : Len(n) <= MaxDepth /\ tree[n].handler <= calls
  /\ Slices(calls)

\* What a step may do to a node.
Kept(n) ==
  /\ n \in DOMAIN tree'
  /\ tree'[n] # tree[n] =>
       /\ tree[n].handler = NoHandler
       /\ tree'[n] = [tree[n] EXCEPT !.handler = tree'[n].handler]

\* What a walk that addRoute makes has grown, in terms of the invariant.
LEMMA WalkKeeps ==
  ASSUME IInv, NEW path \in Paths, NEW w, w = Walk(path)
  PROVE  /\ w \in Walks /\ WellGrown(w.tree) /\ Extends(tree, w.tree)
         /\ w.through => w.at \in DOMAIN w.tree
         /\ \A n \in DOMAIN w.tree : Len(n) <= MaxDepth /\ w.tree[n].handler <= calls /\ w.tree[n] \in Node
         /\ calls + 1 \in Nat /\ calls \in Nat /\ (calls < MaxCalls => calls + 1 \in 0..MaxCalls)
<1>1. path \in Seq(Segments) /\ Len(path) \in Nat /\ Len(path) <= MaxDepth
  BY PathType
<1>2. /\ w \in Walks /\ WellGrown(w.tree) /\ Extends(tree, w.tree)
      /\ w.through => w.at \in DOMAIN w.tree
      /\ \A n \in DOMAIN w.tree \ DOMAIN tree : Len(n) <= Len(path)
  BY <1>1, WalkGrows DEF IInv
<1>3. calls \in Nat /\ calls + 1 \in Nat /\ (calls < MaxCalls => calls + 1 \in 0..MaxCalls)
  BY Bounds DEF IInv
<1>4. ASSUME NEW n \in DOMAIN w.tree
      PROVE  Len(n) <= MaxDepth /\ w.tree[n].handler <= calls /\ w.tree[n] \in Node
  <2>1. n \in Nodes /\ w.tree[n] \in Node
    BY <1>2 DEF Walks, Trees
  <2>2. Len(n) \in Nat
    BY <2>1, LenProperties DEF Nodes
  <2>3. CASE n \in DOMAIN tree
    BY <1>2, <2>1, <2>3 DEF IInv, Extends
  <2>4. CASE n \notin DOMAIN tree
    <3>1. Len(n) <= MaxDepth
      BY <1>1, <1>2, <2>2, <2>4, Bounds
    <3>2. w.tree[n].handler = NoHandler
      BY <1>2, <2>4 DEF Extends
    <3> QED
      BY <1>3, <2>1, <3>1, <3>2 DEF NoHandler
  <2> QED
    BY <2>3, <2>4
<1> QED
  BY <1>2, <1>3, <1>4

\* A call that attaches nothing leaves the slices what they have to be.
LEMMA SlicesKept ==
  ASSUME IInv, calls' = calls + 1, UNCHANGED mws, \A n \in DOMAIN tree : n \in DOMAIN tree'
  PROVE  Slices(calls)'
<1>1. calls \in Nat /\ 1..calls \subseteq 1..(calls + 1)
  BY Bounds DEF IInv
<1>2. Seq(1..calls) \subseteq Seq(1..(calls + 1))
  BY <1>1, SeqMonotonic
<1>3. Slices(calls)
  BY DEF IInv
<1>4. \A n \in DOMAIN mws : n \in DOMAIN tree' /\ mws[n] \in Seq(1..(calls + 1))
  BY <1>2, <1>3 DEF Slices
<1>5. \A n \in DOMAIN mws :
        /\ \A i, j \in 1..Len(mws[n]) : i < j => mws[n][i] < mws[n][j]
        /\ \A m \in DOMAIN mws : \A i \in 1..Len(mws[m]), j \in 1..Len(mws[n]) :
             mws[m][i] = mws[n][j] => m = n
  BY <1>3, Zenon DEF Slices
<1> QED
  BY <1>4, <1>5 DEF Slices

\* Get and Post.
LEMMA HandleKeeps ==
  ASSUME IInv, NEW path \in Paths, Handle(path)
  PROVE  IInv' /\ \A n \in DOMAIN tree : Kept(n)
<1> DEFINE w == Walk(path)
<1>1. /\ w \in Walks /\ WellGrown(w.tree) /\ Extends(tree, w.tree)
      /\ w.through => w.at \in DOMAIN w.tree
      /\ \A n \in DOMAIN w.tree : Len(n) <= MaxDepth /\ w.tree[n].handler <= calls /\ w.tree[n] \in Node
      /\ calls + 1 \in Nat /\ calls \in Nat /\ (calls < MaxCalls => calls + 1 \in 0..MaxCalls)
  BY WalkKeeps
<1>2. /\ calls < MaxCalls /\ calls' = calls + 1 /\ mws' = mws
      /\ tree' = IF Accepted(w) THEN [w.tree EXCEPT ![w.at].handler = calls'] ELSE w.tree
  BY DEF Handle, AddRoute
<1> HIDE DEF w
<1>3. w.tree \in Trees /\ \A n \in DOMAIN tree : n \in DOMAIN w.tree /\ w.tree[n] = tree[n]
  BY <1>1 DEF Walks, Extends
<1>4. DOMAIN tree' = DOMAIN w.tree => Slices(calls)'
  BY <1>2, <1>3, SlicesKept
<1>5. CASE ~Accepted(w)
  <2>1. tree' = w.tree
    BY <1>2, <1>5
  <2>2. \A n \in DOMAIN tree' : tree'[n].handler <= calls'
    BY <1>1, <1>2, <2>1 DEF Node
  <2> QED
    BY <1>1, <1>2, <1>3, <1>4, <2>1, <2>2 DEF IInv, Kept
<1>6. CASE Accepted(w)
  <2>1. w.at \in DOMAIN w.tree /\ w.tree[w.at].handler = NoHandler
    BY <1>1, <1>6 DEF Accepted
  <2> DEFINE new == [w.tree[w.at] EXCEPT !.handler = calls + 1]
  <2>2. tree' = [n \in DOMAIN w.tree |-> IF n = w.at THEN new ELSE w.tree[n]]
    BY <1>2, <1>3, <1>6 DEF Trees
  <2>3. /\ new \in Node /\ new.handler = calls + 1
        /\ new.name = w.tree[w.at].name /\ new.expr = w.tree[w.at].expr
    BY <1>1, <2>1 DEF Node
  <2> HIDE DEF new
  <2>4. /\ DOMAIN tree' = DOMAIN w.tree
        /\ \A n \in DOMAIN w.tree : tree'[n] = IF n = w.at THEN new ELSE w.tree[n]
    BY <2>2
  <2>5. tree' \in Trees
    <3>1. PICK D \in SUBSET Nodes : w.tree \in [D -> Node]
      BY <1>3 DEF Trees
    <3>2. tree' \in [D -> Node]
      BY <2>2, <2>3, <3>1
    <3> QED
      BY <3>2 DEF Trees
  <2>6. WellGrown(tree')
    <3>1. \A n \in DOMAIN w.tree : tree'[n].name = w.tree[n].name /\ tree'[n].expr = w.tree[n].expr
      BY <2>3, <2>4
    <3> QED
      BY <1>1, <2>4, <3>1, HandlersAside
  <2>7. \A n \in DOMAIN tree' : Len(n) <= MaxDepth /\ tree'[n].handler <= calls'
    <3>1. \A n \in DOMAIN w.tree : w.tree[n].handler <= calls + 1
      BY <1>1 DEF Node
    <3>2. calls + 1 <= calls + 1
      BY <1>1
    <3> QED
      BY <1>1, <1>2, <2>3, <2>4, <3>1, <3>2
  <2>8. \A n \in DOMAIN tree : Kept(n)
    <3> TAKE n \in DOMAIN tree
    <3>1. n # w.at => tree'[n] = tree[n]
      BY <1>3, <2>4
    <3>2. n = w.at => tree[n].handler = NoHandler /\ tree'[n] = new /\ new = [tree[n] EXCEPT !.handler = new.handler]
      BY <1>3, <2>1, <2>3, <2>4 DEF new
    <3> QED
      BY <1>3, <2>4, <3>1, <3>2 DEF Kept
  <2> QED
    BY <1>1, <1>2, <1>4, <2>4, <2>5, <2>6, <2>7, <2>8 DEF IInv
<1> QED
  BY <1>5, <1>6

\* Use.
LEMMA UseKeeps ==
  ASSUME IInv, NEW path \in Paths, Use(path)
  PROVE  IInv' /\ \A n \in DOMAIN tree : Kept(n)
<1> DEFINE w == Walk(path)
<1>1. /\ w \in Walks /\ WellGrown(w.tree) /\ Extends(tree, w.tree)
      /\ w.through => w.at \in DOMAIN w.tree
      /\ \A n \in DOMAIN w.tree : Len(n) <= MaxDepth /\ w.tree[n].handler <= calls /\ w.tree[n] \in Node
      /\ calls + 1 \in Nat /\ calls \in Nat /\ (calls < MaxCalls => calls + 1 \in 0..MaxCalls)
  BY WalkKeeps
<1>2. /\ calls < MaxCalls /\ calls' = calls + 1 /\ tree' = w.tree
      /\ mws' = IF Accepted(w) THEN Attach(w.at) ELSE mws
  BY DEF Use
<1> HIDE DEF w
<1>3. w.tree \in Trees /\ \A n \in DOMAIN tree : n \in DOMAIN w.tree /\ w.tree[n] = tree[n]
  BY <1>1 DEF Walks, Extends
<1>4. \A n \in DOMAIN tree' : tree'[n].handler <= calls'
  BY <1>1, <1>2 DEF Node
<1>5. \A n \in DOMAIN mws : n \in DOMAIN tree' /\ mws[n] \in Seq(1..calls) /\ mws[n] \in Seq(1..calls')
  <2>1. 1..calls \subseteq 1..calls'
    BY <1>1, <1>2
  <2> QED
    BY <1>2, <1>3, <2>1, SeqMonotonic DEF IInv, Slices
<1>6. Slices(calls)'
  <2>1. CASE ~Accepted(w)
    BY <1>2, <1>3, <2>1, SlicesKept
  <2>2. CASE Accepted(w)
    <3> DEFINE s == MwsAt(w.at)
    <3>1. w.at \in DOMAIN tree'
      BY <1>1, <1>2, <2>2 DEF Accepted
    <3>2. s \in Seq(1..calls) /\ Len(s) \in Nat /\ \A i, j \in 1..Len(s) : i < j => s[i] < s[j]
      <4>1. CASE w.at \in DOMAIN mws
        BY <4>1, LenProperties DEF MwsAt, IInv, Slices
      <4>2. CASE w.at \notin DOMAIN mws
        <5>1. s = << >>
          BY <4>2 DEF MwsAt
        <5> QED
          BY <5>1, EmptySeq
      <4> QED
        BY <4>1, <4>2
    <3>3. \A n \in DOMAIN mws : \A i \in 1..Len(mws[n]), j \in 1..Len(s) : mws[n][i] = s[j] => n = w.at
      BY EmptySeq DEF MwsAt, IInv, Slices
    <3>4. mws' = [n \in DOMAIN mws \union {w.at} |-> IF n = w.at THEN Append(s, calls + 1) ELSE mws[n]]
      BY <1>2, <2>2 DEF Attach
    <3> HIDE DEF s
    <3>5. /\ Append(s, calls + 1) \in Seq(1..calls') /\ Len(Append(s, calls + 1)) = Len(s) + 1
          /\ \A i \in 1..Len(s) : Append(s, calls + 1)[i] = s[i] /\ s[i] \in 1..calls
          /\ Append(s, calls + 1)[Len(s) + 1] = calls + 1
      <4>1. s \in Seq(1..(calls + 1)) /\ calls + 1 \in 1..(calls + 1)
        <5>1. 1..calls \subseteq 1..(calls + 1) /\ calls + 1 \in 1..(calls + 1)
          BY <1>1
        <5> QED
          BY <3>2, <5>1, SeqMonotonic
      <4>2. \A i \in 1..Len(s) : s[i] \in 1..calls
        BY <3>2, ElementOfSeq
      <4> QED
        BY <1>2, <4>1, <4>2, AppendProperties
    <3> DEFINE t == Append(s, calls + 1)
    <3> HIDE DEF t
    <3>6. \A i, j \in 1..Len(t) : i < j => t[i] < t[j]
      <4> TAKE i \in 1..Len(t), j \in 1..Len(t)
      <4> HAVE i < j
      <4>1. i \in 1..Len(s)
        BY <3>2, <3>5 DEF t
      <4>2. CASE j \in 1..Len(s)
        BY <3>2, <3>5, <4>1, <4>2 DEF t
      <4>3. CASE j = Len(s) + 1
        <5>1. t[i] \in 1..calls /\ t[j] = calls + 1
          BY <3>5, <4>1, <4>3 DEF t
        <5> QED
          BY <1>1, <5>1
      <4>4. j \in 1..Len(s) \/ j = Len(s) + 1
        BY <3>2, <3>5 DEF t
      <4> QED
        BY <4>2, <4>3, <4>4
    <3>7. ASSUME NEW n \in DOMAIN mws, n # w.at, NEW i \in 1..Len(mws[n]), NEW j \in 1..Len(t)
          PROVE  mws[n][i] # t[j]
      <4>1. mws[n][i] \in 1..calls
        BY <1>5, ElementOfSeq
      <4>2. CASE j \in 1..Len(s)
        BY <3>3, <3>5, <3>7, <4>2 DEF t
      <4>3. CASE j = Len(s) + 1
        <5>1. t[j] = calls + 1
          BY <3>5, <4>3 DEF t
        <5> QED
          BY <1>1, <4>1, <5>1
      <4>4. j \in 1..Len(s) \/ j = Len(s) + 1
        BY <3>2, <3>5 DEF t
      <4> QED
        BY <4>2, <4>3, <4>4
    <3>8. /\ DOMAIN mws' = DOMAIN mws \union {w.at} /\ mws'[w.at] = t
          /\ \A n \in DOMAIN mws : n # w.at => mws'[n] = mws[n]
      BY <3>4 DEF t
    <3>9. t \in Seq(1..calls')
      BY <3>5 DEF t
    <3>10. \A n \in DOMAIN mws' : n = w.at \/ (n \in DOMAIN mws /\ n # w.at)
      BY <3>8
    <3>11. \A m, n \in DOMAIN mws' : \A i \in 1..Len(mws'[m]), j \in 1..Len(mws'[n]) :
             mws'[m][i] = mws'[n][j] => m = n
      <4> TAKE m \in DOMAIN mws', n \in DOMAIN mws'
      <4>1. CASE m # w.at /\ n # w.at
        BY <3>8, <3>10, <4>1 DEF IInv, Slices
      <4>2. CASE m = w.at /\ n # w.at
        BY <3>7, <3>8, <3>10, <4>2
      <4>3. CASE m # w.at /\ n = w.at
        BY <3>7, <3>8, <3>10, <4>3
      <4> QED
        BY <4>1, <4>2, <4>3
    <3>12. ASSUME NEW n \in DOMAIN mws'
           PROVE  /\ n \in DOMAIN tree' /\ mws'[n] \in Seq(1..calls')
                  /\ \A i, j \in 1..Len(mws'[n]) : i < j => mws'[n][i] < mws'[n][j]
      <4>1. CASE n = w.at
        BY <3>1, <3>6, <3>8, <3>9, <4>1
      <4>2. CASE n \in DOMAIN mws /\ n # w.at
        BY <1>5, <3>8, <4>2 DEF IInv, Slices
      <4> QED
        BY <3>10, <4>1, <4>2
    <3> QED
      BY <3>11, <3>12 DEF Slices
  <2> QED
    BY <2>1, <2>2
<1>7. \A n \in DOMAIN tree : Kept(n)
  BY <1>2, <1>3 DEF Kept
<1> QED
  BY <1>1, <1>2, <1>3, <1>4, <1>6, <1>7 DEF IInv

\* The invariant holds at first, and every step keeps it and every node.
LEMMA Start ==
  Init => IInv
<1> SUFFICES ASSUME Init PROVE IInv
  OBVIOUS
<1>1. DOMAIN tree = {} /\ DOMAIN mws = {}
  BY DEF Init
<1>2. tree \in Trees
  <2>1. tree \in [{} -> Node]
    BY <1>1 DEF Init
  <2> QED
    BY <2>1 DEF Trees
<1>3. WellGrown(tree)
  BY <1>1 DEF WellGrown, Has
<1> QED
  BY <1>1, <1>2, <1>3, Bounds DEF IInv, Slices, Init

LEMMA Step ==
  IInv /\ [Next]_vars => IInv' /\ \A n \in DOMAIN tree : Kept(n)
<1> SUFFICES ASSUME IInv, [Next]_vars PROVE IInv' /\ \A n \in DOMAIN tree : Kept(n)
  OBVIOUS
<1>1. CASE Next
  BY <1>1, HandleKeeps, UseKeeps DEF Next
<1>2. CASE UNCHANGED vars
  BY <1>2 DEF vars, IInv, Slices, Kept
<1> QED
  BY <1>1, <1>2

LEMMA Invariant ==
  Spec => []IInv
<1> QED
  BY Start, Step, PTL DEF Spec

\* Whatever is registered, in whatever order and however often a registration
\* panics, the tree is a tree: every node has its parent and is what one segment
\* made it, and the handlers and middlewares are those of calls made.
THEOREM TypeCorrect ==
  Spec => []TypeOK
<1>1. ASSUME IInv PROVE TypeOK
  <2>1. ASSUME NEW n \in DOMAIN tree
        PROVE  /\ n \in UpTo(MaxDepth, {s.edge : s \in Segments})
               /\ tree[n].handler \in 0..calls
               /\ n # Root => Front(n) \in DOMAIN tree
                    /\ \E s \in Segments : s.edge = Last(n) /\ s.name = tree[n].name /\ s.expr = tree[n].expr
    <3>1. n \in Nodes /\ tree[n] \in Node /\ Len(n) \in Nat /\ n \in [1..Len(n) -> Edges]
      BY <1>1, LenProperties DEF IInv, Trees, Nodes
    <3>2. Len(n) \in 0..MaxDepth
      BY <1>1, <3>1, Bounds DEF IInv
    <3>3. n \in UpTo(MaxDepth, Edges)
      BY <3>1, <3>2 DEF UpTo
    <3>4. tree[n].handler \in 0..calls
      BY <1>1, <3>1 DEF IInv, Node
    <3>5. n # Root => Len(n) - 1 \in 0..Len(n)
      BY <3>1, EmptySeq DEF Nodes, Root
    <3> QED
      BY <1>1, <3>3, <3>4, <3>5 DEF IInv, WellGrown, Front, Edges
  <2> QED
    BY <1>1, <2>1 DEF TypeOK, IInv, Slices
<1> QED
  BY <1>1, Invariant, PTL

\* Line 23 of route.go: what is registered stays, whatever is registered later and
\* whichever registration panics half-way.
THEOREM NothingOverwritten ==
  Spec => RoutesStay
<1>1. IInv /\ [Next]_vars =>
        [\A n \in DOMAIN tree :
           /\ n \in DOMAIN tree'
           /\ tree'[n] # tree[n] =>
                /\ tree[n].handler = NoHandler
                /\ tree'[n] = [tree[n] EXCEPT !.handler = tree'[n].handler]]_tree
  BY Step DEF Kept
<1> QED
  BY <1>1, Invariant, PTL DEF Spec, RoutesStay

\* Lines 24-26 of route.go: no place ever has two kinds of wildcards, not even
\* after a registration that panicked below it.
THEOREM Wildcards ==
  Spec => []OneWildChild
<1>1. ASSUME IInv PROVE OneWildChild
  BY <1>1 DEF IInv, WellGrown, OneWildChild, Trees
<1> QED
  BY <1>1, Invariant, PTL

-----------------------------------------------------------------------------
(* Lookup *)

\* Every node is a sequence of edges a request can ask for, or of empty ones.
AllEdges == Words \union Wild \union {""}

LEMMA EdgesOfNodes ==
  ASSUME tree \in Trees, NEW n \in DOMAIN tree
  PROVE  n \in Seq(AllEdges) /\ n \in Nodes /\ tree[n] \in Node
<1>1. n \in Nodes /\ tree[n] \in Node
  BY DEF Trees
<1>2. Edges \subseteq AllEdges
  BY RouterAssumption DEF Edges, AllEdges
<1> QED
  BY <1>1, <1>2, SeqMonotonic DEF Nodes

\* No word of a request is the name of a wildcard.
LEMMA WordsAreNotWild ==
  ASSUME NEW word \in Words
  PROVE  word \notin Wild
<1>1. Words \intersect (Wild \union {"", "root"}) = {}
  BY RouterAssumption, Zenon
<1> QED
  BY <1>1

\* One child at most is the preferred one for a word.
LEMMA OnePreferred ==
  ASSUME NEW n, NEW word \in Words, NEW e, NEW f, Preferred(n, e, word), Preferred(n, f, word)
  PROVE  e = f
<1>1. Fits(n, e, word) /\ Fits(n, f, word)
  BY DEF Preferred
<1>2. e \in {word, "param", "star", "reg"} /\ f \in {word, "param", "star", "reg"}
  BY <1>1 DEF Fits
<1>3. word # "param" /\ word # "star" /\ word # "reg"
  BY WordsAreNotWild DEF Wild
<1>4. e \in Words \union Wild /\ f \in Words \union Wild
  BY <1>2 DEF Wild
<1>5. Rank(e) <= Rank(f) /\ Rank(f) <= Rank(e)
  BY <1>1, <1>4 DEF Preferred
<1>6. Rank(word) = 1 /\ Rank("reg") = 2 /\ Rank("param") = 3 /\ Rank("star") = 4
  BY <1>3 DEF Rank
<1> QED
  BY <1>2, <1>5, <1>6

\* childOf takes the preferred child, and finds none only where none fits.
LEMMA ChildIsPreferred ==
  ASSUME NEW n, NEW word \in Words
  PROVE  /\ ChildOf(n, word) \in DOMAIN tree =>
              \E e \in Words \union Wild : ChildOf(n, word) = Append(n, e) /\ Preferred(n, e, word)
         /\ ChildOf(n, word) \notin DOMAIN tree =>
              \A e \in Words \union Wild : ~Fits(n, e, word)
<1>1. word # "param" /\ word # "star" /\ word # "reg"
  BY WordsAreNotWild DEF Wild
<1>2. Rank(word) = 1 /\ Rank("reg") = 2 /\ Rank("param") = 3 /\ Rank("star") = 4
  BY <1>1 DEF Rank
<1>3. \A e \in Words \union Wild :
        Fits(n, e, word) <=> /\ Has(tree, n, e)
                             /\ e \in {word, "param", "star"} \/ (e = "reg" /\ Matches(n, word))
  BY DEF Fits, Matches
<1>4. {word, "param", "star", "reg"} \subseteq Words \union Wild
  BY DEF Wild
<1>5. \A e : Preferred(n, e, word) <=>
               Fits(n, e, word) /\ \A f \in {word, "param", "star", "reg"} : Fits(n, f, word) => Rank(e) <= Rank(f)
  BY <1>4 DEF Preferred, Fits
<1>6. CASE Has(tree, n, word)
  <2>1. ChildOf(n, word) = Append(n, word)
    BY <1>6 DEF ChildOf
  <2>2. Preferred(n, word, word)
    BY <1>2, <1>3, <1>5, <1>6
  <2> QED
    BY <1>6, <2>1, <2>2 DEF Has
<1>7. CASE ~Has(tree, n, word) /\ Matches(n, word)
  <2>1. ChildOf(n, word) = Append(n, "reg")
    BY <1>7 DEF ChildOf
  <2>2. Has(tree, n, "reg") /\ Preferred(n, "reg", word)
    BY <1>2, <1>3, <1>4, <1>5, <1>7 DEF Matches
  <2> QED
    BY <1>4, <2>1, <2>2 DEF Has
<1>8. CASE ~Has(tree, n, word) /\ ~Matches(n, word) /\ Has(tree, n, "param")
  <2>1. ChildOf(n, word) = Append(n, "param")
    BY <1>8 DEF ChildOf
  <2>2. Preferred(n, "param", word)
    BY <1>1, <1>2, <1>3, <1>4, <1>5, <1>8
  <2> QED
    BY <1>4, <1>8, <2>1, <2>2 DEF Has
<1>9. CASE ~Has(tree, n, word) /\ ~Matches(n, word) /\ ~Has(tree, n, "param")
  <2>1. ChildOf(n, word) = Append(n, "star")
    BY <1>9 DEF ChildOf
  <2>2. CASE Has(tree, n, "star")
    <3>1. Preferred(n, "star", word)
      BY <1>1, <1>2, <1>3, <1>4, <1>5, <1>9, <2>2
    <3> QED
      BY <1>4, <2>1, <2>2, <3>1 DEF Has
  <2>3. CASE ~Has(tree, n, "star")
    <3>1. \A e \in Words \union Wild : ~Fits(n, e, word)
      BY <1>3, <1>9, <2>3
    <3>2. Append(n, "star") \notin DOMAIN tree
      BY <2>3 DEF Has
    <3> QED
      BY <2>1, <3>1, <3>2
  <2> QED
    BY <2>2, <2>3
<1> QED
  BY <1>6, <1>7, <1>8, <1>9

Finds == [at : Nodes \union {<<"none">>}, params : UNION {[D -> Words] : D \in SUBSET Names},
          state : {"going", "rest", "missed"}]

\* The name of the parameter at the i-th node on the way to a node.
Named(at, i) == tree[SubSeq(at, 1, i)].name

\* The values of the parameters on the way to a node.
Values(at, params, request) ==
  /\ DOMAIN params = {Named(at, i) : i \in DOMAIN at} \ {NoName}
  /\ \A i \in DOMAIN at :
       \/ Named(at, i) = NoName
       \/ params[Named(at, i)] = request[i]
       \/ \E j \in i + 1 .. Len(at) : Named(at, j) = Named(at, i)

\* What holds after i rounds of the loop of findRoute: no node is chosen that the
\* loop can no longer reach.
FindInv(request, i, f) ==
  /\ f.state = "going" =>
       /\ f.at \in DOMAIN tree /\ Len(f.at) = i /\ Greedy(f.at, request)
       /\ Values(f.at, f.params, request)
       /\ \A n \in DOMAIN tree : Chosen(n, request) => i <= Len(n)
       /\ \A n \in DOMAIN tree : Greedy(n, request) /\ i <= Len(n) => SubSeq(n, 1, i) = f.at
  /\ f.state = "rest" =>
       /\ f.at \in DOMAIN tree /\ Values(f.at, f.params, request)
       /\ \A n \in DOMAIN tree : Chosen(n, request) <=> n = f.at
  /\ f.state = "missed" => \A n \in DOMAIN tree : ~Chosen(n, request)

\* A round of the loop of findRoute, in terms of types and of FindInv.
LEMMA DescendType ==
  ASSUME tree \in Trees, NEW f \in Finds, NEW word \in Words
  PROVE  Descend(f, word) \in Finds
<1> DEFINE child == ChildOf(f.at, word)
           name == tree[child].name
<1>1. CASE f.state # "going"
  BY <1>1 DEF Descend
<1>2. CASE f.state = "going" /\ child \in DOMAIN tree
  <2>1. child \in Nodes /\ name \in Names
    BY <1>2, EdgesOfNodes DEF Node
  <2>2. PICK D \in SUBSET Names : f.params \in [D -> Words]
    BY DEF Finds
  <2>3. AddValue(f.params, name, word) \in [D \union {name} -> Words] /\ D \union {name} \in SUBSET Names
    BY <2>1, <2>2 DEF AddValue
  <2> DEFINE params == IF name = NoName THEN f.params ELSE AddValue(f.params, name, word)
  <2>4. params \in UNION {[C -> Words] : C \in SUBSET Names}
    BY <2>2, <2>3
  <2>5. Descend(f, word) = [at |-> child, state |-> "going", params |-> params]
    BY <1>2 DEF Descend
  <2> HIDE DEF child, params
  <2> QED
    BY <2>1, <2>4, <2>5 DEF Finds
<1>3. CASE f.state = "going" /\ child \notin DOMAIN tree
  <2>1. NotFound \in Finds
    <3>1. << >> \in [{} -> Words] /\ {} \in SUBSET Names
      OBVIOUS
    <3>2. << >> \in UNION {[C -> Words] : C \in SUBSET Names}
      BY <3>1
    <3> QED
      BY <3>2 DEF NotFound, Finds
  <2>2. [f EXCEPT !.state = "rest"] \in Finds
    BY DEF Finds
  <2>3. Descend(f, word) \in {NotFound, [f EXCEPT !.state = "rest"]}
    BY <1>3 DEF Descend
  <2> QED
    BY <2>1, <2>2, <2>3
<1> QED
  BY <1>1, <1>2, <1>3

\* A node that is reached by preferred edges, and a preferred edge below it.
LEMMA GreedyChild ==
  ASSUME tree \in Trees, NEW request \in Seq(Words), NEW n \in DOMAIN tree, Greedy(n, request),
         Len(n) < Len(request), NEW e \in Words \union Wild, Preferred(n, e, request[Len(n) + 1])
  PROVE  Greedy(Append(n, e), request)
<1>1. n \in Seq(AllEdges) /\ e \in AllEdges
  BY EdgesOfNodes DEF AllEdges
<1>2. /\ Len(n) \in Nat /\ Append(n, e) \in Seq(AllEdges) /\ Len(Append(n, e)) = Len(n) + 1
      /\ \A i \in 1..Len(n) : Append(n, e)[i] = n[i]
      /\ Append(n, e)[Len(n) + 1] = e /\ SubSeq(n, 1, Len(n)) = n
      /\ \A i \in 0..Len(n) : SubSeq(Append(n, e), 1, i) = SubSeq(n, 1, i)
  BY <1>1, Child
<1>3. DOMAIN n = 1..Len(n) /\ DOMAIN Append(n, e) = 1..(Len(n) + 1)
  BY <1>1, <1>2, LenProperties
<1>4. Len(request) \in Nat /\ DOMAIN request = 1..Len(request)
  BY LenProperties
<1> DEFINE c == Append(n, e)
<1>5. ASSUME NEW i \in DOMAIN c
      PROVE  i \in DOMAIN request /\ Preferred(SubSeq(c, 1, i - 1), c[i], request[i])
  <2>1. i \in 1..(Len(n) + 1) /\ i - 1 \in 0..Len(n) /\ i \in DOMAIN request
    BY <1>2, <1>3, <1>4
  <2>2. SubSeq(c, 1, i - 1) = SubSeq(n, 1, i - 1)
    BY <1>2, <2>1
  <2>3. CASE i = Len(n) + 1
    <3>1. i - 1 = Len(n)
      BY <1>2, <2>3
    <3> QED
      BY <1>2, <2>1, <2>2, <2>3, <3>1
  <2>4. CASE i # Len(n) + 1
    <3>1. i \in DOMAIN n /\ c[i] = n[i]
      BY <1>2, <1>3, <2>1, <2>4
    <3> QED
      BY <2>1, <2>2, <3>1 DEF Greedy
  <2> QED
    BY <2>3, <2>4
<1> QED
  BY <1>5 DEF Greedy

\* The values after a round of the loop.
LEMMA ValuesChild ==
  ASSUME tree \in Trees, NEW request \in Seq(Words), NEW n \in DOMAIN tree, NEW params,
         Values(n, params, request), Len(n) < Len(request), NEW e, Append(n, e) \in DOMAIN tree,
         NEW name, name = tree[Append(n, e)].name
  PROVE  Values(Append(n, e),
                IF name = NoName THEN params ELSE AddValue(params, name, request[Len(n) + 1]), request)
<1> DEFINE c == Append(n, e)
           m == Len(n) + 1
           new == IF name = NoName THEN params ELSE AddValue(params, name, request[m])
<1>1. n \in Seq(AllEdges) /\ c \in Seq(AllEdges) /\ n \in Seq(AllEdges \union {e}) /\ e \in AllEdges \union {e}
  BY EdgesOfNodes, SeqMonotonic
<1>2. /\ Len(n) \in Nat /\ Len(c) = Len(n) + 1
      /\ SubSeq(c, 1, Len(n) + 1) = c
      /\ \A i \in 0..Len(n) : SubSeq(c, 1, i) = SubSeq(n, 1, i)
  BY <1>1, Child
<1>3. DOMAIN n = 1..Len(n) /\ DOMAIN c = 1..(Len(n) + 1)
  BY <1>1, <1>2, LenProperties
<1>4. Named(c, m) = name /\ \A i \in DOMAIN n : Named(c, i) = Named(n, i)
  <2>1. Named(c, m) = name
    BY <1>2 DEF Named
  <2>2. \A i \in DOMAIN n : i \in 0..Len(n)
    BY <1>2, <1>3
  <2>3. \A i \in DOMAIN n : SubSeq(c, 1, i) = SubSeq(n, 1, i)
    BY <1>2, <2>2
  <2> QED
    BY <2>1, <2>3 DEF Named
<1>5. /\ m \in DOMAIN c /\ Len(c) = m /\ DOMAIN n \subseteq DOMAIN c
      /\ \A i \in DOMAIN c : i = m \/ i \in DOMAIN n
      /\ \A i \in DOMAIN n : m \in i + 1 .. Len(c) /\ i + 1 .. Len(n) \subseteq i + 1 .. Len(c)
      /\ \A i \in DOMAIN n : \A j \in i + 1 .. Len(n) : j \in DOMAIN n
  BY <1>2, <1>3
<1> HIDE DEF c, m
<1>6. {Named(c, i) : i \in DOMAIN c} = {Named(n, i) : i \in DOMAIN n} \union {name}
  BY <1>4, <1>5
<1>7. DOMAIN new = {Named(c, i) : i \in DOMAIN c} \ {NoName}
  BY <1>6 DEF Values, AddValue
<1>8. ASSUME NEW i \in DOMAIN c
      PROVE  \/ Named(c, i) = NoName \/ new[Named(c, i)] = request[i]
             \/ \E j \in i + 1 .. Len(c) : Named(c, j) = Named(c, i)
  <2>1. CASE i = m
    BY <1>4, <2>1 DEF AddValue
  <2>2. CASE i \in DOMAIN n /\ Named(n, i) = name
    BY <1>4, <1>5, <2>2
  <2>3. CASE i \in DOMAIN n /\ Named(n, i) # name /\ Named(n, i) # NoName
    <3>1. Named(n, i) \in DOMAIN params
      BY <2>3 DEF Values
    <3>2. new[Named(n, i)] = params[Named(n, i)]
      BY <2>3, <3>1 DEF AddValue
    <3>3. params[Named(n, i)] = request[i] \/ \E j \in i + 1 .. Len(n) : Named(n, j) = Named(n, i)
      BY <2>3 DEF Values
    <3> HIDE DEF new
    <3> QED
      BY <1>4, <1>5, <2>3, <3>2, <3>3
  <2> QED
    BY <1>4, <1>5, <2>1, <2>2, <2>3
<1> QED
  BY <1>7, <1>8 DEF Values, c, m

\* A node that has no more words, or none that can go on, where the loop is.
LEMMA ChosenHere ==
  ASSUME tree \in Trees, NEW request \in Seq(Words), NEW i \in 1..Len(request),
         NEW at \in DOMAIN tree, Len(at) = i - 1,
         \A n \in DOMAIN tree : Greedy(n, request) /\ i - 1 <= Len(n) => SubSeq(n, 1, i - 1) = at,
         NEW n \in DOMAIN tree, Chosen(n, request), Len(n) = i - 1
  PROVE  /\ n = at /\ at # Root /\ Last(at) = "star"
         /\ \A e \in Words \union Wild : ~Fits(at, e, request[i])
<1>1. n \in Seq(AllEdges) /\ Len(n) \in Nat
  BY EdgesOfNodes, LenProperties
<1>2. SubSeq(n, 1, i - 1) = n
  BY <1>1, SubSeqFull
<1>3. Greedy(n, request) /\ i - 1 <= Len(n)
  BY <1>1 DEF Chosen
<1>4. n = at
  BY <1>2, <1>3
<1>5. Len(n) # Len(request) /\ Len(n) + 1 = i
  BY <1>1, LenProperties
<1> QED
  BY <1>4, <1>5 DEF Chosen

\* The edge by which a greedy node goes on.
LEMMA GreedyGoesOn ==
  ASSUME tree \in Trees, NEW request \in Seq(Words), NEW i \in 1..Len(request),
         NEW n \in DOMAIN tree, Greedy(n, request), i <= Len(n)
  PROVE  /\ n[i] \in Words \union Wild /\ Preferred(SubSeq(n, 1, i - 1), n[i], request[i])
         /\ Fits(SubSeq(n, 1, i - 1), n[i], request[i])
         /\ SubSeq(n, 1, i) = Append(SubSeq(n, 1, i - 1), n[i])
<1>1. n \in Seq(AllEdges) /\ Len(n) \in Nat /\ i \in 1..Len(n) /\ i \in DOMAIN n /\ request[i] \in Words
  BY EdgesOfNodes, LenProperties, ElementOfSeq
<1>2. Preferred(SubSeq(n, 1, i - 1), n[i], request[i])
  BY <1>1 DEF Greedy
<1>3. Fits(SubSeq(n, 1, i - 1), n[i], request[i])
  BY <1>2 DEF Preferred
<1>4. n[i] \in Words \union Wild
  BY <1>1, <1>3 DEF Fits, Wild
<1> QED
  BY <1>1, <1>2, <1>3, <1>4, NextBeginning

LEMMA DescendInv ==
  ASSUME tree \in Trees, NEW request \in Seq(Words), NEW i \in 1..Len(request),
         NEW f \in Finds, FindInv(request, i - 1, f)
  PROVE  FindInv(request, i, Descend(f, request[i]))
<1> DEFINE word == request[i]
           child == ChildOf(f.at, word)
<1>1. /\ Len(request) \in Nat /\ DOMAIN request = 1..Len(request) /\ word \in Words
      /\ i \in Nat /\ i - 1 \in Nat /\ (i - 1) + 1 = i
  BY LenProperties, ElementOfSeq
<1>2. CASE f.state # "going"
  BY <1>2 DEF Descend, FindInv, Finds
<1>3. ASSUME f.state = "going"
      PROVE  /\ f.at \in DOMAIN tree /\ Len(f.at) = i - 1 /\ Greedy(f.at, request)
             /\ Values(f.at, f.params, request)
             /\ \A n \in DOMAIN tree : Chosen(n, request) => i - 1 <= Len(n)
             /\ \A n \in DOMAIN tree : Greedy(n, request) /\ i - 1 <= Len(n) => SubSeq(n, 1, i - 1) = f.at
  BY <1>3 DEF FindInv
<1>4. ASSUME f.state = "going", NEW n \in DOMAIN tree, Chosen(n, request), Len(n) = i - 1
      PROVE  /\ n = f.at /\ f.at # Root /\ Last(f.at) = "star"
             /\ \A e \in Words \union Wild : ~Fits(f.at, e, word)
  BY <1>3, <1>4, ChosenHere
<1>5. \A n \in DOMAIN tree : Len(n) \in Nat
  BY EdgesOfNodes, LenProperties
<1>6. CASE f.state = "going" /\ child \in DOMAIN tree
  <2>1. PICK e \in Words \union Wild : child = Append(f.at, e) /\ Preferred(f.at, e, word)
    BY <1>1, <1>6, ChildIsPreferred
  <2> DEFINE name == tree[child].name
             params == IF name = NoName THEN f.params ELSE AddValue(f.params, name, word)
             g == [at |-> child, state |-> "going", params |-> params]
  <2>2. Descend(f, word) = g
    BY <1>6 DEF Descend
  <2>3. Len(child) = i
    <3>1. f.at \in Seq(AllEdges) /\ e \in AllEdges
      BY <1>3, <1>6, EdgesOfNodes DEF AllEdges
    <3> QED
      BY <1>1, <1>3, <1>6, <2>1, <3>1, AppendProperties
  <2>4. Greedy(child, request)
    BY <1>1, <1>3, <1>6, <2>1, GreedyChild
  <2>5. Values(child, params, request)
    BY <1>1, <1>3, <1>6, <2>1, ValuesChild
  <2>6. \A n \in DOMAIN tree : Chosen(n, request) => i <= Len(n)
    <3> SUFFICES ASSUME NEW n \in DOMAIN tree, Chosen(n, request), ~(i <= Len(n)) PROVE FALSE
      OBVIOUS
    <3>1. Len(n) = i - 1
      BY <1>1, <1>3, <1>5, <1>6
    <3>2. ~Fits(f.at, e, word)
      BY <1>4, <1>6, <3>1
    <3> QED
      BY <2>1, <3>2 DEF Preferred
  <2>7. \A n \in DOMAIN tree : Greedy(n, request) /\ i <= Len(n) => SubSeq(n, 1, i) = child
    <3> SUFFICES ASSUME NEW n \in DOMAIN tree, Greedy(n, request), i <= Len(n)
                 PROVE  SubSeq(n, 1, i) = child
      OBVIOUS
    <3>1. SubSeq(n, 1, i - 1) = f.at
      BY <1>1, <1>3, <1>5, <1>6
    <3>2. Preferred(f.at, n[i], word) /\ SubSeq(n, 1, i) = Append(f.at, n[i])
      BY <3>1, GreedyGoesOn
    <3>3. n[i] = e
      BY <1>1, <2>1, <3>2, OnePreferred
    <3> QED
      BY <2>1, <3>2, <3>3
  <2>8. g.at = child /\ g.state = "going" /\ g.params = params
    OBVIOUS
  <2> HIDE DEF g, params, child
  <2>9. FindInv(request, i, g)
    BY <1>6, <2>3, <2>4, <2>5, <2>6, <2>7, <2>8 DEF FindInv
  <2> QED
    BY <2>2, <2>9
<1>7. CASE f.state = "going" /\ child \notin DOMAIN tree
  <2>1. \A e \in Words \union Wild : ~Fits(f.at, e, word)
    BY <1>1, <1>7, ChildIsPreferred
  <2>2. \A n \in DOMAIN tree : Chosen(n, request) => Len(n) = i - 1
    <3> SUFFICES ASSUME NEW n \in DOMAIN tree, Chosen(n, request), Len(n) # i - 1 PROVE FALSE
      OBVIOUS
    <3>1. i <= Len(n) /\ i - 1 <= Len(n) /\ Greedy(n, request)
      BY <1>1, <1>3, <1>5, <1>7 DEF Chosen
    <3>2. SubSeq(n, 1, i - 1) = f.at
      BY <1>3, <1>7, <3>1
    <3>3. n[i] \in Words \union Wild /\ Fits(f.at, n[i], word)
      BY <3>1, <3>2, GreedyGoesOn
    <3> QED
      BY <2>1, <3>3
  <2>3. CASE f.at # Root /\ Last(f.at) = "star"
    <3>1. Descend(f, word) = [f EXCEPT !.state = "rest"]
      BY <1>7, <2>3 DEF Descend
    <3>2. /\ Descend(f, word).state = "rest" /\ Descend(f, word).at = f.at
          /\ Descend(f, word).params = f.params
      BY <3>1 DEF Finds
    <3>3. Chosen(f.at, request)
      BY <1>1, <1>3, <1>7, <2>1, <2>3 DEF Chosen
    <3>4. \A n \in DOMAIN tree : Chosen(n, request) <=> n = f.at
      BY <1>4, <1>7, <2>2, <3>3
    <3> QED
      BY <1>3, <1>7, <3>2, <3>4 DEF FindInv
  <2>4. CASE ~(f.at # Root /\ Last(f.at) = "star")
    <3>1. Descend(f, word) = NotFound
      BY <1>7, <2>4 DEF Descend
    <3>2. \A n \in DOMAIN tree : ~Chosen(n, request)
      BY <1>4, <1>7, <2>2, <2>4
    <3> QED
      BY <3>1, <3>2 DEF FindInv, NotFound
  <2> QED
    BY <2>3, <2>4
<1> QED
  BY <1>2, <1>6, <1>7

\* The loop of findRoute runs: its rounds follow each other.
LEMMA FindRuns ==
  ASSUME tree \in Trees, NEW start \in Finds, NEW request \in Seq(Words), NEW found,
         found = CHOOSE f : f = [i \in 0..Len(request) |-> IF i = 0 THEN start ELSE Descend(f[i - 1], request[i])]
  PROVE  /\ found[0] = start
         /\ \A i \in 1..Len(request) : found[i] = Descend(found[i - 1], request[i])
<1> DEFINE Loop(f) == f = [i \in 0..Len(request) |-> IF i = 0 THEN start ELSE Descend(f[i - 1], request[i])]
           G == [i \in Nat |-> [f \in Finds |-> IF i \in 1..Len(request) THEN Descend(f, request[i]) ELSE f]]
<1>1. Len(request) \in Nat /\ \A i \in 1..Len(request) : request[i] \in Words
  BY LenProperties, ElementOfSeq
<1>2. PICK f \in [0..Len(request) -> Finds] : f[0] = start /\ \A i \in 1..Len(request) : f[i] = G[i][f[i - 1]]
  <2>1. \A i \in Nat : \A f \in Finds : G[i][f] \in Finds
    BY <1>1, DescendType
  <2>2. Rounds(G, Finds)
    BY <2>1 DEF Rounds
  <2>3. Len(request) \in Nat
    BY <1>1
  <2> HIDE DEF G
  <2>4. HasLoop(Finds, start, G, Len(request))
    BY <2>2, <2>3, LoopExists
  <2> QED
    BY <2>4 DEF HasLoop
<1>3. Loop(f)
  <2>1. \A i \in 0..Len(request) : i # 0 => i \in 1..Len(request) /\ i \in Nat /\ f[i - 1] \in Finds
    BY <1>1, <1>2
  <2>2. \A i \in 0..Len(request) : i # 0 => f[i] = Descend(f[i - 1], request[i])
    BY <1>2, <2>1
  <2> QED
    BY <1>2, <2>2
<1>4. Loop(found)
  <2>1. found = CHOOSE x : Loop(x)
    OBVIOUS
  <2> HIDE DEF Loop
  <2> QED
    BY <1>3, <2>1
<1> HIDE DEF G
<1>5. found = [i \in 0..Len(request) |-> IF i = 0 THEN start ELSE Descend(found[i - 1], request[i])]
  BY <1>4
<1>6. \A i \in 0..Len(request) : found[i] = IF i = 0 THEN start ELSE Descend(found[i - 1], request[i])
  BY <1>5
<1>7. 0 \in 0..Len(request) /\ \A i \in 1..Len(request) : i \in 0..Len(request) /\ i # 0
  BY <1>1
<1> QED
  BY <1>6, <1>7

\* The root exists as soon as anything does.
LEMMA RootExists ==
  ASSUME tree \in Trees, WellGrown(tree), tree # << >>
  PROVE  Root \in DOMAIN tree
<1>1. PICK D \in SUBSET Nodes : tree \in [D -> Node]
  BY DEF Trees
<1>2. D # {}
  <2>1. ASSUME D = {} PROVE tree = << >>
    BY <1>1, <2>1
  <2> QED
    BY <2>1
<1>3. PICK n \in DOMAIN tree : TRUE
  BY <1>1, <1>2
<1>4. Len(n) \in Nat
  BY EdgesOfNodes, LenProperties
<1>5. SubSeq(n, 1, 0) \in DOMAIN tree
  BY <1>4 DEF WellGrown
<1>6. SubSeq(n, 1, 0) = << >>
  BY SubSeqEmpty
<1> QED
  BY <1>5, <1>6 DEF Root

\* What findRoute finds in a tree that has been grown.
LEMMA RouteFound ==
  ASSUME tree \in Trees, WellGrown(tree), tree # << >>, NEW request \in Seq(Words)
  PROVE  FindRoute(request) \in Finds /\ FindInv(request, Len(request), FindRoute(request))
<1> DEFINE start == [at |-> Root, params |-> << >>, state |-> "going"]
           found == CHOOSE f : f = [i \in 0..Len(request) |-> IF i = 0 THEN start ELSE Descend(f[i - 1], request[i])]
<1>1. Len(request) \in Nat
  BY LenProperties
<1>2. Root \in DOMAIN tree
  BY RootExists
<1>3. DOMAIN Root = {} /\ Len(Root) = 0 /\ Root \in Nodes
  BY EmptySeq DEF Root, Nodes
<1>4. start \in Finds
  <2>1. << >> \in [{} -> Words] /\ {} \in SUBSET Names
    OBVIOUS
  <2>2. << >> \in UNION {[C -> Words] : C \in SUBSET Names}
    BY <2>1
  <2> QED
    BY <1>3, <2>2 DEF Finds
<1>5. FindInv(request, 0, start)
  <2>1. start.at = Root /\ start.params = << >> /\ start.state = "going"
    OBVIOUS
  <2>2. Greedy(Root, request)
    BY <1>3 DEF Greedy
  <2>3. Values(Root, << >>, request)
    BY <1>3 DEF Values
  <2>4. \A n \in DOMAIN tree : Len(n) \in Nat /\ 0 <= Len(n) /\ SubSeq(n, 1, 0) = Root
    BY EdgesOfNodes, LenProperties, SubSeqEmpty DEF Root
  <2> HIDE DEF start
  <2> QED
    BY <1>2, <1>3, <2>1, <2>2, <2>3, <2>4 DEF FindInv
<1> HIDE DEF start
<1>6. /\ found[0] = start
      /\ \A i \in 1..Len(request) : found[i] = Descend(found[i - 1], request[i])
  BY <1>4, FindRuns
<1> HIDE DEF found
<1>7. found[Len(request)] \in Finds /\ FindInv(request, Len(request), found[Len(request)])
  <2> DEFINE T == {i \in 0..Len(request) : found[i] \in Finds /\ FindInv(request, i, found[i])}
  <2>1. 0 \in T
    BY <1>1, <1>4, <1>5, <1>6
  <2>2. ASSUME NEW i \in 1..Len(request), i - 1 \in T PROVE i \in T
    <3>1. i \in 0..Len(request) /\ found[i - 1] \in Finds /\ FindInv(request, i - 1, found[i - 1])
      BY <1>1, <2>2
    <3>2. request[i] \in Words
      BY ElementOfSeq
    <3>3. found[i] \in Finds
      BY <1>6, <3>1, <3>2, DescendType
    <3>4. FindInv(request, i, found[i])
      BY <1>6, <3>1, DescendInv
    <3> QED
      BY <3>1, <3>3, <3>4
  <2> HIDE DEF T
  <2>3. \A i \in 0..Len(request) : i \in T
    BY <1>1, <2>1, <2>2, BoundedInduction
  <2>4. Len(request) \in 0..Len(request)
    BY <1>1
  <2> QED
    BY <2>3, <2>4 DEF T
<1>8. FindRoute(request) = found[Len(request)]
  BY DEF FindRoute, found, start
<1> QED
  BY <1>7, <1>8

\* A request is a sequence of words.
LEMMA RequestType ==
  ASSUME NEW request \in Requests
  PROVE  request \in Seq(Words)
<1>1. PICK d \in 0..(MaxDepth + 1) : request \in [1..d -> Words]
  BY DEF Requests, UpTo
<1> QED
  BY <1>1, Bounds

\* The invariant makes findRoute find the preferred node.
LEMMA Preference ==
  ASSUME IInv
  PROVE  LookupByPriority
<1> SUFFICES ASSUME NEW request \in Requests
             PROVE  IF FindRoute(request).state = "missed"
                    THEN \A n \in DOMAIN tree : ~Chosen(n, request)
                    ELSE \A n \in DOMAIN tree : Chosen(n, request) <=> n = FindRoute(request).at
  BY DEF LookupByPriority
<1> DEFINE f == FindRoute(request)
<1>1. tree \in Trees /\ WellGrown(tree) /\ request \in Seq(Words)
  BY RequestType DEF IInv
<1>2. CASE tree = << >>
  <2>1. f.state = "missed" /\ DOMAIN tree = {}
    BY <1>2 DEF FindRoute, NotFound
  <2> QED
    BY <2>1
<1>3. CASE tree # << >>
  <2>1. f \in Finds /\ FindInv(request, Len(request), f)
    BY <1>1, <1>3, RouteFound
  <2> HIDE DEF f
  <2>2. CASE f.state = "going"
    <3>1. /\ f.at \in DOMAIN tree /\ Len(f.at) = Len(request) /\ Greedy(f.at, request)
          /\ \A n \in DOMAIN tree : Chosen(n, request) => Len(request) <= Len(n)
          /\ \A n \in DOMAIN tree : Greedy(n, request) /\ Len(request) <= Len(n) => SubSeq(n, 1, Len(request)) = f.at
      BY <2>1, <2>2 DEF FindInv
    <3>2. Chosen(f.at, request)
      BY <3>1 DEF Chosen
    <3>3. ASSUME NEW n \in DOMAIN tree, Chosen(n, request) PROVE n = f.at
      <4>1. n \in Seq(AllEdges) /\ Len(n) \in Nat /\ DOMAIN n = 1..Len(n)
        BY <1>1, EdgesOfNodes, LenProperties
      <4>2. Len(request) \in Nat /\ DOMAIN request = 1..Len(request)
        BY <1>1, LenProperties
      <4>3. Greedy(n, request) /\ Len(request) <= Len(n)
        BY <3>1, <3>3 DEF Chosen
      <4>4. Len(n) = Len(request)
        <5>1. CASE Len(n) = 0
          BY <4>2, <4>3, <5>1
        <5>2. CASE Len(n) # 0
          <6>1. Len(n) \in DOMAIN n
            BY <4>1, <5>2
          <6>2. Len(n) \in DOMAIN request
            BY <4>3, <6>1 DEF Greedy
          <6> QED
            BY <4>2, <4>3, <6>2
        <5> QED
          BY <5>1, <5>2
      <4>5. SubSeq(n, 1, Len(n)) = n
        BY <4>1, SubSeqFull
      <4> QED
        BY <3>1, <4>3, <4>4, <4>5
    <3> QED
      BY <2>2, <3>2, <3>3 DEF f
  <2>3. CASE f.state # "going"
    BY <2>1, <2>3 DEF FindInv, Finds, f
  <2> QED
    BY <2>2, <2>3
<1> QED
  BY <1>2, <1>3

\* Lines 180-186 of homework2/route.go: whatever has been registered, a lookup finds
\* the node that static before regular expression before parameter before star
\* leads to, and fails only if there is none, for requests and trees of any size.
THEOREM Priority ==
  Spec => []LookupByPriority
BY Invariant, Preference, PTL

\* Line 27: of parameters with one name the last wins, and every parameter on the
\* way gets a value.
THEOREM Parameters ==
  Spec => []LastValueWins
<1>1. ASSUME IInv PROVE LastValueWins
  <2> SUFFICES ASSUME NEW request \in Requests, FindRoute(request).state # "missed"
               PROVE  Values(FindRoute(request).at, FindRoute(request).params, request)
    BY DEF LastValueWins, Values, Named
  <2>1. tree \in Trees /\ WellGrown(tree) /\ request \in Seq(Words)
    BY <1>1, RequestType DEF IInv
  <2>2. tree # << >>
    BY DEF FindRoute, NotFound
  <2>3. FindRoute(request) \in Finds /\ FindInv(request, Len(request), FindRoute(request))
    BY <2>1, <2>2, RouteFound
  <2> QED
    BY <2>3 DEF FindInv, Finds
<1> QED
  BY <1>1, Invariant, PTL

\* A node named by words only is chosen for the request with these words.
LEMMA WordsChosen ==
  ASSUME IInv, NEW n \in DOMAIN tree, n \in Requests
  PROVE  Chosen(n, n)
<1>1. n \in Seq(Words) /\ Len(n) \in Nat /\ DOMAIN n = 1..Len(n)
  BY RequestType, LenProperties
<1>2. ASSUME NEW i \in DOMAIN n PROVE Preferred(SubSeq(n, 1, i - 1), n[i], n[i])
  <2>1. n[i] \in Words /\ i \in 0..Len(n) /\ i \in 1..Len(n)
    BY <1>1, <1>2, ElementOfSeq
  <2>2. SubSeq(n, 1, i) \in DOMAIN tree
    BY <2>1 DEF IInv, WellGrown
  <2>3. Has(tree, SubSeq(n, 1, i - 1), n[i])
    BY <1>1, <2>1, <2>2, NextBeginning DEF Has
  <2>4. n[i] \notin Wild
    BY <2>1, WordsAreNotWild
  <2>5. Rank(n[i]) = 1 /\ \A e : Rank(e) \in {1, 2, 3, 4}
    BY <2>4 DEF Rank, Wild
  <2>6. \A e : Rank(n[i]) <= Rank(e)
    BY <2>5
  <2> QED
    BY <2>3, <2>6 DEF Preferred, Fits
<1> QED
  BY <1>2 DEF Chosen, Greedy

\* The handler of a route of words answers its path.
WordsAnswered ==
  \A n \in DOMAIN tree : n \in Requests => Serve(n) = tree[n].handler

\* homework2/server.go 56-65 with line 23 of route.go: the handler of a route of
\* words answers its path for ever after.
THEOREM RoutesAnswer ==
  Spec => WordsReachTheirHandler
<1>1. ASSUME IInv PROVE WordsAnswered
  <2> SUFFICES ASSUME NEW n \in DOMAIN tree, n \in Requests PROVE Serve(n) = tree[n].handler
    BY DEF WordsAnswered
  <2>1. Chosen(n, n) /\ LookupByPriority
    BY <1>1, WordsChosen, Preference
  <2>2. FindRoute(n).state # "missed" /\ FindRoute(n).at = n
    BY <2>1 DEF LookupByPriority
  <2> QED
    BY <2>2 DEF Serve
<1>2. IInv /\ WordsAnswered' /\ [Next]_vars =>
        [\A n \in DOMAIN tree : n \in Requests /\ tree[n].handler # NoHandler =>
           Serve(n)' = tree[n].handler]_vars
  <2> SUFFICES ASSUME WordsAnswered', \A n \in DOMAIN tree : Kept(n),
                      NEW n \in DOMAIN tree, n \in Requests, tree[n].handler # NoHandler
               PROVE  Serve(n)' = tree[n].handler
    BY Step
  <2>1. n \in DOMAIN tree' /\ tree'[n] = tree[n]
    BY DEF Kept
  <2>2. Serve(n)' = tree'[n].handler
    BY <2>1 DEF WordsAnswered
  <2> QED
    BY <2>1, <2>2
<1> QED
  BY <1>1, <1>2, Invariant, PTL DEF Spec, WordsReachTheirHandler

-----------------------------------------------------------------------------
(* Middlewares *)

\* A middleware of a node, and that it belongs to no other.
Uses(n, x) == \E i \in 1..Len(MwsAt(n)) : MwsAt(n)[i] = x

LEMMA SliceOf ==
  ASSUME Slices(calls), NEW n
  PROVE  /\ MwsAt(n) \in Seq(Nat) /\ Len(MwsAt(n)) \in Nat
         /\ \A i \in 1..Len(MwsAt(n)) : MwsAt(n)[i] \in Nat
         /\ \A i, j \in 1..Len(MwsAt(n)) : i < j => MwsAt(n)[i] < MwsAt(n)[j]
         /\ \A x : Uses(n, x) <=> n \in DOMAIN mws /\ \E i \in 1..Len(mws[n]) : mws[n][i] = x
<1>1. CASE n \in DOMAIN mws
  <2>1. MwsAt(n) = mws[n]
    BY <1>1 DEF MwsAt
  <2>2. mws[n] \in Seq(Nat)
    <3>1. mws[n] \in Seq(1..calls) /\ 1..calls \subseteq Nat
      BY <1>1 DEF Slices
    <3> QED
      BY <3>1, SeqMonotonic
  <2>3. \A i, j \in 1..Len(mws[n]) : i < j => mws[n][i] < mws[n][j]
    BY <1>1 DEF Slices
  <2> QED
    BY <1>1, <2>1, <2>2, <2>3, LenProperties, ElementOfSeq DEF Uses
<1>2. CASE n \notin DOMAIN mws
  <2>1. MwsAt(n) = << >>
    BY <1>2 DEF MwsAt
  <2>2. << >> \in Seq(Nat) /\ Len(<< >>) = 0
    BY EmptySeq
  <2> QED
    BY <1>2, <2>1, <2>2 DEF Uses
<1> QED
  BY <1>1, <1>2

LEMMA OneUser ==
  ASSUME Slices(calls), NEW m, NEW n, NEW x, Uses(m, x), Uses(n, x)
  PROVE  m = n
<1>1. m \in DOMAIN mws /\ n \in DOMAIN mws
  BY SliceOf
<1>2. (\E i \in 1..Len(mws[m]) : mws[m][i] = x) /\ (\E j \in 1..Len(mws[n]) : mws[n][j] = x)
  BY SliceOf
<1>3. PICK i \in 1..Len(mws[m]), j \in 1..Len(mws[n]) : mws[m][i] = x /\ mws[n][j] = x
  BY <1>2
<1> QED
  BY <1>1, <1>3 DEF Slices

\* The parent and the edge of a node make up the node.
LEMMA ParentAndEdge ==
  ASSUME NEW n \in Nodes, n # Root
  PROVE  n = Append(Front(n), Last(n)) /\ Front(n) \in Nodes /\ Last(n) \in Edges
<1>1. Len(n) \in Nat /\ Len(n) # 0 /\ SubSeq(n, 1, Len(n)) = n
  BY EmptySeq, LenProperties, SubSeqFull DEF Root, Nodes
<1>2. Len(n) \in 1..Len(n) /\ Len(n) - 1 \in 0..Len(n)
  BY <1>1
<1>3. SubSeq(n, 1, Len(n)) = Append(SubSeq(n, 1, Len(n) - 1), n[Len(n)]) /\ n[Len(n)] \in Edges
  BY <1>2, NextBeginning DEF Nodes
<1>4. SubSeq(n, 1, Len(n) - 1) \in Nodes
  BY <1>2, Beginning DEF Nodes
<1> QED
  BY <1>1, <1>3, <1>4 DEF Front, Last

\* The middlewares of the nodes N, each once and in their order.
Collected(s, N) ==
  /\ s \in Seq(Nat)
  /\ \A x : (\E i \in 1..Len(s) : s[i] = x) <=> (\E n \in N : Uses(n, x))
  /\ \A i, j \in 1..Len(s) : s[i] = s[j] => i = j
  /\ \A i, j \in 1..Len(s) : \A m, n \in N :
       Uses(m, s[i]) /\ Uses(n, s[j]) /\ (Sooner(m, n) \/ (m = n /\ s[i] < s[j])) => i < j

\* No node comes sooner than itself.
LEMMA NotSooner ==
  ASSUME NEW n \in Nodes
  PROVE  ~Sooner(n, n)
<1>1. Len(n) \in Nat
  BY LenProperties DEF Nodes
<1> QED
  BY <1>1, WordsAreNotWild DEF Sooner

\* A node that comes later is visited later.
LEMMA CollectedMore ==
  ASSUME Slices(calls), NEW s, NEW N, Collected(s, N), NEW c \in Nodes, c \notin N, \A n \in N : ~Sooner(c, n)
  PROVE  Collected(s \o MwsAt(c), N \union {c})
<1> DEFINE t == MwsAt(c)
           u == s \o t
<1>1. /\ t \in Seq(Nat) /\ Len(t) \in Nat /\ \A i \in 1..Len(t) : t[i] \in Nat /\ Uses(c, t[i])
      /\ \A i, j \in 1..Len(t) : i < j => t[i] < t[j]
      /\ \A x : Uses(c, x) <=> \E i \in 1..Len(t) : t[i] = x
  BY SliceOf DEF Uses
<1>2. s \in Seq(Nat) /\ Len(s) \in Nat /\ \A i \in 1..Len(s) : \E n \in N : Uses(n, s[i])
  BY LenProperties DEF Collected
<1> HIDE DEF t
<1>3. /\ u \in Seq(Nat) /\ Len(u) = Len(s) + Len(t)
      /\ \A i \in 1..Len(s) + Len(t) : u[i] = IF i <= Len(s) THEN s[i] ELSE t[i - Len(s)]
  BY <1>1, <1>2, ConcatProperties
<1> HIDE DEF u
<1>4. ASSUME NEW i \in 1..Len(u)
      PROVE  \/ i \in 1..Len(s) /\ u[i] = s[i]
             \/ ~(i \in 1..Len(s)) /\ i - Len(s) \in 1..Len(t) /\ u[i] = t[i - Len(s)]
  BY <1>1, <1>2, <1>3
<1>5. \A i \in 1..Len(s) : i \in 1..Len(u) /\ u[i] = s[i]
  BY <1>1, <1>2, <1>3
<1>6. \A i \in 1..Len(t) : i + Len(s) \in 1..Len(u) /\ u[i + Len(s)] = t[i]
  <2> TAKE i \in 1..Len(t)
  <2>1. i + Len(s) \in 1..Len(s) + Len(t) /\ ~(i + Len(s) <= Len(s)) /\ (i + Len(s)) - Len(s) = i
    BY <1>1, <1>2
  <2> QED
    BY <1>3, <2>1
<1>7. \A i \in 1..Len(s), j \in 1..Len(t) : s[i] # t[j]
  BY <1>1, <1>2, OneUser
<1>8. \A x : (\E i \in 1..Len(u) : u[i] = x) <=> (\E n \in N \union {c} : Uses(n, x))
  <2> TAKE x
  <2>1. (\E i \in 1..Len(u) : u[i] = x) <=> (\E i \in 1..Len(s) : s[i] = x) \/ (\E i \in 1..Len(t) : t[i] = x)
    BY <1>4, <1>5, <1>6
  <2>2. (\E i \in 1..Len(s) : s[i] = x) <=> (\E n \in N : Uses(n, x))
    BY DEF Collected
  <2> QED
    BY <1>1, <2>1, <2>2
<1>9. \A i, j \in 1..Len(t) : i # j => t[i] # t[j]
  <2> TAKE i \in 1..Len(t), j \in 1..Len(t)
  <2> HAVE i # j
  <2>1. i < j \/ j < i
    BY <1>1
  <2>2. t[i] < t[j] \/ t[j] < t[i]
    BY <1>1, <2>1
  <2> QED
    BY <1>1, <2>2
<1>10. ASSUME NEW i \in 1..Len(u), NEW j \in 1..Len(u), u[i] = u[j] PROVE i = j
  <2>1. CASE i \in 1..Len(s) /\ j \in 1..Len(s)
    BY <1>5, <1>10, <2>1 DEF Collected
  <2>2. CASE i \in 1..Len(s) /\ ~(j \in 1..Len(s))
    BY <1>4, <1>7, <1>10, <2>2
  <2>3. CASE ~(i \in 1..Len(s)) /\ j \in 1..Len(s)
    BY <1>4, <1>7, <1>10, <2>3
  <2>4. CASE ~(i \in 1..Len(s)) /\ ~(j \in 1..Len(s))
    <3>1. i - Len(s) = j - Len(s)
      BY <1>4, <1>9, <1>10, <2>4
    <3> QED
      BY <1>2, <3>1
  <2> QED
    BY <2>1, <2>2, <2>3, <2>4
<1>11. ASSUME NEW i \in 1..Len(u), NEW j \in 1..Len(u), NEW m \in N \union {c}, NEW n \in N \union {c},
              Uses(m, u[i]), Uses(n, u[j]), Sooner(m, n) \/ (m = n /\ u[i] < u[j])
       PROVE  i < j
  <2>1. \A l \in 1..Len(s) : ~Uses(c, s[l])
    BY <1>2, OneUser
  <2>2. CASE i \in 1..Len(s) /\ j \in 1..Len(s)
    <3>1. u[i] = s[i] /\ u[j] = s[j] /\ m \in N /\ n \in N
      BY <1>5, <1>11, <2>1, <2>2
    <3> QED
      BY <1>11, <2>2, <3>1 DEF Collected
  <2>3. CASE i \in 1..Len(s) /\ ~(j \in 1..Len(s))
    BY <1>1, <1>2, <1>3, <2>3
  <2>4. CASE ~(i \in 1..Len(s)) /\ j \in 1..Len(s)
    <3>1. m = c /\ n \in N
      <4>1. u[j] = s[j] /\ Uses(c, u[i])
        BY <1>1, <1>4, <1>5, <2>4
      <4> QED
        BY <1>11, <2>1, <2>4, <4>1, OneUser
    <3> QED
      BY <1>11, <3>1
  <2>5. CASE ~(i \in 1..Len(s)) /\ ~(j \in 1..Len(s))
    <3>1. /\ i - Len(s) \in 1..Len(t) /\ u[i] = t[i - Len(s)]
          /\ j - Len(s) \in 1..Len(t) /\ u[j] = t[j - Len(s)]
      BY <1>4, <2>5
    <3>2. m = c /\ n = c
      BY <1>1, <1>11, <3>1, OneUser
    <3>3. t[i - Len(s)] < t[j - Len(s)]
      BY <1>11, <3>1, <3>2, NotSooner
    <3>4. i - Len(s) < j - Len(s)
      <4>1. \A k, l \in 1..Len(t) : t[k] < t[l] => k < l
        <5> TAKE k \in 1..Len(t), l \in 1..Len(t)
        <5>1. t[k] \in Nat /\ t[l] \in Nat /\ (l < k => t[l] < t[k])
          BY <1>1
        <5> QED
          BY <5>1
      <4> QED
        BY <3>1, <3>3, <4>1
    <3> QED
      BY <1>2, <3>4
  <2> QED
    BY <2>2, <2>3, <2>4, <2>5
<1>12. Collected(u, N \union {c})
  BY <1>3, <1>8, <1>10, <1>11 DEF Collected
<1> QED
  BY <1>12 DEF u, t

\* A level lists its nodes, each once.
Listed(s, L) ==
  /\ s \in Seq(Nodes)
  /\ \A n : (\E i \in 1..Len(s) : s[i] = n) <=> n \in L
  /\ \A i, j \in 1..Len(s) : s[i] = s[j] => i = j

LEMMA ListedMore ==
  ASSUME NEW s, NEW L, Listed(s, L), NEW c \in Nodes, c \notin L
  PROVE  Listed(Append(s, c), L \union {c})
<1> DEFINE u == Append(s, c)
<1>1. s \in Seq(Nodes) /\ Len(s) \in Nat
  BY LenProperties DEF Listed
<1>2. /\ u \in Seq(Nodes) /\ Len(u) = Len(s) + 1 /\ u[Len(s) + 1] = c
      /\ \A i \in 1..Len(s) : u[i] = s[i]
  BY <1>1, AppendProperties
<1> HIDE DEF u
<1>3. /\ \A i \in 1..Len(u) : i \in 1..Len(s) \/ i = Len(s) + 1
      /\ \A i \in 1..Len(s) : i \in 1..Len(u)
      /\ Len(s) + 1 \in 1..Len(u)
  BY <1>1, <1>2
<1>4. \A i \in 1..Len(s) : s[i] # c
  BY DEF Listed
<1>5. \A n : (\E i \in 1..Len(u) : u[i] = n) <=> n \in L \union {c}
  <2> TAKE n
  <2>1. (\E i \in 1..Len(u) : u[i] = n) <=> (\E i \in 1..Len(s) : s[i] = n) \/ c = n
    BY <1>2, <1>3
  <2> QED
    BY <2>1 DEF Listed
<1>6. \A i, j \in 1..Len(u) : u[i] = u[j] => i = j
  BY <1>2, <1>3, <1>4 DEF Listed
<1> QED
  BY <1>2, <1>5, <1>6 DEF Listed, u

\* What findMdls has when it has come to the nodes N, and to L on the level at hand.
MdlFinds == [level : Seq(Nodes), mws : Seq(Nat)]

Reached(found, L, N) ==
  found \in MdlFinds /\ Listed(found.level, L) /\ Collected(found.mws, N)

LEMMA EnterType ==
  ASSUME tree \in Trees, Slices(calls), NEW found \in MdlFinds, NEW c
  PROVE  Enter(found, c) \in MdlFinds
<1>1. c \in DOMAIN tree => c \in Nodes
  BY DEF Trees
<1>2. c \in DOMAIN tree => Append(found.level, c) \in Seq(Nodes)
  BY <1>1, AppendProperties DEF MdlFinds
<1>3. MwsAt(c) \in Seq(Nat)
  BY SliceOf
<1>4. found.mws \o MwsAt(c) \in Seq(Nat)
  BY <1>3, ConcatProperties DEF MdlFinds
<1> QED
  BY <1>2, <1>4 DEF Enter, MdlFinds

LEMMA EnterInv ==
  ASSUME tree \in Trees, Slices(calls), NEW found, NEW L, NEW N, Reached(found, L, N),
         NEW c \in Nodes, c \notin L, c \notin N, \A n \in N : ~Sooner(c, n)
  PROVE  /\ c \in DOMAIN tree => Reached(Enter(found, c), L \union {c}, N \union {c})
         /\ c \notin DOMAIN tree => Enter(found, c) = found
<1>1. CASE c \notin DOMAIN tree
  BY <1>1 DEF Enter
<1>2. CASE c \in DOMAIN tree
  <2>1. Enter(found, c) = [level |-> Append(found.level, c), mws |-> found.mws \o MwsAt(c)]
    BY <1>2 DEF Enter
  <2>2. Enter(found, c).level = Append(found.level, c) /\ Enter(found, c).mws = found.mws \o MwsAt(c)
    BY <2>1
  <2>3. Enter(found, c) \in MdlFinds
    BY EnterType DEF Reached
  <2>4. Listed(Append(found.level, c), L \union {c})
    BY ListedMore DEF Reached
  <2>5. Collected(found.mws \o MwsAt(c), N \union {c})
    BY CollectedMore DEF Reached
  <2> QED
    BY <1>2, <2>2, <2>3, <2>4, <2>5 DEF Reached
<1> QED
  BY <1>1, <1>2

\* The children of a node that match a word.
Kids(n, word) == {Append(n, e) : e \in {e \in Words \union Wild : Fits(n, e, word)}}

\* They are a wildcard child, if findMdls takes it, and the child for the word.
LEMMA KidsFound ==
  ASSUME WellGrown(tree), NEW n \in Nodes, NEW word \in Words
  PROVE  Kids(n, word) =
           {c \in {Append(n, WildEdge(n))} : c \in DOMAIN tree /\ ~(WildEdge(n) = "reg" /\ ~Matches(n, word))}
             \union {c \in {Append(n, word)} : c \in DOMAIN tree}
<1>1. word \notin Wild /\ Wild = {"star", "param", "reg"}
  BY WordsAreNotWild DEF Wild
<1>2. \A e, f \in Wild : Has(tree, n, e) /\ Has(tree, n, f) => e = f
  BY DEF WellGrown
<1>3. Fits(n, word, word) <=> Append(n, word) \in DOMAIN tree
  BY <1>1 DEF Fits, Has
<1>4. \A e \in Words \union Wild : Fits(n, e, word) => e = word \/ e \in Wild
  BY <1>1 DEF Fits
<1>5. WildEdge(n) \in Wild
  BY <1>1 DEF WildEdge
<1>6. \A e \in Wild : Has(tree, n, e) => e = WildEdge(n)
  BY <1>1, <1>2 DEF WildEdge
<1>7. \A e \in Wild : Fits(n, e, word) <=>
        e = WildEdge(n) /\ Append(n, e) \in DOMAIN tree /\ ~(WildEdge(n) = "reg" /\ ~Matches(n, word))
  <2> TAKE e \in Wild
  <2>1. CASE e = "reg"
    BY <1>1, <1>6, <2>1 DEF Fits, Matches, Has
  <2>2. CASE e # "reg"
    BY <1>1, <1>6, <2>2 DEF Fits, Has
  <2> QED
    BY <2>1, <2>2
<1>8. ASSUME NEW c \in Kids(n, word)
      PROVE  \/ c = Append(n, WildEdge(n)) /\ c \in DOMAIN tree /\ ~(WildEdge(n) = "reg" /\ ~Matches(n, word))
             \/ c = Append(n, word) /\ c \in DOMAIN tree
  <2>1. PICK e \in Words \union Wild : Fits(n, e, word) /\ c = Append(n, e)
    BY DEF Kids
  <2> QED
    BY <1>3, <1>4, <1>7, <2>1
<1>9. /\ Append(n, word) \in DOMAIN tree => Append(n, word) \in Kids(n, word)
      /\ Append(n, WildEdge(n)) \in DOMAIN tree /\ ~(WildEdge(n) = "reg" /\ ~Matches(n, word))
           => Append(n, WildEdge(n)) \in Kids(n, word)
  BY <1>3, <1>5, <1>7 DEF Kids
<1> QED
  BY <1>8, <1>9


\* A child that a request may ask for.
LEMMA ChildOfNode ==
  ASSUME NEW n \in Nodes, NEW e \in Words \union Wild
  PROVE  /\ Append(n, e) # Root /\ Len(n) \in Nat /\ Len(Append(n, e)) = Len(n) + 1
         /\ Last(Append(n, e)) = e /\ Front(Append(n, e)) = n
         /\ \A i \in 1..Len(n) : Append(n, e)[i] = n[i]
         /\ Append(n, e)[Len(n) + 1] = e
         /\ \A i \in 0..Len(n) : SubSeq(Append(n, e), 1, i) = SubSeq(n, 1, i)
         /\ SubSeq(n, 1, Len(n)) = n
<1> DEFINE S == Edges \union Words \union Wild
<1>1. n \in Seq(S) /\ e \in S
  BY SeqMonotonic DEF Nodes
<1> HIDE DEF S
<1> QED
  BY <1>1, Child DEF Root

\* Visiting a node.
LEMMA VisitType ==
  ASSUME tree \in Trees, Slices(calls), NEW f \in MdlFinds, NEW n, NEW word
  PROVE  Visit(f, n, word) \in MdlFinds
BY EnterType DEF Visit

\* A node of the level at hand is visited, none of whose children has been reached.
LEMMA VisitInv ==
  ASSUME tree \in Trees, WellGrown(tree), Slices(calls), NEW f, NEW L, NEW N, Reached(f, L, N),
         L \subseteq N, N \subseteq Nodes, NEW n \in Nodes, NEW word \in Words,
         \A m \in N : Len(m) <= Len(n) \/ (Len(m) = Len(n) + 1 /\ Front(m) # n)
  PROVE  Reached(Visit(f, n, word), L \union Kids(n, word), N \union Kids(n, word))
<1> DEFINE c1 == Append(n, WildEdge(n))
           c2 == Append(n, word)
           skipped == WildEdge(n) = "reg" /\ ~Matches(n, word)
           K1 == {c \in {c1} : c \in DOMAIN tree /\ ~skipped}
           K2 == {c \in {c2} : c \in DOMAIN tree}
           g == IF skipped THEN f ELSE Enter(f, c1)
<1>1. WildEdge(n) \in Wild /\ word \notin Wild
  BY WordsAreNotWild DEF WildEdge, Wild
<1>2. /\ Len(n) \in Nat /\ \A m \in N : Len(m) \in Nat
      /\ Len(c1) = Len(n) + 1 /\ Last(c1) = WildEdge(n) /\ Front(c1) = n
      /\ Len(c2) = Len(n) + 1 /\ Last(c2) = word /\ Front(c2) = n
  BY <1>1, ChildOfNode, LenProperties DEF Nodes
<1>3. Kids(n, word) = K1 \union K2
  BY KidsFound
<1>4. Visit(f, n, word) = Enter(g, c2)
  BY DEF Visit
<1>5. \A c \in DOMAIN tree : c \in Nodes
  BY DEF Trees
<1>6. c1 # c2
  BY <1>1, <1>2
<1> HIDE DEF c1, c2, skipped
<1>7. c1 \notin N /\ c2 \notin N /\ \A m \in N : ~Sooner(c1, m) /\ ~Sooner(c2, m)
  <2>1. ASSUME NEW m \in N, m # Root PROVE Len(m) = Len(Front(m)) + 1
    BY <2>1, ParentAndEdge, Child DEF Nodes
  <2>2. \A m \in N : m # Root => Front(m) # n
    BY <1>2, <2>1
  <2> QED
    BY <1>2, <2>2 DEF Sooner
<1>8. Reached(g, L \union K1, N \union K1)
  <2>1. CASE c1 \in DOMAIN tree /\ ~skipped
    <3>1. K1 = {c1} /\ g = Enter(f, c1)
      BY <2>1
    <3> QED
      BY <1>5, <1>7, <2>1, <3>1, EnterInv
  <2>2. CASE ~(c1 \in DOMAIN tree /\ ~skipped)
    <3>1. K1 = {} /\ g = f
      BY <2>2 DEF Enter
    <3>2. L \union K1 = L /\ N \union K1 = N
      BY <3>1
    <3> QED
      BY <3>1, <3>2
  <2> QED
    BY <2>1, <2>2
<1>9. c2 \notin N \union K1 /\ \A m \in N \union K1 : ~Sooner(c2, m)
  <2>1. ~Sooner(c2, c1)
    BY <1>1, <1>2 DEF Sooner
  <2> QED
    BY <1>6, <1>7, <2>1
<1> HIDE DEF g, K1
<1>10. Reached(Enter(g, c2), (L \union K1) \union K2, (N \union K1) \union K2)
  <2>1. CASE c2 \in DOMAIN tree
    <3>1. K2 = {c2}
      BY <2>1
    <3>2. c2 \notin L \union K1
      BY <1>9
    <3> QED
      BY <1>5, <1>8, <1>9, <2>1, <3>1, <3>2, EnterInv
  <2>2. CASE c2 \notin DOMAIN tree
    <3>1. K2 = {} /\ Enter(g, c2) = g
      BY <2>2 DEF Enter
    <3>2. (L \union K1) \union K2 = L \union K1 /\ (N \union K1) \union K2 = N \union K1
      BY <3>1
    <3> QED
      BY <1>8, <3>1, <3>2
  <2> QED
    BY <2>1, <2>2
<1>11. /\ (L \union K1) \union K2 = L \union (K1 \union K2)
       /\ (N \union K1) \union K2 = N \union (K1 \union K2)
  OBVIOUS
<1> QED
  BY <1>3, <1>4, <1>10, <1>11

-----------------------------------------------------------------------------
(* The levels of findMdls *)

AtLevel(request, i) == {n \in DOMAIN tree : Len(n) = i /\ Covers(n, request)}

UpToLevel(request, i) == {n \in DOMAIN tree : Len(n) <= i /\ Covers(n, request)}

\* The nodes of a level are the children of those of the level above.
LEMMA LevelBelow ==
  ASSUME tree \in Trees, WellGrown(tree), NEW request \in Seq(Words), NEW i \in 1..Len(request)
  PROVE  /\ AtLevel(request, i) = UNION {Kids(n, request[i]) : n \in AtLevel(request, i - 1)}
         /\ UpToLevel(request, i) = UpToLevel(request, i - 1) \union AtLevel(request, i)
<1>1. Len(request) \in Nat /\ i \in Nat /\ i - 1 \in Nat /\ (i - 1) + 1 = i
  BY LenProperties
<1>2. \A n \in DOMAIN tree : n \in Nodes /\ Len(n) \in Nat /\ DOMAIN n = 1..Len(n)
  BY LenProperties DEF Trees, Nodes
<1>3. ASSUME NEW c \in AtLevel(request, i)
      PROVE  \E n \in AtLevel(request, i - 1) : c \in Kids(n, request[i])
  <2> DEFINE n == SubSeq(c, 1, i - 1)
  <2>1. c \in DOMAIN tree /\ c \in Nodes /\ Len(c) = i /\ Covers(c, request) /\ DOMAIN c = 1..i
    BY <1>2 DEF AtLevel
  <2>2. i \in 1..Len(c) /\ i - 1 \in 0..Len(c)
    BY <1>1, <2>1
  <2>3. n \in DOMAIN tree
    BY <2>1, <2>2 DEF WellGrown
  <2>4. Len(n) = i - 1 /\ n \in Nodes /\ \A j \in 1..(i - 1) : n[j] = c[j]
    BY <2>1, <2>2, Beginning DEF Nodes
  <2>5. \A j \in 1..(i - 1) : SubSeq(n, 1, j - 1) = SubSeq(c, 1, j - 1)
    <3> TAKE j \in 1..(i - 1)
    <3>1. j - 1 \in 0..Len(n) /\ j - 1 <= Len(c) /\ \A k \in 1..(j - 1) : k \in 1..(i - 1)
      BY <1>1, <2>1, <2>4
    <3> HIDE DEF n
    <3>2. \A k \in 1..(j - 1) : n[k] = c[k]
      BY <2>4, <3>1
    <3> QED
      BY <2>1, <2>4, <3>1, <3>2, SameBeginning DEF Nodes
  <2>6. c = Append(n, c[i]) /\ Fits(n, c[i], request[i])
    <3>1. c = SubSeq(c, 1, i)
      BY <2>1, SubSeqFull DEF Nodes
    <3>2. SubSeq(c, 1, i) = Append(n, c[i])
      BY <2>1, <2>2, NextBeginning DEF Nodes
    <3>3. Fits(SubSeq(c, 1, i - 1), c[i], request[i])
      BY <2>1, <2>2 DEF Covers
    <3> QED
      BY <3>1, <3>2, <3>3
  <2> HIDE DEF n
  <2>7. Covers(n, request)
    <3>1. \A j \in 1..(i - 1) : j \in 1..i /\ Fits(SubSeq(c, 1, j - 1), c[j], request[j])
      BY <1>1, <2>1 DEF Covers
    <3>2. DOMAIN n = 1..(i - 1) /\ Len(n) <= Len(request)
      BY <1>1, <1>2, <2>3, <2>4
    <3> QED
      BY <2>4, <2>5, <3>1, <3>2 DEF Covers
  <2>8. request[i] \in Words /\ c[i] \in Words \union Wild
    <3>1. request[i] \in Words
      BY ElementOfSeq
    <3> QED
      BY <2>6, <3>1 DEF Fits, Wild
  <2>9. n \in AtLevel(request, i - 1) /\ c \in Kids(n, request[i])
    BY <2>3, <2>4, <2>6, <2>7, <2>8 DEF AtLevel, Kids
  <2> QED
    BY <2>9
<1>4. ASSUME NEW n \in AtLevel(request, i - 1), NEW c \in Kids(n, request[i])
      PROVE  c \in AtLevel(request, i)
  <2>1. PICK e \in Words \union Wild : Fits(n, e, request[i]) /\ c = Append(n, e)
    BY DEF Kids
  <2>2. n \in DOMAIN tree /\ n \in Nodes /\ Len(n) = i - 1 /\ Covers(n, request) /\ DOMAIN n = 1..(i - 1)
    BY <1>2 DEF AtLevel
  <2>3. c \in DOMAIN tree
    BY <2>1 DEF Fits, Has
  <2>4. /\ Len(c) = i /\ c[i] = e
        /\ \A j \in 1..(i - 1) : c[j] = n[j]
        /\ \A j \in 0..(i - 1) : SubSeq(c, 1, j) = SubSeq(n, 1, j)
        /\ SubSeq(n, 1, i - 1) = n
    BY <1>1, <2>1, <2>2, ChildOfNode
  <2>5. DOMAIN c = 1..i
    BY <1>2, <2>3, <2>4
  <2>6. ASSUME NEW j \in 1..i PROVE Fits(SubSeq(c, 1, j - 1), c[j], request[j])
    <3>1. CASE j = i
      <4>1. SubSeq(c, 1, i - 1) = n
        BY <1>1, <2>4
      <4> QED
        BY <2>1, <2>4, <3>1, <4>1
    <3>2. CASE j # i
      <4>1. j \in 1..(i - 1) /\ j - 1 \in 0..(i - 1)
        BY <1>1, <3>2
      <4>2. Fits(SubSeq(n, 1, j - 1), n[j], request[j])
        BY <2>2, <4>1 DEF Covers
      <4> QED
        BY <2>4, <4>1, <4>2
    <3> QED
      BY <3>1, <3>2
  <2>7. Covers(c, request)
    BY <1>1, <2>4, <2>5, <2>6 DEF Covers
  <2> QED
    BY <2>3, <2>4, <2>7 DEF AtLevel
<1>5. AtLevel(request, i) = UNION {Kids(n, request[i]) : n \in AtLevel(request, i - 1)}
  <2> HIDE DEF AtLevel
  <2> QED
    BY <1>3, <1>4
<1>6. UpToLevel(request, i) = UpToLevel(request, i - 1) \union AtLevel(request, i)
  <2>1. \A n \in DOMAIN tree : Len(n) <= i <=> Len(n) <= i - 1 \/ Len(n) = i
    BY <1>1, <1>2
  <2> QED
    BY <2>1 DEF UpToLevel, AtLevel
<1> QED
  BY <1>5, <1>6

\* The loop of NextLevel over the nodes of a level.
Visits(level, word, start) ==
  CHOOSE f : f = [j \in 0..Len(level) |-> IF j = 0 THEN start ELSE Visit(f[j - 1], level[j], word)]

\* It runs: its rounds follow each other.
LEMMA VisitRuns ==
  ASSUME tree \in Trees, Slices(calls), NEW level \in Seq(Nodes), NEW word, NEW start \in MdlFinds
  PROVE  /\ Visits(level, word, start)[0] = start
         /\ \A j \in 1..Len(level) :
              Visits(level, word, start)[j] = Visit(Visits(level, word, start)[j - 1], level[j], word)
<1> DEFINE visit == Visits(level, word, start)
           Loop(f) == f = [j \in 0..Len(level) |-> IF j = 0 THEN start ELSE Visit(f[j - 1], level[j], word)]
           G == [j \in Nat |-> [f \in MdlFinds |-> Visit(f, level[j], word)]]
<1>1. Len(level) \in Nat
  BY LenProperties
<1>2. PICK f \in [0..Len(level) -> MdlFinds] : f[0] = start /\ \A j \in 1..Len(level) : f[j] = G[j][f[j - 1]]
  <2>1. \A j \in Nat : \A f \in MdlFinds : G[j][f] \in MdlFinds
    BY VisitType
  <2>2. Rounds(G, MdlFinds)
    BY <2>1 DEF Rounds
  <2> HIDE DEF G
  <2>3. HasLoop(MdlFinds, start, G, Len(level))
    BY <1>1, <2>2, LoopExists
  <2> QED
    BY <2>3 DEF HasLoop
<1>3. Loop(f)
  <2>1. \A j \in 0..Len(level) : j # 0 => j \in 1..Len(level) /\ j \in Nat /\ f[j - 1] \in MdlFinds
    BY <1>1, <1>2
  <2>2. \A j \in 0..Len(level) : j # 0 => f[j] = Visit(f[j - 1], level[j], word)
    BY <1>2, <2>1
  <2> QED
    BY <1>2, <2>2
<1>4. Loop(visit)
  <2>1. visit = CHOOSE x : Loop(x)
    BY DEF Visits
  <2> HIDE DEF Loop, visit
  <2> QED
    BY <1>3, <2>1
<1> HIDE DEF G, visit
<1>5. \A j \in 0..Len(level) : visit[j] = IF j = 0 THEN start ELSE Visit(visit[j - 1], level[j], word)
  BY <1>4
<1>6. 0 \in 0..Len(level) /\ \A j \in 1..Len(level) : j \in 0..Len(level) /\ j # 0
  BY <1>1
<1> QED
  BY <1>5, <1>6 DEF visit

LEMMA NextLevelType ==
  ASSUME tree \in Trees, Slices(calls), NEW found \in MdlFinds, NEW word
  PROVE  NextLevel(found, word) \in MdlFinds
<1> DEFINE level == found.level
           start == [level |-> << >>, mws |-> found.mws]
           visit == Visits(level, word, start)
<1>1. level \in Seq(Nodes) /\ Len(level) \in Nat /\ start \in MdlFinds
  <2>1. << >> \in Seq(Nodes)
    BY EmptySeq
  <2> QED
    BY <2>1, LenProperties DEF MdlFinds
<1>2. NextLevel(found, word) = visit[Len(level)]
  BY DEF NextLevel, Visits
<1> HIDE DEF level, start
<1>3. /\ visit[0] = start
      /\ \A j \in 1..Len(level) : visit[j] = Visit(visit[j - 1], level[j], word)
  BY <1>1, VisitRuns
<1> HIDE DEF visit
<1> DEFINE T == {j \in 0..Len(level) : visit[j] \in MdlFinds}
<1>4. 0 \in T
  BY <1>1, <1>3
<1>5. ASSUME NEW j \in 1..Len(level), j - 1 \in T PROVE j \in T
  <2>1. j \in 0..Len(level) /\ visit[j - 1] \in MdlFinds
    BY <1>1, <1>5
  <2> QED
    BY <1>3, <2>1, VisitType
<1> HIDE DEF T
<1>6. \A j \in 0..Len(level) : j \in T
  BY <1>1, <1>4, <1>5, BoundedInduction
<1>7. Len(level) \in T
  BY <1>1, <1>6
<1> QED
  BY <1>2, <1>7 DEF T

\* A level is left with all that its nodes have for children.
LEMMA NextLevelInv ==
  ASSUME tree \in Trees, WellGrown(tree), Slices(calls), NEW request \in Seq(Words), NEW i \in 1..Len(request),
         NEW found, Reached(found, AtLevel(request, i - 1), UpToLevel(request, i - 1))
  PROVE  Reached(NextLevel(found, request[i]), AtLevel(request, i), UpToLevel(request, i))
<1> DEFINE word == request[i]
           level == found.level
           above == UpToLevel(request, i - 1)
           kids(j) == UNION {Kids(level[k], word) : k \in 1..j}
           start == [level |-> << >>, mws |-> found.mws]
           visit == Visits(level, word, start)
<1>1. /\ found \in MdlFinds /\ level \in Seq(Nodes) /\ Len(level) \in Nat
      /\ Listed(level, AtLevel(request, i - 1)) /\ Collected(found.mws, above)
  BY LenProperties DEF Reached, MdlFinds
<1>2. NextLevel(found, word) = visit[Len(level)]
  BY DEF NextLevel, Visits
<1>3. start \in MdlFinds
  <2>1. << >> \in Seq(Nodes)
    BY EmptySeq
  <2> QED
    BY <1>1, <2>1 DEF MdlFinds
<1>4. /\ start.level = << >> /\ start.mws = found.mws /\ word \in Words
      /\ i - 1 \in Nat /\ (i - 1) + 1 = i
  BY ElementOfSeq, LenProperties
<1>5. \A n \in DOMAIN tree : n \in Nodes /\ Len(n) \in Nat
  BY LenProperties DEF Trees, Nodes
<1> HIDE DEF start, word, level
<1>6. /\ visit[0] = start
      /\ \A j \in 1..Len(level) : visit[j] = Visit(visit[j - 1], level[j], word)
  BY <1>1, <1>3, VisitRuns
<1> HIDE DEF visit
<1>7. \A j \in 1..Len(level) : level[j] \in AtLevel(request, i - 1) /\ level[j] \in Nodes /\ Len(level[j]) = i - 1
  <2>1. \A j \in 1..Len(level) : level[j] \in AtLevel(request, i - 1)
    BY <1>1 DEF Listed
  <2> QED
    BY <1>5, <2>1 DEF AtLevel
<1>8. \A j \in 1..Len(level) : \A c \in Kids(level[j], word) :
        c \in Nodes /\ Len(c) = Len(level[j]) + 1 /\ Front(c) = level[j]
  <2> TAKE j \in 1..Len(level)
  <2> TAKE c \in Kids(level[j], word)
  <2>1. PICK e \in Words \union Wild : Fits(level[j], e, word) /\ c = Append(level[j], e)
    BY DEF Kids
  <2>2. c \in Nodes
    BY <1>5, <2>1 DEF Fits, Has
  <2> QED
    BY <1>7, <2>1, <2>2, ChildOfNode
<1>9. \A n \in above : n \in Nodes /\ Len(n) <= i - 1
  BY <1>5 DEF UpToLevel
<1> HIDE DEF above
<1> DEFINE T == {j \in 0..Len(level) : Reached(visit[j], kids(j), above \union kids(j))}
<1>10. 0 \in T
  <2>1. kids(0) = {}
    OBVIOUS
  <2> HIDE DEF kids
  <2>2. above \union kids(0) = above
    BY <2>1
  <2>3. Listed(<< >>, {})
    BY EmptySeq DEF Listed
  <2>4. Reached(start, kids(0), above \union kids(0))
    BY <1>1, <1>3, <1>4, <2>1, <2>2, <2>3 DEF Reached
  <2> QED
    BY <1>1, <1>6, <2>4
<1>11. ASSUME NEW j \in 1..Len(level), j - 1 \in T PROVE j \in T
  <2>1. j \in 0..Len(level) /\ \A k \in 1..(j - 1) : k \in 1..Len(level) /\ k # j
    BY <1>1
  <2>2. Reached(visit[j - 1], kids(j - 1), above \union kids(j - 1))
    BY <1>11
  <2>3. kids(j) = kids(j - 1) \union Kids(level[j], word)
    <3>1. 1..j = (1..(j - 1)) \union {j}
      BY <1>1
    <3> QED
      BY <3>1
  <2>4. ASSUME NEW m \in kids(j - 1)
        PROVE  m \in Nodes /\ Len(m) = Len(level[j]) + 1 /\ Front(m) # level[j]
    <3>1. PICK k \in 1..(j - 1) : m \in Kids(level[k], word)
      OBVIOUS
    <3>2. k \in 1..Len(level) /\ k # j
      BY <2>1
    <3>3. level[k] # level[j]
      BY <1>1, <3>2 DEF Listed
    <3>4. m \in Nodes /\ Len(m) = Len(level[k]) + 1 /\ Front(m) = level[k]
      BY <1>8, <3>1, <3>2
    <3> QED
      BY <1>7, <3>2, <3>3, <3>4
  <2> HIDE DEF kids
  <2>5. /\ above \union kids(j - 1) \subseteq Nodes
        /\ \A m \in above \union kids(j - 1) :
             Len(m) <= Len(level[j]) \/ (Len(m) = Len(level[j]) + 1 /\ Front(m) # level[j])
    BY <1>7, <1>9, <2>4
  <2> DEFINE L == kids(j - 1)
             N == above \union kids(j - 1)
  <2>6. L \subseteq N /\ level[j] \in Nodes
    BY <1>7
  <2> HIDE DEF L, N
  <2>7. Reached(Visit(visit[j - 1], level[j], word), L \union Kids(level[j], word), N \union Kids(level[j], word))
    BY <1>4, <2>2, <2>5, <2>6, VisitInv DEF L, N
  <2>8. L \union Kids(level[j], word) = kids(j) /\ N \union Kids(level[j], word) = above \union kids(j)
    BY <2>3 DEF L, N
  <2> QED
    BY <1>6, <2>1, <2>7, <2>8
<1>12. kids(Len(level)) = AtLevel(request, i)
  <2>1. AtLevel(request, i) = UNION {Kids(n, word) : n \in AtLevel(request, i - 1)}
    BY LevelBelow DEF word
  <2>2. \A n : (\E j \in 1..Len(level) : level[j] = n) <=> n \in AtLevel(request, i - 1)
    BY <1>1 DEF Listed
  <2> HIDE DEF AtLevel
  <2> QED
    BY <2>1, <2>2
<1>13. above \union kids(Len(level)) = UpToLevel(request, i)
  <2> HIDE DEF kids
  <2> QED
    BY <1>12, LevelBelow DEF above
<1> HIDE DEF T, kids
<1>14. \A j \in 0..Len(level) : j \in T
  BY <1>1, <1>10, <1>11, BoundedInduction
<1>15. Len(level) \in T
  BY <1>1, <1>14
<1>16. Reached(visit[Len(level)], kids(Len(level)), above \union kids(Len(level)))
  BY <1>15 DEF T
<1> QED
  BY <1>2, <1>12, <1>13, <1>16 DEF word

\* The loop of findMdls runs: its rounds follow each other.
LEMMA LevelRuns ==
  ASSUME tree \in Trees, Slices(calls), NEW request \in Seq(Words), NEW start \in MdlFinds, NEW found,
         found = CHOOSE f : f = [i \in 0..Len(request) |-> IF i = 0 THEN start ELSE NextLevel(f[i - 1], request[i])]
  PROVE  /\ found[0] = start
         /\ \A i \in 1..Len(request) : found[i] = NextLevel(found[i - 1], request[i])
<1> DEFINE Loop(f) == f = [i \in 0..Len(request) |-> IF i = 0 THEN start ELSE NextLevel(f[i - 1], request[i])]
           G == [i \in Nat |-> [f \in MdlFinds |-> NextLevel(f, request[i])]]
<1>1. Len(request) \in Nat
  BY LenProperties
<1>2. PICK f \in [0..Len(request) -> MdlFinds] : f[0] = start /\ \A i \in 1..Len(request) : f[i] = G[i][f[i - 1]]
  <2>1. \A i \in Nat : \A f \in MdlFinds : G[i][f] \in MdlFinds
    BY NextLevelType
  <2>2. Rounds(G, MdlFinds)
    BY <2>1 DEF Rounds
  <2> HIDE DEF G
  <2>3. HasLoop(MdlFinds, start, G, Len(request))
    BY <1>1, <2>2, LoopExists
  <2> QED
    BY <2>3 DEF HasLoop
<1>3. Loop(f)
  <2>1. \A i \in 0..Len(request) : i # 0 => i \in 1..Len(request) /\ i \in Nat /\ f[i - 1] \in MdlFinds
    BY <1>1, <1>2
  <2>2. \A i \in 0..Len(request) : i # 0 => f[i] = NextLevel(f[i - 1], request[i])
    BY <1>2, <2>1
  <2> QED
    BY <1>2, <2>2
<1>4. Loop(found)
  <2>1. found = CHOOSE x : Loop(x)
    OBVIOUS
  <2> HIDE DEF Loop
  <2> QED
    BY <1>3, <2>1
<1> HIDE DEF G
<1>5. \A i \in 0..Len(request) : found[i] = IF i = 0 THEN start ELSE NextLevel(found[i - 1], request[i])
  BY <1>4
<1>6. 0 \in 0..Len(request) /\ \A i \in 1..Len(request) : i \in 0..Len(request) /\ i # 0
  BY <1>1
<1> QED
  BY <1>5, <1>6

\* What findMdls collects from the root.
LEMMA MdlsCollected ==
  ASSUME tree \in Trees, WellGrown(tree), Slices(calls), tree # << >>, NEW request \in Seq(Words)
  PROVE  Collected(FindMdls(Root, request), {n \in DOMAIN tree : Covers(n, request)})
<1> DEFINE start == [level |-> <<Root>>, mws |-> MwsAt(Root)]
           found == CHOOSE f : f = [i \in 0..Len(request) |-> IF i = 0 THEN start ELSE NextLevel(f[i - 1], request[i])]
<1>1. Len(request) \in Nat
  BY LenProperties
<1>2. Root \in DOMAIN tree /\ Root \in Nodes /\ Len(Root) = 0 /\ DOMAIN Root = {}
  BY RootExists, EmptySeq DEF Root, Nodes
<1>3. start.level = <<Root>> /\ start.mws = MwsAt(Root)
  OBVIOUS
<1>4. FindMdls(Root, request) = found[Len(request)].mws
  BY DEF FindMdls
<1>5. AtLevel(request, 0) = {Root} /\ UpToLevel(request, 0) = {Root}
  <2>1. \A n \in DOMAIN tree : Len(n) \in Nat /\ (Len(n) = 0 => n = Root)
    BY EmptySeq, LenProperties DEF Trees, Nodes, Root
  <2>2. Covers(Root, request)
    BY <1>1, <1>2 DEF Covers
  <2>3. \A n \in DOMAIN tree : Len(n) <= 0 <=> n = Root
    BY <1>2, <2>1
  <2>4. \A n \in DOMAIN tree : Len(n) = 0 <=> n = Root
    BY <1>2, <2>1
  <2> QED
    BY <1>2, <2>2, <2>3, <2>4 DEF AtLevel, UpToLevel
<1>6. start \in MdlFinds
  <2>1. <<Root>> \in Seq(Nodes)
    BY <1>2
  <2> QED
    BY <2>1, SliceOf DEF MdlFinds
<1>7. Listed(<<Root>>, {Root})
  BY <1>2 DEF Listed
<1>8. Collected(MwsAt(Root), {Root})
  <2> DEFINE s == MwsAt(Root)
  <2>1. /\ s \in Seq(Nat) /\ Len(s) \in Nat /\ \A j \in 1..Len(s) : s[j] \in Nat
        /\ \A j, k \in 1..Len(s) : j < k => s[j] < s[k]
        /\ \A x : (\E j \in 1..Len(s) : s[j] = x) <=> Uses(Root, x)
    BY SliceOf DEF Uses
  <2>2. \A j, k \in 1..Len(s) : (s[j] = s[k] => j = k) /\ (s[j] < s[k] => j < k)
    <3> HIDE DEF s
    <3> TAKE j \in 1..Len(s), k \in 1..Len(s)
    <3>1. s[j] \in Nat /\ s[k] \in Nat /\ (j < k => s[j] < s[k]) /\ (k < j => s[k] < s[j])
      BY <2>1
    <3>2. j < k \/ k < j \/ j = k
      BY <2>1
    <3> QED
      BY <3>1, <3>2
  <2>3. ~Sooner(Root, Root)
    BY <1>2, NotSooner
  <2> HIDE DEF s
  <2> QED
    BY <2>1, <2>2, <2>3 DEF Collected, s
<1>9. Reached(start, AtLevel(request, 0), UpToLevel(request, 0))
  <2> HIDE DEF start
  <2> QED
    BY <1>3, <1>5, <1>6, <1>7, <1>8 DEF Reached
<1> HIDE DEF start
<1>10. /\ found[0] = start
       /\ \A i \in 1..Len(request) : found[i] = NextLevel(found[i - 1], request[i])
  BY <1>6, LevelRuns
<1> HIDE DEF found
<1> DEFINE T == {i \in 0..Len(request) : Reached(found[i], AtLevel(request, i), UpToLevel(request, i))}
<1>11. 0 \in T
  BY <1>1, <1>9, <1>10
<1>12. ASSUME NEW i \in 1..Len(request), i - 1 \in T PROVE i \in T
  <2>1. i \in 0..Len(request) /\ Reached(found[i - 1], AtLevel(request, i - 1), UpToLevel(request, i - 1))
    BY <1>1, <1>12
  <2>2. Reached(NextLevel(found[i - 1], request[i]), AtLevel(request, i), UpToLevel(request, i))
    BY <2>1, NextLevelInv
  <2> QED
    BY <1>10, <2>1, <2>2
<1> HIDE DEF T
<1>13. \A i \in 0..Len(request) : i \in T
  BY <1>1, <1>11, <1>12, BoundedInduction
<1>14. Len(request) \in T
  BY <1>1, <1>13
<1>15. Collected(found[Len(request)].mws, UpToLevel(request, Len(request)))
  BY <1>14 DEF T, Reached
<1>16. UpToLevel(request, Len(request)) = {n \in DOMAIN tree : Covers(n, request)}
  BY DEF UpToLevel, Covers
<1> QED
  BY <1>4, <1>15, <1>16

\* homework2/README.md items 1 and 2, with findMdls in lines 115-165 of
\* homework2/route.go: whatever has been registered, a request that a node is found
\* for gets the middlewares of every node that matches the beginning of its path,
\* each once, those of shorter paths first, a wildcard's before a word's at the same
\* node, and those of one node in the order of registration.
THEOREM MiddlewaresFound ==
  Spec => []MiddlewaresOfPath
<1>1. ASSUME IInv PROVE MiddlewaresOfPath
  <2> SUFFICES ASSUME NEW request \in Requests, FindRoute(request).state = "going"
               PROVE  LET found == MwsOf(request)
                          due == {n \in DOMAIN mws : Covers(n, request)}
                      IN  /\ ToSet(found) = UNION {ToSet(mws[n]) : n \in due}
                          /\ \A i, j \in DOMAIN found : found[i] = found[j] => i = j
                          /\ \A m, n \in due : \A c \in ToSet(mws[m]), d \in ToSet(mws[n]) :
                               Sooner(m, n) \/ (m = n /\ c < d) => Before(found, c, d)
    BY DEF MiddlewaresOfPath
  <2> DEFINE found == MwsOf(request)
             due == {n \in DOMAIN mws : Covers(n, request)}
             on == {n \in DOMAIN tree : Covers(n, request)}
  <2>1. tree \in Trees /\ WellGrown(tree) /\ Slices(calls) /\ request \in Seq(Words)
    BY <1>1, RequestType DEF IInv
  <2>2. tree # << >>
    BY DEF FindRoute, NotFound
  <2>3. found = FindMdls(Root, request)
    BY DEF MwsOf
  <2> HIDE DEF found
  <2>4. Collected(found, on)
    BY <2>1, <2>2, <2>3, MdlsCollected
  <2>5. DOMAIN found = 1..Len(found) /\ \A i \in 1..Len(found) : found[i] \in Nat
    BY <2>4, LenProperties, ElementOfSeq DEF Collected
  <2>6. \A n \in DOMAIN mws : n \in DOMAIN tree /\ DOMAIN mws[n] = 1..Len(mws[n])
    BY <1>1, LenProperties DEF IInv, Slices
  <2>7. \A n, x : Uses(n, x) <=> n \in DOMAIN mws /\ x \in ToSet(mws[n])
    BY <2>1, <2>6, SliceOf DEF ToSet
  <2>8. \A n \in on : n \in DOMAIN mws => n \in due
    OBVIOUS
  <2>9. \A n \in due : n \in on
    BY <2>6
  <2>10. \A x : x \in ToSet(found) <=> \E n \in on : Uses(n, x)
    BY <2>4, <2>5 DEF Collected, ToSet
  <2>11. ToSet(found) = UNION {ToSet(mws[n]) : n \in due}
    <3>1. \A x : x \in ToSet(found) <=> \E n \in due : x \in ToSet(mws[n])
      BY <2>7, <2>8, <2>9, <2>10
    <3> HIDE DEF due
    <3> QED
      BY <3>1
  <2>12. \A i, j \in DOMAIN found : found[i] = found[j] => i = j
    BY <2>4, <2>5 DEF Collected
  <2>13. ASSUME NEW m \in due, NEW n \in due, NEW c \in ToSet(mws[m]), NEW d \in ToSet(mws[n]),
                Sooner(m, n) \/ (m = n /\ c < d)
         PROVE  Before(found, c, d)
    <3>1. Uses(m, c) /\ Uses(n, d) /\ m \in on /\ n \in on
      BY <2>7, <2>9
    <3>2. (\E i \in 1..Len(found) : found[i] = c) /\ (\E j \in 1..Len(found) : found[j] = d)
      BY <2>4, <3>1 DEF Collected
    <3>3. PICK i \in 1..Len(found), j \in 1..Len(found) : found[i] = c /\ found[j] = d
      BY <3>2
    <3>4. i < j
      BY <2>4, <2>13, <3>1, <3>3 DEF Collected
    <3> QED
      BY <2>5, <3>3, <3>4 DEF Before
  <2> QED
    BY <2>11, <2>12, <2>13 DEF found
<1> QED
  BY <1>1, Invariant, PTL
=============================================================================
