------------------------------- MODULE Router -------------------------------
(***************************************************************************)
(* The route tree of homework1/route.go for one HTTP method: a tree per    *)
(* method, and no two methods share anything.                              *)
(*                                                                         *)
(* A node is named by the edges that lead to it: the word of a static      *)
(* child, or "star", "param" or "reg", of which a node has at most one     *)
(* each.  The root is the empty sequence.  A panic of addRoute may be      *)
(* recovered by the caller: what the call has built stays.                 *)
(* HTTPRouter completes the specification.                                 *)
(***************************************************************************)
EXTENDS Integers, SequencesExt

CONSTANTS
  Words,     \* the segments of the paths of requests
  Segments,  \* the segments of the paths that are registered, see below
  Exprs,     \* the regular expressions that compile
  Matching,  \* the words each of them matches
  MaxDepth,  \* bound: segments of a registered path; requests have one more
  MaxCalls   \* bound: calls that register

Wild == {"star", "param", "reg"}
NoName == ""
NoHandler == 0
Root == << >>

\* A registered segment: "user", "*", ":name" or ":name(expr)".  The empty
\* segment of "//" has the edge "".
ASSUME RouterAssumption ==
  /\ Words \intersect (Wild \union {"", "root"}) = {}
  /\ \A s \in Segments : s.edge \in Words \union Wild \union {""}
  /\ Matching \in [Exprs -> SUBSET Words]
  /\ MaxDepth \in Nat /\ MaxCalls \in Nat

UpTo(n, S) == UNION {[1..d -> S] : d \in 0..n}
Paths == UpTo(MaxDepth, Segments)
Requests == UpTo(MaxDepth + 1, Words)

VARIABLES
  tree,  \* the nodes, each with what it was created from, and its handler
  calls  \* calls of addRoute so far; a handler is known by the number of its call

-----------------------------------------------------------------------------
(* Registration *)

\* Mutant of NewNode: the name of a parameter is not kept.
NewNodeNameless(s) == [name |-> NoName, expr |-> s.expr, handler |-> NoHandler]

NewNode(s) == [name |-> s.name, expr |-> s.expr, handler |-> NoHandler]

Has(t, n, edge) == Append(n, edge) \in DOMAIN t

\* Mutant of Clashes: a star is not looked for.
ClashesSome(t, n, s) ==
  \/ s.edge = "param" /\ (Has(t, n, "reg") \/ (Has(t, n, "param") /\ t[Append(n, "param")].name # s.name))
  \/ s.edge = "reg" /\ Has(t, n, "param")

\* childOrCreate, childOrCreateParam and childOrCreateReg panic.  The name of a
\* regular-expression segment is compared with that of the parent (line 235).
Clashes(t, n, s) ==
  \/ s.edge = "star" /\ (Has(t, n, "param") \/ Has(t, n, "reg"))
  \/ /\ s.edge = "param"
     /\ \/ Has(t, n, "reg") \/ Has(t, n, "star")
        \/ (Has(t, n, "param") /\ t[Append(n, "param")].name # s.name)
  \/ /\ s.edge = "reg"
     /\ \/ Has(t, n, "star") \/ Has(t, n, "param")
        \/ /\ Has(t, n, "reg")
           /\ (t[Append(n, "reg")].expr # s.expr \/ t[n].name # s.name)

Panics(t, n, s) ==
  \/ s.edge = ""
  \/ s.edge = "reg" /\ ~Has(t, n, "reg") /\ s.expr \notin Exprs
  \/ Clashes(t, n, s)

\* A child that exists is kept as it is.
Grow(t, n, s) ==
  IF n \in DOMAIN t THEN t ELSE [m \in DOMAIN t \union {n} |-> IF m = n THEN NewNode(s) ELSE t[m]]

\* A round of the loop over the segments: w is the tree, the node reached and
\* whether no round has panicked.
Proceed(w, s) ==
  IF ~w.through \/ Panics(w.tree, w.at, s)
  THEN [w EXCEPT !.through = FALSE]
  ELSE [tree |-> Grow(w.tree, Append(w.at, s.edge), s), at |-> Append(w.at, s.edge), through |-> TRUE]

\* The walk of addRoute along a path.  A path that ends with "/" is refused at
\* once.
Walk(path) ==
  LET start == [tree |-> Grow(tree, Root, [edge |-> "root", name |-> NoName, expr |-> ""]),
                at |-> Root, through |-> TRUE]
      walk[i \in 0..Len(path)] == IF i = 0 THEN start ELSE Proceed(walk[i - 1], path[i])
  IN  IF path # << >> /\ Last(path).edge = "" THEN [tree |-> tree, at |-> Root, through |-> FALSE]
      ELSE walk[Len(path)]

\* Mutant of Accepted: a handler is overwritten.
AcceptedAlways(w) == w.through

Accepted(w) == w.through /\ w.tree[w.at].handler = NoHandler

\* addRoute with a handler: the walk it makes is given.
AddRoute(w) ==
  /\ calls < MaxCalls
  /\ calls' = calls + 1
  /\ tree' = IF Accepted(w) THEN [w.tree EXCEPT ![w.at].handler = calls'] ELSE w.tree

-----------------------------------------------------------------------------
(* Lookup *)

Matches(n, word) == Has(tree, n, "reg") /\ word \in Matching[tree[Append(n, "reg")].expr]

\* Mutant of ChildOf: the regular expression comes first.
ChildOfRegFirst(n, word) ==
  Append(n, IF Matches(n, word) THEN "reg"
            ELSE IF Has(tree, n, word) THEN word
            ELSE IF Has(tree, n, "param") THEN "param"
            ELSE "star")

\* childOf and childOfNonStatic; in the last case there may be no such child.
ChildOf(n, word) ==
  Append(n, IF Has(tree, n, word) THEN word
            ELSE IF Matches(n, word) THEN "reg"
            ELSE IF Has(tree, n, "param") THEN "param"
            ELSE "star")

NotFound == [at |-> <<"none">>, params |-> << >>, state |-> "missed"]

\* Mutant of AddValue: the first value of a parameter stays.
AddValueOnce(params, name, word) ==
  [x \in DOMAIN params \union {name} |-> IF x \in DOMAIN params THEN params[x] ELSE word]

AddValue(params, name, word) ==
  [x \in DOMAIN params \union {name} |-> IF x = name THEN word ELSE params[x]]

\* A round of the loop of findRoute.  "rest": a star node has taken the rest of
\* the path.
Descend(f, word) ==
  LET child == ChildOf(f.at, word)
      name == tree[child].name
  IN  IF f.state # "going" THEN f
      ELSE IF child \in DOMAIN tree
        THEN [at |-> child, state |-> "going",
              params |-> IF name = NoName THEN f.params ELSE AddValue(f.params, name, word)]
      ELSE IF f.at # Root /\ Last(f.at) = "star" THEN [f EXCEPT !.state = "rest"]
      ELSE NotFound

FindRoute(request) ==
  LET found[i \in 0..Len(request)] ==
        IF i = 0 THEN [at |-> Root, params |-> << >>, state |-> "going"]
        ELSE Descend(found[i - 1], request[i])
  IN  IF tree = << >> THEN NotFound ELSE found[Len(request)]

-----------------------------------------------------------------------------
(* Properties *)

\* Line 23: a registered route cannot be overwritten, by no later call, failed
\* or not; nor is a node's name or expression changed, or a node removed.
RoutesStay ==
  [][\A n \in DOMAIN tree :
       /\ n \in DOMAIN tree'
       /\ tree'[n] # tree[n] =>
            /\ tree[n].handler = NoHandler
            /\ tree'[n] = [tree[n] EXCEPT !.handler = tree'[n].handler]]_tree

\* Lines 24-26: at one place there is a star, or a parameter, or a regular
\* expression, whatever was registered before and however it ended.
OneWildChild ==
  \A n \in DOMAIN tree : \A e, f \in Wild : Has(tree, n, e) /\ Has(tree, n, f) => e = f

\* A child of a kind that matches a word.
Fits(n, edge, word) ==
  /\ Has(tree, n, edge)
  /\ edge \in {word, "param", "star"} \/ (edge = "reg" /\ word \in Matching[tree[Append(n, "reg")].expr])

Rank(edge) == CASE edge = "reg" -> 2 [] edge = "param" -> 3 [] edge = "star" -> 4 [] OTHER -> 1

Preferred(n, edge, word) ==
  Fits(n, edge, word) /\ \A e \in Words \union Wild : Fits(n, e, word) => Rank(edge) <= Rank(e)

\* Each edge of a node is the preferred one for the request's word.
Greedy(n, request) ==
  \A i \in DOMAIN n : i \in DOMAIN request /\ Preferred(SubSeq(n, 1, i - 1), n[i], request[i])

Chosen(n, request) ==
  /\ Greedy(n, request)
  /\ \/ Len(n) = Len(request)
     \/ /\ n # Root /\ Last(n) = "star"
        /\ \A e \in Words \union Wild : ~Fits(n, e, request[Len(n) + 1])

\* Lines 180-186 of homework2/route.go, line 115 here: static, then regular
\* expression, then parameter, then star, without going back, and a star at the
\* end takes the rest.  findRoute finds the one node that is so described, and
\* fails only when there is none.
LookupByPriority ==
  \A request \in Requests :
    LET f == FindRoute(request)
    IN  IF f.state = "missed" THEN \A n \in DOMAIN tree : ~Chosen(n, request)
        ELSE \A n \in DOMAIN tree : Chosen(n, request) <=> n = f.at

\* Line 27: the last of several parameters of one name wins, and every parameter
\* on the way has a value.
LastValueWins ==
  \A request \in Requests :
    LET f == FindRoute(request)
        named(i) == tree[SubSeq(f.at, 1, i)].name
    IN  f.state # "missed" =>
          /\ DOMAIN f.params = {named(i) : i \in DOMAIN f.at} \ {NoName}
          /\ \A i \in DOMAIN f.at :
               \/ named(i) = NoName
               \/ f.params[named(i)] = request[i]
               \/ \E j \in i + 1 .. Len(f.at) : named(j) = named(i)

=============================================================================
