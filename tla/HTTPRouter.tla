----------------------------- MODULE HTTPRouter -----------------------------
(***************************************************************************)
(* The router of homework2: the tree of Router, whose nodes also have      *)
(* middlewares, and the look-up of those that apply to a request.          *)
(***************************************************************************)
EXTENDS Router

VARIABLE
  mws  \* the slice of each node that has middlewares; one is known by the number of its Use

vars == <<tree, calls, mws>>

TypeOK ==
  /\ calls \in 0..MaxCalls
  /\ DOMAIN tree \subseteq UpTo(MaxDepth, {s.edge : s \in Segments})
  /\ \A n \in DOMAIN tree :
       /\ tree[n].handler \in 0..calls
       /\ n # Root => Front(n) \in DOMAIN tree
            /\ \E s \in Segments : s.edge = Last(n) /\ s.name = tree[n].name /\ s.expr = tree[n].expr
  /\ DOMAIN mws \subseteq DOMAIN tree
  /\ \A n \in DOMAIN mws : mws[n] \in Seq(1..calls)

Init == tree = << >> /\ calls = 0 /\ mws = << >>

\* Get and Post, all there is in homework1.
Handle(path) == AddRoute(Walk(path)) /\ UNCHANGED mws

MwsAt(n) == IF n \in DOMAIN mws THEN mws[n] ELSE << >>

Attach(n) == [m \in DOMAIN mws \union {n} |-> IF m = n THEN Append(MwsAt(n), calls + 1) ELSE mws[m]]

\* addRoute with a middleware and no handler.
Use(path) ==
  LET w == Walk(path)
  IN  /\ calls < MaxCalls
      /\ calls' = calls + 1
      /\ tree' = w.tree
      /\ mws' = IF Accepted(w) THEN Attach(w.at) ELSE mws

Next == \E path \in Paths : Handle(path) \/ Use(path)

Spec == Init /\ [][Next]_vars

-----------------------------------------------------------------------------
(* Requests *)

\* serve: the handler that is called, or NoHandler for the answer 404.
Serve(request) ==
  LET f == FindRoute(request) IN IF f.state = "missed" THEN NoHandler ELSE tree[f.at].handler

\* findMdls comes to a child, if there is one.
Enter(found, child) ==
  IF child \notin DOMAIN tree THEN found
  ELSE [level |-> Append(found.level, child), mws |-> found.mws \o MwsAt(child)]

WildEdge(n) == IF Has(tree, n, "star") THEN "star" ELSE IF Has(tree, n, "reg") THEN "reg" ELSE "param"

\* Mutant of Visit: a regular expression is not tried.
VisitUntried(found, n, word) ==
  Enter(Enter(found, Append(n, WildEdge(n))), Append(n, word))

\* The children of one node that match a word.
Visit(found, n, word) ==
  Enter(IF WildEdge(n) = "reg" /\ ~Matches(n, word) THEN found ELSE Enter(found, Append(n, WildEdge(n))),
        Append(n, word))

\* The nodes of one level, from the left.
NextLevel(found, word) ==
  LET visit[j \in 0..Len(found.level)] ==
        IF j = 0 THEN [level |-> << >>, mws |-> found.mws] ELSE Visit(visit[j - 1], found.level[j], word)
  IN  visit[Len(found.level)]

\* findMdls: level by level, from the node it is given.
FindMdls(n, request) ==
  LET found[i \in 0..Len(request)] ==
        IF i = 0 THEN [level |-> <<n>>, mws |-> MwsAt(n)] ELSE NextLevel(found[i - 1], request[i])
  IN  found[Len(request)].mws

\* What findRoute takes for the middlewares of a request.
MwsOf(request) ==
  LET f == FindRoute(request)
  IN  IF f.state = "missed" THEN << >>
      ELSE FindMdls(IF f.state = "rest" THEN f.at ELSE Root, request)

-----------------------------------------------------------------------------
(* Properties *)

\* homework2/server.go 56-65 and line 23 of route.go: the handler of a route
\* of words only is the one its path reaches, from its registration on and
\* whatever else is registered.
WordsReachTheirHandler ==
  [][\A n \in DOMAIN tree : n \in Requests /\ tree[n].handler # NoHandler =>
       Serve(n)' = tree[n].handler]_vars

\* A node whose path matches the first words of a request.
Covers(n, request) ==
  Len(n) <= Len(request) /\ \A i \in DOMAIN n : Fits(SubSeq(n, 1, i - 1), n[i], request[i])

\* Whose middlewares come first: the node's that is nearer to the root, and of
\* two children of one node the wildcard's.
Sooner(m, n) ==
  \/ Len(m) < Len(n)
  \/ /\ m # Root /\ n # Root /\ Front(m) = Front(n)
     /\ Last(m) \in Wild /\ Last(n) \in Words

Before(s, x, y) == \E i, j \in DOMAIN s : i < j /\ s[i] = x /\ s[j] = y

\* homework2/README.md items 1 and 2: a request that a node is found for gets
\* the middlewares of every node on the way that matches, and no other, each
\* once: those of shorter paths first, a wildcard before a word at the same
\* node, in the order of registration at one node.  A request whose end a star
\* swallows (line 97) gets those from the star on only, and is left out.
MiddlewaresOfPath ==
  \A request \in Requests :
    LET found == MwsOf(request)
        due == {n \in DOMAIN mws : Covers(n, request)}
    IN  FindRoute(request).state = "going" =>
          /\ ToSet(found) = UNION {ToSet(mws[n]) : n \in due}
          /\ \A i, j \in DOMAIN found : found[i] = found[j] => i = j
          /\ \A m, n \in due : \A c \in ToSet(mws[m]), d \in ToSet(mws[n]) :
               Sooner(m, n) \/ (m = n /\ c < d) => Before(found, c, d)

=============================================================================
