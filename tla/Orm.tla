-------------------------------- MODULE Orm --------------------------------
(***************************************************************************)
(* The ORM as a whole: the goroutines and sessions of Statements with the   *)
(* builders of all three generations, what a database makes of the text     *)
(* they write, and what the two together promise.  An instance takes Body   *)
(* for Built, AsSubquery for WithSubquery and ReturnedNames for Columns.    *)
(***************************************************************************)
EXTENDS FirstBuilders, SqlReader, Statements

-----------------------------------------------------------------------------
(* What was asked for, as SqlReader would read it *)

\* The builders' heap as the Build left it.
Final == [Heap EXCEPT !.models = seen]

Words(toks) == [leaf |-> toks, args |-> <<>>]
Followed(l, m) == [leaf |-> l.leaf \o m.leaf, args |-> l.args \o m.args]
List(items, Op(_)) ==
  LET f[n \in 0..Len(items)] ==
        CASE n = 0 -> Words(<<>>)
          [] n = 1 -> Op(items[1])
          [] n > 1 -> Followed(Followed(f[n - 1], Words(<<",">>)), Op(items[n]))
  IN  f[Len(items)]

Named(alias) == IF alias = "" THEN <<>> ELSE <<"AS", alias>>

\* A column of statement i, by the name its table has for it.
ColumnWords(i, c) ==
  IF Stmt[i].kind \in {"delete", "plain"} THEN <<c.name>>
  ELSE (IF TableAlias(c.table) = "" THEN <<>> ELSE <<TableAlias(c.table), ".">>)
         \o <<ColName(Final, i, c.table, c.name)>>

Spelled(i, c) ==
  IF c.k = "aggregate" THEN <<c.fn, "(">> \o ColumnWords(i, c) \o <<")">> ELSE ColumnWords(i, c)

Item(i, c) ==
  IF c.k = "raw" THEN [leaf |-> c.raw, args |-> c.args] ELSE Words(Spelled(i, c) \o Named(c.alias))

Number(n) == IF n > 0 THEN [leaf |-> <<"?">>, args |-> <<n>>] ELSE Words(<<>>)

RECURSIVE Meaning(_, _), Source(_, _), Asked(_)

Meaning(i, e) ==
  CASE e.k = "nil" -> Absent
    [] e.k \in {"math", "predicate"} ->
         IF e.op = "" THEN Meaning(i, e.left)
         ELSE [left |-> Meaning(i, e.left), op |-> e.op, right |-> Meaning(i, e.right)]
    [] e.k \in {"column", "aggregate"} -> Words(Spelled(i, e))
    [] e.k = "value"        -> [leaf |-> <<"?">>, args |-> <<e.val>>]
    [] e.k = "raw"          -> Read(e.raw, e.args, 1, Len(e.raw))
    [] e.k = "subquery"     -> Asked(Sub[e.sq].of)
    [] e.k = "subqueryExpr" -> [of |-> e.pred, operand |-> Meaning(i, e.s)]

Condition(i, ps) == IF ps = <<>> THEN Absent ELSE Meaning(i, Conjunction(ps))

UsingWords(i, cols) ==
  IF cols = <<>> THEN Words(<<>>)
  ELSE Followed(Followed(Words(<<"(">>), List(cols, LAMBDA c : Words(ColumnWords(i, C(c))))),
               Words(<<")">>))

Source(i, t) ==
  CASE t.k = "nil"      -> Words(<<Final.model[i].table>>)
    [] t.k = "table"    -> Words(<<seen[t.entity].table>> \o Named(t.alias))
    [] t.k = "subquery" -> [select |-> Asked(Sub[t.sq].of), alias |-> Named(TableAlias(t))]
    [] t.k = "join"     -> [left |-> Source(i, t.left), join |-> t.typ,
                            right |-> Source(i, t.right),
                            on |-> Condition(i, t.on), using |-> UsingWords(i, t.using)]

FirstSource(i, table) == Words(<<IF table = "" THEN Final.model[i].table ELSE table>>)

Optional(i, field) == IF field \in DOMAIN Stmt[i] THEN Stmt[i][field] ELSE <<>>

\* Of a statement that is not a SELECT, its condition.
Selects(i) == Stmt[i].kind \in {"select", "first"}
Asked(i) ==
  LET s == Stmt[i]
  IN  IF ~Selects(i) THEN [where |-> Condition(i, Optional(i, "where"))]
      ELSE [columns |-> IF s.columns = <<>> THEN Words(<<"*">>)
                        ELSE List(s.columns, LAMBDA c : Item(i, c)),
            from    |-> IF s.kind = "first" THEN FirstSource(i, s.table) ELSE Source(i, s.table),
            where   |-> Condition(i, s.where),
            groupBy |-> List(s.groupBy, LAMBDA c : Words(Spelled(i, c))),
            having  |-> Condition(i, s.having),
            orderBy |-> List(Optional(i, "orderBy"),
                             LAMBDA o : Words(ColumnWords(i, C(o.column)) \o <<o.order>>)),
            limit   |-> Number(s.limit),
            offset  |-> Number(s.offset)]

-----------------------------------------------------------------------------
(* What the promise is about *)

RECURSIVE Walk(_)
WalkAll(es) == FlattenSeq([n \in DOMAIN es |-> Walk(es[n])])

\* The expressions, tables and assignments of a statement.
Operands(i) ==
  Optional(i, "where") \o Optional(i, "having") \o Optional(i, "assigns")
    \o (IF Stmt[i].kind = "select" THEN <<Stmt[i].table>> ELSE <<>>)
    \o (IF Stmt[i].kind = "insert" /\ Stmt[i].upsert # Nil THEN Stmt[i].upsert.assigns ELSE <<>>)

\* An expression with all that is in it, through the selectors of its Subqueries.
Walk(e) ==
  <<e>> \o CASE e.k \in {"math", "predicate"} -> Walk(e.left) \o Walk(e.right)
             [] e.k = "subqueryExpr"          -> Walk(e.s)
             [] e.k = "subquery"              -> WalkAll(Operands(Sub[e.sq].of))
             [] e.k = "join"                  -> Walk(e.left) \o Walk(e.right) \o WalkAll(e.on)
             [] e.k = "assignment"            -> Walk(e.val)
             [] OTHER                         -> <<>>

Everything == WalkAll(Operands(root))
Somewhere(P(_)) == \E e \in Range(Everything) : P(e)

\* A Subquery that is a table, of the statement or of a SELECT inside it.
AsTable(s) ==
  \/ Stmt[root].kind = "select" /\ Stmt[root].table = s
  \/ Somewhere(LAMBDA e : \/ e.k = "join" /\ s \in {e.left, e.right}
                          \/ e.k = "subquery" /\ Stmt[Sub[e.sq].of].table = s)

\* A selector that the statement contains twice: other than as one Subquery
\* without arguments, and in conditions only.
Twice(es) ==
  \E m, n \in DOMAIN es :
    /\ m # n /\ es[m].k = "subquery" /\ es[n].k = "subquery"
    /\ Sub[es[m].sq].of = Sub[es[n].sq].of
    /\ es[m] # es[n] \/ b.args[Sub[es[m].sq].of] # <<>> \/ AsTable(es[m])
Reused == \E es \in {Everything} : Twice(es)

\* A Subquery that could not be built: ANY, ALL and SOME drop its error.
Dropped(e) == e.k = "subqueryExpr" /\ b.cache[e.s.sq] = <<>>

\* A raw operand that holds an operator, which only homework_select puts into
\* parentheses.
Unbracketed(e) ==
  /\ e.k \in {"math", "predicate"} /\ e.op # "" /\ Stmt[root].kind # "first"
  /\ \E s \in {e.left, e.right} :
       s.k = "raw" /\ Find(s.raw, 1, Len(s.raw), Operators) <= Len(s.raw)

\* homework_select writes the alias of a column in GROUP BY and of an aggregate
\* in a condition.
Aliased(e) == Stmt[root].kind = "first" /\ e.k = "aggregate" /\ e.alias # ""
AliasedGroup ==
  Stmt[root].kind = "first" /\ \E n \in DOMAIN Stmt[root].groupBy : Stmt[root].groupBy[n].alias # ""

Regular ==
  ~AliasedGroup /\ ~Somewhere(LAMBDA e : Dropped(e) \/ Unbracketed(e) \/ Aliased(e))

\* The first Build of an object has returned a text.
Written ==
  builds = 1 /\ built = "ok" /\ (\E p \in Procs : pc[p] = "built") /\ Stmt[root].kind # "raw"

\* The text has one argument for every placeholder, and means what was asked for.
AsAsked ==
  LET t   == b.sb[root]
      a   == b.args[root]
      end == Len(t) - 1
  IN  /\ Placeholders(t, Len(t)) = Len(a)
      /\ Asked(root) = IF Selects(root) THEN ReadSelect(t, a, 1, end)
                       ELSE [where |-> ReadClause(t, a, 1, end, "WHERE")]

-----------------------------------------------------------------------------
(* Properties *)

\* A statement object built for the first time gives a text with one argument
\* for every placeholder, and the text reads back as what was asked for: a
\* SELECT with its columns, tables, joins, conditions and limits, and every
\* SELECT inside it in the same way; of other statements, the condition.  No
\* grouping is lost between nested predicates, and no argument moves to another
\* placeholder, whatever comes before it.  Raw text is the application's own.
\* The code does not keep this for a selector that is contained twice (Reused),
\* unless it has no arguments and is one Subquery in conditions, as in the test
\* "some and any"; nor for the forms that Regular leaves out.
ReadsBack == Written /\ Regular /\ ~Reused => AsAsked

\* The plain columns of a statement, when it has no others.
Plain(cols) ==
  cols # <<>> /\ \A n \in DOMAIN cols : cols[n].k = "column" /\ cols[n].table = Nil
                                        /\ cols[n].alias = ""

\* The field that was parsed with the column that statements now use for g.
Receiver(g) ==
  LET was == ParseModel(Type).field
      c   == b.model[root].col[g]
  IN  IF c \in DOMAIN was THEN was[c] ELSE g

\* A Get that succeeds has filled the fields the statement selected, each from
\* its own column, and no other, though the model is looked up twice and may be
\* replaced by a registration in between.  The exception is a field that has been
\* given the column of another: WithColumnName changes the name that statements
\* use and not the one rows are read by, so exactly that other field is filled in
\* its place, without an error; a field with a new name is refused.  Only the
\* unsafe creator leaves a part of a row in the object it returns beside an error.
GetFills ==
  \A p \in Procs :
    LET r        == result[p]
        cols     == Stmt[root].columns
        filled   == {f \in DOMAIN r.obj : r.obj[f] # ""}
        selected == {cols[n].name : n \in DOMAIN cols}
        own      == ParseModel(Type).field
    IN  /\ builds = 1 /\ r.ok /\ Stmt[root].kind = "select" /\ Plain(cols) =>
             /\ filled = {Receiver(g) : g \in selected}
             /\ \A f \in filled : own[r.obj[f]] = f
             /\ \A g \in selected : b.model[root].col[g] \in DOMAIN own
        /\ ~r.ok /\ filled # {} => valuer = "unsafe"

\* A registered model is replaced by the default one only by a Get that missed
\* before the registration: no later lookup, by a statement, a row or a
\* Subquery, parses the type anew.
CustomModelKept ==
  [][\A T \in Types :
       /\ models[T] \notin {NoModel, ParseModel(T)}
       /\ ~\E p \in Procs : pc[p] \in {"store", "metaStore"} /\ Type = T
       => models'[T] \notin {NoModel, ParseModel(T)}]_vars

=============================================================================
