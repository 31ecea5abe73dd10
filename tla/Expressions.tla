----------------------------- MODULE Expressions -----------------------------
(***************************************************************************)
(* What a statement is made of.  Stmt gives the configuration of every      *)
(* builder object of an instance, Sub that of every Subquery made of one of *)
(* them with AsSubquery.                                                    *)
(***************************************************************************)
EXTENDS ModelRegistry, SequencesExt

CONSTANTS Stmt, Sub

-----------------------------------------------------------------------------
(* Tables, expressions and assignments, as their constructors make them *)

Nil == [k |-> "nil"]

TableOf(T) == [k |-> "table", entity |-> T, alias |-> ""]
As(t, alias) == [t EXCEPT !.alias = alias]

JoinTo(left, typ, target) == [left |-> left, typ |-> typ, right |-> target]
On(j, ps) == [k |-> "join", left |-> j.left, typ |-> j.typ, right |-> j.right,
              on |-> ps, using |-> <<>>]
Using(j, cs) == [k |-> "join", left |-> j.left, typ |-> j.typ, right |-> j.right,
                 on |-> <<>>, using |-> cs]

Subquery(sq) == [k |-> "subquery", sq |-> sq]

TableAlias(t) ==
  CASE t.k = "table"    -> t.alias
    [] t.k = "subquery" -> Sub[t.sq].alias
    [] OTHER            -> ""

C(name) == [k |-> "column", table |-> Nil, name |-> name, alias |-> ""]
ColumnOf(t, name) == [C(name) EXCEPT !.table = t]
\* As forgets the column's table.
ColumnAs(c, alias) == [C(c.name) EXCEPT !.alias = alias]

Aggregate(fn, name) == [k |-> "aggregate", table |-> Nil, fn |-> fn, name |-> name, alias |-> ""]
AggregateAs(a, alias) == [Aggregate(a.fn, a.name) EXCEPT !.alias = alias]

ValueOf(v) == [k |-> "value", val |-> v]
Raw(toks, vals) == [k |-> "raw", raw |-> toks, args |-> vals]
Math(l, o, r) == [k |-> "math", left |-> l, op |-> o, right |-> r]
Predicate(l, o, r) == [k |-> "predicate", left |-> l, op |-> o, right |-> r]

Add(c, v) == Math(c, "+", ValueOf(v))
\* Column.Multi adds; only MathExpr.Multi multiplies.
ColumnMulti(c, v) == Math(c, "+", ValueOf(v))
MathMulti(m, v) == Math(m, "*", ValueOf(v))
EQ(l, arg) == Predicate(l, "=", arg)
LT(l, arg) == Predicate(l, "<", arg)
GT(l, arg) == Predicate(l, ">", arg)
\* The list of values is one argument.
In(c, vals) == Predicate(c, "IN", ValueOf(vals))
InQuery(c, sub) == Predicate(c, "IN", sub)
Exist(sub) == Predicate(Nil, "EXIST", sub)
Not(p) == Predicate(Nil, "NOT", p)
And(p, r) == Predicate(p, "AND", r)
Or(p, r) == Predicate(p, "OR", r)
AsPredicate(raw) == Predicate(raw, "", Nil)
SubqueryExpr(pred, sub) == [k |-> "subqueryExpr", pred |-> pred, s |-> sub]
Assign(column, val) == [k |-> "assignment", column |-> column, val |-> val]

-----------------------------------------------------------------------------
(* Statements *)

\* The kinds that look their model up before they write.
HasModel(i) == Stmt[i].kind \in {"select", "insert", "update", "first"}

\* Refused before the model is looked up: no row to insert, no column to set.
Refused(i) ==
  LET s == Stmt[i]
  IN  \/ s.kind = "insert" /\ s.values = <<>>
      \/ s.kind = "update" /\ s.assigns = <<>>

=============================================================================
