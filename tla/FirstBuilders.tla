--------------------------- MODULE FirstBuilders ---------------------------
(***************************************************************************)
(* The two earlier statement builders, on the heap of QueryBuilder: the     *)
(* Selector of homework_select, which has ORDER BY and no joins, and the    *)
(* Deleter and Selector of homework_delete, which know no model and write   *)
(* the Go names as they are.                                                *)
(***************************************************************************)
EXTENDS QueryBuilder

Bracketed(e) == e.k = "predicate"

-----------------------------------------------------------------------------
(* homework_select *)

OrderBy(column, order) == [column |-> column, order |-> order]

\* buildColumn: the alias follows the name wherever the column is.
FirstColumn(h, i, name, alias) == BuildAs(BuildName(h, i, Nil, name), i, alias)

FirstAggregate(h, i, a) ==
  BuildAs(Write(FirstColumn(Write(h, i, <<a.fn, "(">>), i, a.name, ""), i, <<")">>), i, a.alias)

RECURSIVE FirstExpression(_, _, _)

FirstOperand(h, i, e) ==
  IF Bracketed(e) THEN Write(FirstExpression(Write(h, i, <<"(">>), i, e), i, <<")">>)
  ELSE FirstExpression(h, i, e)

\* A column loses its alias here, an aggregate keeps it.
FirstExpression(h, i, e) ==
  CASE h.err              -> h
    [] e.k = "nil"        -> h
    [] e.k = "predicate"  ->
         FirstOperand(WriteOp(FirstOperand(h, i, e.left), i, e.op), i, e.right)
    [] e.k = "column"     -> FirstColumn(h, i, e.name, "")
    [] e.k = "value"      -> AddArgs(Write(h, i, <<"?">>), i, <<e.val>>)
    [] e.k = "raw"        -> Write(WriteRaw(Write(h, i, <<"(">>), i, e), i, <<")">>)
    [] e.k = "aggregate"  -> FirstAggregate(h, i, e)

FirstColumns(h, i, cols) ==
  IF cols = <<>> THEN Write(h, i, <<"*">>)
  ELSE Listed(h, i, cols, LAMBDA g, c :
         CASE c.k = "column"    -> FirstColumn(g, i, c.name, c.alias)
           [] c.k = "aggregate" -> FirstAggregate(g, i, c)
           [] c.k = "raw"       -> WriteRaw(g, i, c))

FirstClause(h, i, keyword, ps) ==
  IF ps = <<>> THEN h ELSE FirstExpression(Write(h, i, <<keyword>>), i, Conjunction(ps))

FirstFrom(h, i, s) ==
  Write(FirstColumns(Write(h, i, <<"SELECT">>), i, s.columns),
        i, <<"FROM", IF s.table = "" THEN h.model[i].table ELSE s.table>>)

FirstGroupBy(h, i, cols) ==
  ListClause(h, i, "GROUP BY", cols, LAMBDA g, col : FirstColumn(g, i, col.name, col.alias))

FirstOrderBy(h, i, orders) ==
  ListClause(h, i, "ORDER BY", orders,
             LAMBDA g, o : Write(FirstColumn(g, i, o.column, ""), i, <<o.order>>))

FirstClauses(h, i, s) ==
  FirstOrderBy(FirstClause(FirstGroupBy(FirstClause(h, i, "WHERE", s.where), i, s.groupBy),
                           i, "HAVING", s.having), i, s.orderBy)

\* Build after the model is known; as in homework_subquery nothing is reset.
FirstSelectBody(h, i) == Page(FirstClauses(FirstFrom(h, i, Stmt[i]), i, Stmt[i]), i, Stmt[i])

-----------------------------------------------------------------------------
(* homework_delete *)

RECURSIVE DeleteExpression(_, _, _)

DeleteOperand(h, i, e) ==
  IF Bracketed(e) THEN Write(DeleteExpression(Write(h, i, <<"(">>), i, e), i, <<")">>)
  ELSE DeleteExpression(h, i, e)

DeleteExpression(h, i, e) ==
  CASE h.err             -> h
    [] e.k = "nil"       -> h
    [] e.k = "column"    -> Write(h, i, <<e.name>>)
    [] e.k = "value"     -> AddArgs(Write(h, i, <<"?">>), i, <<e.val>>)
    [] e.k = "predicate" ->
         DeleteOperand(Write(DeleteOperand(h, i, e.left), i, <<e.op>>), i, e.right)
    [] OTHER             -> Fail(h)

DeleteWhere(h, i, ps) ==
  IF ps = <<>> THEN h ELSE DeleteExpression(Write(h, i, <<"WHERE">>), i, Conjunction(ps))

\* The Deleter, and the Selector that differs from it in its first words.
Bare(h, i, verb) ==
  LET s == Stmt[i]
  IN  Write(DeleteWhere(Write(h, i, verb \o <<IF s.table = "" THEN Struct[s.type].name ELSE s.table>>),
                        i, s.where), i, <<";">>)

DeleteBody(h, i) == Bare(h, i, <<"DELETE FROM">>)
PlainSelectBody(h, i) == Bare(h, i, <<"SELECT", "*", "FROM">>)

-----------------------------------------------------------------------------
(* Any statement *)

Body(h, i) ==
  CASE Stmt[i].kind = "select" -> SelectBody(h, i)
    [] Stmt[i].kind = "insert" -> InsertBody(h, i)
    [] Stmt[i].kind = "update" -> UpdateBody(h, i)
    [] Stmt[i].kind = "raw"    -> RawBody(h, i)
    [] Stmt[i].kind = "first"  -> FirstSelectBody(h, i)
    [] Stmt[i].kind = "delete" -> DeleteBody(h, i)
    [] Stmt[i].kind = "plain"  -> PlainSelectBody(h, i)

=============================================================================
