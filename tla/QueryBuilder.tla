---------------------------- MODULE QueryBuilder ----------------------------
(***************************************************************************)
(* The statement builders of homework_subquery.  A statement is an object   *)
(* that is configured and then built; building writes to the object's own   *)
(* buffer and argument list, and to those of the selectors it contains.     *)
(*                                                                         *)
(* The text is a sequence of tokens: a name, a keyword, a placeholder "?"   *)
(* or a parenthesis.  Quotes and blanks are left out.                       *)
(*                                                                         *)
(* An operator whose first parameter is h takes and returns the builders'   *)
(* heap: the registry's map, the model, buffer and arguments of every       *)
(* statement, the text cache and model of every Subquery, and err, after    *)
(* which nothing more is written.                                           *)
(***************************************************************************)
EXTENDS Expressions

-----------------------------------------------------------------------------
(* Writing *)

Write(h, i, toks) == IF h.err THEN h ELSE [h EXCEPT !.sb[i] = @ \o toks]
AddArgs(h, i, vals) == IF h.err THEN h ELSE [h EXCEPT !.args[i] = @ \o vals]
Fail(h) == [h EXCEPT !.err = TRUE]
BuildAs(h, i, alias) == IF alias = "" THEN h ELSE Write(h, i, <<"AS", alias>>)
WriteRaw(h, i, r) == AddArgs(Write(h, i, r.raw), i, r.args)

\* The items one after the other, separated by commas.
Listed(h, i, items, Op(_, _)) ==
  LET f[n \in 0..Len(items)] ==
        IF n = 0 THEN h
        ELSE Op(IF n > 1 THEN Write(f[n - 1], i, <<",">>) ELSE f[n - 1], items[n])
  IN  f[Len(items)]

Lookup(h, T) == IF h.err THEN h ELSE [h EXCEPT !.models = Get(@, T)]

Resolved(h, t) == IF t.k = "table" THEN Lookup(h, t.entity) ELSE h

NoColumn == "no column"

\* The column of field fd of a table.  WithColumnName may have made it empty.
ColName(h, i, t, fd) ==
  LET In_(m) == IF m # NoModel /\ fd \in DOMAIN m.col THEN m.col[fd] ELSE NoColumn
      cols   == Stmt[Sub[t.sq].of].columns
  IN  CASE t.k = "nil"      -> In_(h.model[i])
        [] t.k = "table"    -> In_(h.models[t.entity])
        [] t.k = "subquery" ->
             IF cols # <<>> /\ \A n \in DOMAIN cols : cols[n].k = "raw" \/ cols[n].name # fd
             THEN NoColumn ELSE In_(h.submodel[t.sq])
        [] OTHER            -> NoColumn

WriteName(h, i, name) == IF name = NoColumn THEN Fail(h) ELSE Write(h, i, <<name>>)
BuildName(h, i, t, fd) == WriteName(h, i, ColName(h, i, t, fd))
Qualified(h, i, t) == IF TableAlias(t) = "" THEN h ELSE Write(h, i, <<TableAlias(t), ".">>)

BuildColumn(h, i, t, fd) == BuildName(Resolved(Qualified(h, i, t), t), i, t, fd)

SelectColumn(h, i, c, useAlias) ==
  BuildAs(BuildColumn(h, i, c.table, c.name), i, IF useAlias THEN c.alias ELSE "")

BuildAggregate(h, i, a, useAlias) ==
  BuildAs(Write(BuildColumn(Write(h, i, <<a.fn, "(">>), i, a.table, a.name), i, <<")">>),
          i, IF useAlias THEN a.alias ELSE "")

-----------------------------------------------------------------------------
(* Expressions *)

RECURSIVE BuildExpression(_, _, _), BuildSelect(_, _), BuildTable(_, _, _)

\* Mutant of Nested: a computed operand is not put into parentheses.
NestedMathBare(h, i, e) ==
  IF e.k = "predicate"
  THEN Write(BuildExpression(Write(h, i, <<"(">>), i, e), i, <<")">>)
  ELSE BuildExpression(h, i, e)

Nested(h, i, e) ==
  IF e.k \in {"math", "predicate"}
  THEN Write(BuildExpression(Write(h, i, <<"(">>), i, e), i, <<")">>)
  ELSE BuildExpression(h, i, e)

WriteOp(h, i, op) == IF op = "" THEN h ELSE Write(h, i, <<op>>)

BuildBinaryExpr(h, i, e) == Nested(WriteOp(Nested(h, i, e.left), i, e.op), i, e.right)

\* The text of a Subquery, and its arguments if it has just been built.
Embedded(h, i, sq, vals) == AddArgs(Write(h, i, <<"(">> \o h.cache[sq] \o <<")">>), i, vals)
Cached(h, sq) == IF h.err THEN h ELSE [h EXCEPT !.cache[sq] = Front(h.sb[Sub[sq].of])]
Fresh(h, i, sq) == Embedded(h, i, sq, h.args[Sub[sq].of])

\* The text is kept behind a pointer that every copy of the Subquery shares; its
\* arguments are kept in the copy at hand, which is dropped: a statement that
\* uses the Subquery again gets the text without the arguments.
BuildSubQuery(h, i, e) ==
  IF h.cache[e.sq] # <<>> THEN Embedded(h, i, e.sq, <<>>)
  ELSE Fresh(Cached(BuildSelect(h, Sub[e.sq].of), e.sq), i, e.sq)

\* The error of the subquery of ANY, ALL and SOME is dropped.
BuildExpression(h, i, e) ==
  CASE h.err                          -> h
    [] e.k = "nil"                    -> h
    [] e.k = "column"                 -> BuildColumn(h, i, e.table, e.name)
    [] e.k = "aggregate"              -> BuildAggregate(h, i, e, FALSE)
    [] e.k = "value"                  -> AddArgs(Write(h, i, <<"?">>), i, <<e.val>>)
    [] e.k = "raw"                    -> WriteRaw(h, i, e)
    [] e.k \in {"math", "predicate"}  -> BuildBinaryExpr(h, i, e)
    [] e.k = "subquery"               -> BuildSubQuery(h, i, e)
    [] e.k = "subqueryExpr"           ->
         [BuildExpression(Write(h, i, <<e.pred>>), i, e.s) EXCEPT !.err = FALSE]

\* All of the conditions, from the left.
Conjunction(ps) ==
  LET f[n \in 1..Len(ps)] == IF n = 1 THEN ps[1] ELSE And(f[n - 1], ps[n]) IN f[Len(ps)]

BuildPredicates(h, i, ps) == BuildExpression(h, i, Conjunction(ps))

Clause(h, i, keyword, ps) ==
  IF ps = <<>> THEN h ELSE BuildPredicates(Write(h, i, <<keyword>>), i, ps)

-----------------------------------------------------------------------------
(* SELECT *)

\* A list of columns in parentheses, if there is any.
ColumnList(h, i, keyword, cols) ==
  IF cols = <<>> THEN h
  ELSE Write(Listed(Write(h, i, keyword \o <<"(">>), i, cols,
                    LAMBDA g, col : BuildColumn(g, i, Nil, col)), i, <<")">>)

JoinedTables(h, i, j) ==
  BuildTable(Write(BuildTable(Write(h, i, <<"(">>), i, j.left), i, <<j.typ>>), i, j.right)

BuildJoin(h, i, j) ==
  Write(Clause(ColumnList(JoinedTables(h, i, j), i, <<"USING">>, j.using), i, "ON", j.on),
        i, <<")">>)

TableName(h, i, t) ==
  IF h.models[t.entity] = NoModel THEN Fail(h)
  ELSE BuildAs(Write(h, i, <<h.models[t.entity].table>>), i, t.alias)

\* In FROM a Subquery is built directly, past its cache.
Inlined(h, i, sq) ==
  IF h.err THEN h
  ELSE AddArgs(BuildAs(Write(h, i, Front(h.sb[Sub[sq].of]) \o <<")">>), i, Sub[sq].alias),
               i, h.args[Sub[sq].of])

BuildTable(h, i, t) ==
  CASE h.err             -> h
    [] t.k = "nil"       -> Write(h, i, <<h.model[i].table>>)
    [] t.k = "subquery"  -> Inlined(BuildSelect(Write(h, i, <<"(">>), Sub[t.sq].of), i, t.sq)
    [] t.k = "table"     -> TableName(Lookup(h, t.entity), i, t)
    [] t.k = "join"      -> BuildJoin(h, i, t)

BuildColumns(h, i, cols) ==
  IF cols = <<>> THEN Write(h, i, <<"*">>)
  ELSE Listed(h, i, cols, LAMBDA g, c :
         CASE c.k = "column"    -> SelectColumn(g, i, c, TRUE)
           [] c.k = "aggregate" -> BuildAggregate(g, i, c, TRUE)
           [] c.k = "raw"       -> WriteRaw(g, i, c))

ListClause(h, i, keyword, items, Op(_, _)) ==
  IF items = <<>> THEN h ELSE Listed(Write(h, i, <<keyword>>), i, items, Op)

Bounded(h, i, keyword, n) ==
  IF n > 0 THEN AddArgs(Write(h, i, <<keyword, "?">>), i, <<n>>) ELSE h

SelectFrom(h, i, s) ==
  BuildTable(Write(BuildColumns(Write(h, i, <<"SELECT">>), i, s.columns), i, <<"FROM">>),
             i, s.table)

GroupBy(h, i, cols) ==
  ListClause(h, i, "GROUP BY", cols, LAMBDA g, col : SelectColumn(g, i, col, FALSE))

Page(h, i, s) ==
  Write(Bounded(Bounded(h, i, "LIMIT", s.limit), i, "OFFSET", s.offset), i, <<";">>)

SelectClauses(h, i, s) ==
  Page(Clause(GroupBy(Clause(h, i, "WHERE", s.where), i, s.groupBy), i, "HAVING", s.having), i, s)

\* Build after the model is known.  Neither the buffer nor the arguments are
\* reset: a second Build appends a second statement to the first.
SelectBody(h, i) == SelectClauses(SelectFrom(h, i, Stmt[i]), i, Stmt[i])

\* A statement's own model: looked up at every Build.
Adopt(h, i) ==
  IF h.models[Stmt[i].type] = NoModel THEN Fail(h)
  ELSE [h EXCEPT !.model[i] = h.models[Stmt[i].type]]
WithModel(h, i) == Adopt(Lookup(h, Stmt[i].type), i)

Unless(h, i) == IF h.err THEN h ELSE SelectBody(h, i)
BuildSelect(h, i) == IF h.err THEN h ELSE Unless(WithModel(h, i), i)

\* The Subquery keeps the model its selector has when it is made.
Take(h, sq) == [h EXCEPT !.submodel[sq] = h.models[Stmt[Sub[sq].of].type]]
AsSubquery(h, sq) == Take(Lookup(h, Stmt[Sub[sq].of].type), sq)

-----------------------------------------------------------------------------
(* INSERT, UPDATE and raw queries *)

\* The assignments an upsert writes: the loop returns after the first Assignment.
Reached(assigns) ==
  LET n == SelectInSeq(assigns, LAMBDA a : a.k = "assignment")
  IN  IF n = 0 THEN assigns ELSE SubSeq(assigns, 1, n)

BuildAssignment(h, i, a) ==
  BuildExpression(Write(BuildColumn(h, i, Nil, a.column), i, <<"=">>), i, a.val)

\* A column takes the value of the row that could not be inserted.
TakenOver(h, i, c, dialect) ==
  LET n == ColName(h, i, c.table, c.name)
  IN  CASE n = NoColumn        -> Fail(h)
        [] dialect = "mysql"   -> Write(h, i, <<n, "=", "VALUES", "(", n, ")">>)
        [] dialect = "sqlite"  -> Write(h, i, <<n, "=", "excluded", ".", n>>)

Upserted(h, i, a, dialect) ==
  IF a.k = "assignment" THEN BuildAssignment(h, i, a)
  ELSE TakenOver(Resolved(h, a.table), i, a, dialect)

MySQLUpsert(h, i) == Write(h, i, <<"ON DUPLICATE KEY UPDATE">>)

SQLiteUpsert(h, i, u) ==
  Write(ColumnList(Write(h, i, <<"ON CONFLICT">>), i, <<>>, u.conflict), i, <<"DO UPDATE SET">>)

UpsertHead(h, i, s) ==
  IF s.dialect = "mysql" THEN MySQLUpsert(h, i) ELSE SQLiteUpsert(h, i, s.upsert)

BuildUpsert(h, i, s) ==
  IF s.upsert = Nil THEN h
  ELSE Listed(UpsertHead(h, i, s), i, Reached(s.upsert.assigns),
              LAMBDA g, a : Upserted(g, i, a, s.dialect))

\* One row of values: its placeholders and their arguments.
Row(h, i, fields, v) ==
  Write(Listed(Write(h, i, <<"(">>), i, fields,
               LAMBDA g, f : AddArgs(Write(g, i, <<"?">>), i, <<v[f]>>)), i, <<")">>)

\* The arguments are reset here, the text is not.
InsertColumns(h, i, fields) ==
  Listed([h EXCEPT !.args[i] = <<>>], i, fields, LAMBDA g, f : Write(g, i, <<h.model[i].col[f]>>))

InsertRows(h, i, fields, rows) ==
  Listed(Write(InsertColumns(h, i, fields), i, <<")", "VALUES">>), i, rows,
         LAMBDA g, v : Row(g, i, fields, v))

InsertInto(h, i, s, fields) ==
  IF \E n \in DOMAIN fields : fields[n] \notin DOMAIN h.model[i].col THEN Fail(h)
  ELSE Write(BuildUpsert(InsertRows(h, i, fields, s.values), i, s), i, <<";">>)

\* Inserter.Build after the model is known.
InsertBody(h, i) ==
  InsertInto(Write(h, i, <<"INSERT INTO", h.model[i].table, "(">>), i, Stmt[i],
             IF Stmt[i].columns = <<>> THEN h.model[i].fields ELSE Stmt[i].columns)

SetFromValue(h, i, name, val) ==
  IF name \in DOMAIN val THEN AddArgs(h, i, <<val[name]>>) ELSE Fail(h)

SetClause(h, i, s) ==
  Listed(Write(h, i, <<"UPDATE", h.model[i].table, "SET">>), i, s.assigns, LAMBDA g, c :
    IF c.k = "assignment" THEN BuildAssignment(g, i, c)
    ELSE SetFromValue(Write(BuildColumn(g, i, c.table, c.name), i, <<"=", "?">>), i, c.name, s.val))

UpdateBody(h, i) ==
  Write(Clause(SetClause(h, i, Stmt[i]), i, "WHERE", Stmt[i].where), i, <<";">>)

\* A raw query is given to the database as it is, every time.
RawBody(h, i) == [h EXCEPT !.sb[i] = Stmt[i].sql, !.args[i] = Stmt[i].args]

=============================================================================
