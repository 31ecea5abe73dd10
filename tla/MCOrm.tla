------------------------------- MODULE MCOrm -------------------------------
(***************************************************************************)
(* An instance of Orm: three types, the statements of the tests and their   *)
(* combinations, two goroutines.                                            *)
(***************************************************************************)
EXTENDS Orm

Symmetry == Permutations(Procs)

MCTypes == {"User", "Order", "Broken"}

Field(go, tag) == [go |-> go, tag |-> tag]
MCStruct ==
  [User   |-> [pointer |-> TRUE, name |-> "User", table |-> "",
               fields |-> <<Field("Id", "-"), Field("FirstName", "-"), Field("Age", "years")>>],
   Order  |-> [pointer |-> TRUE, name |-> "Order", table |-> "orders",
               fields |-> <<Field("Id", "-"), Field("UserId", "-")>>],
   Broken |-> [pointer |-> TRUE, name |-> "User", table |-> "",
               fields |-> <<Field("Id", "!")>>]]

MCUnderscore ==
  [User |-> "user", Order |-> "order", Id |-> "id", FirstName |-> "first_name",
   Age |-> "age", UserId |-> "user_id"]

MCSub == [all    |-> [of |-> "orders", alias |-> "o"],
          ids    |-> [of |-> "userIds", alias |-> ""],
          same   |-> [of |-> "userIds", alias |-> "u"],
          deep   |-> [of |-> "nesting", alias |-> "d"],
          keys   |-> [of |-> "orderIds", alias |-> "k"],
          wrong  |-> [of |-> "unknown", alias |-> ""]]

Id == C("Id")
Name == C("FirstName")
All == Subquery("all")
Ids == Subquery("ids")
Users == As(TableOf("User"), "t1")
Orders == TableOf("Order")
V(v) == ValueOf(v)

Select(cols, from, where) ==
  [kind |-> "select", type |-> "User", columns |-> cols, table |-> from, where |-> where,
   groupBy |-> <<>>, having |-> <<>>, limit |-> 0, offset |-> 0]
First(cols, where) ==
  [kind |-> "first", type |-> "User", columns |-> cols, table |-> "", where |-> where,
   groupBy |-> <<>>, having |-> <<>>, orderBy |-> <<>>, limit |-> 0, offset |-> 0]
Insert(columns, upsert, dialect) ==
  [kind |-> "insert", type |-> "User", columns |-> columns, upsert |-> upsert, dialect |-> dialect,
   values |-> <<[Id |-> 1, FirstName |-> 2, Age |-> 3], [Id |-> 4, FirstName |-> 5, Age |-> 6]>>]
Update(assigns, where) ==
  [kind |-> "update", type |-> "User", assigns |-> assigns, where |-> where, columns |-> <<>>,
   val |-> [Id |-> 1, FirstName |-> 2, Age |-> 3]]
Bareness(kind, where) == [kind |-> kind, type |-> "User", table |-> "", where |-> where, columns |-> <<>>]

Cond1 == Or(And(EQ(Id, V(1)), Not(EQ(Name, V(2)))), GT(Add(C("Age"), 3), V(4)))
OnIds == <<EQ(ColumnOf(Users, "Id"), ColumnOf(Orders, "UserId"))>>

MCStmt ==
  \* the selectors inside Subqueries
  [orders   |-> [Select(<<>>, Nil, <<EQ(C("UserId"), V(8))>>) EXCEPT !.type = "Order"],
   userIds  |-> [Select(<<C("UserId")>>, Nil, <<LT(Id, V(7))>>) EXCEPT !.type = "Order", !.limit = 2],
   nesting  |-> [Select(<<C("UserId")>>, Orders, <<Not(InQuery(Id, Ids)), LT(Id, V(9))>>) EXCEPT
                   !.type = "Order", !.offset = 3],
   orderIds |-> [Select(<<Id>>, Nil, <<>>) EXCEPT !.type = "Order"],
   unknown  |-> [Select(<<C("Nothing")>>, Nil, <<>>) EXCEPT !.type = "Order"],
  \* SELECT
   star     |-> Select(<<>>, Nil, <<>>),
   plain    |-> Select(<<Name, Id>>, Nil, <<Cond1, In(Name, 5)>>),
   one      |-> Select(<<Name>>, Users, <<LT(ColumnOf(Users, "Age"), V(1))>>),
   aliased  |-> Select(<<ColumnAs(Name, "my_name"), AggregateAs(Aggregate("AVG", "Age"), "avg")>>,
                       Nil, <<EQ(MathMulti(ColumnMulti(C("Age"), 2), 3), V(4)),
                              AsPredicate(Raw(<<"age", "<", "?">>, <<1>>))>>),
   grouped  |-> [Select(<<Raw(<<"COUNT", "(", "?", ")">>, <<9>>)>>, Nil, <<EQ(Id, V(1))>>) EXCEPT
                   !.groupBy = <<C("Age"), Name>>, !.limit = 5, !.offset = 6,
                   !.having = <<GT(Aggregate("AVG", "Age"), V(2)), AsPredicate(Raw(<<"r", "?">>, <<3>>))>>],
   bad      |-> Select(<<Name, C("Nothing")>>, Nil, <<>>),
   joinSub  |-> Select(<<ColumnOf(All, "Id")>>,
                       Using(JoinTo(On(JoinTo(All, "LEFT JOIN", Users), OnIds), "JOIN", Orders),
                             <<"Id", "Age">>),
                       <<GT(ColumnOf(All, "Id"), V(1))>>),
   inSub    |-> Select(<<Name>>, Nil, <<EQ(Name, V(1)), InQuery(Id, Ids), Not(Exist(All)), LT(Id, V(3))>>),
   nested   |-> [Select(<<ColumnOf(All, "UserId")>>, All,
                        <<GT(ColumnOf(All, "Id"), SubqueryExpr("ALL", Subquery("deep"))), EQ(Name, V(1))>>)
                   EXCEPT !.limit = 4],
   joinIn   |-> Select(<<Raw(<<"?">>, <<5>>), ColumnOf(Users, "Id")>>,
                       On(JoinTo(Subquery("deep"), "RIGHT JOIN", Users),
                          <<InQuery(ColumnOf(Users, "Id"), All), EQ(Name, V(6))>>), <<EQ(Id, V(1))>>),
   rawSum   |-> Select(<<>>, Nil, <<EQ(Id, Raw(<<"age", "+", "?">>, <<1>>)), EQ(Name, V(2))>>),
   fromIn   |-> Select(<<>>, All, <<Exist(All)>>),
   twoOfOne |-> Select(<<>>, Subquery("same"), <<InQuery(Id, Ids)>>),
   twice    |-> Select(<<>>, Nil, <<GT(Id, SubqueryExpr("SOME", Ids)), LT(Id, SubqueryExpr("ANY", Ids))>>),
   someAny  |-> Select(<<>>, Nil, <<GT(Id, SubqueryExpr("SOME", Subquery("keys"))),
                                    LT(Id, SubqueryExpr("ANY", Subquery("keys"))), EQ(Name, V(3))>>),
   anyWrong |-> Select(<<>>, Nil, <<GT(Id, SubqueryExpr("ANY", Subquery("wrong")))>>),
   hidden   |-> Select(<<ColumnOf(Subquery("same"), "Id")>>, Subquery("same"), <<>>),
   broken   |-> [Select(<<>>, Nil, <<>>) EXCEPT !.type = "Broken"],
   raw      |-> [kind |-> "raw", type |-> "User", sql |-> <<"SELECT", "id", "FROM", "user">>,
                 args |-> <<1>>, columns |-> <<>>],
  \* INSERT and UPDATE
   insert   |-> Insert(<<>>, Nil, "mysql"),
   insert2  |-> Insert(<<"Age", "Id">>, [conflict |-> <<>>,
                       assigns |-> <<Name, Assign("Age", Add(C("Age"), 7))>>], "mysql"),
   insert3  |-> Insert(<<"FirstName">>, [conflict |-> <<"Id">>,
                       assigns |-> <<Assign("Age", V(7)), Name>>], "sqlite"),
   nothing  |-> [Insert(<<>>, Nil, "mysql") EXCEPT !.values = <<>>],
   update   |-> Update(<<Name, Assign("Age", Add(C("Age"), 5))>>, <<EQ(Id, V(6)), Cond1>>),
  \* homework_select and homework_delete
   first    |-> [First(<<Name, AggregateAs(Aggregate("MAX", "Age"), "m")>>,
                       <<EQ(Id, V(1)), Not(Or(EQ(Name, V(2)), GT(Id, V(3))))>>) EXCEPT
                   !.groupBy = <<Name>>, !.having = <<LT(Aggregate("AVG", "Age"), V(4))>>,
                   !.orderBy = <<OrderBy("Id", "ASC"), OrderBy("Age", "DESC")>>, !.limit = 8],
   firstAs  |-> [First(<<>>, <<LT(AggregateAs(Aggregate("AVG", "Age"), "a"), V(1))>>) EXCEPT
                   !.groupBy = <<ColumnAs(Name, "n")>>],
   firstRaw |-> First(<<Raw(<<"r", "?">>, <<5>>)>>, <<AsPredicate(Raw(<<"c", "?">>, <<6>>))>>),
   delete   |-> Bareness("delete", <<EQ(Id, V(1)), Or(LT(Id, V(2)), Not(EQ(Name, V(3))))>>),
   plain2   |-> Bareness("plain", <<GT(Id, V(1)), EQ(Name, V(2)), LT(Id, V(3))>>)]

MCRoots == DOMAIN MCStmt \ {"orders", "userIds", "nesting", "orderIds", "unknown"}

MCParts ==
  [r \in MCRoots |-> CASE r \in {"joinSub", "fromIn"} -> <<"all">>
                       [] r = "twice"    -> <<"ids">>
                       [] r = "inSub"    -> <<"ids", "all">>
                       [] r = "nested"   -> <<"all", "ids", "deep">>
                       [] r = "joinIn"   -> <<"ids", "deep", "all">>
                       [] r = "twoOfOne" -> <<"ids", "same">>
                       [] r = "someAny"  -> <<"keys">>
                       [] r = "anyWrong" -> <<"wrong">>
                       [] r = "hidden"   -> <<"same">>
                       [] OTHER          -> <<>>]

\* A model is renamed; a column gets a new name, none, the name of another
\* column, or changes its name with another; a field does not exist.
Renamed(field, name) == [kind |-> "column", field |-> field, name |-> name]
MCCustoms ==
  {[type |-> "User", opts |-> <<[kind |-> "table", name |-> "people"]>>],
   [type |-> "User", opts |-> <<[kind |-> "table", name |-> "people"],
                                Renamed("FirstName", "given")>>],
   [type |-> "User", opts |-> <<Renamed("FirstName", "")>>],
   [type |-> "User", opts |-> <<Renamed("FirstName", "years")>>],
   [type |-> "User", opts |-> <<Renamed("FirstName", "years"), Renamed("Age", "first_name")>>],
   [type |-> "User", opts |-> <<Renamed("Nothing", "x")>>]}

MCSchema ==
  [User |-> {<<"years", "id">>, <<"id", "first_name", "years">>, <<"id", "extra">>,
             <<"id", "first_name", "years", "id">>},
   Order |-> {<<"id", "user_id">>}, Broken |-> {<<"id">>}]

=============================================================================
