---------------------------- MODULE MCHTTPRouter ----------------------------
(***************************************************************************)
(* An instance of HTTPRouter: "a" is a word with a static segment, "b" one *)
(* without; the expression "(a)" matches one of them, "(" does not compile. *)
(***************************************************************************)
EXTENDS HTTPRouter

MCSegments ==
  {[edge |-> "a", name |-> "", expr |-> ""],
   [edge |-> "star", name |-> "", expr |-> ""],
   [edge |-> "param", name |-> "x", expr |-> ""],
   [edge |-> "param", name |-> "z", expr |-> ""],
   [edge |-> "reg", name |-> "x", expr |-> "(a)"],
   [edge |-> "reg", name |-> "y", expr |-> "(a)"],
   [edge |-> "reg", name |-> "x", expr |-> "("],
   [edge |-> "", name |-> "", expr |-> ""]}

MCMatching == [e \in Exprs |-> {"a"}]

=============================================================================
