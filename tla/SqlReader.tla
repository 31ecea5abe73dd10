----------------------------- MODULE SqlReader -----------------------------
(***************************************************************************)
(* How a database reads the text of a statement, independently of how the   *)
(* builders write it: clauses by their keywords outside parentheses, tables *)
(* as trees of joins and conditions as trees of operators, down to the      *)
(* SELECTs inside.  What is left is a leaf: its tokens and the arguments of *)
(* its placeholders.  Two operators side by side without parentheses are    *)
(* ambiguous here, so nothing rests on the precedence of a dialect, and so  *)
(* are two statements in one.                                               *)
(***************************************************************************)
EXTENDS Integers, Sequences, SequencesExt, FiniteSets

Operators == {"=", "<", ">", "IN", "EXIST", "AND", "OR", "NOT", "+", "*"}
Quantifiers == {"ANY", "ALL", "SOME"}
JoinWords == {"JOIN", "LEFT JOIN", "RIGHT JOIN"}
ClauseEnds == {"WHERE", "GROUP BY", "HAVING", "ORDER BY", "LIMIT", "OFFSET", ";"}

Occurrences(t, tok, lo, hi) == Cardinality({p \in lo..hi : t[p] = tok})

\* The placeholders up to position p.
Placeholders(t, p) == Occurrences(t, "?", 1, p)

\* Position p of t is in no parenthesis opened at lo or later.
Outside(t, lo, p) == Occurrences(t, "(", lo, p - 1) = Occurrences(t, ")", lo, p - 1)

\* Where the first of some tokens stands outside parentheses, hi + 1 if none does.
Find(t, lo, hi, toks) ==
  LET P == {p \in lo..hi : t[p] \in toks /\ Outside(t, lo, p)}
  IN  IF P = {} THEN hi + 1 ELSE Min(P)

Leaf(t, args, lo, hi) ==
  [leaf |-> SubSeq(t, lo, hi),
   args |-> SubSeq(args, Placeholders(t, lo - 1) + 1, Placeholders(t, hi))]

Absent == [absent |-> TRUE]
Ambiguous == [ambiguous |-> TRUE]

RECURSIVE Read(_, _, _, _), ReadSelect(_, _, _, _), ReadTable(_, _, _, _)

\* What is no operator applied to operands.
ReadOperand(t, args, lo, hi) ==
  CASE t[lo] \in Quantifiers -> [of |-> t[lo], operand |-> Read(t, args, lo + 1, hi)]
    [] t[lo] = "(" /\ t[lo + 1] = "SELECT" -> ReadSelect(t, args, lo + 1, hi - 1)
    [] t[lo] = "(" /\ t[lo + 1] # "SELECT" -> Read(t, args, lo + 1, hi - 1)
    [] OTHER -> Leaf(t, args, lo, hi)

Read(t, args, lo, hi) ==
  LET ops == {p \in lo..hi : t[p] \in Operators /\ Outside(t, lo, p)}
      p   == CHOOSE p \in ops : TRUE
  IN  CASE lo > hi -> Absent
        [] lo <= hi /\ ops = {} -> ReadOperand(t, args, lo, hi)
        [] Cardinality(ops) = 1
             -> [left |-> Read(t, args, lo, p - 1), op |-> t[p],
                 right |-> Read(t, args, p + 1, hi)]
        [] Cardinality(ops) > 1 -> Ambiguous

\* The positions after a keyword, up to the next clause: none if it is absent.
ClauseStart(t, lo, hi, keyword) == Find(t, lo, hi, {keyword}) + 1
ClauseStop(t, lo, hi, keyword) == Find(t, ClauseStart(t, lo, hi, keyword), hi, ClauseEnds) - 1

ReadClause(t, args, lo, hi, keyword) ==
  Read(t, args, ClauseStart(t, lo, hi, keyword), ClauseStop(t, lo, hi, keyword))
LeafClause(t, args, lo, hi, keyword) ==
  Leaf(t, args, ClauseStart(t, lo, hi, keyword), ClauseStop(t, lo, hi, keyword))

ReadSelect(t, args, lo, hi) ==
  LET from == Find(t, lo, hi, {"FROM"})
  IN  IF Find(t, lo, hi, {";"}) <= hi THEN Ambiguous
      ELSE [columns |-> Leaf(t, args, lo + 1, from - 1),
            from    |-> ReadTable(t, args, from + 1, ClauseStop(t, lo, hi, "FROM")),
            where   |-> ReadClause(t, args, lo, hi, "WHERE"),
            groupBy |-> LeafClause(t, args, lo, hi, "GROUP BY"),
            having  |-> ReadClause(t, args, lo, hi, "HAVING"),
            orderBy |-> LeafClause(t, args, lo, hi, "ORDER BY"),
            limit   |-> LeafClause(t, args, lo, hi, "LIMIT"),
            offset  |-> LeafClause(t, args, lo, hi, "OFFSET")]

\* ( left JOIN right ON condition )
ReadJoin(t, args, lo, hi) ==
  LET join == Find(t, lo + 1, hi - 1, JoinWords)
      by   == Find(t, join + 1, hi - 1, {"ON", "USING"})
  IN  [left  |-> ReadTable(t, args, lo + 1, join - 1), join |-> t[join],
       right |-> ReadTable(t, args, join + 1, by - 1),
       on    |-> ReadClause(t, args, join + 1, hi - 1, "ON"),
       using |-> LeafClause(t, args, join + 1, hi - 1, "USING")]

ReadTable(t, args, lo, hi) ==
  LET as == Find(t, lo, hi, {"AS"})
  IN  CASE t[lo] # "(" -> Leaf(t, args, lo, hi)
        [] t[lo] = "(" /\ t[lo + 1] = "SELECT"
             -> [select |-> ReadSelect(t, args, lo + 1, as - 2), alias |-> SubSeq(t, as, hi)]
        [] t[lo] = "(" /\ t[lo + 1] # "SELECT" -> ReadJoin(t, args, lo, hi)

\* The names of the columns a SELECT returns: the last token of each item.
ReturnedNames(t) ==
  LET from == Find(t, 1, Len(t), {"FROM"})
      ends == {p \in 2..from : (t[p] = "," \/ p = from) /\ Outside(t, 1, p)}
      seq  == SetToSortSeq(ends, <)
  IN  [n \in DOMAIN seq |-> t[seq[n] - 1]]

=============================================================================
