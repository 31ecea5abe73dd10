------------------------------- MODULE MCWire -------------------------------
(***************************************************************************)
(* An instance of Wire with bytes below 8 and lengths of two of them: a     *)
(* message has less than 64 bytes, and 9 of them are fixed.                 *)
(***************************************************************************)
EXTENDS Wire

Text(byte, n) == [i \in 1..n |-> byte]

MCKeyD == <<3>>
MCKeyO == <<4, 4>>
MCTrue == <<5>>
User == <<6>>
MCServices == [s \in {User} |-> {<<7>>}]

\* zero is serialized to nothing, as protobuf does; small holds both separators;
\* big fits into a response but not with an error, and into no request; long
\* wraps by its own length.
MCEncoded == [zero |-> <<>>, small |-> <<7, CR, NL>>, big |-> Text(6, 54), long |-> Text(7, 66)]

MCNotFound == <<6, 1>>
MCUnsupported == <<6, 2>>
MCGarbled == <<6, 3>>

Req(method, meta, v) ==
  [service |-> User, method |-> method, meta |-> meta, compresser |-> 1, serializer |-> 1,
   data |-> MCEncoded[v]]
NoMeta == [k \in {} |-> <<>>]
Deadline == [k \in {MCKeyD} |-> <<7, 2>>]

MCCalls ==
  {Req(<<7>>, NoMeta, "zero"), Req(<<7>>, Deadline, "small"),
   Req(<<7>>, [k \in {MCKeyD, MCKeyO} |-> IF k = MCKeyO THEN MCTrue ELSE <<7>>], "small"),
   Req(<<3>>, NoMeta, "small"),
   Req(<<7>>, Deadline, "big"), Req(<<7>>, NoMeta, "long"),
   [Req(<<7>>, NoMeta, "small") EXCEPT !.service = <<3>>],
   [Req(<<7>>, NoMeta, "small") EXCEPT !.service = <<6, NL>>],
   [Req(<<7>>, NoMeta, "small") EXCEPT !.serializer = 2]}

Answer(val, failed, text) == [val |-> val, failed |-> failed, text |-> text]
MCAnswers ==
  {Answer("small", FALSE, <<>>), Answer("zero", FALSE, <<>>), Answer("small", TRUE, <<5, NL>>),
   Answer(Nothing, TRUE, <<5>>), Answer(Nothing, TRUE, <<>>),
   Answer("big", FALSE, <<>>), Answer("big", TRUE, <<5>>), Answer("long", FALSE, <<>>)}

=============================================================================
