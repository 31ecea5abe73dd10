-------------------------------- MODULE Wire --------------------------------
(***************************************************************************)
(* One connection of rpc, byte by byte: what a call of the proxy writes,    *)
(* how ReadMsg cuts the stream into messages at either end, and what the    *)
(* caller is told of what the service did.                                  *)
(*                                                                         *)
(* A byte is a number below Base and a length takes FieldBytes of them, so  *)
(* a length is a number modulo Width; the program has 256, 4 and 2^32.      *)
(* The request id and the version, which the program leaves at zero, are    *)
(* zeros of the header.  A panic ends the process: nothing recovers it.     *)
(***************************************************************************)
EXTENDS Integers, Sequences, SequencesExt, FiniteSets

CONSTANTS Base, FieldBytes,
          NL, CR,            \* '\n' and '\r'
          DeadlineKey, OnewayKey, TrueText,
          Services,          \* the methods of each registered service
          Codecs,            \* the codes of the registered serializers
          Compressors,       \* and those of the registered compressions
          Values, Zero,      \* what is sent and returned; the zero value of a type
          Encoded,           \* serialized and compressed
          NotFound, Unsupported, Garbled,  \* the errors' texts
          Calls, Answers,    \* the calls of the application, the results of the service
          MaxCalls

Power[n \in 0..FieldBytes] == IF n = 0 THEN 1 ELSE Power[n - 1] * Base
Width == Power[FieldBytes]
Fixed == 3 * FieldBytes + 3

Bytes == 0..(Base - 1)
Nothing == "nothing"  \* no value

IsRequest(req) ==
  /\ req = [service |-> req.service, method |-> req.method, meta |-> req.meta,
            compresser |-> req.compresser, serializer |-> req.serializer, data |-> req.data]
  /\ {req.service, req.method, req.data} \subseteq Seq(Bytes)
  /\ {req.compresser, req.serializer} \subseteq Bytes
  /\ IsFiniteSet(DOMAIN req.meta) /\ req.meta \in [DOMAIN req.meta -> Seq(Bytes)]
  /\ \A k \in DOMAIN req.meta : k \in Seq(Bytes)

IsAnswer(a) ==
  /\ a.val \in Values \union {Nothing} /\ a.failed \in BOOLEAN /\ a.text \in Seq(Bytes)
  /\ a.text # <<>> => a.failed

\* Only the zero value is serialized to nothing: what a call returns when there
\* are no data.
ASSUME WireAssumption ==
  /\ Base \in Nat \ {0, 1} /\ FieldBytes \in Nat \ {0} /\ Fixed < Width
  /\ NL \in Bytes /\ CR \in Bytes /\ NL # CR
  /\ Zero \in Values /\ Nothing \notin Values
  /\ \A v \in Values : Encoded[v] \in Seq(Bytes) /\ (Encoded[v] = <<>> => v = Zero)
  /\ \A v, w \in Values : Encoded[v] = Encoded[w] => v = w
  /\ {NotFound, Unsupported, Garbled} \subseteq Seq(Bytes)
  /\ (\A req \in Calls : IsRequest(req)) /\ (\A a \in Answers : IsAnswer(a))
  /\ MaxCalls \in Nat

Ends == {"server", "client"}

VARIABLES inbox,          \* the bytes on their way to each end
          reader,         \* what each end does, the bytes and the size it has read
          heard,          \* the last message each end has decoded
          sent,           \* the requests written and not yet answered
          served, told,   \* the last answer of the server; what the caller was told
          short, calls    \* a Read has been short; calls made

vars == <<inbox, reader, heard, sent, served, told, short, calls>>

Unheard == [data |-> <<>>]
Untold == [val |-> Nothing, failed |-> FALSE, text |-> <<>>]
Ready(pc) == [pc |-> pc, bytes |-> <<>>, size |-> 0]

Init ==
  /\ inbox = [e \in Ends |-> <<>>]
  /\ reader = [server |-> Ready("length"), client |-> Ready("idle")]
  /\ heard = [e \in Ends |-> Unheard]
  /\ sent = <<>> /\ served = Untold /\ told = Untold
  /\ short = FALSE /\ calls = 0

-----------------------------------------------------------------------------
(* Numbers and slices *)

Field(n) ==
  LET shifted[i \in 0..FieldBytes] == IF i = 0 THEN n ELSE shifted[i - 1] \div Base
  IN  [i \in 1..FieldBytes |-> shifted[FieldBytes - i] % Base]
Number(bs) ==
  LET upTo[i \in 0..Len(bs)] == IF i = 0 THEN 0 ELSE upTo[i - 1] * Base + bs[i]
  IN  upTo[Len(bs)]
Zeros(n) == [i \in 1..n |-> 0]
Padded(bs, n) == [i \in 1..n |-> IF i <= Len(bs) THEN bs[i] ELSE 0]
From(bs, n) == SubSeq(bs, n + 1, Len(bs))

\* Where a byte is found first, 0 if nowhere.
Index(bs, byte) == SelectInSeq(bs, LAMBDA b : b = byte)

\* One line is cut off, as long as there is a separator.
CutLine(l) ==
  LET index == Index(l.rest, NL)
  IN  IF index = 0 THEN l
      ELSE [lines |-> Append(l.lines, SubSeq(l.rest, 1, index - 1)), rest |-> From(l.rest, index)]

\* The lines of a header, without the separators that end them.
Lines(bs) ==
  LET after[n \in 0..Len(bs)] ==
        IF n = 0 THEN [lines |-> <<>>, rest |-> bs] ELSE CutLine(after[n - 1])
  IN  after[Len(bs)].lines

\* A pair of the metadata, cut at its first '\r', which stands at Cut.
Cut(pair) == Index(pair, CR)
Key(pair) == SubSeq(pair, 1, Cut(pair) - 1)
ValueIn(pair) == From(pair, Cut(pair))

-----------------------------------------------------------------------------
(* Messages *)

BodyLength(m) == Len(m.data) % Width

Header(head, m) ==
  Field(head) \o Field(BodyLength(m)) \o Zeros(FieldBytes) \o <<0, m.compresser, m.serializer>>

\* A message is a slice of the announced length, into which its header and data
\* are copied.  A header that does not fit panics; data are cut off.
Frame(head, header, data) ==
  LET length == (head + Len(data)) % Width
  IN  [panics |-> length < Len(header), bytes |-> Padded(header \o data, length)]

\* The lines of a header: the metadata come in the order of an iteration over a map.
Pairs(meta, order) == [n \in 1..Len(order) |-> order[n] \o <<CR>> \o meta[order[n]]]
Written(req, order) == <<req.service, req.method>> \o Pairs(req.meta, order)

\* What follows the fixed part of a request's header: each line with its separator.
Ended(lines) ==
  LET upTo[n \in 0..Len(lines)] == IF n = 0 THEN <<>> ELSE upTo[n - 1] \o lines[n] \o <<NL>>
  IN  upTo[Len(lines)]
Names(req, order) == Ended(Written(req, order))

ReqHeadLength(req, order) == (Fixed + Len(Names(req, order))) % Width

EncodeReq(req, order) ==
  Frame(ReqHeadLength(req, order),
        Header(ReqHeadLength(req, order), req) \o Names(req, order), req.data)

HeadOf(bs) == Number(SubSeq(bs, 1, FieldBytes))
BodyOf(bs) == Number(SubSeq(bs, FieldBytes + 1, 2 * FieldBytes))

\* Mutant of Announced: the sum is wider than a length.
AnnouncedWide(lens) == HeadOf(lens) + BodyOf(lens)

\* The sum of two lengths is a length again: it wraps.
Announced(lens) == (HeadOf(lens) + BodyOf(lens)) % Width

DataOf(bs) == IF BodyOf(bs) = 0 THEN <<>> ELSE From(bs, HeadOf(bs))

\* Mutant of LinesOf: the separators are searched in the data, too.
LinesOfAll(bs) == Lines(From(bs, Fixed))

LinesOf(bs) == Lines(SubSeq(bs, Fixed + 1, HeadOf(bs)))

\* Mutant of DecodeReqPanics: a request without metadata panics.
DecodeReqPanicsBare(bs) ==
  \/ Len(bs) < Fixed \/ HeadOf(bs) < Fixed \/ HeadOf(bs) > Len(bs)
  \/ Len(LinesOf(bs)) < 3
  \/ \E n \in 3..Len(LinesOf(bs)) : Cut(LinesOf(bs)[n]) = 0

\* A slice out of bounds: a length, or a separator that is not there.
DecodeReqPanics(bs) ==
  \/ Len(bs) < Fixed \/ HeadOf(bs) < Fixed \/ HeadOf(bs) > Len(bs)
  \/ Len(LinesOf(bs)) < 2
  \/ \E n \in 3..Len(LinesOf(bs)) : Cut(LinesOf(bs)[n]) = 0

\* Of two pairs with one key the later is kept.
MetaOf(pairs) ==
  [k \in {Key(pairs[n]) : n \in DOMAIN pairs} |->
     ValueIn(pairs[Max({n \in DOMAIN pairs : Key(pairs[n]) = k})])]

DecodeReq(bs) ==
  [service |-> LinesOf(bs)[1], method |-> LinesOf(bs)[2], meta |-> MetaOf(From(LinesOf(bs), 2)),
   compresser |-> bs[Fixed - 1], serializer |-> bs[Fixed], data |-> DataOf(bs)]

\* Mutant of RespHeadLength: the text of the error is not counted.
RespHeadLengthBare(resp) == Fixed

RespHeadLength(resp) == (Fixed + Len(resp.error)) % Width

EncodeResp(resp) ==
  Frame(RespHeadLength(resp),
        Header(RespHeadLength(resp), resp) \o resp.error, resp.data)

DecodeRespPanics(bs) == Len(bs) < Fixed \/ HeadOf(bs) > Len(bs)

DecodeResp(bs) ==
  [error |-> SubSeq(bs, Fixed + 1, HeadOf(bs)),
   compresser |-> bs[Fixed - 1], serializer |-> bs[Fixed], data |-> DataOf(bs)]

\* Decompressed and deserialized: no value where either fails.
Decoded(data) ==
  IF \E v \in Values : Encoded[v] = data THEN CHOOSE v \in Values : Encoded[v] = data ELSE Nothing

-----------------------------------------------------------------------------
(* ReadMsg, at either end: one Read for the lengths, one for the rest *)

\* A Read returns what it asks for or less.  One Read of a behaviour is made
\* shorter than the stream allows.
Sizes(available, wanted) ==
  LET most == Min({available, wanted}) IN IF short \/ most = 0 THEN {most} ELSE 1..most

Read(e, wanted, n) ==
  /\ wanted = 0 \/ n > 0
  /\ inbox' = [inbox EXCEPT ![e] = From(@, n)]
  /\ short' = (short \/ n < wanted)

ReadLengths(e) ==
  /\ reader[e].pc = "length"
  /\ \E n \in Sizes(Len(inbox[e]), 2 * FieldBytes) :
       LET lens == Padded(SubSeq(inbox[e], 1, n), 2 * FieldBytes)
       IN  /\ Read(e, 2 * FieldBytes, n)
           /\ reader' = [reader EXCEPT ![e] =
                [pc |-> IF Announced(lens) < 2 * FieldBytes THEN "dead" ELSE "rest",
                 bytes |-> lens, size |-> Announced(lens)]]
  /\ UNCHANGED <<heard, sent, served, told, calls>>

ReadRest(e) ==
  LET wanted == reader[e].size - 2 * FieldBytes
  IN  /\ reader[e].pc = "rest"
      /\ \E n \in Sizes(Len(inbox[e]), wanted) :
           /\ Read(e, wanted, n)
           /\ reader' = [reader EXCEPT ![e] =
                [pc |-> "decode", bytes |-> @.bytes \o Padded(SubSeq(inbox[e], 1, n), wanted),
                 size |-> @.size]]
      /\ UNCHANGED <<heard, sent, served, told, calls>>

Dies(e) == reader' = [reader EXCEPT ![e] = Ready("dead")]

-----------------------------------------------------------------------------
(* The client *)

IsOneway(req) == OnewayKey \in DOMAIN req.meta /\ req.meta[OnewayKey] = TrueText

\* The function the proxy has set for a method, up to the request written.  A
\* one-way call returns at once.
Call(req) ==
  /\ reader.client.pc = "idle" /\ reader.server.pc # "dead"
  /\ calls < MaxCalls
  /\ calls' = calls + 1
  /\ sent' = Append(sent, req)
  /\ told' = Untold
  /\ \E order \in SetToSeqs(DOMAIN req.meta) :
       LET f == EncodeReq(req, order)
       IN  /\ IF f.panics THEN Dies("client")
              ELSE reader' = [reader EXCEPT !.client = Ready(IF IsOneway(req) THEN "idle" ELSE "length")]
           /\ inbox' = IF f.panics THEN inbox ELSE [inbox EXCEPT !.server = @ \o f.bytes]
  /\ UNCHANGED <<heard, served, short>>

Told(val, failed, text) ==
  /\ reader' = [reader EXCEPT !.client = Ready("idle")]
  /\ told' = [val |-> val, failed |-> failed, text |-> text]

\* Data that cannot be decoded hide the error that came with them.
TellCaller(resp) ==
  /\ heard' = [heard EXCEPT !.client = resp]
  /\ IF resp.data # <<>> /\ Decoded(resp.data) = Nothing THEN Told(Zero, TRUE, Garbled)
     ELSE Told(IF resp.data = <<>> THEN Zero ELSE Decoded(resp.data), resp.error # <<>>, resp.error)

Receive ==
  /\ reader.client.pc = "decode"
  /\ IF DecodeRespPanics(reader.client.bytes)
     THEN Dies("client") /\ UNCHANGED <<heard, told>>
     ELSE TellCaller(DecodeResp(reader.client.bytes))
  /\ UNCHANGED <<inbox, sent, served, short, calls>>

\* The server is gone: Read returns an error.
ConnectionLost ==
  /\ reader.server.pc = "dead" /\ inbox.client = <<>>
  /\ reader.client.pc \in {"length", "rest"}
  /\ Told(Zero, TRUE, <<>>)
  /\ UNCHANGED <<inbox, heard, sent, served, short, calls>>

-----------------------------------------------------------------------------
(* The server *)

Accept ==
  /\ reader.server.pc = "decode"
  /\ IF DecodeReqPanics(reader.server.bytes) THEN Dies("server") /\ UNCHANGED heard
     ELSE /\ heard' = [heard EXCEPT !.server = DecodeReq(reader.server.bytes)]
          /\ reader' = [reader EXCEPT !.server = Ready("serve")]
  /\ UNCHANGED <<inbox, sent, served, told, short, calls>>

Response(req, a) ==
  EncodeResp([error |-> a.text, data |-> IF a.val = Nothing THEN <<>> ELSE Encoded[a.val],
              compresser |-> req.compresser, serializer |-> req.serializer])

\* Mutant of Reply: an error is not answered.
ReplyToSuccess(a) ==
  LET f == Response(heard.server, a)
  IN  /\ served' = a
      /\ sent' = IF f.panics \/ sent = <<>> THEN sent ELSE Tail(sent)
      /\ IF f.panics THEN Dies("server")
         ELSE reader' = [reader EXCEPT !.server = Ready("length")]
      /\ inbox' = IF f.panics \/ a.failed THEN inbox ELSE [inbox EXCEPT !.client = @ \o f.bytes]

\* handleConn writes the answer, with the codes of the request.
Reply(a) ==
  LET f == Response(heard.server, a)
  IN  /\ served' = a
      /\ sent' = IF f.panics \/ sent = <<>> THEN sent ELSE Tail(sent)
      /\ IF f.panics THEN Dies("server")
         ELSE reader' = [reader EXCEPT !.server = Ready("length")]
      /\ inbox' = IF f.panics THEN inbox ELSE [inbox EXCEPT !.client = @ \o f.bytes]

Refusal(text) == [val |-> Nothing, failed |-> TRUE, text |-> text]

\* Server.Invoke and the stub: the results it may have.
Results(req) ==
  CASE req.service \notin DOMAIN Services -> {Refusal(NotFound)}
    [] req.serializer \notin Codecs \/ req.compresser \notin Compressors -> {Refusal(Unsupported)}
    [] Decoded(req.data) = Nothing -> {Refusal(Garbled)}
    [] OTHER -> Answers

\* The response of a one-way request is nil, and a method that is not there has
\* no type: both panic.
ServePanics(req) ==
  /\ req.service \in DOMAIN Services
  /\ IsOneway(req) \/ req.method \notin Services[req.service]

Serve ==
  /\ reader.server.pc = "serve"
  /\ IF ServePanics(heard.server)
     THEN Dies("server") /\ UNCHANGED <<served, sent, inbox>>
     ELSE \E a \in Results(heard.server) : Reply(a)
  /\ UNCHANGED <<heard, told, short, calls>>

-----------------------------------------------------------------------------
Next ==
  \/ \E e \in Ends : ReadLengths(e) \/ ReadRest(e)
  \/ Receive \/ ConnectionLost \/ Accept \/ Serve
  \/ \E req \in Calls : Call(req)

Spec == Init /\ [][Next]_vars

-----------------------------------------------------------------------------
(* Properties *)

States == {"idle", "length", "rest", "decode", "serve", "dead"}

TypeOK ==
  /\ \A e \in Ends :
       /\ inbox[e] \in Seq(Bytes) /\ reader[e].bytes \in Seq(Bytes)
       /\ reader[e].pc \in States /\ reader[e].size \in 0..(Width - 1)
  /\ reader.server.pc # "idle" /\ reader.client.pc # "serve"
  /\ sent \in Seq(Calls)
  /\ {served.val, told.val} \subseteq Values \cup {Nothing}
  /\ short \in BOOLEAN /\ calls \in 0..MaxCalls

Absent(byte, text) == byte \notin ToSet(text)

\* No name, key or value of metadata holds the separator it is cut at.
Legal(req) ==
  /\ Absent(NL, req.service) /\ Absent(NL, req.method)
  /\ \A k \in DOMAIN req.meta : Absent(NL, k) /\ Absent(CR, k) /\ Absent(NL, req.meta[k])

\* The lengths of a message do not wrap.
ReqFits(req) ==
  \A order \in SetToSeqs(DOMAIN req.meta) :
    Fixed + Len(Names(req, order)) + Len(req.data) < Width
RespFits(a) == Fixed + Len(a.text) + (IF a.val = Nothing THEN 0 ELSE Len(Encoded[a.val])) < Width

\* While every Read has returned what it was asked for, the server decodes the
\* requests that were written, whole and in order: whatever bytes their data
\* hold, in whatever order their metadata were written, and whatever requests
\* came before that hold separators or do not fit.
RequestsArrive ==
  reader.server.pc = "serve" /\ ~short /\ Legal(Head(sent)) /\ ReqFits(Head(sent))
    => heard.server = Head(sent)

\* ... and the caller is told what the service answered to it: the value, or the
\* zero value, and the text of the error if it has one.  An error without a text
\* reaches the caller as a success.
CallerTold ==
  reader.client.pc = "idle" /\ reader.server.pc # "dead" /\ told # Untold /\ ~short
    /\ RespFits(served)
  => /\ told.val = IF served.val = Nothing THEN Zero ELSE served.val
     /\ told.text = served.text
     /\ told.failed = (served.failed /\ served.text # <<>>)

\* Neither process panics but for a short Read, a length that wraps, a separator
\* in a name, a one-way call or a method the service does not have.
PanicsExplained ==
  /\ reader.client.pc = "dead" /\ ~short => ~ReqFits(Last(sent)) \/ ~RespFits(served)
  /\ reader.server.pc = "dead" /\ ~short =>
       ~RespFits(served) \/ ~Legal(Head(sent)) \/ ServePanics(Head(sent))

\* An end that waits for bytes waits for what is under way.  A caller that waits
\* has its request in the stream or at the server, or its answer in the stream,
\* or the server is gone and Read fails; and the rest of a message that is
\* announced has been written: no length says more than what follows it.
NoneWaitsInVain ==
  ~short =>
    /\ reader.client.pc \in {"length", "rest"} =>
         inbox.client # <<>> \/ inbox.server # <<>> \/ reader.server.pc # "length"
    /\ \A e \in Ends :
         reader[e].pc = "rest" => Len(inbox[e]) >= reader[e].size - 2 * FieldBytes

=============================================================================
