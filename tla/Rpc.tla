-------------------------------- MODULE Rpc --------------------------------
(***************************************************************************)
(* Calls of rpc/client.go to a server of rpc/server.go.                    *)
(*                                                                         *)
(* Each call runs in two goroutines of the client, Invoke and the one that *)
(* runs doInvoke ("the worker"), joined by an unbuffered channel that      *)
(* Invoke closes when it returns.  The worker borrows a connection from a  *)
(* pool; the server has one goroutine per connection.  Requests and        *)
(* responses carry no usable identifier: that an answer belongs to a call  *)
(* follows only from the order of messages on the borrowed connection.     *)
(*                                                                         *)
(* Messages arrive whole.  The pool is a library: its Get and Put are      *)
(* atomic here.                                                            *)
(***************************************************************************)
EXTENDS Integers, Sequences, FiniteSets, Functions

CONSTANTS
  NumCalls,  \* bound: calls made, numbered in the order they begin
  Kinds,     \* the kinds of calls that are made, see below
  NumConns,  \* bound: connections that exist at a time, closed ones with unread requests included
  MaxCap,    \* 30: connections that the pool opens
  MaxIdle    \* 10: connections that the pool keeps

\* "plain": with context.Background(); "deadline": with a context that ends;
\* "unknown": to a service the server does not have; "nomethod": to a method
\* the service does not have; "oneway" and "onewayUnknown": with CtxWithOneway,
\* to a service the server has and to one it does not have.
AllKinds == {"plain", "deadline", "unknown", "nomethod", "oneway", "onewayUnknown"}

ASSUME RpcAssumption ==
  /\ NumCalls \in Nat /\ NumConns \in Nat /\ MaxCap \in Nat /\ MaxIdle \in Nat
  /\ 1 <= MaxIdle /\ MaxIdle <= MaxCap /\ MaxCap <= NumConns
  /\ Kinds \subseteq AllKinds

Calls == 1..NumCalls
Conns == 1..NumConns
None == 0  \* no connection; no call

VARIABLES
  kind,       \* the kind of each call that has begun
  invoke,     \* where Invoke is; it has closed the channel when "returned"
  result,     \* what Invoke returns
  worker,     \* where the worker is
  conn,       \* the connection it has borrowed
  got,        \* its variables resp and err
  clientDown, \* a panic has ended the client
  idle,       \* the pool's idle connections, in the order they were put back
  waiters,    \* the workers the pool keeps waiting
  opening,    \* the pool's count of open connections
  requests,   \* per connection: requests the server has not read
  responses,  \* per connection: responses the client has not read
  serving,    \* per connection: the call whose service has run, not answered yet
  executed,   \* how often the service has run for each call
  serverDown  \* a panic has ended the server

clientVars == <<kind, invoke, result, worker, conn, got, clientDown>>
callVars   == <<kind, invoke, result>>
poolVars   == <<idle, waiters, opening>>
netVars    == <<requests, responses>>
serverVars == <<serving, executed, serverDown>>
vars       == <<clientVars, poolVars, netVars, serverVars>>

Answer(c, what) == [of |-> c, what |-> what]
Uncalled == Answer(None, "uncalled")
Pending  == Answer(None, "pending")
Failed   == Answer(None, "failed")
Expired  == Answer(None, "expired")
Answers  == {Uncalled, Pending, Failed, Expired} \union [of : Calls, what : {"value", "refused"}]

Init ==
  /\ kind = [c \in Calls |-> "none"]
  /\ invoke = [c \in Calls |-> "new"]
  /\ result = [c \in Calls |-> Uncalled]
  /\ worker = [c \in Calls |-> "none"]
  /\ conn = [c \in Calls |-> None]
  /\ got = [c \in Calls |-> Pending]
  /\ clientDown = FALSE
  /\ idle = <<1>>
  /\ waiters = << >>
  /\ opening = 1
  /\ requests = [k \in Conns |-> << >>]
  /\ responses = [k \in Conns |-> << >>]
  /\ serving = [k \in Conns |-> None]
  /\ executed = [c \in Calls |-> 0]
  /\ serverDown = FALSE

-----------------------------------------------------------------------------
(* Invoke *)

\* A call whose context is done already does not start a worker.
Invoke(c, k) ==
  /\ ~clientDown
  /\ invoke[c] = "new"
  /\ \A d \in 1..(c - 1) : invoke[d] # "new"
  /\ kind' = [kind EXCEPT ![c] = k]
  /\ \/ /\ k = "deadline"
        /\ invoke' = [invoke EXCEPT ![c] = "returned"]
        /\ result' = [result EXCEPT ![c] = Expired]
        /\ UNCHANGED worker
     \/ /\ invoke' = [invoke EXCEPT ![c] = "waiting"]
        /\ result' = [result EXCEPT ![c] = Pending]
        /\ worker' = [worker EXCEPT ![c] = "get"]
  /\ UNCHANGED <<conn, got, clientDown, poolVars, netVars, serverVars>>

\* The context is done: its deadline has passed, or the caller has cancelled it.
\* It may be done long before; when an answer is there too, select takes either.
SelectDone(c) ==
  /\ ~clientDown
  /\ invoke[c] = "waiting"
  /\ kind[c] = "deadline"
  /\ invoke' = [invoke EXCEPT ![c] = "returned"]
  /\ result' = [result EXCEPT ![c] = Failed]
  /\ UNCHANGED <<kind, worker, conn, got, clientDown, poolVars, netVars, serverVars>>

SelectAnswer(c) ==
  /\ ~clientDown
  /\ invoke[c] = "waiting"
  /\ worker[c] = "send"
  /\ invoke' = [invoke EXCEPT ![c] = "returned"]
  /\ result' = [result EXCEPT ![c] = got[c]]
  /\ worker' = [worker EXCEPT ![c] = "ended"]
  /\ got' = [got EXCEPT ![c] = Pending]
  /\ UNCHANGED <<kind, conn, clientDown, poolVars, netVars, serverVars>>

\* The worker's send on a channel that Invoke has closed panics.
SendOnClosed(c) ==
  /\ ~clientDown
  /\ invoke[c] = "returned"
  /\ worker[c] = "send"
  /\ clientDown' = TRUE
  /\ UNCHANGED <<callVars, worker, conn, got, poolVars, netVars, serverVars>>

-----------------------------------------------------------------------------
(* The pool *)

\* The worker goes on with connection k.
Borrow(c, k) ==
  /\ worker' = [worker EXCEPT ![c] = "write"]
  /\ conn' = [conn EXCEPT ![c] = k]

GetIdle(c) ==
  /\ ~clientDown
  /\ worker[c] = "get"
  /\ idle # << >>
  /\ Borrow(c, Head(idle))
  /\ idle' = Tail(idle)
  /\ UNCHANGED <<callVars, got, clientDown, waiters, opening, netVars, serverVars>>

\* A connection that was idle for more than a minute is closed; Get goes on
\* with the next.
GetTooOld(c) ==
  /\ ~clientDown
  /\ worker[c] = "get"
  /\ idle # << >>
  /\ idle' = Tail(idle)
  /\ opening' = opening - 1
  /\ UNCHANGED <<clientVars, waiters, netVars, serverVars>>

Open == Range(idle) \union {conn[c] : c \in Calls}
Fresh == {k \in Conns \ Open : requests[k] = << >> /\ serving[k] = None}

GetDials(c) ==
  /\ ~clientDown
  /\ worker[c] = "get"
  /\ idle = << >>
  /\ opening < MaxCap
  /\ ~serverDown
  /\ Fresh # {}
  /\ LET k == CHOOSE k \in Fresh : \A l \in Fresh : k <= l
     IN  Borrow(c, k) /\ responses' = [responses EXCEPT ![k] = << >>]
  /\ opening' = opening + 1
  /\ UNCHANGED <<callVars, got, clientDown, idle, waiters, requests, serverVars>>

GetFails(c) ==
  /\ ~clientDown
  /\ worker[c] = "get"
  /\ idle = << >>
  /\ opening < MaxCap
  /\ serverDown
  /\ worker' = [worker EXCEPT ![c] = "send"]
  /\ got' = [got EXCEPT ![c] = Failed]
  /\ UNCHANGED <<callVars, conn, clientDown, poolVars, netVars, serverVars>>

GetWaits(c) ==
  /\ ~clientDown
  /\ worker[c] = "get"
  /\ idle = << >>
  /\ opening >= MaxCap
  /\ worker' = [worker EXCEPT ![c] = "queued"]
  /\ waiters' = Append(waiters, c)
  /\ UNCHANGED <<callVars, conn, got, clientDown, idle, opening, netVars, serverVars>>

\* Mutant of Put: a worker that has got an error keeps the connection.
PutOnSuccess(c) ==
  /\ ~clientDown
  /\ worker[c] = "put"
  /\ IF waiters # << >>
       THEN LET w == Head(waiters)
            IN  /\ waiters' = Tail(waiters)
                /\ worker' = [worker EXCEPT ![c] = "send", ![w] = "write"]
                /\ conn' = [conn EXCEPT ![c] = IF got[c] = Failed THEN @ ELSE None, ![w] = conn[c]]
                /\ UNCHANGED <<idle, opening>>
       ELSE /\ worker' = [worker EXCEPT ![c] = "send"]
            /\ conn' = [conn EXCEPT ![c] = IF got[c] = Failed THEN @ ELSE None]
            /\ idle' = IF got[c] # Failed /\ Len(idle) < MaxIdle THEN Append(idle, conn[c]) ELSE idle
            /\ UNCHANGED <<waiters, opening>>
  /\ UNCHANGED <<callVars, got, clientDown, netVars, serverVars>>

\* Mutant of Put: the error path closes a connection that is put back as well.
PutAndClose(c) ==
  /\ ~clientDown
  /\ worker[c] = "put"
  /\ worker' = [worker EXCEPT ![c] = "send"]
  /\ conn' = [conn EXCEPT ![c] = None]
  /\ idle' = IF Len(idle) < MaxIdle THEN Append(idle, conn[c]) ELSE idle
  /\ opening' = IF Len(idle) < MaxIdle /\ got[c] # Failed THEN opening ELSE opening - 1
  /\ UNCHANGED <<callVars, got, clientDown, waiters, netVars, serverVars>>

\* The deferred Put, whatever has happened to the connection: it goes to the
\* first waiter, or becomes idle, or is closed.
Put(c) ==
  /\ ~clientDown
  /\ worker[c] = "put"
  /\ IF waiters # << >>
       THEN LET w == Head(waiters)
            IN  /\ waiters' = Tail(waiters)
                /\ worker' = [worker EXCEPT ![c] = "send", ![w] = "write"]
                /\ conn' = [conn EXCEPT ![c] = None, ![w] = conn[c]]
                /\ UNCHANGED <<idle, opening>>
       ELSE /\ worker' = [worker EXCEPT ![c] = "send"]
            /\ conn' = [conn EXCEPT ![c] = None]
            /\ IF Len(idle) < MaxIdle
                 THEN idle' = Append(idle, conn[c]) /\ UNCHANGED opening
                 ELSE opening' = opening - 1 /\ UNCHANGED idle
            /\ UNCHANGED waiters
  /\ UNCHANGED <<callVars, got, clientDown, netVars, serverVars>>

-----------------------------------------------------------------------------
(* send: what the worker does with its connection *)

IsOneway(c) == kind[c] \in {"oneway", "onewayUnknown"}

\* A oneway call does not wait for a response: its result is an error.
Write(c) ==
  /\ ~clientDown
  /\ worker[c] = "write"
  /\ requests' = IF serverDown THEN requests ELSE [requests EXCEPT ![conn[c]] = Append(@, c)]
  /\ IF IsOneway(c)
       THEN /\ worker' = [worker EXCEPT ![c] = "put"]
            /\ got' = [got EXCEPT ![c] = Failed]
       ELSE /\ worker' = [worker EXCEPT ![c] = "read"]
            /\ UNCHANGED got
  /\ UNCHANGED <<callVars, conn, clientDown, poolVars, responses, serverVars>>

\* The connection is broken when the server is down; what the server has sent
\* before is read first.
Breaks(c) ==
  /\ ~clientDown
  /\ serverDown
  /\ worker[c] = "write" \/ (worker[c] = "read" /\ responses[conn[c]] = << >>)
  /\ worker' = [worker EXCEPT ![c] = "put"]
  /\ got' = [got EXCEPT ![c] = Failed]
  /\ UNCHANGED <<callVars, conn, clientDown, poolVars, netVars, serverVars>>

\* Mutant of Read: the worker leaves when its caller has left.
ReadOrLeave(c) ==
  /\ ~clientDown
  /\ worker[c] = "read"
  /\ worker' = [worker EXCEPT ![c] = "put"]
  /\ \/ /\ responses[conn[c]] # << >>
        /\ got' = [got EXCEPT ![c] = Head(responses[conn[c]])]
        /\ responses' = [responses EXCEPT ![conn[c]] = Tail(@)]
     \/ /\ invoke[c] = "returned"
        /\ got' = [got EXCEPT ![c] = Failed]
        /\ UNCHANGED responses
  /\ UNCHANGED <<callVars, conn, clientDown, poolVars, requests, serverVars>>

Read(c) ==
  /\ ~clientDown
  /\ worker[c] = "read"
  /\ responses[conn[c]] # << >>
  /\ worker' = [worker EXCEPT ![c] = "put"]
  /\ got' = [got EXCEPT ![c] = Head(responses[conn[c]])]
  /\ responses' = [responses EXCEPT ![conn[c]] = Tail(@)]
  /\ UNCHANGED <<callVars, conn, clientDown, poolVars, requests, serverVars>>

-----------------------------------------------------------------------------
(* The server: handleConn for each connection *)

\* Server.Invoke looks the service up before it looks at oneway.
Known(c) == kind[c] \notin {"unknown", "onewayUnknown"}

\* The handler of connection k, not at work on a request, has another one.
Ready(k) == ~serverDown /\ serving[k] = None /\ requests[k] # << >>

\* Mutant of Execute: the request stays in the handler's buffer.
ExecuteKept(k) ==
  LET c == Head(requests[k])
  IN  /\ Ready(k)
      /\ kind[c] \in {"plain", "deadline"}
      /\ executed[c] < 2
      /\ serving' = [serving EXCEPT ![k] = c]
      /\ executed' = [executed EXCEPT ![c] = @ + 1]
      /\ UNCHANGED <<clientVars, poolVars, netVars, serverDown>>

\* The service runs, however long that takes.
Execute(k) ==
  LET c == Head(requests[k])
  IN  /\ Ready(k)
      /\ kind[c] \in {"plain", "deadline"}
      /\ requests' = [requests EXCEPT ![k] = Tail(@)]
      /\ serving' = [serving EXCEPT ![k] = c]
      /\ executed' = [executed EXCEPT ![c] = @ + 1]
      /\ UNCHANGED <<clientVars, poolVars, responses, serverDown>>

Reply(k) ==
  /\ ~serverDown
  /\ serving[k] # None
  /\ responses' = [responses EXCEPT ![k] = Append(@, Answer(serving[k], "value"))]
  /\ serving' = [serving EXCEPT ![k] = None]
  /\ UNCHANGED <<clientVars, poolVars, requests, executed, serverDown>>

Refuse(k) ==
  LET c == Head(requests[k])
  IN  /\ Ready(k)
      /\ ~Known(c)
      /\ requests' = [requests EXCEPT ![k] = Tail(@)]
      /\ responses' = [responses EXCEPT ![k] = Append(@, Answer(c, "refused"))]
      /\ UNCHANGED <<clientVars, poolVars, serverVars>>

\* The handler panics: for a oneway call Invoke returns no response, to which
\* line 105 assigns; a method that is not there is the zero reflect.Value.  The
\* goroutine that runs the oneway call races the panic.  What the process has
\* not read or written goes with it; responses it has sent may still be read.
Die(k) ==
  LET c == Head(requests[k])
  IN  /\ Ready(k)
      /\ kind[c] \in {"oneway", "nomethod"}
      /\ serverDown' = TRUE
      /\ \/ UNCHANGED executed
         \/ kind[c] = "oneway" /\ executed' = [executed EXCEPT ![c] = @ + 1]
      /\ requests' = [l \in Conns |-> << >>]
      /\ serving' = [l \in Conns |-> None]
      /\ UNCHANGED <<clientVars, poolVars, responses>>

-----------------------------------------------------------------------------
Select(c) == SelectDone(c) \/ SelectAnswer(c)
Get(c) == GetIdle(c) \/ GetTooOld(c) \/ GetDials(c) \/ GetFails(c) \/ GetWaits(c)
Work(c) == Get(c) \/ Write(c) \/ Read(c) \/ Breaks(c) \/ Put(c) \/ SendOnClosed(c)
Handle(k) == Execute(k) \/ Reply(k) \/ Refuse(k) \/ Die(k)

Next ==
  \/ \E c \in Calls : (\E k \in Kinds : Invoke(c, k)) \/ Select(c) \/ Work(c)
  \/ \E k \in Conns : Handle(k)

\* The goroutines of a call that has begun and the handlers of the server go
\* on: services return, and the network delivers or reports its failure.  No
\* call need begin and no context need end.
Fairness ==
  /\ \A c \in Calls : WF_vars(Select(c)) /\ WF_vars(Work(c))
  /\ \A k \in Conns : WF_vars(Handle(k))

Spec == Init /\ [][Next]_vars /\ Fairness

-----------------------------------------------------------------------------
(* Properties *)

TypeOK ==
  /\ kind \in [Calls -> Kinds \union {"none"}]
  /\ invoke \in [Calls -> {"new", "waiting", "returned"}]
  /\ result \in [Calls -> Answers]
  /\ worker \in [Calls -> {"none", "get", "queued", "write", "read", "put", "send", "ended"}]
  /\ conn \in [Calls -> Conns \union {None}]
  /\ \A c \in Calls : conn[c] # None <=> worker[c] \in {"write", "read", "put"}
  /\ got \in [Calls -> Answers]
  /\ clientDown \in BOOLEAN
  /\ idle \in Seq(Conns) /\ waiters \in Seq(Calls) /\ opening \in Nat
  /\ requests \in [Conns -> Seq(Calls)]
  /\ responses \in [Conns -> Seq(Answers)]
  /\ serving \in [Conns -> Calls \union {None}]
  /\ executed \in [Calls -> Nat]
  /\ serverDown \in BOOLEAN

\* A connection is held by one worker, or idle once, or closed; the pool counts
\* exactly the open ones, and neither limit of NewClient is exceeded.  This is
\* what the single deferred Put of send has to keep up, on its error paths too.
ConnsAccounted ==
  LET Holders(k) == {c \in Calls : conn[c] = k}
      Places(k) == {i \in DOMAIN idle : idle[i] = k}
  IN  /\ \A k \in Conns : Cardinality(Holders(k)) + Cardinality(Places(k)) <= 1
      /\ opening = Cardinality(Open \ {None})
      /\ opening <= MaxCap /\ Len(idle) <= MaxIdle

\* A connection that the pool keeps has no response under way to it: the answer
\* a worker reads next is the answer to its own request.  (Calls that timed out
\* included: their workers stay on the connection until the answer is there.)
QuietWhenIdle ==
  \A i \in DOMAIN idle :
    LET k == idle[i]
        underway == Range(requests[k]) \union ({serving[k]} \ {None})
    IN  ~serverDown => responses[k] = << >> /\ \A c \in underway : IsOneway(c)

\* Every call returns and its worker ends, whether its connection breaks, the
\* server dies, or it has to wait for other calls (also those whose callers have
\* left) to give their connections back; unless a late answer ends the client.
CallsEnd ==
  \A c \in Calls :
    invoke[c] = "waiting" ~> (invoke[c] = "returned" /\ worker[c] = "ended") \/ clientDown

\* The whole implements the promise of a remote call: at most one execution,
\* and no caller gets anything but the answer to its own request.
Promise == INSTANCE RemoteCall WITH outcome <- result
ImplementsRemoteCall == Promise!Spec

=============================================================================
