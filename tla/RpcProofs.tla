------------------------------ MODULE RpcProofs ------------------------------
(***************************************************************************)
(* Theorems about Rpc, for any number of calls and connections and any     *)
(* limits of the pool.                                                     *)
(*                                                                         *)
(* PoolInv is the part of the inductive invariant that the pool keeps up   *)
(* by itself, whatever is called and whatever the server does.  CallInv    *)
(* and LineInv add what each call and each connection are in the middle    *)
(* of; they hold when no oneway call goes to a service that the server     *)
(* does not have, the call that MCRpcOneway shows to break the order of    *)
(* answers.                                                                *)
(***************************************************************************)
EXTENDS Rpc, DataLemmas, FiniteSetTheorems, SequenceTheorems, TLAPS

-----------------------------------------------------------------------------
(* The pool *)


\* The workers that the pool keeps waiting, each once; a call that has not begun
\* has no worker.
WaitersQueued ==
  /\ \A i \in DOMAIN waiters : worker[waiters[i]] = "queued"
  /\ \A i, j \in DOMAIN waiters : waiters[i] = waiters[j] => i = j
  /\ \A c \in Calls : invoke[c] = "new" => worker[c] = "none" /\ kind[c] = "none"

\* No connection is in two places: with two workers, twice in the list of idle
\* ones, or both with a worker and idle.
ConnsApart ==
  /\ \A c, d \in Calls : conn[c] = conn[d] /\ conn[c] # None => c = d
  /\ \A i, j \in DOMAIN idle : idle[i] = idle[j] => i = j
  /\ \A c \in Calls, i \in DOMAIN idle : conn[c] # idle[i]

\* The pool's count is the number of open connections, within its limits.
Counted ==
  /\ opening = Cardinality(Open \ {None})
  /\ opening <= MaxCap /\ Len(idle) <= MaxIdle

PoolInv == TypeOK /\ WaitersQueued /\ ConnsApart /\ Counted

\* Dialling takes a connection that is not in use.
LEMMA FreshChosen ==
  ASSUME Fresh # {}
  PROVE  (CHOOSE k \in Fresh : \A l \in Fresh : k <= l) \in Fresh
<1>1. Fresh \subseteq Nat
  BY RpcAssumption DEF Fresh, Conns
<1>2. \E k \in Fresh : \A l \in Fresh : k <= l
  BY <1>1, Least
<1> QED
  BY <1>2

\* Number 0 stands for no connection and for no call.
LEMMA NoneApart == None \notin Conns /\ None \notin Calls
  BY DEF None, Conns, Calls

\* The open connections can be counted, and there is one when the count is not 0.
LEMMA OpenIsFinite ==
  ASSUME TypeOK
  PROVE  /\ IsFiniteSet(Open \ {None}) /\ Cardinality(Open \ {None}) \in Nat
         /\ \A k \in Open \ {None} : Cardinality(Open \ {None}) > 0
<1>1. Open \ {None} \subseteq Conns
  BY DEF TypeOK, Open, Range
<1>2. IsFiniteSet(Conns)
  BY RpcAssumption, FS_Interval DEF Conns
<1>3. IsFiniteSet(Open \ {None})
  BY <1>1, <1>2, FS_Subset
<1>4. Cardinality(Open \ {None}) \in Nat /\ (Cardinality(Open \ {None}) = 0 => Open \ {None} = {})
  BY <1>3, FS_CardinalityType, FS_EmptySet
<1> QED
  BY <1>3, <1>4

\* The pool never counts below zero when it closes a connection.
LEMMA OneOpen == PoolInv /\ Open \ {None} # {} => opening \in Nat /\ opening > 0
  BY OpenIsFinite DEF PoolInv, Counted

\* The client starts with one connection that the pool has dialled.
LEMMA TypeInit == Init => TypeOK
<1> SUFFICES ASSUME Init PROVE TypeOK
  OBVIOUS
<1> USE DEF Init
<1>1. {Uncalled, Pending, Failed, Expired} \subseteq Answers
  BY DEF Answers
<1>2. 1 \in Conns /\ 1 \in Nat
  BY RpcAssumption DEF Conns
<1>3. idle \in Seq(Conns)
  BY <1>2
<1>4. /\ conn \in [Calls -> Conns \union {None}]
      /\ serving \in [Conns -> Calls \union {None}]
      /\ requests \in [Conns -> Seq(Calls)] /\ responses \in [Conns -> Seq(Answers)]
      /\ waiters \in Seq(Calls)
  OBVIOUS
<1> QED
  BY <1>1, <1>2, <1>3, <1>4 DEF TypeOK

\* The types need the queue of waiters: Put gives the connection to a worker that
\* waits for one, and to no other.
LEMMA TypeStep == PoolInv /\ [Next]_vars => TypeOK'
<1> SUFFICES ASSUME PoolInv, [Next]_vars PROVE TypeOK'
  OBVIOUS
<1> USE RpcAssumption DEF TypeOK
<1>0. TypeOK /\ WaitersQueued
  BY DEF PoolInv
<1>1. ASSUME NEW c \in Calls, NEW k \in Kinds, Invoke(c, k) PROVE TypeOK'
  <2>1. {Uncalled, Pending, Failed, Expired} \subseteq Answers
    BY DEF Answers
  <2>2. worker[c] = "none" /\ conn[c] = None
    BY <1>0, <1>1 DEF WaitersQueued, Invoke
  <2> QED
  BY ZenonT(30), <1>0, <1>1, <2>1, <2>2 DEF Invoke, poolVars, netVars, serverVars
<1>2. ASSUME NEW c \in Calls, SelectDone(c) PROVE TypeOK'
  <2>1. {Uncalled, Pending, Failed, Expired} \subseteq Answers
    BY DEF Answers
  <2> QED
  BY <1>0, <1>2, <2>1 DEF SelectDone, poolVars, netVars, serverVars
<1>3. ASSUME NEW c \in Calls, SelectAnswer(c) PROVE TypeOK'
  <2>1. {Uncalled, Pending, Failed, Expired} \subseteq Answers
    BY DEF Answers
  <2> QED
  BY <1>0, <1>3, <2>1 DEF SelectAnswer, poolVars, netVars, serverVars
<1>4. ASSUME NEW c \in Calls, SendOnClosed(c) PROVE TypeOK'
  BY <1>0, <1>4 DEF SendOnClosed, callVars, poolVars, netVars, serverVars
<1>5. ASSUME NEW c \in Calls, GetIdle(c) PROVE TypeOK'
  <2>1. Head(idle) \in Conns /\ Tail(idle) \in Seq(Conns)
    BY <1>0, <1>5 DEF GetIdle
  <2> QED
    BY <1>0, <1>5, <2>1, NoneApart DEF GetIdle, Borrow, callVars, netVars, serverVars
<1>6. ASSUME NEW c \in Calls, GetTooOld(c) PROVE TypeOK'
  <2>1. Head(idle) \in Conns /\ Tail(idle) \in Seq(Conns)
    BY <1>0, <1>6 DEF GetTooOld
  <2>2. Head(idle) \in Open \ {None}
    BY SMTT(30), <1>0, <1>6, <2>1 DEF Open, Range, GetTooOld, Conns, None
  <2>3. opening - 1 \in Nat
    BY OneOpen, <2>2
  <2> QED
    BY <1>0, <1>6, <2>1, <2>3 DEF GetTooOld, clientVars, netVars, serverVars
<1>7. ASSUME NEW c \in Calls, GetDials(c) PROVE TypeOK'
  <2>1. PICK k \in Conns : Borrow(c, k) /\ responses' = [responses EXCEPT ![k] = << >>]
    BY <1>7, FreshChosen DEF GetDials, Fresh
  <2>2. << >> \in Seq(Answers)
    OBVIOUS
  <2>3. responses' \in [Conns -> Seq(Answers)]
    BY <1>0, <2>1, <2>2
  <2>4. conn' = [conn EXCEPT ![c] = k] /\ worker' = [worker EXCEPT ![c] = "write"]
    BY <2>1 DEF Borrow
  <2>5. conn' \in [Calls -> Conns \union {None}]
        /\ \A d \in Calls : conn'[d] # None <=> worker'[d] \in {"write", "read", "put"}
    BY <1>0, <2>4, NoneApart
  <2> QED
    BY <1>0, <1>7, <2>3, <2>4, <2>5 DEF GetDials, callVars, serverVars
<1>8. ASSUME NEW c \in Calls, GetFails(c) PROVE TypeOK'
  <2>1. Failed \in Answers
    BY DEF Answers
  <2> QED
    BY <1>0, <1>8, <2>1 DEF GetFails, callVars, poolVars, netVars, serverVars
<1>9. ASSUME NEW c \in Calls, GetWaits(c) PROVE TypeOK'
  BY <1>0, <1>9 DEF GetWaits, callVars, netVars, serverVars
<1>10. ASSUME NEW c \in Calls, Write(c) PROVE TypeOK'
  <2>1. Failed \in Answers /\ conn[c] \in Conns
    BY <1>0, <1>10 DEF Answers, Write
  <2>2. requests' \in [Conns -> Seq(Calls)]
    BY <1>0, <1>10, <2>1 DEF Write
  <2> QED
    BY ZenonT(30), <1>0, <1>10, <2>1, <2>2 DEF Write, callVars, poolVars, serverVars
<1>11. ASSUME NEW c \in Calls, Read(c) PROVE TypeOK'
  <2>1. conn[c] \in Conns
    BY <1>0, <1>11 DEF Read
  <2>2. responses' \in [Conns -> Seq(Answers)] /\ Head(responses[conn[c]]) \in Answers
    BY <1>0, <1>11, <2>1 DEF Read
  <2> QED
    BY <1>0, <1>11, <2>1, <2>2 DEF Read, callVars, poolVars, serverVars
<1>12. ASSUME NEW c \in Calls, Breaks(c) PROVE TypeOK'
  <2>1. Failed \in Answers
    BY DEF Answers
  <2> QED
    BY <1>0, <1>12, <2>1 DEF Breaks, callVars, poolVars, netVars, serverVars
<1>13. ASSUME NEW c \in Calls, Put(c) PROVE TypeOK'
  <2>1. conn[c] \in Conns
    BY <1>0, <1>13 DEF Put
  <2>2. CASE waiters # << >>
    <3>1. Head(waiters) \in Calls /\ Tail(waiters) \in Seq(Calls) /\ worker[Head(waiters)] = "queued"
      BY <1>0, <2>2 DEF WaitersQueued
    <3> DEFINE w == Head(waiters)
    <3> HIDE DEF w
    <3>2. /\ worker' = [worker EXCEPT ![c] = "send", ![w] = "write"]
          /\ conn' = [conn EXCEPT ![c] = None, ![w] = conn[c]]
          /\ waiters' = Tail(waiters) /\ UNCHANGED <<idle, opening>>
      BY <1>13, <2>2 DEF Put, w
    <3>3. \A d \in Calls : conn'[d] # None <=> worker'[d] \in {"write", "read", "put"}
      BY <1>0, <1>13, <2>1, <3>1, <3>2 DEF Put, Conns, None, w
    <3>4. /\ worker' \in [Calls -> {"none", "get", "queued", "write", "read", "put", "send", "ended"}]
          /\ conn' \in [Calls -> Conns \union {None}]
      BY <1>0, <2>1, <3>2
    <3>5. UNCHANGED <<callVars, got, clientDown, netVars, serverVars>>
      BY <1>13 DEF Put
    <3> QED
      BY <1>0, <3>1, <3>2, <3>3, <3>4, <3>5 DEF callVars, netVars, serverVars, w
  <2>3. CASE waiters = << >>
    <3>1. \A d \in Calls : conn'[d] # None <=> worker'[d] \in {"write", "read", "put"}
      BY ZenonT(30), <1>0, <1>13, <2>3 DEF Put
    <3>2. idle' \in Seq(Conns)
      <4>1. Append(idle, conn[c]) \in Seq(Conns)
        BY <1>0, <2>1
      <4> QED
        BY <1>0, <1>13, <2>3, <4>1 DEF Put
    <3>3. conn[c] \in Open \ {None}
      BY <2>1 DEF Open, Conns, None
    <3>4. opening' \in Nat
      BY <1>0, <1>13, <2>3, <3>3, OneOpen DEF Put
    <3> QED
      BY ZenonT(30), <1>0, <1>13, <2>1, <2>3, <3>1, <3>2, <3>4 DEF Put, callVars, netVars, serverVars
  <2> QED
    BY <2>2, <2>3
<1>14. ASSUME NEW k \in Conns, Execute(k) PROVE TypeOK'
  BY <1>0, <1>14 DEF Execute, Ready, clientVars, poolVars
<1>15. ASSUME NEW k \in Conns, Reply(k) PROVE TypeOK'
  <2>1. Answer(serving[k], "value") \in Answers
    BY <1>0, <1>15 DEF Reply, Answer, Answers
  <2> QED
    BY <1>0, <1>15, <2>1 DEF Reply, clientVars, poolVars
<1>16. ASSUME NEW k \in Conns, Refuse(k) PROVE TypeOK'
  <2>1. Head(requests[k]) \in Calls /\ Tail(requests[k]) \in Seq(Calls)
    BY <1>0, <1>16 DEF Refuse, Ready
  <2>2. Answer(Head(requests[k]), "refused") \in Answers
    BY <2>1 DEF Answer, Answers
  <2> QED
    BY <1>0, <1>16, <2>1, <2>2 DEF Refuse, clientVars, poolVars, serverVars
<1>17. ASSUME NEW k \in Conns, Die(k) PROVE TypeOK'
  <2>1. requests' \in [Conns -> Seq(Calls)] /\ serving' \in [Conns -> Calls \union {None}]
    BY <1>17 DEF Die
  <2>2. executed' \in [Calls -> Nat]
    <3>0. requests[k] # << >> /\ requests[k] \in Seq(Calls)
      BY <1>0, <1>17 DEF Die, Ready
    <3>1. Head(requests[k]) \in Calls
      BY <3>0
    <3>2. executed' = executed \/ executed' = [executed EXCEPT ![Head(requests[k])] = @ + 1]
      BY <1>17 DEF Die
    <3>3. CASE executed' = [executed EXCEPT ![Head(requests[k])] = @ + 1]
      BY <1>0, <3>1, <3>3
    <3> QED
      BY <1>0, <3>2, <3>3
  <2> QED
    BY <1>0, <1>17, <2>1, <2>2 DEF Die, clientVars, poolVars
<1>18. CASE UNCHANGED vars
  BY <1>0, <1>18 DEF vars, clientVars, poolVars, netVars, serverVars
<1> QED
  BY <1>1, <1>2, <1>3, <1>4, <1>5, <1>6, <1>7, <1>8, <1>9, <1>10, <1>11, <1>12, <1>13, <1>14,
     <1>15, <1>16, <1>17, <1>18 DEF Next, Select, Get, Work, Handle

\* A step that leaves the pool and the borrowed connections alone.
LEMMA Undisturbed ==
  ASSUME PoolInv, UNCHANGED <<conn, poolVars>>,
         \A c \in Calls : worker[c] = "queued" => worker'[c] = "queued",
         \A c \in Calls : invoke'[c] = "new" => worker'[c] = "none" /\ kind'[c] = "none"
  PROVE  (WaitersQueued /\ ConnsApart /\ Counted)'
<1>1. WaitersQueued'
  BY DEF WaitersQueued, PoolInv, TypeOK, poolVars
<1>2. ConnsApart'
  BY DEF ConnsApart, PoolInv, poolVars
<1>3. Open' = Open
  BY DEF Open, poolVars
<1>4. Counted'
  BY <1>3 DEF Counted, PoolInv, poolVars
<1> QED
  BY <1>1, <1>2, <1>4

\* Each step of Get and Put moves one connection, from one place to one place.
LEMMA PoolStep == PoolInv /\ [Next]_vars => PoolInv'
<1> SUFFICES ASSUME PoolInv, [Next]_vars PROVE PoolInv'
  OBVIOUS
<1>0. TypeOK /\ TypeOK' /\ WaitersQueued /\ ConnsApart /\ Counted
  BY TypeStep DEF PoolInv
<1> SUFFICES (WaitersQueued /\ ConnsApart /\ Counted)'
  BY <1>0 DEF PoolInv
<1>1. ASSUME NEW c \in Calls, NEW k \in Kinds, Invoke(c, k)
      PROVE  (WaitersQueued /\ ConnsApart /\ Counted)'
  BY <1>0, <1>1, Undisturbed DEF Invoke, TypeOK, WaitersQueued
<1>2. ASSUME NEW c \in Calls, Select(c) \/ SendOnClosed(c)
      PROVE  (WaitersQueued /\ ConnsApart /\ Counted)'
  BY <1>0, <1>2, Undisturbed DEF Select, SelectDone, SelectAnswer, SendOnClosed, TypeOK, WaitersQueued, callVars
<1>3. ASSUME NEW c \in Calls, Write(c) \/ Read(c) \/ Breaks(c) \/ GetFails(c)
      PROVE  (WaitersQueued /\ ConnsApart /\ Counted)'
  <2>1. /\ UNCHANGED <<conn, poolVars, invoke, kind>> /\ worker[c] \in {"get", "write", "read"}
        /\ \E what \in {"read", "put", "send"} : worker' = [worker EXCEPT ![c] = what]
    BY <1>3 DEF Write, Read, Breaks, GetFails, callVars
  <2>2. \A d \in Calls : worker[d] = "queued" => worker'[d] = "queued"
    BY <1>0, <2>1 DEF TypeOK
  <2>3. \A d \in Calls : invoke'[d] = "new" => worker'[d] = "none" /\ kind'[d] = "none"
    BY <1>0, <2>1 DEF TypeOK, WaitersQueued
  <2>4. UNCHANGED <<conn, poolVars>>
    BY <2>1
  <2> QED
    BY <2>2, <2>3, <2>4, Undisturbed
<1>4. ASSUME NEW k \in Conns, Handle(k)
      PROVE  (WaitersQueued /\ ConnsApart /\ Counted)'
  <2>1. UNCHANGED <<clientVars, poolVars>>
    BY <1>4 DEF Handle, Execute, Reply, Refuse, Die
  <2> QED
    BY <1>0, <2>1, Undisturbed DEF clientVars, WaitersQueued
<1>5. CASE UNCHANGED vars
  BY <1>0, <1>5, Undisturbed DEF vars, clientVars, WaitersQueued
<1>6. ASSUME NEW c \in Calls, GetIdle(c)
      PROVE  (WaitersQueued /\ ConnsApart /\ Counted)'
  <2> DEFINE k == Head(idle)
  <2>1. /\ idle # << >> /\ idle' = Tail(idle) /\ waiters' = waiters /\ opening' = opening
        /\ worker[c] = "get" /\ worker' = [worker EXCEPT ![c] = "write"]
        /\ conn' = [conn EXCEPT ![c] = k] /\ UNCHANGED <<invoke, kind>>
    BY <1>6 DEF GetIdle, Borrow, callVars
  <2>0. idle \in Seq(Conns) /\ Len(idle) \in Nat /\ \A i, j \in DOMAIN idle : idle[i] = idle[j] => i = j
    BY <1>0 DEF TypeOK, ConnsApart
  <2>2. /\ k \in Conns /\ k \in Range(idle) /\ k = idle[1] /\ 1 \in DOMAIN idle
        /\ idle' \in Seq(Conns) /\ Len(idle') = Len(idle) - 1
        /\ \A i, j \in DOMAIN idle' : idle'[i] = idle'[j] => i = j
        /\ \A i \in DOMAIN idle' : idle'[i] = idle[i + 1] /\ i + 1 \in DOMAIN idle /\ i + 1 # 1
        /\ Range(idle') = Range(idle) \ {k}
    BY <2>0, <2>1, TailApart
  <2>3. WaitersQueued'
    <3>1. \A i \in DOMAIN waiters : waiters[i] \in Calls /\ waiters[i] # c
      BY <1>0, <2>1 DEF WaitersQueued, TypeOK
    <3>2. \A d \in Calls : worker'[d] = IF d = c THEN "write" ELSE worker[d]
      BY <1>0, <2>1 DEF TypeOK
    <3> QED
      BY <1>0, <2>1, <3>1, <3>2 DEF WaitersQueued
  <2>4. ConnsApart'
    <3>1. \A i \in DOMAIN idle' : idle'[i] # k
      BY <1>0, <2>2 DEF ConnsApart
    <3>2. \A d \in Calls : conn[d] # k
      BY <1>0, <2>2 DEF ConnsApart
    <3>3. \A d \in Calls : conn'[d] = IF d = c THEN k ELSE conn[d]
      BY <1>0, <2>1 DEF TypeOK
    <3>4. \A d \in Calls, i \in DOMAIN idle' : conn'[d] # idle'[i]
      BY <1>0, <2>2, <3>1, <3>3 DEF ConnsApart
    <3>5. \A d, e \in Calls : conn'[d] = conn'[e] /\ conn'[d] # None => d = e
      BY <1>0, <3>2, <3>3 DEF ConnsApart
    <3> QED
      BY <2>2, <3>4, <3>5 DEF ConnsApart
  <2>5. Counted'
    <3>1. \A d \in Calls : conn'[d] = IF d = c THEN k ELSE conn[d]
      BY <1>0, <2>1 DEF TypeOK
    <3>2. conn[c] = None
      BY <1>0, <2>1 DEF TypeOK
    <3>3. (Open \ {None})' = Open \ {None}
      BY <2>2, <3>1, <3>2 DEF Open
    <3>4. opening' <= MaxCap /\ Len(idle') <= MaxIdle
      BY <1>0, <2>0, <2>1, <2>2, RpcAssumption DEF Counted, TypeOK
    <3> QED
      BY <1>0, <2>1, <3>3, <3>4 DEF Counted
  <2> QED
    BY <2>3, <2>4, <2>5
<1>7. ASSUME NEW c \in Calls, GetTooOld(c)
      PROVE  (WaitersQueued /\ ConnsApart /\ Counted)'
  <2> DEFINE k == Head(idle)
  <2>1. /\ idle # << >> /\ idle' = Tail(idle) /\ waiters' = waiters /\ opening' = opening - 1
        /\ UNCHANGED <<worker, conn, invoke, kind>>
    BY <1>7 DEF GetTooOld, clientVars
  <2>0. idle \in Seq(Conns) /\ Len(idle) \in Nat /\ \A i, j \in DOMAIN idle : idle[i] = idle[j] => i = j
    BY <1>0 DEF TypeOK, ConnsApart
  <2>2. /\ k \in Conns /\ k \in Range(idle) /\ k = idle[1] /\ 1 \in DOMAIN idle
        /\ idle' \in Seq(Conns) /\ Len(idle') = Len(idle) - 1
        /\ \A i, j \in DOMAIN idle' : idle'[i] = idle'[j] => i = j
        /\ \A i \in DOMAIN idle' : idle'[i] = idle[i + 1] /\ i + 1 \in DOMAIN idle /\ i + 1 # 1
        /\ Range(idle') = Range(idle) \ {k}
    BY <2>0, <2>1, TailApart
  <2>3. WaitersQueued'
    BY <1>0, <2>1 DEF WaitersQueued, TypeOK
  <2>4. ConnsApart'
    BY <1>0, <2>1, <2>2 DEF ConnsApart
  <2>5. Counted'
    <3>1. \A d \in Calls : conn[d] # k
      BY <1>0, <2>2 DEF ConnsApart
    <3>2. (Open \ {None})' = (Open \ {None}) \ {k} /\ k \in Open \ {None}
      BY <2>1, <2>2, <3>1, NoneApart DEF Open
    <3>3. Cardinality((Open \ {None})') = Cardinality(Open \ {None}) - 1
      BY <1>0, <3>2, OpenIsFinite, FS_RemoveElement
    <3> QED
      BY SMTT(30), <1>0, <2>1, <2>2, <3>3, RpcAssumption DEF Counted, TypeOK
  <2> QED
    BY <2>3, <2>4, <2>5
<1>8. ASSUME NEW c \in Calls, GetDials(c)
      PROVE  (WaitersQueued /\ ConnsApart /\ Counted)'
  <2>1. PICK k \in Fresh : Borrow(c, k)
    BY <1>8, FreshChosen DEF GetDials
  <2>2. /\ k \in Conns /\ k \notin Open
        /\ opening < MaxCap /\ opening' = opening + 1 /\ UNCHANGED <<idle, waiters, invoke, kind>>
        /\ worker[c] = "get" /\ worker' = [worker EXCEPT ![c] = "write"]
        /\ conn' = [conn EXCEPT ![c] = k]
    BY <1>8, <2>1 DEF GetDials, Borrow, Fresh, callVars
  <2>3. WaitersQueued'
    BY SMTT(30), <1>0, <2>2 DEF WaitersQueued, TypeOK
  <2>4. \A d \in Calls : conn'[d] = IF d = c THEN k ELSE conn[d]
    BY <1>0, <2>2 DEF TypeOK
  <2>5. (\A d \in Calls : conn[d] # k) /\ (\A i \in DOMAIN idle : idle[i] # k)
    BY <2>2 DEF Open, Range
  <2>6. ConnsApart'
    BY <1>0, <2>2, <2>4, <2>5 DEF ConnsApart
  <2>7. Counted'
    <3>1. conn[c] = None
      BY <1>0, <2>2 DEF TypeOK
    <3>2. (Open \ {None})' = (Open \ {None}) \union {k}
      BY <2>2, <2>4, <3>1, NoneApart DEF Open
    <3>3. Cardinality((Open \ {None})') = Cardinality(Open \ {None}) + 1
      BY <1>0, <2>2, <3>2, OpenIsFinite, FS_AddElement
    <3> QED
      BY <1>0, <2>2, <3>3, RpcAssumption DEF Counted, TypeOK
  <2> QED
    BY <2>3, <2>6, <2>7
<1>9. ASSUME NEW c \in Calls, GetWaits(c)
      PROVE  (WaitersQueued /\ ConnsApart /\ Counted)'
  <2>1. /\ worker[c] = "get" /\ worker' = [worker EXCEPT ![c] = "queued"]
        /\ waiters' = Append(waiters, c) /\ UNCHANGED <<conn, idle, opening, invoke, kind>>
    BY <1>9 DEF GetWaits, callVars
  <2>2. WaitersQueued'
    <3>1. \A i \in DOMAIN waiters : waiters[i] # c
      BY <1>0, <2>1 DEF WaitersQueued
    <3>2. /\ \A i, j \in DOMAIN waiters' : waiters'[i] = waiters'[j] => i = j
          /\ \A i \in DOMAIN waiters' : waiters'[i] = c \/ (i \in DOMAIN waiters /\ waiters'[i] = waiters[i])
      BY SMTT(30), <1>0, <2>1, <3>1, AppendApart DEF TypeOK, WaitersQueued
    <3> QED
      BY SMTT(30), <1>0, <2>1, <3>2 DEF WaitersQueued, TypeOK
  <2>3. ConnsApart'
    BY <1>0, <2>1 DEF ConnsApart
  <2>4. Open' = Open
    BY <2>1 DEF Open
  <2> QED
    BY <1>0, <2>1, <2>2, <2>3, <2>4 DEF Counted
<1>10. ASSUME NEW c \in Calls, Put(c), waiters # << >>
       PROVE  (WaitersQueued /\ ConnsApart /\ Counted)'
  <2> DEFINE w == Head(waiters)
  <2>1. /\ worker[c] = "put" /\ worker' = [worker EXCEPT ![c] = "send", ![w] = "write"]
        /\ conn' = [conn EXCEPT ![c] = None, ![w] = conn[c]]
        /\ waiters' = Tail(waiters) /\ UNCHANGED <<idle, opening, invoke, kind>>
    BY <1>10 DEF Put, callVars
  <2>0. waiters \in Seq(Calls) /\ \A i, j \in DOMAIN waiters : waiters[i] = waiters[j] => i = j
    BY <1>0 DEF TypeOK, WaitersQueued
  <2>2. /\ w \in Calls /\ w = waiters[1] /\ 1 \in DOMAIN waiters
        /\ \A i, j \in DOMAIN waiters' : waiters'[i] = waiters'[j] => i = j
        /\ \A i \in DOMAIN waiters' : waiters'[i] = waiters[i + 1] /\ i + 1 \in DOMAIN waiters /\ i + 1 # 1
    BY <2>0, <1>10, <2>1, TailApart
  <2>3. worker[w] = "queued" /\ w # c
    BY <1>0, <2>1, <2>2 DEF WaitersQueued
  <2>4. WaitersQueued'
    <3>1. \A i \in DOMAIN waiters' : waiters'[i] # w
      BY <1>0, <2>2 DEF WaitersQueued
    <3>2. \A i \in DOMAIN waiters' : waiters'[i] \in Calls /\ worker[waiters'[i]] = "queued"
      BY <1>0, <2>2 DEF WaitersQueued, TypeOK
    <3>3. \A i \in DOMAIN waiters' : worker'[waiters'[i]] = "queued"
      BY <1>0, <2>1, <3>1, <3>2 DEF TypeOK
    <3>4. \A d \in Calls : invoke'[d] = "new" => worker'[d] = "none" /\ kind'[d] = "none"
      BY <1>0, <2>1, <2>2, <2>3 DEF WaitersQueued, TypeOK
    <3> QED
      BY <2>2, <3>3, <3>4 DEF WaitersQueued
  <2>5. \A d \in Calls : conn'[d] = IF d = w THEN conn[c] ELSE IF d = c THEN None ELSE conn[d]
    BY <1>0, <2>1, <2>2, <2>3 DEF TypeOK
  <2>6. conn[w] = None
    BY <1>0, <2>2, <2>3 DEF TypeOK
  <2>7. ConnsApart'
    <3>1. \A d, e \in Calls : conn'[d] = conn'[e] /\ conn'[d] # None => d = e
      BY <1>0, <2>2, <2>3, <2>5, <2>6 DEF ConnsApart
    <3>2. \A i \in DOMAIN idle : idle[i] # None
      BY <1>0, NoneApart DEF TypeOK
    <3>3. \A d \in Calls, i \in DOMAIN idle : conn'[d] # idle[i]
      BY <1>0, <2>2, <2>5, <3>2 DEF ConnsApart
    <3> QED
      BY <1>0, <2>1, <3>1, <3>3 DEF ConnsApart
  <2>8. (Open \ {None})' = Open \ {None}
    <3>1. {conn'[d] : d \in Calls} \ {None} = {conn[d] : d \in Calls} \ {None}
      BY <2>2, <2>3, <2>5, <2>6
    <3> QED
      BY <2>1, <3>1 DEF Open
  <2>9. Counted'
    BY <1>0, <2>1, <2>8 DEF Counted
  <2> QED
    BY <2>4, <2>7, <2>9
<1>11. ASSUME NEW c \in Calls, Put(c), waiters = << >>
       PROVE  (WaitersQueued /\ ConnsApart /\ Counted)'
  <2>1. /\ worker[c] = "put" /\ worker' = [worker EXCEPT ![c] = "send"]
        /\ conn' = [conn EXCEPT ![c] = None] /\ UNCHANGED <<waiters, invoke, kind>>
    BY <1>11 DEF Put, callVars
  <2>2. WaitersQueued'
    BY <1>0, <1>11, <2>1 DEF WaitersQueued, TypeOK
  <2>3. \A d \in Calls : conn'[d] = IF d = c THEN None ELSE conn[d]
    BY <1>0, <2>1 DEF TypeOK
  <2>4. /\ conn[c] \in Conns /\ conn[c] \in Open \ {None}
        /\ (\A i \in DOMAIN idle : idle[i] # conn[c])
        /\ (\A d \in Calls : d # c => conn[d] # conn[c])
    BY <1>0, <2>1, NoneApart DEF ConnsApart, TypeOK, Open
  <2>5. CASE Len(idle) < MaxIdle
    <3>1. idle' = Append(idle, conn[c]) /\ opening' = opening
      BY <1>11, <2>5 DEF Put
    <3>0. /\ idle \in Seq(Conns) /\ Len(idle) \in Nat
          /\ \A i, j \in DOMAIN idle : idle[i] = idle[j] => i = j
      BY <1>0 DEF TypeOK, ConnsApart
    <3>2. /\ Len(idle') = Len(idle) + 1
          /\ \A i, j \in DOMAIN idle' : idle'[i] = idle'[j] => i = j
          /\ \A i \in DOMAIN idle' : idle'[i] = conn[c] \/ (i \in DOMAIN idle /\ idle'[i] = idle[i])
          /\ Range(idle') = Range(idle) \union {conn[c]}
      BY <2>4, <3>0, <3>1, AppendApart
    <3>3. \A d \in Calls, i \in DOMAIN idle' : conn'[d] # idle'[i]
      <4> SUFFICES ASSUME NEW d \in Calls, NEW i \in DOMAIN idle' PROVE conn'[d] # idle'[i]
        OBVIOUS
      <4>1. idle'[i] # None
        BY <1>0, <3>2, <2>4, NoneApart DEF TypeOK
      <4> QED
        BY <1>0, <2>3, <2>4, <3>2, <4>1 DEF ConnsApart
    <3>4. ConnsApart'
      BY <1>0, <2>3, <3>2, <3>3 DEF ConnsApart
    <3>5. (Open \ {None})' = Open \ {None}
      BY <2>3, <2>4, <3>2 DEF Open
    <3>6. opening' <= MaxCap /\ Len(idle') <= MaxIdle
      BY <1>0, <2>5, <3>0, <3>1, <3>2, RpcAssumption DEF Counted
    <3>7. Counted'
      BY <1>0, <3>1, <3>5, <3>6 DEF Counted
    <3> QED
      BY <2>2, <3>4, <3>7
  <2>6. CASE ~(Len(idle) < MaxIdle)
    <3>1. idle' = idle /\ opening' = opening - 1
      BY <1>11, <2>6 DEF Put
    <3>2. ConnsApart'
      <4>1. \A i \in DOMAIN idle : idle[i] # None
        BY <1>0, NoneApart DEF TypeOK
      <4> QED
        BY <1>0, <2>3, <3>1, <4>1 DEF ConnsApart
    <3>3. (Open \ {None})' = (Open \ {None}) \ {conn[c]}
      BY <2>3, <2>4, <3>1 DEF Open, Range
    <3>4. Cardinality((Open \ {None})') = Cardinality(Open \ {None}) - 1
      BY <1>0, <2>4, <3>3, OpenIsFinite, FS_RemoveElement
    <3>5. Counted'
      BY <1>0, <3>1, <3>4, RpcAssumption DEF Counted, TypeOK
    <3> QED
      BY <2>2, <3>2, <3>5
  <2> QED
    BY <2>5, <2>6
<1> QED
  BY <1>1, <1>2, <1>3, <1>4, <1>5, <1>6, <1>7, <1>8, <1>9, <1>10, <1>11
     DEF Next, Select, Get, Work

-----------------------------------------------------------------------------
(* Calls and connections *)

\* An answer that call c may get: an error, the value of its own execution, or the
\* refusal of a request that has not run.
Earned(c, a) ==
  \/ a = Failed
  \/ a = Answer(c, "value") /\ executed[c] = 1
  \/ a = Answer(c, "refused") /\ executed[c] = 0

\* How far Invoke and its worker are, what the service has done for the call, and
\* what the caller has got go together.
CallInv(c) ==
  /\ kind[c] # "onewayUnknown"
  /\ invoke[c] = "new" => worker[c] = "none" /\ kind[c] = "none" /\ result[c] = Uncalled
  /\ invoke[c] = "waiting" => result[c] = Pending /\ worker[c] # "none"
  /\ worker[c] = "none" => kind[c] \in {"none", "deadline"}
  /\ worker[c] # "none" => \/ result[c] \in {Pending, Failed}
                           \/ worker[c] = "ended" /\ ~IsOneway(c) /\ Earned(c, result[c])
  /\ worker[c] \in {"none", "get", "queued", "write"} => executed[c] = 0
  /\ executed[c] \in {0, 1}
  /\ worker[c] \in {"put", "send"} => Earned(c, got[c]) /\ (IsOneway(c) => got[c] = Failed)
  /\ IsOneway(c) /\ ~serverDown => executed[c] = 0
  /\ IsOneway(c) => worker[c] # "read"

\* The worker has written its request; it waits for its answer on connection k.
HasWritten(c) == worker[c] \in {"read", "put", "send", "ended"}
Reads(c, k) == worker[c] = "read" /\ conn[c] = k

\* Nothing is under way on connection k but requests that no response follows.
Quiet(k) ==
  /\ responses[k] = << >> /\ serving[k] = None
  /\ \A i \in DOMAIN requests[k] : IsOneway(requests[k][i])

\* The stages of a call on connection k: its request is the last one there, its
\* service has run, its answer is the only response, or the server is gone.
Asked(c, k) ==
  /\ responses[k] = << >> /\ serving[k] = None /\ requests[k] # << >>
  /\ requests[k][Len(requests[k])] = c /\ executed[c] = 0
  /\ \A i \in DOMAIN requests[k] : i # Len(requests[k]) => IsOneway(requests[k][i])
Served(c, k) ==
  responses[k] = << >> /\ serving[k] = c /\ requests[k] = << >> /\ executed[c] = 1
Replied(c, k) ==
  /\ serving[k] = None /\ requests[k] = << >>
  /\ \E a \in Answers : a # Failed /\ Earned(c, a) /\ responses[k] = <<a>>
Lost(k) == serverDown /\ responses[k] = << >>

Awaits(c, k) == Asked(c, k) \/ Served(c, k) \/ Replied(c, k) \/ Lost(k)

\* Between the two ends of a connection there is exactly what its reader waits for,
\* and nothing for a later one: the order of messages stands in for identifiers.
LineInv ==
  /\ \A c \in Calls, k \in Conns : Reads(c, k) => Awaits(c, k)
  /\ \A k \in Conns : (\A c \in Calls : ~Reads(c, k)) => Quiet(k)
  /\ serverDown => \A k \in Conns : requests[k] = << >> /\ serving[k] = None
  /\ \A k \in Conns : \A i \in DOMAIN requests[k] : HasWritten(requests[k][i])

\* The inductive invariant.
IInv == PoolInv /\ (\A c \in Calls : CallInv(c)) /\ LineInv

\* A request that is answered, and that the server takes next, is the reader's.
LEMMA HeadIsReader ==
  ASSUME IInv, NEW k \in Conns, Ready(k), ~IsOneway(Head(requests[k]))
  PROVE  LET c == Head(requests[k])
         IN  /\ c \in Calls /\ Reads(c, k) /\ executed[c] = 0
             /\ Tail(requests[k]) = << >> /\ responses[k] = << >> /\ serving[k] = None
<1> DEFINE c == Head(requests[k])
<1>1. /\ requests[k] \in Seq(Calls) /\ requests[k] # << >> /\ ~serverDown /\ serving[k] = None
  BY DEF IInv, PoolInv, TypeOK, Ready
<1>2. /\ c \in Calls /\ c = requests[k][1] /\ 1 \in DOMAIN requests[k]
      /\ Len(requests[k]) \in Nat /\ DOMAIN requests[k] = 1..Len(requests[k])
  BY <1>1
<1>3. ~Quiet(k)
  BY <1>2 DEF Quiet
<1>4. PICK d \in Calls : Reads(d, k)
  BY <1>3 DEF IInv, LineInv
<1>5. Asked(d, k)
  <2>1. Awaits(d, k) /\ d # None
    BY <1>4, NoneApart DEF IInv, LineInv
  <2> QED
    BY <1>1, <2>1 DEF Awaits, Served, Replied, Lost
<1>6. Len(requests[k]) = 1 /\ d = c
  BY <1>2, <1>5 DEF Asked
<1>7. Tail(requests[k]) = << >>
  <2>1. Tail(requests[k]) \in Seq(Calls) /\ Len(Tail(requests[k])) = 0
    BY <1>1, <1>6
  <2> QED
    BY <2>1, EmptySeq
<1>8. executed[c] = 0 /\ responses[k] = << >>
  BY <1>5, <1>6 DEF Asked
<1> QED
  BY <1>1, <1>2, <1>4, <1>6, <1>7, <1>8

\* The handler answers the worker that reads from its connection.
LEMMA ServedIsReader ==
  ASSUME IInv, NEW k \in Conns, ~serverDown, serving[k] # None
  PROVE  LET c == serving[k]
         IN  /\ c \in Calls /\ Reads(c, k) /\ executed[c] = 1
             /\ requests[k] = << >> /\ responses[k] = << >>
<1>1. ~Quiet(k)
  BY DEF Quiet
<1>2. PICK d \in Calls : Reads(d, k)
  BY <1>1 DEF IInv, LineInv
<1>3. Awaits(d, k)
  BY <1>2 DEF IInv, LineInv
<1> QED
  BY <1>2, <1>3 DEF Awaits, Asked, Served, Replied, Lost

\* No call has begun.
LEMMA CallInit == Init => \A c \in Calls : CallInv(c)
BY NoneApart DEF Init, CallInv, IsOneway, Uncalled

\* Nothing is under way.
LEMMA LineInit == Init => LineInv
BY DEF Init, LineInv, Reads, Quiet, HasWritten

\* Each goroutine takes its own call a stage on; the handlers run a service once.
LEMMA CallStep ==
  ASSUME "onewayUnknown" \notin Kinds, IInv, [Next]_vars
  PROVE  \A d \in Calls : CallInv(d)'
<1> USE DEF Reads
<1>0. TypeOK /\ WaitersQueued /\ (\A c \in Calls : CallInv(c))
  BY DEF IInv, PoolInv
<1>1. ASSUME NEW c \in Calls, NEW k \in Kinds, Invoke(c, k) PROVE \A d \in Calls : CallInv(d)'
  <2> SUFFICES ASSUME NEW d \in Calls PROVE CallInv(d)'
    OBVIOUS
  <2>1. CASE d = c
    <3>1. CallInv(c) /\ k \notin {"onewayUnknown", "none"} /\ kind'[c] = k
      BY <1>0, <1>1, RpcAssumption DEF Invoke, TypeOK, AllKinds
    <3>2. UNCHANGED <<executed, serverDown, got>>
      BY <1>1 DEF Invoke, serverVars
    <3>3. \/ k = "deadline" /\ invoke'[c] = "returned" /\ result'[c] = Expired /\ worker'[c] = "none"
          \/ invoke'[c] = "waiting" /\ result'[c] = Pending /\ worker'[c] = "get"
      BY <1>0, <1>1, <3>1 DEF Invoke, TypeOK, CallInv
    <3> QED
      BY <1>1, <2>1, <3>1, <3>2, <3>3 DEF CallInv, IsOneway, Invoke
  <2>2. CASE d # c
    BY <1>0, <1>1, <2>2 DEF Invoke, CallInv, IsOneway, Earned, TypeOK, serverVars
  <2> QED
    BY <2>1, <2>2
<1>2. ASSUME NEW c \in Calls, SelectDone(c) PROVE \A d \in Calls : CallInv(d)'
  BY <1>0, <1>2 DEF SelectDone, CallInv, IsOneway, Earned, TypeOK, serverVars
<1>3. ASSUME NEW c \in Calls, SelectAnswer(c) PROVE \A d \in Calls : CallInv(d)'
  BY <1>0, <1>3 DEF SelectAnswer, CallInv, IsOneway, Earned, TypeOK, serverVars
<1>4. ASSUME NEW c \in Calls, SendOnClosed(c) PROVE \A d \in Calls : CallInv(d)'
  BY <1>0, <1>4 DEF SendOnClosed, CallInv, IsOneway, Earned, callVars, serverVars
<1>5. ASSUME NEW c \in Calls, Get(c) PROVE \A d \in Calls : CallInv(d)'
  <2>1. /\ UNCHANGED <<callVars, serverVars>> /\ worker[c] = "get"
        /\ \/ UNCHANGED <<worker, got>>
           \/ worker' = [worker EXCEPT ![c] = "write"] /\ got' = got
           \/ worker' = [worker EXCEPT ![c] = "queued"] /\ got' = got
           \/ worker' = [worker EXCEPT ![c] = "send"] /\ got' = [got EXCEPT ![c] = Failed]
    BY <1>5 DEF Get, GetIdle, GetTooOld, GetDials, GetFails, GetWaits, Borrow, clientVars, callVars, serverVars
  <2> QED
    BY <1>0, <2>1 DEF CallInv, IsOneway, Earned, TypeOK, callVars, serverVars
<1>6. ASSUME NEW c \in Calls, Write(c) PROVE \A d \in Calls : CallInv(d)'
  BY <1>0, <1>6 DEF Write, CallInv, IsOneway, Earned, TypeOK, callVars, serverVars
<1>7. ASSUME NEW c \in Calls, Breaks(c) PROVE \A d \in Calls : CallInv(d)'
  BY <1>0, <1>7 DEF Breaks, CallInv, IsOneway, Earned, TypeOK, callVars, serverVars
<1>8. ASSUME NEW c \in Calls, Read(c) PROVE \A d \in Calls : CallInv(d)'
  <2>1. Replied(c, conn[c]) /\ ~IsOneway(c)
    BY <1>0, <1>8 DEF Read, CallInv, IInv, LineInv, TypeOK, Awaits, Asked, Served, Lost
  <2>2. Earned(c, Head(responses[conn[c]]))
    BY <2>1 DEF Replied
  <2> QED
    BY <1>0, <1>8, <2>1, <2>2 DEF Read, CallInv, IsOneway, Earned, TypeOK, callVars, serverVars
<1>9. ASSUME NEW c \in Calls, Put(c) PROVE \A d \in Calls : CallInv(d)'
  <2>1. /\ UNCHANGED <<callVars, serverVars, got>> /\ worker[c] = "put"
        /\ \/ worker' = [worker EXCEPT ![c] = "send"]
           \/ \E w \in Calls : worker[w] = "queued" /\ worker' = [worker EXCEPT ![c] = "send", ![w] = "write"]
    <3>1. waiters # << >> => Head(waiters) \in Calls /\ worker[Head(waiters)] = "queued"
      BY <1>0 DEF TypeOK, WaitersQueued
    <3> QED
      BY <1>9, <3>1 DEF Put, callVars, serverVars
  <2> QED
    BY <1>0, <2>1 DEF CallInv, IsOneway, Earned, TypeOK, callVars, serverVars
<1>10. ASSUME NEW k \in Conns, Execute(k) PROVE \A d \in Calls : CallInv(d)'
  <2>1. PICK c \in Calls : c = Head(requests[k]) /\ worker[c] = "read" /\ executed[c] = 0
    BY <1>10, HeadIsReader DEF Execute, IsOneway
  <2>2. UNCHANGED <<clientVars, serverDown>> /\ executed' = [executed EXCEPT ![c] = @ + 1]
    BY <1>10, <2>1 DEF Execute
  <2> QED
    BY <1>0, <2>1, <2>2 DEF CallInv, IsOneway, Earned, TypeOK, clientVars
<1>11. ASSUME NEW k \in Conns, Reply(k) \/ Refuse(k) PROVE \A d \in Calls : CallInv(d)'
  BY <1>0, <1>11 DEF Reply, Refuse, CallInv, IsOneway, Earned, clientVars, serverVars
<1>12. ASSUME NEW k \in Conns, Die(k) PROVE \A d \in Calls : CallInv(d)'
  <2>1. PICK c \in Calls : c = Head(requests[k])
    BY <1>0, <1>12 DEF Die, Ready, TypeOK
  <2>5. HasWritten(c)
    <3>1. requests[k] \in Seq(Calls) /\ requests[k] # << >>
      BY <1>0, <1>12 DEF Die, Ready, TypeOK
    <3>2. c = requests[k][1] /\ 1 \in DOMAIN requests[k]
      BY <2>1, <3>1
    <3> QED
      BY <3>2 DEF IInv, LineInv
  <2>2. /\ UNCHANGED clientVars /\ ~serverDown /\ serverDown'
        /\ \/ executed' = executed
           \/ kind[c] = "oneway" /\ executed' = [executed EXCEPT ![c] = @ + 1]
    BY <1>12, <2>1 DEF Die, Ready
  <2>3. ASSUME NEW d \in Calls, executed'[d] = executed[d] PROVE CallInv(d)'
    BY <1>0, <2>2, <2>3 DEF CallInv, IsOneway, Earned, clientVars
  <2>4. ASSUME kind[c] = "oneway", executed'[c] = executed[c] + 1 PROVE CallInv(c)'
    <3>1. CallInv(c) /\ IsOneway(c) /\ executed[c] = 0 /\ worker[c] \in {"put", "send", "ended"}
      BY <1>0, <2>1, <2>2, <2>4, <2>5 DEF CallInv, IsOneway, HasWritten
    <3>2. executed'[c] = 1 /\ UNCHANGED <<kind, invoke, result, worker, got>>
      BY <2>2, <2>4, <3>1 DEF clientVars
    <3>3. ~(IsOneway(c) /\ ~serverDown)'
      BY <2>2
    <3>4. worker[c] \in {"put", "send"} => got[c] = Failed
      BY <3>1 DEF CallInv
    <3>5. worker'[c] \in {"put", "send"} => Earned(c, got[c])' /\ (IsOneway(c)' => got'[c] = Failed)
      BY <3>2, <3>4 DEF Earned
    <3>6. result[c] \in {Pending, Failed} /\ (invoke[c] = "waiting" => result[c] = Pending) /\ invoke[c] # "new"
      BY <3>1 DEF CallInv, IsOneway
    <3> QED
      BY <3>1, <3>2, <3>3, <3>5, <3>6 DEF CallInv, IsOneway
  <2> SUFFICES ASSUME NEW d \in Calls PROVE CallInv(d)'
    OBVIOUS
  <2>6. executed'[d] = executed[d] \/ (d = c /\ kind[c] = "oneway" /\ executed'[c] = executed[c] + 1)
    BY <1>0, <2>1, <2>2 DEF TypeOK
  <2>7. CASE executed'[d] = executed[d]
    BY <2>3, <2>7
  <2>8. CASE d = c /\ kind[c] = "oneway" /\ executed'[c] = executed[c] + 1
    BY <2>4, <2>8
  <2> QED
    BY <2>6, <2>7, <2>8
<1>13. CASE UNCHANGED vars
  BY <1>0, <1>13 DEF vars, clientVars, serverVars, CallInv, IsOneway, Earned
<1> QED
  BY <1>1, <1>2, <1>3, <1>4, <1>5, <1>6, <1>7, <1>8, <1>9, <1>10, <1>11, <1>12, <1>13
     DEF Next, Select, Work, Handle

\* A step that leaves the connections alone, and who reads from them.
LEMMA LineUndisturbed ==
  ASSUME LineInv, UNCHANGED <<netVars, serverVars>>,
         \A c \in Calls, k \in Conns : Reads(c, k)' <=> Reads(c, k),
         \A c \in Calls : (IsOneway(c) => IsOneway(c)') /\ (HasWritten(c) => HasWritten(c)'),
         TypeOK
  PROVE  LineInv'
<1>1. \A c \in Calls, k \in Conns : Awaits(c, k) => Awaits(c, k)'
  BY DEF Awaits, Asked, Served, Replied, Lost, Earned, netVars, serverVars, TypeOK
<1>2. \A k \in Conns : Quiet(k) => Quiet(k)'
  BY DEF Quiet, netVars, serverVars, TypeOK
<1>3. \A k \in Conns : \A i \in DOMAIN requests[k] : HasWritten(requests[k][i]) => HasWritten(requests[k][i])'
  BY DEF netVars, TypeOK
<1> QED
  BY <1>1, <1>2, <1>3 DEF LineInv, netVars, serverVars

\* A worker writes to a quiet connection and leaves it quiet: it reads the one
\* response that its request has brought about.
LEMMA LineStep ==
  ASSUME "onewayUnknown" \notin Kinds, IInv, [Next]_vars
  PROVE  LineInv'
<1>0. TypeOK /\ WaitersQueued /\ ConnsApart /\ (\A c \in Calls : CallInv(c)) /\ LineInv
  BY DEF IInv, PoolInv
<1>1. ASSUME NEW c \in Calls, NEW k \in Kinds, Invoke(c, k) PROVE LineInv'
  <2>1. \A d \in Calls, l \in Conns : Reads(d, l)' <=> Reads(d, l)
    BY <1>0, <1>1 DEF Invoke, Reads, TypeOK, CallInv
  <2>2. \A d \in Calls : (IsOneway(d) => IsOneway(d)') /\ (HasWritten(d) => HasWritten(d)')
    BY <1>0, <1>1 DEF Invoke, IsOneway, HasWritten, TypeOK, CallInv
  <2>3. UNCHANGED <<netVars, serverVars>>
    BY <1>1 DEF Invoke
  <2> QED
    BY <1>0, <2>1, <2>2, <2>3, LineUndisturbed
<1>2. ASSUME NEW c \in Calls, Select(c) \/ SendOnClosed(c) PROVE LineInv'
  <2>1. \A d \in Calls, l \in Conns : Reads(d, l)' <=> Reads(d, l)
    BY <1>0, <1>2 DEF Select, SelectDone, SelectAnswer, SendOnClosed, Reads, TypeOK
  <2>2. \A d \in Calls : (IsOneway(d) => IsOneway(d)') /\ (HasWritten(d) => HasWritten(d)')
    BY <1>0, <1>2 DEF Select, SelectDone, SelectAnswer, SendOnClosed, IsOneway, HasWritten, TypeOK, callVars
  <2>3. UNCHANGED <<netVars, serverVars>>
    BY <1>2 DEF Select, SelectDone, SelectAnswer, SendOnClosed
  <2> QED
    BY <1>0, <2>1, <2>2, <2>3, LineUndisturbed
<1>3. ASSUME NEW c \in Calls, Get(c), ~GetDials(c) PROVE LineInv'
  <2>1. /\ UNCHANGED <<callVars, netVars, serverVars>> /\ worker[c] = "get"
        /\ \/ UNCHANGED <<worker, conn>>
           \/ worker' = [worker EXCEPT ![c] = "write"] /\ \E k \in Conns : conn' = [conn EXCEPT ![c] = k]
           \/ worker' = [worker EXCEPT ![c] = "queued"] /\ conn' = conn
           \/ worker' = [worker EXCEPT ![c] = "send"] /\ conn' = conn
    <3>1. CASE GetIdle(c)
      <4>1. Head(idle) \in Conns
        BY <1>0, <3>1 DEF GetIdle, TypeOK
      <4> QED
        BY <3>1, <4>1 DEF GetIdle, Borrow
    <3>2. CASE GetTooOld(c)
      BY <3>2 DEF GetTooOld, clientVars, callVars
    <3>3. CASE GetFails(c) \/ GetWaits(c)
      BY <3>3 DEF GetFails, GetWaits
    <3> QED
      BY <1>3, <3>1, <3>2, <3>3 DEF Get
  <2>2. \A d \in Calls, l \in Conns : Reads(d, l)' <=> Reads(d, l)
    BY <1>0, <2>1 DEF Reads, TypeOK
  <2>3. \A d \in Calls : (IsOneway(d) => IsOneway(d)') /\ (HasWritten(d) => HasWritten(d)')
    BY <1>0, <2>1 DEF IsOneway, HasWritten, TypeOK, callVars
  <2> QED
    BY <1>0, <2>1, <2>2, <2>3, LineUndisturbed
<1>4. ASSUME NEW c \in Calls, Put(c) PROVE LineInv'
  <2>1. /\ UNCHANGED <<callVars, netVars, serverVars>> /\ worker[c] = "put"
        /\ \/ worker' = [worker EXCEPT ![c] = "send"] /\ conn' = [conn EXCEPT ![c] = None]
           \/ \E w \in Calls : /\ worker[w] = "queued"
                               /\ worker' = [worker EXCEPT ![c] = "send", ![w] = "write"]
                               /\ conn' = [conn EXCEPT ![c] = None, ![w] = conn[c]]
    <3>1. waiters # << >> => Head(waiters) \in Calls /\ worker[Head(waiters)] = "queued"
      BY <1>0 DEF TypeOK, WaitersQueued
    <3> QED
      BY <1>4, <3>1 DEF Put
  <2>2. \A d \in Calls, l \in Conns : Reads(d, l)' <=> Reads(d, l)
    BY <1>0, <2>1 DEF Reads, TypeOK
  <2>3. \A d \in Calls : (IsOneway(d) => IsOneway(d)') /\ (HasWritten(d) => HasWritten(d)')
    BY <1>0, <2>1 DEF IsOneway, HasWritten, TypeOK, callVars
  <2> QED
    BY <1>0, <2>1, <2>2, <2>3, LineUndisturbed
<1>5. ASSUME NEW c \in Calls, GetDials(c) PROVE LineInv'
  <2>1. PICK k \in Fresh : Borrow(c, k) /\ responses' = [responses EXCEPT ![k] = << >>]
    BY <1>5, FreshChosen DEF GetDials
  <2>2. /\ k \in Conns /\ requests[k] = << >> /\ serving[k] = None
        /\ \A d \in Calls : conn[d] # k
    BY <2>1 DEF Fresh, Open
  <2>3. /\ UNCHANGED <<callVars, requests, serverVars>> /\ worker[c] = "get"
        /\ worker' = [worker EXCEPT ![c] = "write"] /\ conn' = [conn EXCEPT ![c] = k]
    BY <1>5, <2>1 DEF GetDials, Borrow
  <2>4. \A d \in Calls, l \in Conns : Reads(d, l)' <=> Reads(d, l)
    BY <1>0, <2>3 DEF Reads, TypeOK
  <2>5. \A d \in Calls : (IsOneway(d) => IsOneway(d)') /\ (HasWritten(d) => HasWritten(d)')
    BY <1>0, <2>3 DEF IsOneway, HasWritten, TypeOK, callVars
  <2>6. ASSUME NEW d \in Calls, NEW l \in Conns, Reads(d, l)' PROVE Awaits(d, l)'
    <3>1. l # k /\ Awaits(d, l)
      BY <1>0, <2>2, <2>4, <2>6 DEF LineInv, Reads
    <3>2. responses'[l] = responses[l]
      BY <1>0, <2>1, <3>1 DEF TypeOK
    <3> QED
      BY <1>0, <2>3, <2>5, <3>1, <3>2 DEF Awaits, Asked, Served, Replied, Lost, Earned, serverVars, TypeOK
  <2>7. ASSUME NEW l \in Conns, \A d \in Calls : ~Reads(d, l)' PROVE Quiet(l)'
    <3>1. Quiet(l)
      BY <1>0, <2>4, <2>7 DEF LineInv
    <3>2. responses'[l] = << >>
      BY <1>0, <2>1, <3>1 DEF Quiet, TypeOK
    <3> QED
      BY <1>0, <2>3, <2>5, <3>1, <3>2 DEF Quiet, serverVars, TypeOK
  <2>8. \A l \in Conns : \A i \in DOMAIN requests[l] : HasWritten(requests[l][i])'
    BY <1>0, <2>3, <2>5 DEF LineInv, TypeOK
  <2> QED
    BY <1>0, <2>3, <2>6, <2>7, <2>8 DEF LineInv, serverVars, HasWritten
<1>6. ASSUME NEW c \in Calls, Write(c) PROVE LineInv'
  <2> DEFINE k == conn[c]
  <2>1. /\ worker[c] = "write" /\ k \in Conns /\ executed[c] = 0 /\ UNCHANGED <<conn, responses, serverVars, callVars>>
        /\ requests[k] \in Seq(Calls)
    BY <1>0, <1>6, NoneApart DEF Write, TypeOK, CallInv
  <2>2. \A d \in Calls, l \in Conns : Reads(d, l)' <=> Reads(d, l) \/ (d = c /\ l = k /\ ~IsOneway(c))
    BY <1>0, <1>6, <2>1 DEF Write, Reads, TypeOK
  <2>3. \A d \in Calls : (IsOneway(d) <=> IsOneway(d)') /\ (HasWritten(d) \/ d = c => HasWritten(d)')
    BY <1>0, <1>6 DEF Write, IsOneway, HasWritten, TypeOK, callVars
  <2>4. \A d \in Calls : ~Reads(d, k)
    BY <1>0, <2>1, NoneApart DEF Reads, ConnsApart
  <2>5. Quiet(k)
    BY <1>0, <2>1, <2>4 DEF LineInv
  <2>6. \A l \in Conns : l # k => requests'[l] = requests[l]
    BY <1>0, <1>6, <2>1 DEF Write, TypeOK
  <2>7. CASE serverDown
    <3>1. requests' = requests
      BY <1>6, <2>7 DEF Write
    <3>2. ASSUME NEW d \in Calls, NEW l \in Conns, Reads(d, l)' PROVE Awaits(d, l)'
      <4>1. CASE Reads(d, l)
        BY <1>0, <2>1, <2>3, <3>1, <4>1 DEF LineInv, Awaits, Asked, Served, Replied, Lost, Earned, serverVars, TypeOK
      <4>2. CASE l = k
        BY <2>1, <2>5, <2>7, <4>2 DEF Awaits, Lost, Quiet, serverVars
      <4> QED
        BY <2>2, <3>2, <4>1, <4>2
    <3>3. ASSUME NEW l \in Conns, \A d \in Calls : ~Reads(d, l)' PROVE Quiet(l)'
      BY <1>0, <2>1, <2>2, <2>3, <3>1, <3>3 DEF LineInv, Quiet, serverVars, TypeOK
    <3>4. \A l \in Conns : \A i \in DOMAIN requests[l] : HasWritten(requests[l][i])'
      BY <1>0, <2>3, <3>1 DEF LineInv, TypeOK
    <3> QED
      BY <1>0, <2>1, <3>1, <3>2, <3>3, <3>4 DEF LineInv, serverVars, HasWritten
  <2>8. CASE ~serverDown
    <3>1. requests'[k] = Append(requests[k], c)
      BY <1>0, <1>6, <2>1, <2>8 DEF Write, TypeOK
    <3>2. /\ DOMAIN requests'[k] = 1..Len(requests'[k]) /\ Len(requests'[k]) = Len(requests[k]) + 1
          /\ requests'[k][Len(requests'[k])] = c /\ Len(requests[k]) \in Nat /\ requests'[k] # << >>
          /\ \A i \in DOMAIN requests'[k] : i # Len(requests'[k]) =>
               i \in DOMAIN requests[k] /\ requests'[k][i] = requests[k][i]
      BY <2>1, <3>1
    <3>3. \A i \in DOMAIN requests'[k] : i # Len(requests'[k]) => kind'[requests'[k][i]] \in {"oneway", "onewayUnknown"}
      BY <2>1, <2>5, <3>2 DEF Quiet, IsOneway, callVars
    <3>4. ASSUME NEW d \in Calls, NEW l \in Conns, Reads(d, l)' PROVE Awaits(d, l)'
      <4>1. CASE Reads(d, l)
        <5>1. l # k /\ Awaits(d, l) /\ requests'[l] = requests[l]
          BY <1>0, <2>4, <2>6, <4>1 DEF LineInv
        <5> QED
          BY <1>0, <2>1, <2>3, <5>1 DEF Awaits, Asked, Served, Replied, Lost, Earned, serverVars, TypeOK
      <4>2. CASE d = c /\ l = k
        BY <2>1, <2>5, <3>2, <3>3, <4>2 DEF Awaits, Asked, Quiet, IsOneway, serverVars
      <4> QED
        BY <2>2, <3>4, <4>1, <4>2
    <3>5. ASSUME NEW l \in Conns, \A d \in Calls : ~Reads(d, l)' PROVE Quiet(l)'
      <4>1. CASE l = k
        <5>1. IsOneway(c)
          BY <2>1, <2>2, <3>5, <4>1
        <5> QED
          BY <2>1, <2>5, <3>2, <3>3, <4>1, <5>1 DEF Quiet, IsOneway, serverVars, callVars
      <4>2. CASE l # k
        BY <1>0, <2>1, <2>2, <2>3, <2>6, <3>5, <4>2 DEF LineInv, Quiet, serverVars, TypeOK
      <4> QED
        BY <4>1, <4>2
    <3>6. ASSUME NEW l \in Conns, NEW i \in DOMAIN requests'[l]
          PROVE  worker'[requests'[l][i]] \in {"read", "put", "send", "ended"}
      <4>0. \A d \in Calls : HasWritten(d) \/ d = c => worker'[d] \in {"read", "put", "send", "ended"}
        BY <2>3 DEF HasWritten
      <4>1. CASE l = k
        <5>1. \A j \in DOMAIN requests[k] : requests[k][j] \in Calls /\ HasWritten(requests[k][j])
          BY <1>0, <2>1 DEF LineInv
        <5> QED
          BY <3>2, <3>6, <4>0, <4>1, <5>1
      <4>2. CASE l # k
        <5>1. \A j \in DOMAIN requests[l] : requests[l][j] \in Calls /\ HasWritten(requests[l][j])
          BY <1>0 DEF LineInv, TypeOK
        <5> QED
          BY <2>6, <3>6, <4>0, <4>2, <5>1
      <4> QED
        BY <4>1, <4>2
    <3> QED
      BY <2>1, <2>8, <3>4, <3>5, <3>6 DEF LineInv, serverVars, HasWritten
  <2> QED
    BY <2>7, <2>8
<1>7. ASSUME NEW c \in Calls, Read(c) \/ Breaks(c) PROVE LineInv'
  <2>0. PICK k \in Conns : k = conn[c]
    BY <1>0, <1>7 DEF Read, Breaks, TypeOK
  <2>1. /\ worker[c] \in {"write", "read"} /\ k = conn[c] /\ UNCHANGED <<conn, requests, serverVars, callVars>>
        /\ worker' = [worker EXCEPT ![c] = "put"]
    BY <1>0, <1>7, <2>0 DEF Read, Breaks, TypeOK, netVars
  <2>2. \A d \in Calls, l \in Conns : Reads(d, l)' <=> Reads(d, l) /\ d # c
    BY <1>0, <2>1 DEF Reads, TypeOK
  <2>3. \A d \in Calls : (IsOneway(d) <=> IsOneway(d)') /\ (HasWritten(d) => HasWritten(d)')
    BY <1>0, <2>1 DEF IsOneway, HasWritten, TypeOK, callVars
  <2>4. \A l \in Conns : l # k => responses'[l] = responses[l]
    BY <1>0, <1>7, <2>1 DEF Read, Breaks, TypeOK, netVars
  <2>5. \A d \in Calls : d # c => ~Reads(d, k)
    BY <1>0, <2>1, NoneApart DEF Reads, ConnsApart
  <2>6. Quiet(k)'
    <3>1. CASE Read(c)
      <4>1. Reads(c, k) /\ responses[k] # << >>
        BY <2>1, <3>1 DEF Read, Reads
      <4>2. Replied(c, k)
        BY <1>0, <2>1, <4>1 DEF LineInv, Awaits, Asked, Served, Lost
      <4>3. Tail(responses[k]) = << >>
        BY <4>2 DEF Replied
      <4>4. responses'[k] = << >>
        BY <1>0, <2>1, <3>1, <4>3 DEF Read, TypeOK
      <4> QED
        BY <2>1, <4>2, <4>4 DEF Replied, Quiet, serverVars
    <3>2. CASE Breaks(c)
      <4>1. serverDown /\ responses' = responses /\ requests[k] = << >> /\ serving[k] = None
        BY <1>0, <2>1, <3>2 DEF Breaks, netVars, LineInv
      <4>2. CASE worker[c] = "read"
        BY <2>1, <3>2, <4>1, <4>2 DEF Breaks, Quiet, serverVars
      <4>3. CASE worker[c] = "write"
        <5>1. Quiet(k)
          BY <1>0, <2>1, <2>5, <4>3 DEF LineInv, Reads
        <5> QED
          BY <2>1, <4>1, <5>1 DEF Quiet, serverVars
      <4> QED
        BY <2>1, <4>2, <4>3
    <3> QED
      BY <1>7, <3>1, <3>2
  <2>7. ASSUME NEW d \in Calls, NEW l \in Conns, Reads(d, l)' PROVE Awaits(d, l)'
    <3>1. l # k /\ Awaits(d, l) /\ responses'[l] = responses[l]
      BY <1>0, <2>2, <2>4, <2>5, <2>7 DEF LineInv
    <3> QED
      BY <1>0, <2>1, <2>3, <3>1 DEF Awaits, Asked, Served, Replied, Lost, Earned, serverVars, TypeOK
  <2>8. ASSUME NEW l \in Conns, \A d \in Calls : ~Reads(d, l)' PROVE Quiet(l)'
    <3>1. CASE l # k
      <4>1. \A d \in Calls : ~Reads(d, l)
        BY <2>1, <2>2, <2>8, <3>1 DEF Reads
      <4>2. Quiet(l)
        BY <1>0, <4>1 DEF LineInv
      <4> QED
        BY <1>0, <2>1, <2>3, <2>4, <3>1, <4>2 DEF Quiet, serverVars, TypeOK
    <3> QED
      BY <2>6, <3>1
  <2>9. \A l \in Conns : \A i \in DOMAIN requests[l] : HasWritten(requests[l][i])'
    BY <1>0, <2>1, <2>3 DEF LineInv, TypeOK
  <2> QED
    BY <1>0, <2>1, <2>7, <2>8, <2>9 DEF LineInv, serverVars, HasWritten
\* What the handler of one connection does to the others.
<1>8. ASSUME NEW k \in Conns, UNCHANGED <<clientVars, serverDown>>,
             \A l \in Conns : l # k => /\ requests'[l] = requests[l] /\ responses'[l] = responses[l]
                                       /\ serving'[l] = serving[l],
             NEW c \in Calls, Reads(c, k), \A d \in Calls : d # c => executed'[d] = executed[d],
             requests'[k] = << >>, ~serverDown, Awaits(c, k)'
      PROVE  LineInv'
  <2>1. \A d \in Calls, l \in Conns : Reads(d, l)' <=> Reads(d, l)
    BY <1>8 DEF Reads, clientVars
  <2>2. \A d \in Calls : (IsOneway(d) <=> IsOneway(d)') /\ (HasWritten(d) <=> HasWritten(d)')
    BY <1>8 DEF IsOneway, HasWritten, clientVars
  <2>3. \A d \in Calls : Reads(d, k) => d = c
    BY <1>0, <1>8, NoneApart DEF Reads, ConnsApart
  <2>4. ASSUME NEW d \in Calls, NEW l \in Conns, Reads(d, l)' PROVE Awaits(d, l)'
    <3>1. CASE l = k
      BY <1>8, <2>1, <2>3, <2>4, <3>1
    <3>2. CASE l # k
      <4>1. Awaits(d, l) /\ d # c
        BY <1>0, <1>8, <2>1, <2>4, <3>2 DEF LineInv, Reads
      <4> QED
        BY <1>0, <1>8, <2>2, <3>2, <4>1 DEF Awaits, Asked, Served, Replied, Lost, Earned, TypeOK
    <3> QED
      BY <3>1, <3>2
  <2>5. ASSUME NEW l \in Conns, \A d \in Calls : ~Reads(d, l)' PROVE Quiet(l)'
    <3>1. l # k /\ Quiet(l)
      BY <1>0, <1>8, <2>1, <2>5 DEF LineInv
    <3> QED
      BY <1>0, <1>8, <2>2, <3>1 DEF Quiet, TypeOK
  <2>6. ASSUME NEW l \in Conns, NEW i \in DOMAIN requests'[l] PROVE l # k /\ HasWritten(requests[l][i])
    BY <1>0, <1>8, <2>6 DEF LineInv
  <2>7. ASSUME NEW l \in Conns, NEW i \in DOMAIN requests'[l]
        PROVE  worker'[requests'[l][i]] \in {"read", "put", "send", "ended"}
    BY <1>8, <2>6, <2>7 DEF HasWritten, clientVars
  <2> QED
    BY <1>8, <2>4, <2>5, <2>7 DEF LineInv, HasWritten
<1>9. ASSUME NEW k \in Conns, Execute(k) PROVE LineInv'
  <2>1. PICK c \in Calls :
           /\ c = Head(requests[k]) /\ Reads(c, k) /\ executed[c] = 0 /\ Tail(requests[k]) = << >>
           /\ responses[k] = << >> /\ serving[k] = None
    BY <1>9, HeadIsReader DEF Execute, IsOneway
  <2>2. /\ UNCHANGED <<clientVars, serverDown, responses>> /\ ~serverDown
        /\ requests' = [requests EXCEPT ![k] = Tail(@)] /\ serving' = [serving EXCEPT ![k] = c]
        /\ executed' = [executed EXCEPT ![c] = @ + 1]
    BY <1>9, <2>1 DEF Execute, Ready
  <2>3. /\ \A l \in Conns : l # k => /\ requests'[l] = requests[l] /\ responses'[l] = responses[l]
                                     /\ serving'[l] = serving[l]
        /\ \A d \in Calls : d # c => executed'[d] = executed[d]
        /\ requests'[k] = << >>
    BY <1>0, <2>1, <2>2 DEF TypeOK
  <2>4. Served(c, k)'
    BY <1>0, <2>1, <2>2, <2>3 DEF Served, TypeOK
  <2> QED
    BY <1>8, <2>1, <2>2, <2>3, <2>4 DEF Awaits, serverVars
<1>10. ASSUME NEW k \in Conns, Reply(k) PROVE LineInv'
  <2>1. PICK c \in Calls :
           /\ c = serving[k] /\ Reads(c, k) /\ executed[c] = 1 /\ requests[k] = << >> /\ responses[k] = << >>
    BY <1>10, ServedIsReader DEF Reply
  <2>2. /\ UNCHANGED <<clientVars, serverDown, requests, executed>> /\ ~serverDown
        /\ responses' = [responses EXCEPT ![k] = Append(@, Answer(c, "value"))]
        /\ serving' = [serving EXCEPT ![k] = None]
    BY <1>10, <2>1 DEF Reply
  <2>3. \A l \in Conns : l # k => /\ requests'[l] = requests[l] /\ responses'[l] = responses[l]
                                  /\ serving'[l] = serving[l]
    BY <1>0, <2>2 DEF TypeOK
  <2>4. Replied(c, k)'
    <3>1. Answer(c, "value") \in Answers /\ Answer(c, "value") # Failed
      BY <2>1, NoneApart DEF Answer, Answers, Failed
    <3>2. responses'[k] = <<Answer(c, "value")>> /\ serving'[k] = None
      BY <1>0, <2>1, <2>2 DEF TypeOK
    <3> QED
      BY <2>1, <2>2, <3>1, <3>2 DEF Replied, Earned
  <2> QED
    BY <1>8, <2>1, <2>2, <2>3, <2>4 DEF Awaits, serverVars
<1>11. ASSUME NEW k \in Conns, Refuse(k) PROVE LineInv'
  <2>1. PICK c \in Calls :
           /\ c = Head(requests[k]) /\ Reads(c, k) /\ executed[c] = 0 /\ Tail(requests[k]) = << >>
           /\ responses[k] = << >> /\ serving[k] = None
    <3>1. Head(requests[k]) \in Calls
      BY <1>0, <1>11 DEF Refuse, Ready, TypeOK
    <3>2. ~IsOneway(Head(requests[k]))
      BY <1>0, <1>11, <3>1 DEF Refuse, Known, IsOneway, CallInv
    <3> QED
      BY <1>11, <3>2, HeadIsReader DEF Refuse
  <2>2. /\ UNCHANGED <<clientVars, serverVars>> /\ ~serverDown
        /\ requests' = [requests EXCEPT ![k] = Tail(@)]
        /\ responses' = [responses EXCEPT ![k] = Append(@, Answer(c, "refused"))]
    BY <1>11, <2>1 DEF Refuse, Ready, serverVars
  <2>3. /\ \A l \in Conns : l # k => /\ requests'[l] = requests[l] /\ responses'[l] = responses[l]
                                     /\ serving'[l] = serving[l]
        /\ requests'[k] = << >> /\ UNCHANGED <<serving, executed, serverDown>>
    BY <1>0, <2>1, <2>2 DEF TypeOK, serverVars
  <2>4. Replied(c, k)'
    <3>1. Answer(c, "refused") \in Answers /\ Answer(c, "refused") # Failed
      BY <2>1, NoneApart DEF Answer, Answers, Failed
    <3>2. responses'[k] = <<Answer(c, "refused")>>
      BY <1>0, <2>1, <2>2 DEF TypeOK
    <3> QED
      BY <2>1, <2>3, <3>1, <3>2 DEF Replied, Earned
  <2> QED
    BY <1>8, <2>1, <2>2, <2>3, <2>4 DEF Awaits, serverVars
<1>12. ASSUME NEW k \in Conns, Die(k) PROVE LineInv'
  <2>1. /\ UNCHANGED <<clientVars, responses>> /\ serverDown' /\ ~serverDown
        /\ requests' = [l \in Conns |-> << >>] /\ serving' = [l \in Conns |-> None]
        /\ \/ executed' = executed
           \/ /\ kind[Head(requests[k])] = "oneway"
              /\ executed' = [executed EXCEPT ![Head(requests[k])] = @ + 1]
    BY <1>12 DEF Die, Ready
  <2>2. \A d \in Calls : worker[d] = "read" => executed'[d] = executed[d]
    BY <1>0, <2>1 DEF CallInv, IsOneway, TypeOK
  <2>3. \A d \in Calls, l \in Conns : Reads(d, l)' <=> Reads(d, l)
    BY <2>1 DEF Reads, clientVars
  <2>4. ASSUME NEW d \in Calls, NEW l \in Conns, Reads(d, l)' PROVE Awaits(d, l)'
    <3>1. Awaits(d, l) /\ executed'[d] = executed[d]
      BY <1>0, <2>2, <2>3, <2>4 DEF LineInv, Reads
    <3>2. CASE responses[l] = << >>
      BY <2>1, <3>2 DEF Awaits, Lost
    <3>3. CASE responses[l] # << >>
      <4>1. Replied(d, l)
        BY <3>1, <3>3 DEF Awaits, Asked, Served, Lost
      <4>2. Replied(d, l)'
        BY <2>1, <3>1, <4>1 DEF Replied, Earned
      <4> QED
        BY <4>2 DEF Awaits
    <3> QED
      BY <3>2, <3>3
  <2>5. ASSUME NEW l \in Conns, \A d \in Calls : ~Reads(d, l)' PROVE Quiet(l)'
    BY <1>0, <2>1, <2>3, <2>5 DEF LineInv, Quiet
  <2> QED
    BY <2>1, <2>4, <2>5 DEF LineInv
<1>13. CASE UNCHANGED vars
  BY <1>0, <1>13, LineUndisturbed DEF vars, clientVars, Reads, IsOneway, HasWritten
<1> QED
  BY <1>1, <1>2, <1>3, <1>4, <1>5, <1>6, <1>7, <1>9, <1>10, <1>11, <1>12, <1>13
     DEF Next, Work, Handle

-----------------------------------------------------------------------------
(* Theorems *)

\* One idle connection, counted as open.
LEMMA PoolInit == Init => PoolInv
<1> SUFFICES ASSUME Init PROVE PoolInv
  OBVIOUS
<1>1. TypeOK
  BY TypeInit
<1>2. WaitersQueued /\ ConnsApart
  BY NoneApart DEF Init, WaitersQueued, ConnsApart, None
<1>3. Counted
  <2>1. Open \ {None} = {1}
    BY DEF Init, Open, Range, None
  <2>2. Cardinality({1}) = 1
    BY FS_Singleton
  <2>3. opening = 1 /\ Len(idle) = 1
    BY DEF Init
  <2> QED
    BY <2>1, <2>2, <2>3, RpcAssumption DEF Counted
<1> QED
  BY <1>1, <1>2, <1>3 DEF PoolInv

\* The pool keeps its invariant up by itself.
LEMMA PoolAlways == Spec => []PoolInv
<1>1. Init => PoolInv
  BY PoolInit
<1>2. PoolInv /\ [Next]_vars => PoolInv'
  BY PoolStep
<1> QED
  BY <1>1, <1>2, PTL DEF Spec

\* rpc/client.go and rpc/server.go: the variables have their types; a worker has a
\* connection exactly between Get and Put.
THEOREM TypeCorrect == Spec => []TypeOK
<1>1. PoolInv => TypeOK
  BY DEF PoolInv
<1> QED
  BY <1>1, PoolAlways, PTL

\* The deferred Put of send (rpc/client.go) gives every borrowed connection back
\* exactly once, on every path: no connection is in two places or lost, and the
\* pool's count and limits are kept, for every kind of call.
THEOREM Accounting == Spec => []ConnsAccounted
<1>1. PoolInv => ConnsAccounted
  <2> SUFFICES ASSUME PoolInv PROVE ConnsAccounted
    OBVIOUS
  <2>1. ASSUME NEW k \in Conns
        PROVE  Cardinality({c \in Calls : conn[c] = k}) + Cardinality({i \in DOMAIN idle : idle[i] = k}) <= 1
    <3> DEFINE holders == {c \in Calls : conn[c] = k}
               places == {i \in DOMAIN idle : idle[i] = k}
    <3>1. holders = {} \/ places = {}
      BY DEF PoolInv, ConnsApart
    <3>2. /\ \A x, y \in holders : x = y
          /\ \A x, y \in places : x = y
      BY NoneApart DEF PoolInv, ConnsApart
    <3> HIDE DEF holders, places
    <3>3. /\ Cardinality(holders) = IF holders = {} THEN 0 ELSE 1
          /\ Cardinality(places) = IF places = {} THEN 0 ELSE 1
      BY <3>2, AtMostOne
    <3>4. Cardinality(holders) + Cardinality(places) <= 1
      BY <3>1, <3>3
    <3> QED
      BY <3>4 DEF holders, places
  <2> QED
    BY <2>1 DEF ConnsAccounted, PoolInv, Counted
<1> QED
  BY <1>1, PoolAlways, PTL

\* Calls and connections, when no oneway call goes to an unknown service.
LEMMA Inductive == "onewayUnknown" \notin Kinds => (Spec => []IInv)
<1> SUFFICES ASSUME "onewayUnknown" \notin Kinds PROVE Spec => []IInv
  OBVIOUS
<1>1. Init => IInv
  BY PoolInit, CallInit, LineInit DEF IInv
<1>2. IInv /\ [Next]_vars => IInv'
  BY PoolStep, CallStep, LineStep DEF IInv
<1> QED
  BY <1>1, <1>2, PTL DEF Spec

\* An idle connection has no response under way to it, though callers leave before
\* their answers arrive: doInvoke stays to read them.
THEOREM IdleIsQuiet == "onewayUnknown" \notin Kinds => (Spec => []QuietWhenIdle)
<1> SUFFICES ASSUME "onewayUnknown" \notin Kinds PROVE Spec => []QuietWhenIdle
  OBVIOUS
<1>1. IInv => QuietWhenIdle
  <2> SUFFICES ASSUME IInv, NEW i \in DOMAIN idle PROVE Quiet(idle[i])
    BY DEF QuietWhenIdle, Quiet, Range
  <2>1. idle[i] \in Conns
    BY DEF IInv, PoolInv, TypeOK
  <2>2. \A c \in Calls : ~Reads(c, idle[i])
    BY DEF IInv, PoolInv, ConnsApart, Reads
  <2> QED
    BY <2>1, <2>2 DEF IInv, LineInv
<1> QED
  BY <1>1, Inductive, PTL

\* Each step does to the calls what the promise of a remote call allows, or nothing.
LEMMA RefinementStep ==
  ASSUME "onewayUnknown" \notin Kinds, IInv, [Next]_vars
  PROVE  [Promise!Next]_(Promise!vars)
<1> USE DEF Promise!vars, Promise!Become
<1>0. TypeOK /\ \A c \in Calls : CallInv(c)
  BY DEF IInv, PoolInv
<1>names. /\ Promise!Uncalled = Uncalled /\ Promise!Pending = Pending
      /\ Promise!Failed = Failed /\ Promise!Expired = Expired
      /\ \A c \in Calls : Promise!Value(c) = Answer(c, "value") /\ Promise!Refusal(c) = Answer(c, "refused")
  BY DEF Promise!Uncalled, Promise!Pending, Promise!Failed, Promise!Expired, Promise!Value, Promise!Refusal,
         Uncalled, Pending, Failed, Expired, Answer, None
<1>1. ASSUME NEW c \in Calls, NEW k \in Kinds, Invoke(c, k) PROVE Promise!Next
  <2>1. UNCHANGED executed /\ result[c] = Uncalled
        /\ (result' = [result EXCEPT ![c] = Expired] \/ result' = [result EXCEPT ![c] = Pending])
    BY <1>0, <1>1 DEF Invoke, CallInv, serverVars
  <2> QED
    BY <1>names, <2>1 DEF Promise!Next, Promise!Call, Promise!Expire
<1>2. ASSUME NEW c \in Calls, SelectDone(c) PROVE Promise!Next
  <2>1. UNCHANGED executed /\ result[c] = Pending /\ result' = [result EXCEPT ![c] = Failed]
    BY <1>0, <1>2 DEF SelectDone, CallInv, serverVars
  <2> QED
    BY <1>names, <2>1 DEF Promise!Next, Promise!Fail
<1>3. ASSUME NEW c \in Calls, SelectAnswer(c) PROVE Promise!Next
  <2>1. /\ UNCHANGED executed /\ result[c] = Pending /\ result' = [result EXCEPT ![c] = got[c]]
        /\ Earned(c, got[c])
    BY <1>0, <1>3 DEF SelectAnswer, CallInv, serverVars
  <2> QED
    BY <1>names, <2>1 DEF Earned, Promise!Next, Promise!Fail, Promise!Answer, Promise!Refuse
<1>4. ASSUME NEW k \in Conns, Execute(k) PROVE Promise!Next
  <2>1. PICK c \in Calls : c = Head(requests[k]) /\ worker[c] = "read" /\ executed[c] = 0
    BY <1>4, HeadIsReader DEF Execute, IsOneway, Reads
  <2>2. result[c] \in {Pending, Failed}
    BY <1>0, <2>1 DEF CallInv
  <2>3. UNCHANGED result /\ executed' = [executed EXCEPT ![c] = 1]
    BY <1>0, <1>4, <2>1 DEF Execute, clientVars, TypeOK
  <2> QED
    BY <1>names, <2>1, <2>2, <2>3 DEF Promise!Next, Promise!Execute
<1>5. ASSUME NEW k \in Conns, Die(k) PROVE [Promise!Next]_(Promise!vars)
  <2>1. PICK c \in Calls : c = Head(requests[k])
    BY <1>0, <1>5 DEF Die, Ready, TypeOK
  <2>2. /\ UNCHANGED result /\ ~serverDown /\ requests[k] # << >> /\ requests[k] \in Seq(Calls)
        /\ \/ executed' = executed
           \/ kind[c] = "oneway" /\ executed' = [executed EXCEPT ![c] = @ + 1]
    BY <1>0, <1>5, <2>1 DEF Die, Ready, TypeOK, clientVars
  <2>3. CASE kind[c] = "oneway" /\ executed' = [executed EXCEPT ![c] = @ + 1]
    <3>1. c = requests[k][1] /\ 1 \in DOMAIN requests[k]
      BY <2>1, <2>2
    <3>2. HasWritten(c)
      BY <3>1 DEF IInv, LineInv
    <3>3. executed[c] = 0 /\ result[c] \in {Pending, Failed}
      BY <1>0, <2>2, <2>3, <3>2 DEF CallInv, IsOneway, HasWritten
    <3>4. executed' = [executed EXCEPT ![c] = 1]
      BY <2>3, <3>3
    <3> QED
      BY <1>names, <2>2, <3>3, <3>4 DEF Promise!Next, Promise!Execute
  <2> QED
    BY <2>2, <2>3
<1>6. ASSUME NEW c \in Calls, Work(c) PROVE UNCHANGED <<executed, result>>
  BY <1>6 DEF Work, Get, GetIdle, GetTooOld, GetDials, GetFails, GetWaits, Write, Read, Breaks, Put, SendOnClosed,
              callVars, clientVars, serverVars
<1>7. ASSUME NEW k \in Conns, Reply(k) \/ Refuse(k) PROVE UNCHANGED <<executed, result>>
  BY <1>7 DEF Reply, Refuse, clientVars, serverVars
<1>8. CASE UNCHANGED vars
  BY <1>8 DEF vars, clientVars, serverVars
<1> QED
  BY <1>1, <1>2, <1>3, <1>4, <1>5, <1>6, <1>7, <1>8 DEF Next, Select, Handle

\* The client and the server implement RemoteCall: the service runs at most once
\* for a call, and no caller gets anything but its own answer, however calls, late
\* answers, waiting for connections and the end of the server interleave.
THEOREM Implementation == "onewayUnknown" \notin Kinds => (Spec => ImplementsRemoteCall)
<1> SUFFICES ASSUME "onewayUnknown" \notin Kinds PROVE Spec => ImplementsRemoteCall
  OBVIOUS
<1>1. Init => Promise!Init
  BY DEF Init, Promise!Init, Uncalled, Answer, None, Promise!Uncalled
<1>2. IInv /\ [Next]_vars => [Promise!Next]_(Promise!vars)
  BY RefinementStep
<1> QED
  BY <1>1, <1>2, Inductive, PTL DEF Spec, ImplementsRemoteCall, Promise!Spec

=============================================================================
