--------------------------- MODULE SessionsProofs ---------------------------
(***************************************************************************)
(* Theorems about Sessions and Statements, for any number of goroutines and *)
(* connections, any statements and any builders: the pool is accounted for, *)
(* DoTx keeps what it promises, and the calls of statements implement the   *)
(* sessions, so that both hold of them too.                                 *)
(***************************************************************************)
EXTENDS Statements, FiniteSetTheorems, TLAPS

-----------------------------------------------------------------------------
(* The inductive invariant *)

\* What the transaction of a goroutine looks like while it is in use, and that
\* it is not open afterwards.
TxInv ==
  \A p \in Procs :
    /\ mode[p] = "none" => tx[p] # "active"
    /\ mode[p] # "none" => /\ tx[p] # "none" /\ outcome[p] = "none"
                           /\ durable[p] => self[p]

IInv == SessionsTypeOK /\ ConnsAccounted /\ TxInv /\ DoTxOutcome

Active == {p \in Procs : tx[p] = "active"}
Ways == {"manual", "dotx"}
Closed == {"committed", "rolledback", "uncertain"}

-----------------------------------------------------------------------------
(* The pool *)

\* The set of open transactions is finite.
LEMMA ActiveFinite ==
  /\ IsFiniteSet(Active) /\ Cardinality(Active) \in Nat
  /\ \A p \in Active : Cardinality(Active) > 0
<1>1. IsFiniteSet(Active)
  BY SessionsAssumption, FS_Subset DEF Active
<1>2. Cardinality(Active) \in Nat /\ (Cardinality(Active) = 0 => Active = {})
  BY <1>1, FS_CardinalityType, FS_EmptySet
<1> QED
  BY <1>1, <1>2

\* A transaction that begins takes a connection.
LEMMA Takes ==
  ASSUME SessionsTypeOK, ConnsAccounted, NEW p \in Procs, tx[p] # "active", inUse < MaxConns,
         tx' = [tx EXCEPT ![p] = "active"], inUse' = inUse + 1, got' = got
  PROVE  inUse' \in 0..MaxConns /\ got' \in Nat /\ ConnsAccounted'
<1>1. Active' = Active \cup {p} /\ p \notin Active
  BY DEF Active, SessionsTypeOK
<1>2. Cardinality(Active') = Cardinality(Active) + 1
  BY <1>1, ActiveFinite, FS_AddElement
<1>3. inUse = Cardinality(Active) + got
  BY DEF ConnsAccounted, Active
<1>4. inUse' = Cardinality(Active') + got'
  BY <1>2, <1>3, ActiveFinite DEF SessionsTypeOK
<1>5. ConnsAccounted'
  BY <1>4 DEF ConnsAccounted, Active
<1> QED
  BY <1>5, SessionsAssumption DEF SessionsTypeOK

\* A transaction that ends gives its connection back, however it ends.
LEMMA GivesBack ==
  ASSUME SessionsTypeOK, ConnsAccounted, NEW p \in Procs, NEW how \in Closed, NEW kept \in BOOLEAN,
         Ends(p, how, kept), got' = got
  PROVE  inUse' \in 0..MaxConns /\ got' \in Nat /\ ConnsAccounted'
<1>1. Active' = Active \ {p} /\ p \in Active
  BY DEF Active, SessionsTypeOK, Ends, Closed
<1>2. Cardinality(Active') = Cardinality(Active) - 1
  BY <1>1, ActiveFinite, FS_RemoveElement
<1>3. inUse = Cardinality(Active) + got
  BY DEF ConnsAccounted, Active
<1>4. inUse' = inUse - 1 /\ Cardinality(Active) > 0
  BY <1>1, ActiveFinite DEF Ends
<1>5. inUse' = Cardinality(Active') + got'
  BY <1>2, <1>3, <1>4, ActiveFinite DEF SessionsTypeOK
<1>6. ConnsAccounted'
  BY <1>5 DEF ConnsAccounted, Active
<1> QED
  BY <1>3, <1>4, <1>6, ActiveFinite, SessionsAssumption DEF SessionsTypeOK

\* What leaves the transactions and the pool alone.
LEMMA PoolKept ==
  ASSUME SessionsTypeOK, ConnsAccounted, UNCHANGED <<tx, inUse, got>>
  PROVE  inUse' \in 0..MaxConns /\ got' \in Nat /\ ConnsAccounted'
BY DEF SessionsTypeOK, ConnsAccounted

\* The three ways in which a transaction stops being open, and finding it ended.
LEMMA PoolAfterEnd ==
  ASSUME SessionsTypeOK, ConnsAccounted, NEW p \in Procs, got' = got,
         Committed(p) \/ CommitFails(p) \/ RolledBack(p) \/ Done(p)
  PROVE  inUse' \in 0..MaxConns /\ got' \in Nat /\ ConnsAccounted'
<1>1. CASE Committed(p)
  BY <1>1, GivesBack DEF Committed, Closed
<1>2. CASE CommitFails(p)
  BY <1>2, GivesBack DEF CommitFails, Closed
<1>3. CASE RolledBack(p)
  BY <1>3, GivesBack DEF RolledBack, Closed
<1>4. CASE Done(p)
  BY <1>4, PoolKept DEF Done
<1> QED
  BY <1>1, <1>2, <1>3, <1>4

-----------------------------------------------------------------------------
(* The steps.  Each lemma says what a goroutine's own steps keep.           *)

LEMMA ExecStep ==
  ASSUME IInv, NEW p \in Procs, ExecContext(p)
  PROVE  IInv'
<1>1. UNCHANGED <<mode, tx, durable, self, outcome, inUse, got>> /\ wrote' = [wrote EXCEPT ![p] = InTx(p)]
  BY DEF ExecContext, connVars
<1>2. ConnsAccounted'
  BY <1>1, PoolKept DEF IInv
<1>3. SessionsTypeOK'
  BY <1>1 DEF IInv, SessionsTypeOK, InTx
<1>4. TxInv'
  BY <1>1 DEF IInv, TxInv
<1>5. DoTxOutcome'
  <2>1. mode[p] = "none" => ~wrote'[p]
    BY <1>1 DEF IInv, SessionsTypeOK, InTx
  <2>2. \A q \in Procs : q # p => wrote'[q] = wrote[q]
    BY <1>1 DEF IInv, SessionsTypeOK
  <2>3. outcome[p] = "nil" => mode[p] = "none"
    BY DEF IInv, TxInv
  <2> QED
    BY <1>1, <2>1, <2>2, <2>3 DEF IInv, DoTxOutcome
<1> QED
  BY <1>2, <1>3, <1>4, <1>5 DEF IInv

LEMMA QueryStep ==
  ASSUME IInv, NEW p \in Procs, QueryContext(p)
  PROVE  IInv'
<1>1. UNCHANGED txVars
  BY DEF QueryContext
<1>2. inUse' \in 0..MaxConns /\ got' \in Nat /\ ConnsAccounted'
  <2>1. CASE InTx(p)
    BY <1>1, <2>1, PoolKept DEF IInv, QueryContext, txVars
  <2>2. CASE ~InTx(p)
    <3>1. inUse < MaxConns /\ inUse' = inUse + 1 /\ got' = got + 1 /\ Active' = Active
      BY <1>1, <2>2 DEF QueryContext, CanRun, txVars, Active
    <3>2. inUse = Cardinality(Active) + got
      BY DEF IInv, ConnsAccounted, Active
    <3>3. inUse' = Cardinality(Active) + got'
      BY <3>1, <3>2, ActiveFinite DEF IInv, SessionsTypeOK
    <3>4. ConnsAccounted'
      BY <3>1, <3>3 DEF ConnsAccounted, Active
    <3> QED
      BY <3>1, <3>4, SessionsAssumption DEF IInv, SessionsTypeOK
  <2> QED
    BY <2>1, <2>2
<1>3. SessionsTypeOK'
  BY <1>1, <1>2 DEF IInv, SessionsTypeOK, txVars
<1> QED
  BY <1>1, <1>2, <1>3 DEF IInv, TxInv, DoTxOutcome, txVars

LEMMA BeginStep ==
  ASSUME IInv, NEW p \in Procs, NEW how \in Ways, BeginTx(p, how)
  PROVE  IInv'
<1>1. inUse' \in 0..MaxConns /\ got' \in Nat /\ ConnsAccounted'
  BY Takes DEF IInv, TxInv, BeginTx
<1>2. SessionsTypeOK'
  BY <1>1 DEF IInv, SessionsTypeOK, BeginTx, Ways
<1>3. TxInv'
  BY DEF IInv, SessionsTypeOK, TxInv, BeginTx, Ways
<1>4. DoTxOutcome'
  BY DEF IInv, SessionsTypeOK, DoTxOutcome, BeginTx
<1> QED
  BY <1>1, <1>2, <1>3, <1>4 DEF IInv

\* The state of a transaction after it has been ended, or found ended.
LEMMA AfterEnd ==
  ASSUME SessionsTypeOK, NEW p \in Procs
  PROVE  /\ Committed(p) => /\ tx' = [tx EXCEPT ![p] = "committed"]
                            /\ durable' = [durable EXCEPT ![p] = wrote[p]]
         /\ CommitFails(p) => /\ tx' = [tx EXCEPT ![p] = "uncertain"]
                              /\ \E kept \in BOOLEAN : durable' = [durable EXCEPT ![p] = kept]
         /\ RolledBack(p) => /\ tx' = [tx EXCEPT ![p] = "rolledback"]
                             /\ durable' = [durable EXCEPT ![p] = FALSE]
<1>1. wrote[p] \in BOOLEAN
  BY DEF SessionsTypeOK
<1> QED
  BY <1>1 DEF Committed, CommitFails, RolledBack, Ends

LEMMA CommitStep ==
  ASSUME IInv, NEW p \in Procs, Commit(p)
  PROVE  IInv'
<1>1. /\ UNCHANGED <<mode, wrote, outcome, got>> /\ self' = [self EXCEPT ![p] = TRUE]
      /\ mode[p] # "none" /\ (Committed(p) \/ CommitFails(p))
  BY DEF Commit, InTx
<1>2. inUse' \in 0..MaxConns /\ got' \in Nat /\ ConnsAccounted'
  BY <1>1, PoolAfterEnd DEF IInv
<1>3. PICK how \in {"committed", "uncertain"}, kept \in BOOLEAN :
        tx' = [tx EXCEPT ![p] = how] /\ durable' = [durable EXCEPT ![p] = kept]
  BY <1>1, AfterEnd DEF IInv, SessionsTypeOK
<1>4. SessionsTypeOK'
  BY <1>1, <1>2, <1>3 DEF IInv, SessionsTypeOK
<1>5. TxInv'
  BY <1>1, <1>3 DEF IInv, SessionsTypeOK, TxInv
<1>6. DoTxOutcome'
  BY <1>1, <1>3 DEF IInv, SessionsTypeOK, TxInv, DoTxOutcome
<1> QED
  BY <1>2, <1>4, <1>5, <1>6 DEF IInv

\* Rollback, RollbackIfNotCommit and Cancel, which differ in what they ask for
\* and in whether the goroutine is done with the transaction.
LEMMA RollbackStep ==
  ASSUME IInv, NEW p \in Procs, mode[p] # "none", RolledBack(p) \/ Done(p),
         mode' = mode \/ mode' = [mode EXCEPT ![p] = "none"], UNCHANGED <<wrote, self, outcome, got>>
  PROVE  IInv'
<1>1. inUse' \in 0..MaxConns /\ got' \in Nat /\ ConnsAccounted'
  BY PoolAfterEnd DEF IInv
<1>2. /\ tx[p] # "none" /\ outcome[p] = "none"
      /\ \/ tx' = [tx EXCEPT ![p] = "rolledback"] /\ durable' = [durable EXCEPT ![p] = FALSE]
         \/ tx[p] # "active" /\ UNCHANGED <<tx, durable>>
  BY AfterEnd DEF IInv, TxInv, Done
<1>3. SessionsTypeOK'
  BY <1>1, <1>2 DEF IInv, SessionsTypeOK
<1>4. TxInv'
  BY <1>2 DEF IInv, SessionsTypeOK, TxInv
<1>5. DoTxOutcome'
  BY <1>2 DEF IInv, SessionsTypeOK, DoTxOutcome
<1> QED
  BY <1>1, <1>3, <1>4, <1>5 DEF IInv

LEMMA ReturnStep ==
  ASSUME IInv, NEW p \in Procs, NEW how \in {"nil", "error", "panic"}, DoTxReturns(p, how)
  PROVE  IInv'
<1>1. /\ UNCHANGED <<wrote, self, got>> /\ mode' = [mode EXCEPT ![p] = "none"]
      /\ tx[p] # "none" /\ (durable[p] => self[p])
  BY DEF IInv, TxInv, DoTxReturns
<1>2. inUse' \in 0..MaxConns /\ got' \in Nat /\ ConnsAccounted'
  BY <1>1, PoolAfterEnd DEF IInv, DoTxReturns
<1>3. CASE Committed(p) /\ outcome' = [outcome EXCEPT ![p] = "nil"]
  <2>1. tx' = [tx EXCEPT ![p] = "committed"] /\ durable' = [durable EXCEPT ![p] = wrote[p]]
    BY <1>3, AfterEnd DEF IInv
  <2>2. SessionsTypeOK'
    BY <1>1, <1>2, <1>3, <2>1 DEF IInv, SessionsTypeOK
  <2>3. TxInv'
    BY <1>1, <1>3, <2>1 DEF IInv, SessionsTypeOK, TxInv
  <2>4. DoTxOutcome'
    BY <1>1, <1>3, <2>1 DEF IInv, SessionsTypeOK, DoTxOutcome
  <2> QED
    BY <1>2, <2>2, <2>3, <2>4 DEF IInv
<1>4. CASE /\ CommitFails(p) \/ RolledBack(p) \/ Done(p)
           /\ \E res \in {"error", "panic"} : outcome' = [outcome EXCEPT ![p] = res]
  <2>1. PICK res \in {"error", "panic"} : outcome' = [outcome EXCEPT ![p] = res]
    BY <1>4
  <2>2. \/ /\ tx' = [tx EXCEPT ![p] = "uncertain"]
           /\ \E kept \in BOOLEAN : durable' = [durable EXCEPT ![p] = kept]
        \/ tx' = [tx EXCEPT ![p] = "rolledback"] /\ durable' = [durable EXCEPT ![p] = FALSE]
        \/ tx[p] # "active" /\ UNCHANGED <<tx, durable>>
    BY <1>4, AfterEnd DEF IInv, Done
  <2>3. SessionsTypeOK'
    BY <1>1, <1>2, <2>1, <2>2 DEF IInv, SessionsTypeOK
  <2>4. TxInv'
    BY <1>1, <2>1, <2>2 DEF IInv, SessionsTypeOK, TxInv
  <2>5. DoTxOutcome'
    BY <1>1, <2>1, <2>2 DEF IInv, SessionsTypeOK, DoTxOutcome
  <2> QED
    BY <1>2, <2>3, <2>4, <2>5 DEF IInv
<1> QED
  BY <1>3, <1>4 DEF DoTxReturns

-----------------------------------------------------------------------------
(* Induction *)

LEMMA InitHolds == SessionsInit => IInv
<1> SUFFICES ASSUME SessionsInit PROVE IInv
  OBVIOUS
<1>1. SessionsTypeOK
  BY SessionsAssumption DEF SessionsInit, SessionsTypeOK
<1>2. ConnsAccounted
  <2>1. {p \in Procs : tx[p] = "active"} = {}
    BY DEF SessionsInit
  <2>2. Cardinality({p \in Procs : tx[p] = "active"}) = 0
    BY <2>1, FS_EmptySet
  <2> QED
    BY <2>2 DEF SessionsInit, ConnsAccounted
<1>3. TxInv /\ DoTxOutcome
  BY DEF SessionsInit, TxInv, DoTxOutcome
<1> QED
  BY <1>1, <1>2, <1>3 DEF IInv

LEMMA StepKeeps == IInv /\ [SessionsNext]_sessionVars => IInv'
<1> SUFFICES ASSUME IInv, [SessionsNext]_sessionVars PROVE IInv'
  OBVIOUS
<1>1. CASE UNCHANGED sessionVars
  BY <1>1 DEF IInv, SessionsTypeOK, ConnsAccounted, TxInv, DoTxOutcome, sessionVars, txVars, connVars
<1>2. ASSUME NEW p \in Procs, ExecContext(p) PROVE IInv'
  BY <1>2, ExecStep
<1>3. ASSUME NEW p \in Procs, QueryContext(p) PROVE IInv'
  BY <1>3, QueryStep
<1>4. ASSUME NEW p \in Procs, Begins(p) PROVE IInv'
  BY <1>4, BeginStep DEF Begins, Ways
<1>5. ASSUME NEW p \in Procs, Commit(p) PROVE IInv'
  BY <1>5, CommitStep
<1>6. ASSUME NEW p \in Procs, Rollback(p) PROVE IInv'
  BY <1>6, RollbackStep DEF Rollback, InTx
<1>7. ASSUME NEW p \in Procs, RollbackIfNotCommit(p) PROVE IInv'
  BY <1>7, RollbackStep DEF RollbackIfNotCommit
<1>8. ASSUME NEW p \in Procs, Cancel(p) PROVE IInv'
  <2>1. tx[p] = "active"
    BY <1>8 DEF Cancel, RolledBack, Ends
  <2>2. mode[p] # "none"
    BY <2>1 DEF IInv, TxInv
  <2> QED
    BY <1>8, <2>2, RollbackStep DEF Cancel
<1>9. ASSUME NEW p \in Procs, Returns(p) PROVE IInv'
  BY <1>9, ReturnStep DEF Returns
<1> QED
  BY <1>1, <1>2, <1>3, <1>4, <1>5, <1>6, <1>7, <1>8, <1>9 DEF SessionsNext

LEMMA Invariance == SessionsSpec => []IInv
BY InitHolds, StepKeeps, PTL DEF SessionsSpec

-----------------------------------------------------------------------------
(* Theorems *)

\* The sessions' variables have their types; in particular the pool never has
\* more than MaxConns connections in use, and never gives back more than it
\* has lent.
THEOREM TypeCorrect == SessionsSpec => []SessionsTypeOK
<1>1. IInv => SessionsTypeOK
  BY DEF IInv
<1> QED
  BY <1>1, Invariance, PTL

\* Every connection in use belongs to an open transaction or to the rows of a
\* Get: a transaction gives its connection back exactly once, whether it is
\* committed, rolled back, cancelled, or ended by fn before DoTx ends it.
THEOREM PoolAccounted == SessionsSpec => []ConnsAccounted
<1>1. IInv => ConnsAccounted
  BY DEF IInv
<1> QED
  BY <1>1, Invariance, PTL

\* What DoTx returns agrees with what the database has kept: nil means that every
\* write is kept, an error or a panic that none is, but for a commit that fn
\* made itself or whose own answer was an error; no transaction stays open.
THEOREM DoTxKeepsPromise == SessionsSpec => []DoTxOutcome
<1>1. IInv => DoTxOutcome
  BY DEF IInv
<1> QED
  BY <1>1, Invariance, PTL

-----------------------------------------------------------------------------
(* Statements *)

Places == {"idle", "load", "store", "render", "built", "meta", "metaStore", "scan"}
BeforeBuild == {"load", "store", "render"}
BeforeRow == BeforeBuild \union {"built"}

\* A statement object serves one goroutine at a time, and a call builds once at most and
\* finds one row at most.
CallInv ==
  /\ root \in Roots /\ valuer \in {"unsafe", "reflect"}
  /\ made \in BOOLEAN /\ built \in {"none", "ok", "error"}
  /\ pc \in [Procs -> Places] /\ call \in [Procs -> {"none", "build", "get", "exec"}]
  /\ \A p \in Procs : call[p] = "none" <=> pc[p] = "idle"
  /\ \A p, q \in Procs : pc[p] # "idle" /\ pc[q] # "idle" => p = q
  /\ calls \in 0..MaxCalls /\ others \in 0..MaxOthers
  /\ builds \in Nat /\ builds <= calls
  /\ \A p \in Procs : pc[p] \in BeforeBuild => builds + 1 <= calls
  /\ got \in Nat /\ got <= calls
  /\ \A p \in Procs : pc[p] \in BeforeRow => got + 1 <= calls

\* A step that is not one of a call.
LEMMA CallStays ==
  ASSUME CallInv, UNCHANGED <<root, valuer, builds, built, pc, call, calls, got>>,
         made' \in BOOLEAN, others' \in 0..MaxOthers
  PROVE  CallInv'
BY DEF CallInv

\* A step of a call, to its end if it goes to "idle".
LEMMA CallMoves ==
  ASSUME CallInv, NEW p \in Procs, pc[p] # "idle", NEW at \in Places,
         pc' = [pc EXCEPT ![p] = at],
         call' = IF at = "idle" THEN [call EXCEPT ![p] = "none"] ELSE call,
         UNCHANGED <<root, valuer, made, calls, others>>, built' \in {"none", "ok", "error"},
         builds' = builds \/ (builds' = builds + 1 /\ pc[p] = "render"),
         at \in BeforeBuild => pc[p] \in BeforeBuild /\ builds' = builds,
         got' = got \/ (got' = got + 1 /\ pc[p] = "built"),
         at \in BeforeRow => pc[p] \in BeforeRow /\ got' = got
  PROVE  CallInv'
<1>1. \A q \in Procs : q # p => pc[q] = "idle" /\ pc'[q] = "idle"
  BY DEF CallInv
<1>2. pc'[p] = at /\ pc' \in [Procs -> Places]
  BY DEF CallInv
<1>3. builds' \in Nat /\ builds' <= calls /\ \A q \in Procs : pc'[q] \in BeforeBuild => builds' + 1 <= calls
  BY <1>1, <1>2, StatementsAssumption DEF CallInv, BeforeBuild
<1>4. got' \in Nat /\ got' <= calls /\ \A q \in Procs : pc'[q] \in BeforeRow => got' + 1 <= calls
  BY <1>1, <1>2, StatementsAssumption DEF CallInv, BeforeRow, BeforeBuild
<1>5. /\ call' \in [Procs -> {"none", "build", "get", "exec"}]
      /\ \A q \in Procs : call'[q] = "none" <=> pc'[q] = "idle"
  BY <1>1, <1>2 DEF CallInv
<1>6. \A q, r \in Procs : pc'[q] # "idle" /\ pc'[r] # "idle" => q = r
  BY <1>1
<1> QED
  BY <1>2, <1>3, <1>4, <1>5, <1>6 DEF CallInv

\* A call that returns.
LEMMA CallReturns ==
  ASSUME CallInv, NEW p \in Procs, pc[p] # "idle", NEW res, Return(p, res),
         UNCHANGED <<root, valuer, made, builds, built, calls, others, got>>
  PROVE  CallInv'
<1>1. "idle" \in Places /\ "idle" \notin BeforeBuild /\ "idle" \notin BeforeRow
  BY DEF Places, BeforeBuild, BeforeRow
<1>2. pc' = [pc EXCEPT ![p] = "idle"] /\ call' = [call EXCEPT ![p] = "none"] /\ built' \in {"none", "ok", "error"}
  BY DEF Return, CallInv
<1> QED
  BY <1>1, <1>2, CallMoves

\* The variables that every action of Statements names.
LEMMA Frames ==
  /\ UNCHANGED stmtVars => UNCHANGED <<root, valuer, b, seen, made, builds, built>>
  /\ UNCHANGED callVars => UNCHANGED <<pc, call, meta, result>>
  /\ UNCHANGED sessionVars => UNCHANGED got
  /\ UNCHANGED counts => UNCHANGED <<calls, others>>
BY DEF stmtVars, callVars, sessionVars, connVars, counts

LEMMA StartKeeps ==
  ASSUME CallInv, NEW p \in Procs, NEW how \in {"build", "get", "exec"}, Start(p, how)
  PROVE  CallInv'
<1>1. /\ \A q \in Procs : call[q] = "none" /\ pc[q] = "idle"
      /\ calls' = calls + 1 /\ calls < MaxCalls
      /\ UNCHANGED <<root, valuer, made, builds, built, got, others>>
  BY Frames DEF Start, CallInv
<1>2. calls' \in 0..MaxCalls /\ builds + 1 <= calls' /\ got + 1 <= calls' /\ builds <= calls' /\ got <= calls'
  BY <1>1, StatementsAssumption DEF CallInv
<1>3. CASE Refused(root)
  <2>1. pc' = [pc EXCEPT ![p] = "idle"] /\ call' = [call EXCEPT ![p] = "none"]
    BY <1>3 DEF Start, Return
  <2>2. pc' = pc /\ call' = call
    BY <1>1, <2>1 DEF CallInv
  <2> QED
    BY <1>1, <1>2, <2>2 DEF CallInv
<1>4. CASE ~Refused(root)
  <2>1. PICK at \in {"load", "render"} : pc' = [pc EXCEPT ![p] = at] /\ call' = [call EXCEPT ![p] = how]
    BY <1>4 DEF Start
  <2>2. pc' \in [Procs -> Places] /\ call' \in [Procs -> {"none", "build", "get", "exec"}]
    BY <2>1 DEF CallInv, Places
  <2>3. \A q \in Procs : IF q = p THEN pc'[q] = at /\ call'[q] = how
                         ELSE pc'[q] = "idle" /\ call'[q] = "none"
    BY <1>1, <2>1 DEF CallInv
  <2>4. \A q \in Procs : call'[q] = "none" <=> pc'[q] = "idle"
    BY <2>3
  <2>5. \A q, r \in Procs : pc'[q] # "idle" /\ pc'[r] # "idle" => q = r
    BY <2>3
  <2> QED
    BY <1>1, <1>2, <2>2, <2>4, <2>5 DEF CallInv
<1> QED
  BY <1>3, <1>4

\* The steps of a call between its start and its return.
LEMMA CallsKeep ==
  ASSUME CallInv, NEW p \in Procs, Calls(p)
  PROVE  CallInv'
<1>1. ASSUME RegisterModel(p) PROVE CallInv'
  <2>1. others' = others + 1 /\ others < MaxOthers /\ made' = made
    BY <1>1, Frames DEF RegisterModel
  <2>2. others' \in 0..MaxOthers /\ made' \in BOOLEAN
    BY <2>1, StatementsAssumption DEF CallInv
  <2> QED
    BY <1>1, <2>2, Frames, CallStays DEF RegisterModel
<1>2. ASSUME NEW how \in {"build", "get", "exec"}, Start(p, how) PROVE CallInv'
  BY <1>2, StartKeeps
<1>3. ASSUME NEW how \in {"build", "get", "exec"}, Intercepted(p, how) PROVE CallInv'
  <2>1. pc[p] = "idle" /\ call[p] = "none"
    BY <1>3 DEF Intercepted, CallInv
  <2>2. pc' = [pc EXCEPT ![p] = "idle"] /\ call' = [call EXCEPT ![p] = "none"]
    BY <1>3 DEF Intercepted, Return
  <2>3. pc' = pc /\ call' = call
    BY <2>1, <2>2 DEF CallInv
  <2>4. UNCHANGED <<root, valuer, made, builds, built, calls, others, got>>
    BY <1>3, Frames DEF Intercepted
  <2> QED
    BY <2>3, <2>4, CallStays DEF CallInv
<1>4. ASSUME Load(p) PROVE CallInv'
  <2>1. /\ pc[p] \in {"load", "meta"} /\ call' = call
        /\ UNCHANGED <<root, valuer, made, builds, built, calls, others, got>>
    BY <1>4, Frames DEF Load
  <2>2. \E at \in Places : /\ pc' = [pc EXCEPT ![p] = at] /\ at # "idle"
                           /\ at \in BeforeBuild => pc[p] \in BeforeBuild
                           /\ at \in BeforeRow => pc[p] \in BeforeRow
    BY <1>4, <2>1 DEF Load, After, Places, BeforeBuild, BeforeRow
  <2> QED
    BY <2>1, <2>2, CallMoves DEF CallInv
<1>5. ASSUME StoreDefault(p) PROVE CallInv'
  <2>1. pc[p] \in {"store", "metaStore"} /\ UNCHANGED <<root, valuer, made, builds, built, calls, others, got>>
    BY <1>5, Frames DEF StoreDefault
  <2>2. CASE ParseModel(Type) = NoModel
    BY <1>5, <2>1, <2>2, CallReturns DEF StoreDefault
  <2>3. CASE ParseModel(Type) # NoModel
    <3>1. \E at \in Places : /\ pc' = [pc EXCEPT ![p] = at] /\ at # "idle"
                             /\ at \in BeforeBuild => pc[p] \in BeforeBuild
                             /\ at \in BeforeRow => pc[p] \in BeforeRow
      BY <1>5, <2>1, <2>3 DEF StoreDefault, After, Places, BeforeBuild, BeforeRow
    <3>2. call' = call
      BY <1>5, <2>3 DEF StoreDefault
    <3> QED
      BY <2>1, <3>1, <3>2, CallMoves DEF CallInv
  <2> QED
    BY <2>2, <2>3
<1>6. ASSUME Render(p) PROVE CallInv'
  <2>1. /\ pc[p] = "render" /\ pc' = [pc EXCEPT ![p] = "built"] /\ call' = call
        /\ builds' = builds + 1 /\ built' \in {"none", "ok", "error"}
        /\ UNCHANGED <<root, valuer, made, calls, others, got>>
    BY <1>6, Frames DEF Render, Leaves
  <2>2. "built" \in Places /\ "built" \notin BeforeBuild /\ "render" \in BeforeRow
    BY DEF Places, BeforeBuild, BeforeRow
  <2> QED
    BY <2>1, <2>2, CallMoves
<1>7. ASSUME BuildReturns(p) PROVE CallInv'
  BY <1>7, Frames, CallReturns DEF BuildReturns
<1>8. ASSUME Fails(p) PROVE CallInv'
  BY <1>8, Frames, CallReturns DEF Fails, Sending
<1>9. ASSUME Exec(p) PROVE CallInv'
  <2>1. pc[p] = "built" /\ \E res : Return(p, res)
    BY <1>9 DEF Exec, Sending
  <2>2. UNCHANGED <<root, valuer, made, builds, built, calls, others, got>>
    BY <1>9, Frames DEF Exec, ExecContext, connVars
  <2> QED
    BY <2>1, <2>2, CallReturns
<1>10. ASSUME FindsRow(p) PROVE CallInv'
  <2>1. /\ pc[p] = "built" /\ pc' = [pc EXCEPT ![p] = "meta"] /\ call' = call
        /\ UNCHANGED <<root, valuer, made, builds, built, calls, others>>
        /\ got' = got \/ got' = got + 1
    BY <1>10, Frames DEF FindsRow, Sending, QueryContext
  <2>2. "meta" \in Places /\ "meta" \notin BeforeBuild /\ "meta" \notin BeforeRow
    BY DEF Places, BeforeBuild, BeforeRow
  <2> QED
    BY <2>1, <2>2, CallMoves DEF CallInv
<1>11. ASSUME Scan(p) PROVE CallInv'
  <2>1. pc[p] = "scan" /\ \E res : Return(p, res)
    BY <1>11 DEF Scan
  <2>2. UNCHANGED <<root, valuer, made, builds, built, calls, others, got>>
    BY <1>11, Frames DEF Scan
  <2> QED
    BY <2>1, <2>2, CallReturns
<1> QED
  BY <1>1, <1>2, <1>3, <1>4, <1>5, <1>6, <1>7, <1>8, <1>9, <1>10, <1>11 DEF Calls

\* A transaction is begun, ended or cancelled.
LEMMA TransactionsKeep ==
  ASSUME CallInv, NEW p \in Procs, Transactions(p)
  PROVE  CallInv'
<1>1. got' = got
  BY DEF Transactions, Begins, BeginTx, Commit, Rollback, RollbackIfNotCommit, Returns, DoTxReturns, Cancel
<1>2. UNCHANGED <<root, valuer, made, builds, built, pc, call, calls>>
  BY Frames DEF Transactions
<1>3. others' = others \/ (others < MaxOthers /\ others' = others + 1)
  BY Frames DEF Transactions
<1>4. others' \in 0..MaxOthers
  BY <1>3, StatementsAssumption DEF CallInv
<1> QED
  BY <1>1, <1>2, <1>4, CallStays DEF CallInv

LEMMA CallStart == Init => CallInv
<1> SUFFICES ASSUME Init PROVE CallInv
  OBVIOUS
<1>1. /\ root \in Roots /\ valuer \in {"unsafe", "reflect"} /\ made = FALSE /\ builds = 0 /\ built = "none"
      /\ pc = [p \in Procs |-> "idle"] /\ call = [p \in Procs |-> "none"] /\ got = 0 /\ calls = 0 /\ others = 0
  BY DEF Init, ValueCreators, SessionsInit
<1>2. MaxCalls \in Nat /\ MaxOthers \in Nat
  BY StatementsAssumption
<1>3. pc \in [Procs -> Places] /\ call \in [Procs -> {"none", "build", "get", "exec"}]
  BY <1>1 DEF Places
<1>4. \A p \in Procs : pc[p] = "idle" /\ call[p] = "none" /\ pc[p] \notin BeforeBuild /\ pc[p] \notin BeforeRow
  BY <1>1 DEF BeforeBuild, BeforeRow
<1>5. calls \in 0..MaxCalls /\ others \in 0..MaxOthers /\ builds <= calls /\ got <= calls
  BY <1>1, <1>2
<1> QED
  BY <1>1, <1>3, <1>4, <1>5 DEF CallInv

LEMMA CallStep == CallInv /\ [Next]_vars => CallInv'
<1> SUFFICES ASSUME CallInv, [Next]_vars PROVE CallInv'
  OBVIOUS
<1>1. CASE UNCHANGED vars
  <2>1. UNCHANGED <<root, valuer, made, builds, built, pc, call, calls, others, got>>
    BY <1>1, Frames DEF vars
  <2> QED
    BY <2>1, CallStays DEF CallInv
<1>2. CASE Assemble
  <2>1. UNCHANGED <<root, valuer, builds, built, pc, call, calls, others, got>> /\ made' = TRUE
    BY <1>2, Frames DEF Assemble
  <2> QED
    BY <2>1, CallStays DEF CallInv
<1>3. ASSUME NEW p \in Procs, Calls(p) \/ Transactions(p) PROVE CallInv'
  BY <1>3, CallsKeep, TransactionsKeep
<1> QED
  BY <1>1, <1>2, <1>3 DEF Next

\* A step of Statements is a step of the sessions or leaves them alone.
LEMMA StepMaps == [Next]_vars => [SessionsNext]_sessionVars
<1> SUFFICES ASSUME [Next]_vars PROVE [SessionsNext]_sessionVars
  OBVIOUS
<1>1. CASE UNCHANGED vars
  BY <1>1 DEF vars
<1>2. CASE Assemble
  BY <1>2 DEF Assemble
<1>3. ASSUME NEW p \in Procs, Calls(p) PROVE [SessionsNext]_sessionVars
  <2>1. CASE Exec(p)
    BY <2>1 DEF Exec, SessionsNext
  <2>2. CASE FindsRow(p)
    BY <2>2 DEF FindsRow, SessionsNext
  <2>3. CASE RegisterModel(p) \/ \E how \in {"build", "get", "exec"} : Start(p, how) \/ Intercepted(p, how)
    BY <2>3 DEF RegisterModel, Start, Intercepted
  <2>4. CASE Load(p) \/ StoreDefault(p) \/ Render(p) \/ BuildReturns(p) \/ Fails(p) \/ Scan(p)
    BY <2>4 DEF Load, StoreDefault, Render, BuildReturns, Fails, Scan
  <2> QED
    BY <1>3, <2>1, <2>2, <2>3, <2>4 DEF Calls
<1>4. ASSUME NEW p \in Procs, Transactions(p) PROVE [SessionsNext]_sessionVars
  <2>1. Begins(p) \/ Commit(p) \/ Rollback(p) \/ RollbackIfNotCommit(p) \/ Cancel(p) \/ Returns(p)
    BY <1>4 DEF Transactions
  <2> QED
    BY <2>1 DEF SessionsNext
<1> QED
  BY <1>1, <1>2, <1>3, <1>4 DEF Next

LEMMA CallInvariance == Spec => []CallInv
BY CallStart, CallStep, PTL DEF Spec

\* Goroutines that call Get, Exec, BeginTx and DoTx use their sessions as Sessions
\* allows, whatever the builders write: what holds of the sessions holds of them.
THEOREM SessionsImplemented == Spec => SessionsSpec
<1>1. Init => SessionsInit
  BY DEF Init
<1> QED
  BY <1>1, StepMaps, PTL DEF Spec, SessionsSpec

\* The variables of the calls have their types: a goroutine is at a place of a call
\* exactly while it is in one, and there are never more Builds, nor connections kept
\* by rows, than calls may be made.
THEOREM CallsTyped == Spec => []TypeOK
<1>1. CallInv /\ SessionsTypeOK => TypeOK
  <2> SUFFICES ASSUME CallInv, SessionsTypeOK PROVE TypeOK
    OBVIOUS
  <2>1. builds \in 0..MaxCalls /\ got <= MaxCalls
    BY StatementsAssumption DEF CallInv
  <2> QED
    BY <2>1 DEF CallInv, TypeOK, Places
<1> QED
  BY <1>1, CallInvariance, SessionsImplemented, TypeCorrect, PTL

\* In the whole system, too, every connection in use belongs to an open transaction
\* or to the rows of a Get.
THEOREM ConnectionsAccounted == Spec => []ConnsAccounted
BY SessionsImplemented, PoolAccounted, PTL

\* So does DoTx keep its promise whatever statements fn executes.
THEOREM TransactionsKeepPromise == Spec => []DoTxOutcome
BY SessionsImplemented, DoTxKeepsPromise, PTL

=============================================================================
