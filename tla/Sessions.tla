------------------------------ MODULE Sessions ------------------------------
(***************************************************************************)
(* The sessions of homework_subquery: a DB with its pool of connections and *)
(* the transactions that goroutines run on it, by hand or through DoTx.     *)
(*                                                                         *)
(* database/sql and fn are the environment: a commit may fail; the context  *)
(* of a transaction may end; fn may return, fail or panic, and may end its  *)
(* transaction itself.  What is executed, and when, is left to Statements.  *)
(***************************************************************************)
EXTENDS Integers, FiniteSets

CONSTANTS Procs,    \* goroutines
          MaxConns  \* SetMaxOpenConns of the sql.DB

ASSUME SessionsAssumption == IsFiniteSet(Procs) /\ MaxConns \in Nat \ {0}

VARIABLES mode, tx,              \* its transaction: how it runs it, how it stands
          wrote, durable, self,  \* it wrote; its writes are kept; fn committed by itself
          outcome,               \* what the last DoTx returned
          inUse, got             \* connections in use; queries answered outside a transaction

txVars == <<mode, tx, wrote, durable, self, outcome>>
connVars == <<inUse, got>>
sessionVars == <<txVars, connVars>>

SessionsInit ==
  /\ mode = [p \in Procs |-> "none"] /\ tx = [p \in Procs |-> "none"]
  /\ wrote = [p \in Procs |-> FALSE] /\ durable = [p \in Procs |-> FALSE]
  /\ self = [p \in Procs |-> FALSE] /\ outcome = [p \in Procs |-> "none"]
  /\ inUse = 0 /\ got = 0

-----------------------------------------------------------------------------
(* The two methods of a session.  A goroutine in a transaction uses its Tx, *)
(* and any other the DB.  A call that fails changes nothing.                *)

InTx(p) == mode[p] # "none"
CanRun(p) == IF InTx(p) THEN tx[p] = "active" ELSE inUse < MaxConns

ExecContext(p) ==
  /\ CanRun(p)
  /\ wrote' = [wrote EXCEPT ![p] = InTx(p)]
  /\ UNCHANGED <<mode, tx, durable, self, outcome, connVars>>

\* A row is found.  The rows are never closed: outside a transaction their
\* connection stays in use.
QueryContext(p) ==
  /\ CanRun(p)
  /\ inUse' = IF InTx(p) THEN inUse ELSE inUse + 1
  /\ got' = IF InTx(p) THEN got ELSE got + 1
  /\ UNCHANGED txVars

-----------------------------------------------------------------------------
(* Transactions *)

BeginTx(p, how) ==
  /\ mode[p] = "none"
  /\ inUse < MaxConns
  /\ inUse' = inUse + 1
  /\ mode' = [mode EXCEPT ![p] = how]
  /\ tx' = [tx EXCEPT ![p] = "active"]
  /\ wrote' = [wrote EXCEPT ![p] = FALSE]
  /\ durable' = [durable EXCEPT ![p] = FALSE]
  /\ self' = [self EXCEPT ![p] = FALSE]
  /\ outcome' = [outcome EXCEPT ![p] = "none"]
  /\ UNCHANGED got

\* sql.Tx.Commit, sql.Tx.Rollback and the end of the transaction's context: the
\* connection is released in any case.  After a failed commit nobody knows.
Ends(p, how, kept) ==
  /\ tx[p] = "active"
  /\ tx' = [tx EXCEPT ![p] = how]
  /\ durable' = [durable EXCEPT ![p] = kept /\ wrote[p]]
  /\ inUse' = inUse - 1

Committed(p) == Ends(p, "committed", TRUE)
CommitFails(p) == \E kept \in BOOLEAN : Ends(p, "uncertain", kept)
RolledBack(p) == Ends(p, "rolledback", FALSE)

\* Mutant of Done: the connection is released a second time.
DoneReleasing(p) == tx[p] # "active" /\ inUse' = inUse - 1 /\ UNCHANGED <<tx, durable>>

\* sql.ErrTxDone.
Done(p) == tx[p] # "active" /\ UNCHANGED <<tx, durable, inUse>>

\* The application commits or rolls back a transaction it began, or, inside fn,
\* the transaction of DoTx.
Commit(p) ==
  /\ InTx(p)
  /\ Committed(p) \/ CommitFails(p)
  /\ self' = [self EXCEPT ![p] = TRUE]
  /\ UNCHANGED <<mode, wrote, outcome, got>>

Rollback(p) ==
  /\ InTx(p)
  /\ RolledBack(p)
  /\ UNCHANGED <<mode, wrote, self, outcome, got>>

\* The deferred call that follows a manual transaction: ErrTxDone is no error.
RollbackIfNotCommit(p) ==
  /\ mode[p] = "manual"
  /\ RolledBack(p) \/ Done(p)
  /\ mode' = [mode EXCEPT ![p] = "none"]
  /\ UNCHANGED <<wrote, self, outcome, got>>

\* The context of the transaction is cancelled: database/sql rolls it back.
Cancel(p) ==
  /\ RolledBack(p)
  /\ UNCHANGED <<mode, wrote, self, outcome, got>>

\* Mutant of DoTxReturns: the rollback is left out when fn panics.
DoTxReturnsPanicking(p, how) ==
  /\ mode[p] = "dotx"
  /\ \/ /\ how = "nil"
        /\ \/ Committed(p) /\ outcome' = [outcome EXCEPT ![p] = "nil"]
           \/ (CommitFails(p) \/ Done(p)) /\ outcome' = [outcome EXCEPT ![p] = "error"]
     \/ /\ how = "error"
        /\ (RolledBack(p) \/ Done(p))
        /\ outcome' = [outcome EXCEPT ![p] = how]
     \/ /\ how = "panic"
        /\ UNCHANGED <<tx, durable, inUse>>
        /\ outcome' = [outcome EXCEPT ![p] = how]
  /\ mode' = [mode EXCEPT ![p] = "none"]
  /\ UNCHANGED <<wrote, self, got>>

\* fn returns nil, returns an error or panics; the deferred function of DoTx
\* commits or rolls back.  The error of fn, or the panic, reaches the caller
\* whatever Rollback returns; the error of Commit replaces a nil.
DoTxReturns(p, how) ==
  /\ mode[p] = "dotx"
  /\ \/ /\ how = "nil"
        /\ \/ Committed(p) /\ outcome' = [outcome EXCEPT ![p] = "nil"]
           \/ (CommitFails(p) \/ Done(p)) /\ outcome' = [outcome EXCEPT ![p] = "error"]
     \/ /\ how \in {"error", "panic"}
        /\ (RolledBack(p) \/ Done(p))
        /\ outcome' = [outcome EXCEPT ![p] = how]
  /\ mode' = [mode EXCEPT ![p] = "none"]
  /\ UNCHANGED <<wrote, self, got>>

Begins(p) == \E how \in {"manual", "dotx"} : BeginTx(p, how)
Returns(p) == \E how \in {"nil", "error", "panic"} : DoTxReturns(p, how)

-----------------------------------------------------------------------------
(* The sessions by themselves: any goroutine may send any statement at any  *)
(* time.                                                                    *)

SessionsNext ==
  \E p \in Procs :
    \/ ExecContext(p) \/ QueryContext(p)
    \/ Begins(p) \/ Commit(p) \/ Rollback(p) \/ RollbackIfNotCommit(p) \/ Cancel(p) \/ Returns(p)

SessionsSpec == SessionsInit /\ [][SessionsNext]_sessionVars

-----------------------------------------------------------------------------
(* Properties *)

SessionsTypeOK ==
  /\ mode \in [Procs -> {"none", "manual", "dotx"}]
  /\ tx \in [Procs -> {"none", "active", "committed", "rolledback", "uncertain"}]
  /\ wrote \in [Procs -> BOOLEAN] /\ durable \in [Procs -> BOOLEAN] /\ self \in [Procs -> BOOLEAN]
  /\ outcome \in [Procs -> {"none", "nil", "error", "panic"}]
  /\ inUse \in 0..MaxConns /\ got \in Nat

\* DoTx that returns nil has kept every write of fn.  DoTx that returns an error
\* or panics has kept none, unless fn committed by itself or the commit itself
\* failed; and it never leaves the transaction open.
DoTxOutcome ==
  \A p \in Procs :
    /\ outcome[p] = "nil" => tx[p] = "committed" /\ (wrote[p] => durable[p])
    /\ outcome[p] \in {"error", "panic"} =>
         /\ tx[p] \notin {"none", "active"}
         /\ durable[p] => self[p] \/ tx[p] = "uncertain"

\* A connection in use belongs to an open transaction or to the unclosed rows
\* of a Get that found one: neither a failed statement nor a transaction that
\* ended, in whatever way, keeps one.
ConnsAccounted == inUse = Cardinality({p \in Procs : tx[p] = "active"}) + got

=============================================================================
