----------------------------- MODULE Statements -----------------------------
(***************************************************************************)
(* Goroutines that share one DB of homework_subquery: they register models, *)
(* build and execute one statement object after another's use of it, and    *)
(* run transactions, by hand or through DoTx.                               *)
(*                                                                         *)
(* One statement, root, is in use in a behaviour; every behaviour picks its *)
(* own.  The database, database/sql and the callbacks are the environment:  *)
(* a query may fail, find no row or find one; a commit may fail; a context  *)
(* may be cancelled; fn may return, fail or panic, and may end its          *)
(* transaction itself.                                                      *)
(*                                                                         *)
(* What a builder writes is left open, so that what is proved here holds of *)
(* every builder; Orm has those of the code.                                *)
(***************************************************************************)
EXTENDS Expressions, Sessions

CONSTANTS Built(_, _),         \* the builders' heap after the Build of a statement
          WithSubquery(_, _),  \* the heap after AsSubquery
          Columns(_)           \* the names of the columns that a text returns

CONSTANTS Roots,     \* the statements a behaviour may use
          Parts,     \* the Subqueries made for each of them, in order
          Customs,   \* the registrations the application makes: type, options
          Schema,    \* the column lists a table of a type may have
          MaxCalls,  \* statements called in a behaviour
          MaxOthers  \* registrations made and transactions begun, together

ASSUME StatementsAssumption ==
  /\ MaxCalls \in Nat /\ MaxOthers \in Nat
  /\ Roots \subseteq DOMAIN Stmt /\ DOMAIN Parts = Roots

VARIABLES root, valuer,          \* chosen once: the statement, the value creator
          b, seen,               \* the builders' heap; the registry as the last Build left it
          made, builds, built,   \* the Subqueries exist; Builds of root; the last one's result
          pc, call,              \* where each goroutine is, in which call
          meta,                  \* the model it has looked up
          result,                \* what its last Get returned
          calls, others          \* counted against the bounds

stmtVars == <<root, valuer, b, seen, made, builds, built>>
callVars == <<pc, call, meta, result>>
counts == <<calls, others>>
vars == <<models, stmtVars, callVars, sessionVars, counts>>

Type == Stmt[root].type
NoObject == [c \in {} |-> ""]
NoResult == [ok |-> FALSE, obj |-> NoObject]

\* Build alone leaves what a Get or Exec leaves that the database refuses: it is
\* a call of its own only where there is no other.
Terminals(kind) ==
  CASE kind = "select"               -> {"get"}
    [] kind \in {"insert", "update"} -> {"exec"}
    [] kind = "raw"                  -> {"get", "exec"}
    [] OTHER                         -> {"build"}

\* Which creator reads rows matters only where there are rows.
ValueCreators(kind) ==
  IF "get" \in Terminals(kind) THEN {"unsafe", "reflect"} ELSE {"unsafe"}

Init ==
  /\ models = [T \in Types |-> NoModel]
  /\ root \in Roots /\ valuer \in ValueCreators(Stmt[root].kind)
  /\ b = [model |-> [i \in DOMAIN Stmt |-> NoModel],
          sb |-> [i \in DOMAIN Stmt |-> <<>>], args |-> [i \in DOMAIN Stmt |-> <<>>],
          cache |-> [q \in DOMAIN Sub |-> <<>>], submodel |-> [q \in DOMAIN Sub |-> NoModel]]
  /\ seen = models /\ made = FALSE /\ builds = 0 /\ built = "none"
  /\ pc = [p \in Procs |-> "idle"] /\ call = [p \in Procs |-> "none"]
  /\ meta = [p \in Procs |-> NoModel] /\ result = [p \in Procs |-> NoResult]
  /\ SessionsInit
  /\ calls = 0 /\ others = 0

Heap == [model |-> b.model, sb |-> b.sb, args |-> b.args, cache |-> b.cache,
         submodel |-> b.submodel, models |-> models, err |-> FALSE]
Keep(h) ==
  /\ b' = [f \in DOMAIN b |-> h[f]]
  /\ models' = h.models

-----------------------------------------------------------------------------
(* The statement: made, built *)

\* The application calls AsSubquery for the Subqueries of the statement.
Assemble ==
  /\ ~made
  /\ made' = TRUE
  /\ LET f[n \in 0..Len(Parts[root])] ==
           IF n = 0 THEN Heap ELSE WithSubquery(f[n - 1], Parts[root][n])
     IN  Keep(f[Len(Parts[root])])
  /\ UNCHANGED <<root, valuer, seen, builds, built, callVars, sessionVars, counts>>

RegisterModel(p) ==
  /\ pc[p] = "idle"
  /\ others < MaxOthers
  /\ others' = others + 1
  /\ \E c \in Customs : Register(c.type, c.opts)
  /\ UNCHANGED <<stmtVars, callVars, sessionVars, calls>>

Return(p, res) ==
  /\ pc' = [pc EXCEPT ![p] = "idle"]
  /\ call' = [call EXCEPT ![p] = "none"]
  /\ meta' = [meta EXCEPT ![p] = NoModel]
  /\ result' = [result EXCEPT ![p] = res]

\* A call of Build, Get or Exec.  A statement object serves one goroutine at a
\* time.
Start(p, how) ==
  /\ made
  /\ pc[p] = "idle"
  /\ calls < MaxCalls
  /\ \A q \in Procs : call[q] = "none"
  /\ calls' = calls + 1
  /\ how \in Terminals(Stmt[root].kind)
  /\ IF Refused(root) THEN Return(p, NoResult)
     ELSE /\ pc' = [pc EXCEPT ![p] = IF HasModel(root) THEN "load" ELSE "render"]
          /\ call' = [call EXCEPT ![p] = how]
          /\ UNCHANGED <<meta, result>>
  /\ UNCHANGED <<models, stmtVars, sessionVars, others>>

\* A middleware answers instead of calling next.  Updater.Exec runs none.
Intercepted(p, how) ==
  /\ made
  /\ pc[p] = "idle"
  /\ how \in Terminals(Stmt[root].kind) \ {"build"}
  /\ Stmt[root].kind # "update"
  /\ Return(p, NoResult)
  /\ UNCHANGED <<models, stmtVars, sessionVars, counts>>

\* Get looks its type up once to build and once more to read the row.
After(at) == IF at \in {"load", "store"} THEN "render" ELSE "scan"

\* Registry.Get: the lookup.
Load(p) ==
  /\ pc[p] \in {"load", "meta"}
  /\ meta' = [meta EXCEPT ![p] = models[Type]]
  /\ pc' = [pc EXCEPT ![p] = IF models[Type] # NoModel THEN After(pc[p])
                              ELSE IF pc[p] = "load" THEN "store" ELSE "metaStore"]
  /\ UNCHANGED <<models, stmtVars, call, result, sessionVars, counts>>

\* Registry.Get after a miss: the default model is parsed and stored, over
\* whatever has been registered in the meantime.
StoreDefault(p) ==
  /\ pc[p] \in {"store", "metaStore"}
  /\ Register(Type, <<>>)
  /\ IF ParseModel(Type) = NoModel
     THEN Return(p, NoResult)
     ELSE /\ meta' = [meta EXCEPT ![p] = ParseModel(Type)]
          /\ pc' = [pc EXCEPT ![p] = After(pc[p])]
          /\ UNCHANGED <<call, result>>
  /\ UNCHANGED <<stmtVars, sessionVars, counts>>

Leaves(h) ==
  /\ Keep(h)
  /\ seen' = h.models
  /\ built' = IF h.err THEN "error" ELSE "ok"

Render(p) ==
  /\ pc[p] = "render"
  /\ Leaves(Built([Heap EXCEPT !.model[root] = meta[p]], root))
  /\ builds' = builds + 1
  /\ pc' = [pc EXCEPT ![p] = "built"]
  /\ UNCHANGED <<root, valuer, made, call, meta, result, sessionVars, counts>>

BuildReturns(p) ==
  /\ pc[p] = "built"
  /\ built = "error" \/ call[p] = "build"
  /\ Return(p, NoResult)
  /\ UNCHANGED <<models, stmtVars, sessionVars, counts>>

-----------------------------------------------------------------------------
(* The statement executed, on the session of the goroutine. *)

Sending(p, how) == pc[p] = "built" /\ built = "ok" /\ call[p] = how

\* A text that was built onto an earlier one is not one statement: the database
\* refuses it.
Acceptable == builds = 1 \/ Stmt[root].kind = "raw"

\* Mutant of Fails: a query that finds no row keeps its connection.
FailsKeeping(p) ==
  /\ Sending(p, "get") \/ Sending(p, "exec")
  /\ Return(p, NoResult)
  /\ inUse' = IF Acceptable /\ CanRun(p) /\ ~InTx(p) THEN inUse + 1 ELSE inUse
  /\ UNCHANGED <<models, stmtVars, txVars, got, counts>>

\* The session returns an error, sql.ErrTxDone after the end of the transaction,
\* or the query finds no row: the connection is not kept.
Fails(p) ==
  /\ Sending(p, "get") \/ Sending(p, "exec")
  /\ Return(p, NoResult)
  /\ UNCHANGED <<models, stmtVars, sessionVars, counts>>

Exec(p) ==
  /\ Sending(p, "exec") /\ Acceptable
  /\ Return(p, NoResult)
  /\ ExecContext(p)
  /\ UNCHANGED <<models, stmtVars, counts>>

\* A row is found.
FindsRow(p) ==
  /\ Sending(p, "get") /\ Acceptable
  /\ pc' = [pc EXCEPT ![p] = "meta"]
  /\ QueryContext(p)
  /\ UNCHANGED <<models, stmtVars, call, meta, result, counts>>

\* Mutant of SetColumns: the columns are stored in the order of the fields.
SetByPosition(m, cs, n) ==
  [f \in DOMAIN m.col |-> LET N == {k \in 1..n : m.fields[k] = f}
                          IN  IF N = {} THEN "" ELSE cs[CHOOSE k \in N : TRUE]]

\* The object after the first n columns are stored: each field holds the column
\* it was read from.
SetColumns(m, cs, n) ==
  [f \in DOMAIN m.col |-> LET N == {k \in 1..n : m.field[cs[k]] = f}
                          IN  IF N = {} THEN "" ELSE cs[CHOOSE k \in N : \A l \in N : l <= k]]

Known(m, cs) ==
  /\ Len(cs) <= Cardinality(IF valuer = "reflect" THEN DOMAIN m.col ELSE DOMAIN m.field)
  /\ \A n \in DOMAIN cs : cs[n] \in DOMAIN m.field

\* The reflect creator scans into temporaries, the unsafe one into the object:
\* its columns before the one that cannot be scanned are stored.
Scan(p) ==
  /\ pc[p] = "scan"
  /\ \E cs \in IF b.sb[root][2] = "*" THEN Schema[Type] ELSE {Columns(b.sb[root])} :
       \/ /\ Known(meta[p], cs) /\ (InTx(p) => tx[p] = "active")
          /\ Return(p, [ok |-> TRUE, obj |-> SetColumns(meta[p], cs, Len(cs))])
       \/ \E n \in IF valuer = "unsafe" /\ Known(meta[p], cs) THEN 0..(Len(cs) - 1) ELSE {0} :
            Return(p, [ok |-> FALSE, obj |-> SetColumns(meta[p], cs, n)])
  /\ UNCHANGED <<models, stmtVars, sessionVars, counts>>

-----------------------------------------------------------------------------
Calls(p) ==
  \/ RegisterModel(p)
  \/ \E how \in {"build", "get", "exec"} : Start(p, how) \/ Intercepted(p, how)
  \/ Load(p) \/ StoreDefault(p) \/ Render(p) \/ BuildReturns(p)
  \/ Fails(p) \/ Exec(p) \/ FindsRow(p) \/ Scan(p)

\* A transaction is begun or ended by the goroutine between two calls; its
\* context may end during one.
Transactions(p) ==
  \/ /\ pc[p] = "idle"
     /\ others < MaxOthers /\ others' = others + 1
     /\ Begins(p)
     /\ UNCHANGED <<models, stmtVars, callVars, calls>>
  \/ /\ pc[p] = "idle"
     /\ Commit(p) \/ Rollback(p) \/ RollbackIfNotCommit(p) \/ Returns(p)
     /\ UNCHANGED <<models, stmtVars, callVars, counts>>
  \/ Cancel(p) /\ UNCHANGED <<models, stmtVars, callVars, counts>>

Next == Assemble \/ \E p \in Procs : Calls(p) \/ Transactions(p)

Spec == Init /\ [][Next]_vars

-----------------------------------------------------------------------------
(* Properties *)

TypeOK ==
  /\ root \in Roots /\ valuer \in {"unsafe", "reflect"}
  /\ made \in BOOLEAN /\ builds \in 0..MaxCalls /\ built \in {"none", "ok", "error"}
  /\ pc \in [Procs -> {"idle", "load", "store", "render", "built", "meta", "metaStore", "scan"}]
  /\ call \in [Procs -> {"none", "build", "get", "exec"}]
  /\ \A p \in Procs : call[p] = "none" <=> pc[p] = "idle"
  /\ SessionsTypeOK /\ got <= MaxCalls
  /\ calls \in 0..MaxCalls /\ others \in 0..MaxOthers

=============================================================================
