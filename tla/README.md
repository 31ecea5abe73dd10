# Verification of the homework repository

The repository is a collection of independent Go programs written for a course: a service that shuts down
gracefully, two local caches, a small RPC framework, two generations of an HTTP route tree and three generations of
an ORM. This directory holds TLA+ specifications of the parts of these programs that are hard to test,
the TLC runs that check them on small instances and the proofs that TLAPS checks for every instance.

## 1. Inventory

All paths are below `src/`. Every module of the repository is built with `go 1.18`, where a `for` loop has one
variable for all its rounds.

| component | state | operations | what is hard |
|---|---|---|---|
| graceful shutdown (`homework_graceful_shutdown/service/shutdown.go`) | reject flag per server, one WaitGroup used three times, the signal channel, nested contexts | StartAndServe, shutdown, Server.stop, rejectReq, ServeHTTP, close | goroutines of four kinds, three nested timeouts, an unsynchronised flag, a captured loop variable |
| MemoryMapCache (`homework_memory_limit/memory_cache.go`) | map of items with deadlines, RWMutex, close channel, ticker | Get, Set, Delete, LoadAndDelete, Close, OnEvicted, the sweeper goroutine | double-checked read with a clock value taken between the locks, the sweeper's limit, closing while the sweeper works |
| MaxMemoryCache (`homework_memory_limit/max_memory_cache.go`) | byte counter, recency list, second mutex, the embedded MemoryMapCache | Get, Set, the eviction callback (Delete, LoadAndDelete and the sweeper reach the embedded cache directly) | two locks taken in both orders, callbacks under a lock, a list used without its lock |
| RPC (`rpc/*.go`, `rpc/message`, `rpc/compression`, `rpc/serialize`) | connection pool, one TCP stream per connection, per-call goroutine and channel | InitService, Client.Invoke, doInvoke, Server.handleConn, ReadMsg, encoders | late answers, one-way calls, timeouts, pooled connections that keep unread bytes |
| router, second generation (`homework2/route.go`, `server.go`, `context.go`, `middleware.go`) | a tree per method; static, star, parameter and regular-expression children; middlewares per node | addRoute, findRoute, findMdls, Use, serve | matching priority without backtracking, partial registration, middleware lookup |
| router, first generation (`homework1/*.go`) | the same tree without middlewares | addRoute, findRoute, serve | the same, minus middlewares |
| ORM with subqueries (`homework_subquery/**`) | string builder and arguments per statement, text cached per Subquery, model registry, connection pool, transactions | Selector, Inserter, Updater, Raw: Build, Get, Exec; DB.DoTx, Tx; registry.Get/Register; the two value creators; middlewares | nested predicates and where their arguments go, a builder or a Subquery that is used twice, a registry raced by two goroutines, rollback on panic, rows that are never closed |
| ORM select (`homework_select/**`) | an earlier builder, with ORDER BY and without joins | Selector.Build | the same builder |
| ORM delete (`homework_delete/**`) | the first builder, without models | Deleter.Build, Selector.Build | the same builder |
| generated code (`proto/gen`) | none | none | nothing: generated |

How they interact: MaxMemoryCache embeds a Cache (the MemoryMapCache in the program) and receives its eviction
callbacks; the RPC client and server meet only through connections, and what they send goes through the message
encoding; the ORM's selectors, inserters and updaters share the builder, the registry and a session (a DB or a Tx). The programs
share no state with each other.

What makes each correct:

* shutdown: its phases do not overlap; callbacks and requests get the time they are promised; a second signal
  always works; the process ends.
* MemoryMapCache: a read returns a value that was live during the call; only expired items are evicted, each once;
  an expired item goes away.
* MaxMemoryCache: it behaves as an LRU cache of bounded size; the counter equals what is stored; no operation
  blocks for ever or keeps a lock.
* RPC: a call gets its own answer; a connection is used by one call at a time; a call returns; neither side dies;
  a message arrives as it was sent.
* routers: a lookup agrees with the documented priority; what is registered stays, whatever fails later; the middlewares of a
  path are found.
* ORM: a statement means what it was built from, and every placeholder has its argument; a Get fills what it
  selected; a transaction ends exactly once; connections return to the pool; a registered model is the one that is
  used.

## 2. Plan

In order of importance, and in the order the modules are written. All of them are there; sections 3 to 7
describe them.

1. `GracefulShutdown`, with theorems about every property that is not liveness (`GracefulShutdownProofs`).
2. `MemoryCache`: the embedded cache with its sweeper, at the granularity of its lock sections, with theorems about
   every property that is not liveness (`MemoryCacheProofs`).
3. `LRU`, the abstract specification of a bounded cache, and `MaxMemoryCache`, which implements it when used by
   one goroutine as long as no item expires; the same module with several goroutines.
4. `RemoteCall`, the abstract specification of a call, and `Rpc`: client, pool, connections and server, which
   implement it.
5. `Router` and `HTTPRouter`: registration and lookup of both generations.
6. `ModelRegistry`, `Expressions`, `QueryBuilder` and `FirstBuilders`: the registry and the builders of all three ORMs as
   pure operators on a heap; `SqlReader`, how a database reads a statement, which shares nothing with them; `Sessions`
   and `Statements`, the goroutines, transactions, calls and rows, without the builders, so that theorems about them
   are possible; and `Orm`, which composes all of them.
7. `Wire`, the message encoding, and ReadMsg over a stream whose Reads may be short.

The theorems follow the modules in the same order (section 6). `DataLemmas` holds what several proofs need:
induction over a set in first-order form, lemmas about loops that are written as recursive functions, and digits and
remainders of numbers.
Everything of `Orm` that depends on a built text stays with TLC, for the reason section 6 gives.

## 3. Conventions

A module models the code with the names of the code. An action is one critical section, one step between two
of them, or, where nothing runs concurrently, one call. Its operators named `...Unchecked`, `...Kept` and the like,
with a comment that begins with "Mutant of", are not part of the model: each is what an operator would be if the
code had a plausible bug, and `PROJECT.json` says which property then fails. A parameter marked "bound" in
the list of constants limits the instance only. Variables marked "history" are never read by an action.

| module | contents |
|---|---|
| `GracefulShutdown`, `MCGracefulShutdown`, `GracefulShutdownProofs` | `homework_graceful_shutdown/service/shutdown.go` |
| `MemoryCache`, `MemoryCacheProofs` | `homework_memory_limit/memory_cache.go` |
| `LRU` | what a bounded cache promises (abstract) |
| `MaxMemoryCache`, `MCMaxMemoryCache`, `MaxMemoryCacheProofs` | `homework_memory_limit/max_memory_cache.go`, with as much of the embedded cache as it needs |
| `RemoteCall` | what a remote call promises (abstract) |
| `Rpc`, `MCRpc`, `RpcProofs` | `rpc/client.go`, `rpc/server.go`, `rpc/context.go` |
| `Router` | the route tree of `homework1/route.go`: registration, look-up |
| `HTTPRouter`, `MCHTTPRouter`, `HTTPRouterProofs` | what `homework2/route.go` and `server.go` add to it, and the specification of both |
| `Wire`, `MCWire`, `WireProofs` | `rpc/tcp.go`, `rpc/message`, and both ends of a connection as far as bytes decide what they do |
| `ModelRegistry` | `homework_subquery/model/registry.go` (that of `homework_select` has the same text) |
| `Expressions` | what a statement is made of: tables, columns, predicates, assignments, the configured statement objects |
| `QueryBuilder` | the statement builders of `homework_subquery`: select, insert, update, raw, both dialects |
| `FirstBuilders` | the builders of `homework_select` and `homework_delete` |
| `SqlReader` | how a database reads a statement (external) |
| `Sessions`, `SessionsProofs` | `homework_subquery/transaction.go` and the transactions and connections of `db.go` |
| `Statements` | `core.go`, `db.go` and `internal/valuer`: statements built and executed by goroutines in sessions, for any builders |
| `Orm`, `MCOrm` | the whole: `Statements` with the builders, and what a database reads in what they write |
| `DataLemmas` | facts about sets, sequences and loops that the proofs share |

## 4. The modules

### GracefulShutdown

`proc` is the process, `pc` the place of main in `StartAndServe` and `shutdown`, `wg` the one WaitGroup that
the three phases share. `stopper[s]` is the goroutine that runs `Server.stop` for server `s`, `srv[s]` its
listener. `cb[i]` is the goroutine that round `i` of the callback loop starts, `cbVar` the variable that all of them
capture: `ran[i]` is the callback that goroutine `i` has really called. `exitCh` is the signal channel of capacity
one. `reject[s]` is the flag as main writes it and `seen[s]` as the handlers read it: the flag is not synchronised
in the code, so a request may see an old value for a while (`FlushReject` ends it).

Actions: `TakeSignal` is the receive of `StartAndServe`; `WatchdogSignal` and `WatchdogTimeout` are the two
cases of the watchdog's select; `RejectReq`, `WaitRejected`, `StopWake`, `StopReturn`, `WaitStopped`,
`SpawnCallback`, `EndSpawn`, `StartCallback`, `FinishCallback`, `WaitCallbacks` and `Close` are the phases of
`shutdown` in order. Time is a counter of seconds that `Tick` advances only when nothing is due at once
(`Urgent`): the Go scheduler is quick compared to a second. Real requests and callbacks take any time.

Properties: `PhaseBarriers`, `CutOffOnlyAtDeadline`, `GracefulInTime`, `SecondSignalHeeded` (invariants),
`AdmissionStops` (action property), `Terminates` (liveness).

### MemoryCache

`data` maps a key to an item, which is the number of the Set that wrote it; `deadline` and `fate` belong to items.
`Get` has the three steps of the code: `GetRead` (read lock), `GetNow` (the clock, without a lock), `GetLock`
(write lock, the second look). `Set`, `Delete` and `LoadAndDelete` are one critical section each. The sweeper waits
in its select (`parked`), is woken with a time stamp by the ticker, waits for the lock (`locking`) and sweeps: the
map is visited in random order and at most `SweepLimit + 1` of its entries (`Swept`). `tick` is the ticker's channel
of capacity one. `Close` succeeds only while the sweeper is parked. `callback` says whether onEvicted has been
set; a delete without it ends the process (`crashed`).

Properties: `NoLiveItemLost`; `GetLinearizable`, with the history variable `window`, which collects what a Get that
takes no time would have returned at each moment of the call; `ExpiredItemsGo` (liveness).

### LRU and MaxMemoryCache

`MaxMemoryCache` has the counter `used`, the recency list `list`, and the two mutexes: `mLock` (the counter) and
`cLock` (the embedded cache). `frame[p]` holds the program counter and the local variables of the call of goroutine
`p`. Every acquisition, release and access of the list is a step, so the steps of several goroutines interleave as
in the code. `Forget` is the delete of an item with its eviction callback, which needs `mLock`; `Unlist`
is the callback's loop over the list: it deletes the element at its index and goes on with the next index, which skips
an element. `Bytes` is the set of the bytes stored, so that `Sum` is a cardinality. The sweeper is `SweepStart`, `SweepOne`,
`SweepEnd`. The embedded cache is modelled only as far as this needs: `MemoryCache` is its specification.

`LRU` is the abstract cache: a sequence of keys by last use, the sizes, and the item on its way in. `IsLRUCache`
is the refinement, with the mapping at the end of `MaxMemoryCache`. The abstract order is the list, but for two
moments: a key with an item that has been taken out of the list and not yet put at its head is first in the order,
and a key that is at the head of the list but whose first item is still to be stored is not in the order yet.

`LRU` leaves open how many keys are given up for an item, because the code does: the loop of lines 68-87 stops when
`used - free > needSize`, which has nothing to do with the limit.

### RemoteCall and Rpc

A call is two goroutines of the client: `invoke[c]` is the one of `Client.Invoke`, `worker[c]` the one that runs
`doInvoke`. `conn[c]` is the connection the worker has borrowed. The pool (a library) keeps `idle`,
`waiters` and `opening`, its count. Per connection there are the requests not read by the server, the responses not
read by the client and the request being served. `clientDown` and `serverDown` are panics that end a process.
The kinds of calls are listed in the module: with a context that ends, to a service or a method the server does not
have, and one-way.

`Invoke`, `SelectDone`, `SelectAnswer` and `SendOnClosed` are `Client.Invoke` and its channel; the actions
named `Get...` and `Put` are the pool; `Write`, `Read` and `Breaks` are `send`; `Execute`, `Reply`, `Refuse` and
`Die` are `handleConn` and `Server.Invoke`. A worker whose caller has left goes on, as in the code.

`RemoteCall` is what the client's user may rely on: at most one execution per call, and no answer but one's own.
`ImplementsRemoteCall` says that `Rpc` implements it.

### Router and HTTPRouter

`tree` maps a node, named by the edges that lead to it, to what it was created from and its handler. A node has one
child per word and one `star`, `param` and `reg` child at most. `Walk` is the loop of `addRoute`; it stops where
`childOrCreate` panics, and what it has created stays, because a caller may recover. Methods have separate
trees, so one is enough. The loops of `addRoute` and `findRoute` are recursive functions of the number of
segments done (`Proceed`, `Descend`), each round of which is an operator. `Use` in `HTTPRouter` is `addRoute` without a
handler; `mws` is the slice of middlewares of each node that has any. `FindRoute` and `FindMdls` are the two look-ups; the
two nested loops of `findMdls` are the functions in `FindMdls` (over the segments) and `NextLevel` (over the nodes of a
level), and `Visit` is the body of the inner one. `Serve` is `serve`.

`LookupByPriority` compares `FindRoute` with the declarative description of lines 180-186 (`Chosen`);
`MiddlewaresOfPath` compares `FindMdls` with the set of nodes that match the beginning of the request. `RoutesStay`
and `WordsReachTheirHandler` are action properties over sequences of registrations.

### Wire

One connection, byte by byte. `inbox[e]` holds the bytes on their way to the server or the client, `reader[e]` where
that end is in `ReadMsg` and what it has read, `heard[e]` the message it decoded last. `ReadLengths` and `ReadRest`
are the two Reads of `ReadMsg`: each is made once, and what it did not get stays zero in the buffer, as in the code.
`Call` is the function that `setFuncField` makes, up to the bytes written; `Receive`, `TellCaller` and
`ConnectionLost` are the way back; `Accept`, `Serve` and `Reply` are `handleConn` with `Server.Invoke` and the stub.
`EncodeReq`, `DecodeReq`, `EncodeResp` and `DecodeResp` are the functions of these names; the `...Panics` operators
say when a slice is out of bounds. Both processes die of a panic, because nothing recovers.

The width is scaled down: a byte has `Base` values and a length `FieldBytes` bytes, so the 15 fixed bytes of the
program become `Fixed`. The fields, the separators and every sum are where the program has them, and lengths wrap at
`Width` as they do at 2^32. `Encoded` is what serializer and compression together make of a value. A length is turned
into bytes and back as `binary.BigEndian` does it, by shifts (`Field`) and by sums (`Number`). `CutLine` is one round of
DecodeReq's search for a newline, `Lines` all of its rounds; `Ended` is the loop of EncodeReq that writes each line with its newline.

Properties: `RequestsArrive`, `CallerTold`, `PanicsExplained` and `NoneWaitsInVain`. They are stated while every Read
has been full (`short` is FALSE): the program has no answer to a short one. `RequestsArrive` is about requests that fit
(`ReqFits`) and whose names, keys and values hold no separator (`Legal`): a method name that holds a newline and a
carriage return is decoded as a shorter name and one more pair of metadata. Nothing is asked of the requests that
came before it in the stream. `Wire` looks inside the messages that
`Rpc` takes to arrive whole and unchanged: `RequestsArrive` and `CallerTold` are what justifies that, on a connection
whose Reads are full and with messages that fit.

### ModelRegistry, Expressions, QueryBuilder, FirstBuilders

`models` is the registry's map. A model is reduced to its table name, its fields in order, the column of each field
(`col`, the FieldMap) and the field of each column (`field`, the ColumnMap): `WithColumnName` changes the first and
not the second. `Underscore` gives the value of `underscoreName` on the names in use.

A statement object is a constant record of `Stmt`; the chained configuration methods are what makes such a record,
and the constructors of tables, columns, predicates and assignments are operators (`Expressions`). The builders' state is a heap `h`:
`sb` and `args` of every statement object, its model, the text cache of every Subquery. Every operator that takes
`h` returns the heap after the function it models, and `err` is the error return after which a builder writes nothing
more. Text is a sequence of tokens without quotes and blanks.

### Sessions

A session is the DB or a Tx. `mode[p]` says how goroutine `p` runs its transaction (by hand, or through `DoTx`),
`tx[p]` how the transaction stands, `wrote[p]` and `durable[p]` what became of its writes, `self[p]` that the application
committed by itself, `outcome[p]` what the last DoTx returned. `inUse` counts the connections that are out of the pool,
`got` those that unclosed rows keep. `BeginTx`, `Commit`, `Rollback`, `RollbackIfNotCommit`, `DoTxReturns` and `Cancel` are
the life of a transaction, with fn in the hands of the environment: it may use the transaction, end it itself,
return, fail or panic. `ExecContext` and `QueryContext` are what a statement does to its session.

`SessionsSpec` lets any goroutine send any statement at any time. `Statements` takes the same actions and says when they
happen: each of its steps is a step of `Sessions`, or leaves `sessionVars` alone. `DoTxOutcome` relates the result of
DoTx to what the database kept, `ConnsAccounted` the pool to transactions and rows.

### Statements, SqlReader and Orm

`Statements` is the control: each behaviour picks one statement object, `root`, and two goroutines call its Build, Get or
Exec, register models and run transactions, all on one DB. `Start`, `Load`, `StoreDefault`, `Render`, `BuildReturns`,
`Fails`, `Exec`, `FindsRow` and `Scan` are the steps of a call: `Load` and `StoreDefault` are the two halves of
`registry.Get`, between which another goroutine may register a model. The two look-ups of a Get are the same two
actions at `pc` "load" and "meta". `Intercepted` is a middleware that does not call next.
What a builder makes of the heap is a parameter there (`Built`, `WithSubquery`, and `Columns` for the names a database
returns), so that theorems about the calls hold of every builder. `Orm` brings in the builders and `SqlReader`, and
its instance in `MCOrm.cfg` takes `Body`, `AsSubquery` and `ReturnedNames` for the three.

Where a statement contains other statements, look-ups inside `Render` are one step: a second goroutine that
registers in the middle of a Build is met only at the first look-up and at the row's.

`ReadsBack` does not compare the text with what a builder writes. `SqlReader` reads the text as a database does, by
keywords, parentheses and operators, and takes arguments by the number of the placeholder: a SELECT is its columns,
its tables as a tree of joins, its conditions as trees of operators, its lists and limits, and every SELECT inside it in the
same way. Two operators next to each other without parentheses are ambiguous to it, so the
property does not depend on precedences, and so are two statements in one. `Asked` is what was asked for, translated
straight from the statement object: a column is the name its table's model gives it, a value one placeholder with
its argument, a Subquery the meaning of its selector. For an INSERT, UPDATE or DELETE it is the condition only.

What `ReadsBack` claims nothing of, because the code does not keep it:

* a selector that the statement contains twice (`Reused`), unless it is one Subquery without arguments in conditions, as
  in the test "some and any" (select_test.go 208-215). With arguments, such a Subquery has its text twice and its
  arguments once. A Subquery in FROM and in a condition is built twice, since FROM goes past the cache (select.go line 98): the
  condition receives both texts with the semicolon between them, and every argument twice. Two Subqueries of one
  selector end in the same way;
* ANY, ALL or SOME of a Subquery that cannot be built (`Dropped`): the statement ends in `> ANY`;
* a raw operand that holds an operator itself (`Unbracketed`): only homework_select puts it into parentheses;
* in homework_select, aliases in GROUP BY and in conditions (`Aliased`, `AliasedGroup`);
* a raw statement, and an object that is built a second time, which appends to its own text.

The run has statements for each of these, and none of them reads back: the exceptions are no wider than the code makes them.

`GetFills` compares the object with the selected columns. A field that has been given a new column name makes every Get
that selects it fail, because rows are read by the ColumnMap, which still has the old name. If the new name is the column
of another field, that field is filled instead and nothing is reported: `Receiver` says which, and `GetFills` that
this is all that can go wrong, also when a registration falls between the two look-ups of a Get.
`CustomModelKept` is an action property on the registry.

## 5. The runs

Every run is a complete exploration; no run samples.

| run | instance | shows | why the bounds are enough |
|---|---|---|---|
| `shutdown` | 2 servers, 2 callbacks, the timeouts of NewApp | all properties of GracefulShutdown | two of everything give every order of two goroutines of one kind, one request per server is enough to hold a server up, and every callback may ignore its context |
| `shutdown_callbacks` | 1 server, 2 callbacks | `AllCallbacksRun` is violated | |
| `memory_cache` | 2 goroutines, 2 keys, 2 items, sweeps of one item | all properties of MemoryCache | the slow path of Get races one Set, one delete or one sweep; a sweep limit of 0 makes a sweep miss an item |
| `max_sequential` | 1 goroutine, 3 keys, sizes 1-3, limit 4, no expiration | LRU refinement and accounting | items that fit together, items that fit only alone, and overwrites that shrink and grow |
| `max_concurrent` | 2 goroutines, the sweeper, 2 keys that expire | no lock outlives its call | the error returns need a list that is out of step with the map, which two goroutines bring about |
| `max_callback` | 1 goroutine, keys that expire | `CallbackGetsLock` is violated | |
| `rpc` | 3 calls, 2 connections, 1 of them kept | all properties of Rpc | a third call meets the pool with both connections out, or with what two calls have left behind |
| `rpc_timeout` | 1 call | `ClientSurvives` is violated | |
| `rpc_oneway` | 2 calls | `NoOnewayResult` is violated | |
| `router` | 3 registrations of paths of at most 2 segments, requests of at most 3 words | all properties of the router | two segments give every pair of kinds below another; three registrations give a node, one that conflicts with it and one that meets what a failure has left; one word more makes a star overflow |
| `wire` | bytes below 8, lengths of two bytes, 9 kinds of calls, 8 answers, 3 calls, 1 short Read | all properties of Wire | 64 as the width is little more than four empty messages: every way a length can wrap occurs; the third call is decoded from what two others have left in the stream |
| `orm` | 29 statements, 3 types, 6 Subqueries, 6 registrations to choose from, 2 goroutines, 2 calls, 1 registration or transaction, 2 connections | all properties of Orm, Statements and Sessions | the statements use every expression, table, clause and dialect of the code at least once and each in another's place; the second call meets the text and the caches of the first; one registration is enough to fall between the look-up and the store, or between the two look-ups of a Get; the registrations rename the table, a column to a new name, to none, to the name of another, and swap two |

Deadlock checking is off in five of the passing runs and in the two violations of Rpc, which end as well. `memory_cache` allows that nothing happens (`Idle`), so it needs no switch.
In `max_concurrent` the system really may stop: the two locks are taken in both orders. `rpc`,
`router`, `wire` and `orm` end when all calls of the bound have been made; that no call of `rpc` hangs is what
`CallsEnd` says, and of `wire` what `NoneWaitsInVain` says.

The instance of `rpc` has no kind "plain", because what such a call can do is what a call with a deadline can do
whose deadline does not come, and no "onewayUnknown", because its answer is the subject of `rpc_oneway`: with it
`QuietWhenIdle` and `ImplementsRemoteCall` are false. `NumConns` is the number of connections that exist, not only
those the pool has open: one that has been closed with requests unread by the server is not reused.

`max_sequential` has no expiration, because a Set of an expired key hangs (`max_callback`). It does have
deletes.

`wire` has no one-way call to a service the server does not have, for the reason `rpc` has none. In `orm` the
constants bound what is called (`MaxCalls`) and how many registrations and transactions there are together
(`MaxOthers`). A statement object serves one goroutine at a time, because the builder has no lock and the repository
never shares one. What the environment of `orm` is assumed to do: the database refuses a text that has been built
onto an earlier one; Subqueries are made before the statement is first built; a row that a `SELECT *` returns has one
of the column lists of `Schema`, a row of a list of columns those columns.

### Fairness

* GracefulShutdown: the process goes on (weak fairness of everything that main, the watchdog, the goroutines and
  the clock do); a callback that honours its context returns when that expires. Clients, signals and other
  callbacks need do nothing.
* MemoryCache: the clock, the ticker and the sweeper go on. Go visits a map in random order, so of endlessly
  many sweeps some reach any given key: strong fairness per key.
* MaxMemoryCache: a goroutine in a call goes on as long as it can. It gets a lock in the end only when there is one
  goroutine; `CallsReturn` is checked for that.
* Rpc: both goroutines of a call and every handler of the server go on; a service returns in the end. No
  context need end and no call need be made.
* The router, `Wire` and `Orm` have no liveness property. An end of a connection that waits may wait for ever after
  a short Read; that it does not without one is stated as the invariant `NoneWaitsInVain`, which says where the
  awaited bytes are. In `Orm` every call of the code is a bounded sequence of steps, and what it waits for (a free
  connection of the pool) need not come: rows keep theirs.

## 6. The proofs

`tlapm` checks every proof to its leaves. The theorems hold for every value of the constants that satisfies the
`ASSUME` of the module and the hypothesis that the statement names.

| theorem | module | statement |
|---|---|---|
| `TypeCorrect` | `GracefulShutdownProofs` | `Spec => []TypeOK` |
| `Barriers` | | `Spec => []PhaseBarriers` |
| `SecondSignal` | | `Spec => []SecondSignalHeeded` |
| `Admission` | | `Spec => AdmissionStops` (action property) |
| `CutOff` | | `Spec => []CutOffOnlyAtDeadline` |
| `InTime` | | `FitsInTimeout => (Spec => []GracefulInTime)` |
| `TypeCorrect` | `MemoryCacheProofs` | `Spec => []TypeOK` |
| `NothingLiveLost` | | `Spec => []NoLiveItemLost` |
| `Linearizable` | | `Spec => []GetLinearizable` |
| `TypeCorrect` | `MaxMemoryCacheProofs` | `Spec => []TypeOK` |
| `LocksReleased` | | `Spec => []NoLockLeak` |
| `CounterExact` | | `Sequential => (Spec => []AccountingExact)` |
| `CounterLow` | | `Sequential => (Spec => []NeverOvercounted)` |
| `LeastRecentlyUsed` | | `Sequential /\ 0 \notin Sizes => (Spec => IsLRUCache)` (refinement) |
| `TypeCorrect` | `RpcProofs` | `Spec => []TypeOK` |
| `Accounting` | | `Spec => []ConnsAccounted` |
| `IdleIsQuiet` | | `"onewayUnknown" \notin Kinds => (Spec => []QuietWhenIdle)` |
| `Implementation` | | `"onewayUnknown" \notin Kinds => (Spec => ImplementsRemoteCall)` (refinement) |
| `TypeCorrect` | `HTTPRouterProofs` | `Spec => []TypeOK` |
| `NothingOverwritten` | | `Spec => RoutesStay` (action property) |
| `Wildcards` | | `Spec => []OneWildChild` |
| `Priority` | | `Spec => []LookupByPriority` |
| `Parameters` | | `Spec => []LastValueWins` |
| `RoutesAnswer` | | `Spec => WordsReachTheirHandler` (action property) |
| `MiddlewaresFound` | | `Spec => []MiddlewaresOfPath` |
| `TypeCorrect` | `SessionsProofs` | `SessionsSpec => []SessionsTypeOK` |
| `PoolAccounted` | | `SessionsSpec => []ConnsAccounted` |
| `DoTxKeepsPromise` | | `SessionsSpec => []DoTxOutcome` |
| `SessionsImplemented` | | `Spec => SessionsSpec` (refinement; `Spec` of `Statements`) |
| `CallsTyped` | | `Spec => []TypeOK` |
| `ConnectionsAccounted`, `TransactionsKeepPromise` | | `Spec => []ConnsAccounted`, `Spec => []DoTxOutcome` |
| `TypeCorrect` | `WireProofs` | `Spec => []TypeOK` |
| `NeitherWaitsInVain` | | `Spec => []NoneWaitsInVain` |
| `RequestsRead` | | `Spec => []RequestsArrive` |
| `PanicsHaveCauses` | | `Spec => []PanicsExplained` |
| `CallersAreTold` | | `OnewaysKnown => (Spec => []CallerTold)` |

GracefulShutdown. `PhaseBarriers` is not inductive: that `wg = 0` means that every goroutine of the phase is done
follows only from what the counter counts. `IInv` adds it: in each phase the counter is the cardinality of the
goroutines of that phase that have not called Done (`PhaseInv`), and a goroutine's own state agrees with the
phase (`ActorInv`). `Barriers` follows from it, with facts about cardinalities from `FiniteSetTheorems`. `SecondSignal`
needs that a signal taken out of the channel ends the process once main has taken the first. `Admission` needs that
every handler has seen the flag before the clock first moves (`FlushInv`). `CutOff` needs
that the contexts of the stop phase were created no earlier than the shutdown began. `InTime` says when the default
timeouts are safe: `FitsInTimeout` asks that the stop phase (which lasts StopSleep or CbTimeout, whichever is
longer), the callbacks (CbTimeout) and the closing sleep together take less than the whole timeout, and the invariant
`TimeInv` bounds the clock in each phase. NewApp's values 30, 13, 1 and 1 satisfy it.

MemoryCache. `TypeOK` contains the shape of the map: it points to exactly the items whose fate is to be stored, each
from one key. `NothingLiveLost` adds that clock values taken earlier are not ahead of the clock: an item that has
expired at the stamp has expired now. `Linearizable` needs an invariant for each step of a Get (`ReadInv`): what
the key holds now is in the window; before the clock is read, the item read is in the window, or its deadline has
passed and the answer "not there" is; before the lock, the key holds nothing, or an item that has expired at the
clock value the call holds, or an item in the window.

MaxMemoryCache. `TypeInv` adds to `TypeOK` what the local variables of a call may be, `LockInv` says which program
counters hold which lock. The other three theorems are about a cache as its comments describe it: `Sequential` is one
goroutine and items that do not expire. With several goroutines, or with the sweeper, the code keeps neither the
counter nor the list (section 7), and a Set of an expired key does not return. `CountInv` relates the counter to
`Sum` at each program counter; cardinalities of `Bytes` change by the size of one item (`FiniteSetTheorems`).
`LeastRecentlyUsed` needs `ListInv`: no key is twice in the list, a key is in the list exactly when it has an item, but for
the key of the call in progress at `link` and `put`, and what the scan has passed is still where it was. The callback's loop, which skips an
element after it has deleted one, then does what `RemoveFirst` does (`UnlistFirst`). `Viewed` computes the
mapping at each program counter, and `RefStep` maps the steps: `Decide` to `Offer`, the deletion from the list
to `Touch`, `Forget` to `Delete` or `EvictColdest`, storing to `Accept`, and the others to stutters. `0 \notin Sizes`
is there because the code takes an empty value for a missing one (line 57), and its key into the list a second time.

Rpc. `PoolInv` says that no connection is in two places (with two workers, twice in the list of idle ones, or both),
that the pool's counter is the number of open connections, and that what waits in its queue are waiting workers. That is
what `Accounting` needs. `QuietWhenIdle` needs more: `CallInv` ties the place of a worker to that
of its caller, and `LineInv` ties the two to the line: for a worker that reads, its request is the last one that the server has to read, or the one being served, or its answer
is the only response, or the server is gone (`Awaits`), and one-way requests are all that a line may carry that nobody reads from
(`Quiet`). Then the only step of `Rpc` that gives a caller an answer is one in which the answer is its
own, and each step is a step of `RemoteCall` or a stutter. The hypothesis excludes one kind of call, a one-way call to a service the server
does not have: its answer stays in the connection, and both statements are false with it (run `rpc_oneway`).

HTTPRouter. `IInv` says that the tree is well grown: with a node there are those on the way to it, every node but the
root is what some segment made it, and no node has two wild children. `WalkInv` is the invariant of the loop of `addRoute`: after each segment the tree is well grown and extends the
one the loop began with; so nothing that is registered is lost whatever stops the loop. `FindInv` is the invariant of
the loop of `findRoute`: every node that the preferences of each step lead to is below the node reached or was passed, and the
parameters are those of the path so far, the last value of each name. `Preference` concludes that the result is `Chosen`.
`RoutesAnswer` follows from `Priority` and `NothingOverwritten`: a path of words is preferred to any other node, and its handler stays. `MiddlewaresFound` needs of the invariant that the slice of each
node is in the order of registration and that no two nodes have a middleware in common (`Slices`). `Reached` is the
invariant of both loops of `findMdls`: the current level lists the nodes reached on it, each once, and what is collected
is `Collected`, the middlewares of all nodes reached so far, each once and in order. A node that comes later in the order
keeps that (`CollectedMore`), a visit adds the children that match (`VisitInv`, `KidsFound`), a round of the outer
loop therefore leads from the matching nodes of one length to those of the next (`NextLevelInv`, `LevelBelow`), and
after the last all that match have been reached (`MdlsCollected`).

Sessions. `TxInv` says that a transaction is active only while its goroutine is in one, and that inside one
writes are kept only if the application has committed by itself. The pool's counter is the number of active transactions and of unclosed rows. The
three theorems are about `SessionsSpec`, which lets goroutines do more than the code does.

Statements. `SessionsImplemented` maps every step of `Spec` to a step of `SessionsSpec` or to a stutter (`StepMaps`), for any
builders: what happens to the sessions does not depend on what is written. So `ConnectionsAccounted` and
`TransactionsKeepPromise` are the two properties of the run `orm` for its own specification. `CallsTyped` needs `CallInv`: one goroutine
at a time is in a call, and while it has not built, or not yet found a row, there is one Build, or one row, fewer than calls.
`Orm` adds no action to `Statements`; the operators it gives for the parameters do not occur in these properties.

Wire. `Typed` adds to `TypeOK` that the codes the server is about to echo are bytes and that the size of an announced rest is
not negative. The other theorems rest on `Whole`: while no Read has been short, the bytes on their way to either end, with
the length field that end may have read already, are a sequence of whole frames (`Carries`), each as long as its two lengths
say (`Framed`). To the server they are the frames of the requests in `sent`, in order, each in some order of its
metadata (`ReqFrames`), without the one being served and the one that did not fit (`RequestsWhole`); to the client they are
answers, and there is one or a request is still to be answered while the caller waits (`AnswersWhole`). A Read of a whole
length field and one of the announced rest then take exactly the first frame (`CarriesLengths`, `CarriesRest`), which
needs that a length written into `FieldBytes` bytes is read back (`FieldRead`) and that the sum of the two wraps as
it did when the buffer was made (`Wraps`, `FrameRead`). `NeitherWaitsInVain` follows from `Whole` alone.

For `RequestsRead` and `PanicsHaveCauses` the contents matter. `LinesEnded` says that the loop of DecodeReq finds the lines
that EncodeReq wrote, if none holds a newline; `PairRead` and `MetaRead` that every pair is cut at its own carriage return and
that the metadata come out the same in whatever order they were written, because an order names each key once.
`FrameDecoded` puts them together. `CallersAreTold` needs one more invariant, `Answering`: as long as the server lives,
every request without an answer but the one the caller waits for is one-way, and what is in the stream is the answer
served last. Its hypothesis is the one of `Rpc`: every one-way call names a service the server has, and no separator
is in its names. The answer to any other stays in the stream for the next caller, and `CallerTold` is false
then (run `rpc_oneway` shows the same in `Rpc`).

What the proofs assume of the constants is in `WireAssumption`: that requests, errors and encoded values consist of bytes,
that different values are encoded differently and only `Zero` as nothing, that an error text comes with an error, and
that the fixed part of a header fits into a length.

DataLemmas. The induction theorems of the library have an operator as a parameter, which no installed prover
can instantiate. `Induction` says the same of a set of numbers: one that contains 0 and the successor of each of its elements contains
all of them, from the least number that is missing (`Least`). `LoopExists` and `LoopInvariant` say of a function defined by its rounds that it exists and
that what holds at the beginning and is kept by each round holds at the end. The proofs about the router's loops, the
callback's loop and the encoders and decoders of `Wire` rest on them.

Only model-checked:

* the liveness properties (`Terminates`, `ExpiredItemsGo`, `CallsReturn`, `CallsEnd`), which depend on fairness;
* `ReadsBack`, `GetFills` and `CustomModelKept` of `Orm`, which depend on what the builders write or look up: they are RECURSIVE operators over expressions,
  with which the prover loses its arithmetic.

## 7. Where the code does not do what the repository says

Shown by a run (`PROJECT.json`, "findings"):

* `shutdown_callbacks`: the callbacks' goroutines capture the loop variable; one callback may run twice and
  another not at all.
* `max_callback`: Set of an expired key waits for ever for the lock that it holds.
* `rpc_timeout`: an answer that comes after the deadline ends the client.
* `rpc_oneway`: the refusal of a one-way call becomes the answer of a later call.

Seen while modelling, described in the modules and not given a run of their own:

* shutdown.go: `waitTime` (line 36, documented as the time for requests in flight) is never used, and
  `cbTimeout` limits them instead; the comment of line 38 says three seconds, line 51 sets thirteen.
* memory_cache.go: `Close` reports a duplicate close whenever the sweeper is not parked, the first time included,
  and the sweeper then goes on; without onEvicted the first delete of an item panics.
* max_memory_cache.go: the room that is made need not be enough (line 84 compares with the size needed, not with the
  limit), and the value stored after it is never counted (only line 97 adds), so later Sets find room that is not there: three
  values of three bytes with a limit of four leave six bytes stored; a value of length zero gets a second entry in the list with each Set;
  the callback's loop skips an element, so a key that is in the list twice in a row leaves one behind, and the
  next scan fails on it; with several goroutines the list is used without a lock.
* rpc, on the wire: one Read per field, so a short Read shifts every later message; a name that holds a newline, or a
  metadata key that holds a carriage return, panics or is cut; two lengths whose sum wraps cut a message off; an
  error without a text reaches the caller as a success, and data that cannot be decoded hide the error they come with.
* orm: the builder's text and arguments are never reset, so a second Build of one object appends a second statement;
  so does a selector that one statement contains in FROM and in a condition, or in two Subqueries (select.go line 98);
  a Subquery in two conditions has its text twice and its arguments once (builder.go line 152);
  upserts drop what follows the first Assignment (dialect.go lines 63 and 116); `Column.Multi` adds;
  `Column.As` forgets the table; the error of the subquery in ANY, ALL and SOME is dropped (builder.go line 137);
  `Updater.Exec` runs no middleware, though middleware.go line 9 lists UPDATE among the types a middleware sees;
  rows are never closed (core.go line 41); Get can replace a registered model by the default one; WithColumnName
  leaves the old name in ColumnMap, so a row of a renamed column is refused, and a field that is given the column of another is
  read into that other field; raw operands are written without parentheses (`EQ(Raw("age + ?"))`); in homework_select an
  aggregate keeps its alias in HAVING and a column in GROUP BY.
* rpc: a one-way call to a service the server has ends the server (line 105 of server.go assigns to a nil response),
  and so does an unknown method (line 172).
* route.go: a second registration of the same regular-expression segment is compared with the name of the parent
  (line 302 of homework2, 235 of homework1): it panics, or is accepted when the parent happens to have that name,
  in which case the first name stays. The middlewares of a request whose end a star swallows are searched from
  the star on (line 97 of homework2): those of the nodes before it, the root's included, are not found. `serve`
  finds middlewares and runs none.

## 8. What is not modelled

* In the ORM: GetMulti (it panics, "implement me"), Open, Close and Wait of a DB, and the middlewares in
  `homework_subquery/middleware`: querylog and opentelemetry read the unexported `qc.builder` of another package and
  do not compile, prometheus measures the time of a call.
* The name conversions `underscoreName` and `parseTag` (constants give their values), quoting and blanks.
* In rpc: what json, protobuf and zstd do. A serializer that fails before the request is written returns its error
  without any other effect.
* The Context of homework1 and homework2 and the MiddlewareBuilder of homework2: they hold data of one request.
* Generated code, mocks, demo programs, and `homework_delete/no_orm.go`, which is a test of database/sql.
* Libraries (http.Server, sync, the connection pool, the ticker) are modelled as the code uses them and marked
  external in the map.
