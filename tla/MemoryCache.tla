----------------------------- MODULE MemoryCache -----------------------------
(***************************************************************************)
(* MemoryMapCache of homework_memory_limit/memory_cache.go: a map of items *)
(* with deadlines under a read-write mutex, read and written by client     *)
(* goroutines and emptied of expired items by a sweeper goroutine that a   *)
(* ticker wakes.                                                           *)
(*                                                                         *)
(* One action is one critical section, or one step outside of them.  The   *)
(* only operation with steps between its critical sections is Get.  Items  *)
(* are immutable and the map holds pointers to them, so an item is a       *)
(* number, given out by Set, and its deadline a function of the number.    *)
(***************************************************************************)
EXTENDS Integers, FiniteSets

CONSTANTS
  Keys,
  Procs,        \* the goroutines that use the cache
  Expirations,  \* the values of Set's parameter expiration (0: no deadline)
  SweepLimit,   \* 10000: a sweep looks at one item more than this
  MaxItems,     \* bound: calls of Set
  MaxTime       \* bound: the clock

ASSUME CacheAssumption ==
  /\ Keys # {}
  /\ Expirations \subseteq Nat
  /\ SweepLimit \in Nat
  /\ MaxItems \in Nat
  /\ MaxTime \in Nat

Items == 1..MaxItems
None == 0        \* no item under a key; the result errKeyNotFound
NoTick == -1     \* the ticker's channel is empty
NoKey == CHOOSE k \in Keys : TRUE  \* what key holds outside of a call of Get

VARIABLES
  now,       \* the clock
  data,      \* the map: the item under each key, or None
  deadline,  \* the deadline of each item, 0 for none
  written,   \* number of items written so far
  fate,      \* history: what became of each item
  callback,  \* onEvicted is not nil
  crashed,   \* a goroutine has called a nil onEvicted
  tick,      \* the ticker's channel of capacity one: the stamp it holds
  sweeper,   \* where the sweeper goroutine is
  stamp,     \* the sweeper's variable t
  closed,    \* a Close has succeeded
  pc,        \* where each goroutine is in Get
  key,       \* Get's parameter
  res,       \* Get's variable res, in the end its result
  at,        \* Get's variable now
  window     \* history: what a Get at a single moment of this call would return

itemVars  == <<data, deadline, written, fate>>
sweepVars == <<tick, sweeper, stamp, closed>>
procVars  == <<pc, key, res, at>>
vars      == <<now, itemVars, callback, crashed, sweepVars, procVars, window>>

Running == ~crashed

DeadlineBefore(i, t) == deadline[i] # 0 /\ deadline[i] < t

\* What a Get of key k would return if it took no time, at clock value t, from
\* a map d of items with deadlines dl.
View(d, dl, t, k) == IF d[k] # None /\ dl[d[k]] # 0 /\ dl[d[k]] < t THEN None ELSE d[k]

Init ==
  /\ now = 0
  /\ data = [k \in Keys |-> None]
  /\ deadline = [i \in Items |-> 0]
  /\ written = 0
  /\ fate = [i \in Items |-> "unwritten"]
  /\ callback \in BOOLEAN
  /\ crashed = FALSE
  /\ tick = NoTick
  /\ sweeper = "starting"
  /\ stamp = 0
  /\ closed = FALSE
  /\ pc = [p \in Procs |-> "idle"]
  /\ key = [p \in Procs |-> NoKey]
  /\ res = [p \in Procs |-> None]
  /\ at = [p \in Procs |-> 0]
  /\ window = [p \in Procs |-> {}]

\* The calls in progress see the new state.
Observe ==
  window' = [p \in Procs |-> IF pc[p] = "idle" THEN {}
                             ELSE window[p] \union {View(data', deadline', now', key[p])}]

-----------------------------------------------------------------------------
(* Removing items *)

\* Mutant of Evict: the callback is told, the map keeps the item.
EvictKeeps(ks, why) ==
  /\ data' = data
  /\ fate' = [i \in Items |-> IF \E k \in ks : data[k] = i THEN why ELSE fate[i]]
  /\ crashed' = (~callback /\ \E k \in ks : data[k] # None)

\* c.delete for each key of ks: a key without an item is passed over; the item
\* is taken out of the map and given to onEvicted, which may be nil.
Evict(ks, why) ==
  /\ data' = [k \in Keys |-> IF k \in ks THEN None ELSE data[k]]
  /\ fate' = [i \in Items |-> IF \E k \in ks : data[k] = i THEN why ELSE fate[i]]
  /\ crashed' = (~callback /\ \E k \in ks : data[k] # None)

Delete(p, k) ==
  /\ Running
  /\ pc[p] = "idle"
  /\ Evict({k}, "deleted")
  /\ UNCHANGED <<now, deadline, written, callback, sweepVars, procVars>>
  /\ Observe

\* Returns the item whatever its deadline; the map changes as under Delete.
LoadAndDelete(p, k) ==
  /\ Running
  /\ pc[p] = "idle"
  /\ data[k] # None
  /\ Evict({k}, "deleted")
  /\ UNCHANGED <<now, deadline, written, callback, sweepVars, procVars>>
  /\ Observe

-----------------------------------------------------------------------------
(* Set *)

\* The new item replaces the old one, which onEvicted is not told of.
Set(p, k, expiration) ==
  /\ Running
  /\ pc[p] = "idle"
  /\ written < MaxItems
  /\ written' = written + 1
  /\ deadline' = [deadline EXCEPT ![written'] = IF expiration > 0 THEN now + expiration ELSE 0]
  /\ data' = [data EXCEPT ![k] = written']
  /\ fate' = [i \in Items |-> IF i = written' THEN "stored"
                              ELSE IF i = data[k] THEN "overwritten"
                              ELSE fate[i]]
  /\ UNCHANGED <<now, callback, crashed, sweepVars, procVars>>
  /\ Observe

-----------------------------------------------------------------------------
(* Get *)

\* The section under the read lock (lines 85-90).
GetRead(p, k) ==
  /\ Running
  /\ pc[p] = "idle"
  /\ key' = [key EXCEPT ![p] = k]
  /\ res' = [res EXCEPT ![p] = data[k]]
  /\ pc' = [pc EXCEPT ![p] = IF data[k] = None THEN "return" ELSE "now"]
  /\ window' = [window EXCEPT ![p] = {View(data, deadline, now, k)}]
  /\ UNCHANGED <<now, itemVars, callback, crashed, sweepVars, at>>

\* Mutant of GetNow: the deadline is not looked at.
GetNowUnchecked(p) ==
  /\ Running
  /\ pc[p] = "now"
  /\ at' = [at EXCEPT ![p] = now]
  /\ pc' = [pc EXCEPT ![p] = "return"]
  /\ UNCHANGED <<now, itemVars, callback, crashed, sweepVars, key, res, window>>

\* The clock is read outside of the lock (lines 91-92).
GetNow(p) ==
  /\ Running
  /\ pc[p] = "now"
  /\ at' = [at EXCEPT ![p] = now]
  /\ pc' = [pc EXCEPT ![p] = IF DeadlineBefore(res[p], now) THEN "lock" ELSE "return"]
  /\ UNCHANGED <<now, itemVars, callback, crashed, sweepVars, key, res, window>>

\* Mutant of Stale: the item is not looked at again under the lock.
StaleAnyway(p) == data[key[p]] # None

\* The second look, with the clock value of the first (lines 95-100).
Stale(p) == data[key[p]] # None /\ DeadlineBefore(data[key[p]], at[p])

\* The section under the write lock (lines 93-104).
GetLock(p) ==
  /\ Running
  /\ pc[p] = "lock"
  /\ pc' = [pc EXCEPT ![p] = "return"]
  /\ res' = [res EXCEPT ![p] = IF Stale(p) THEN None ELSE data[key[p]]]
  /\ IF Stale(p) THEN Evict({key[p]}, "expired") ELSE UNCHANGED <<data, fate, crashed>>
  /\ UNCHANGED <<now, deadline, written, callback, sweepVars, key, at>>
  /\ Observe

GetReturn(p) ==
  /\ Running
  /\ pc[p] = "return"
  /\ pc' = [pc EXCEPT ![p] = "idle"]
  /\ key' = [key EXCEPT ![p] = NoKey]
  /\ res' = [res EXCEPT ![p] = None]
  /\ at' = [at EXCEPT ![p] = 0]
  /\ window' = [window EXCEPT ![p] = {}]
  /\ UNCHANGED <<now, itemVars, callback, crashed, sweepVars>>

OnEvicted ==
  /\ Running
  /\ callback' = TRUE
  /\ UNCHANGED <<now, itemVars, crashed, sweepVars, procVars, window>>

-----------------------------------------------------------------------------
(* The sweeper *)

\* The ticker never blocks: a stamp that finds the channel full is dropped.
\* Its interval is a parameter of the constructor, so it may fire at any time.
TickerFires ==
  /\ Running
  /\ sweeper \notin {"starting", "closed"}
  /\ IF sweeper = "parked"
       THEN sweeper' = "locking" /\ stamp' = now /\ tick' = tick
       ELSE tick' = (IF tick = NoTick THEN now ELSE tick) /\ UNCHANGED <<sweeper, stamp>>
  /\ UNCHANGED <<now, itemVars, callback, crashed, closed, procVars, window>>

SweeperStarts ==
  /\ Running
  /\ sweeper = "starting"
  /\ sweeper' = "selecting"
  /\ UNCHANGED <<now, itemVars, callback, crashed, tick, stamp, closed, procVars, window>>

\* The select takes a waiting stamp, or parks the goroutine.
SweeperSelects ==
  /\ Running
  /\ sweeper = "selecting"
  /\ IF tick = NoTick
       THEN sweeper' = "parked" /\ UNCHANGED <<tick, stamp>>
       ELSE sweeper' = "locking" /\ stamp' = tick /\ tick' = NoTick
  /\ UNCHANGED <<now, itemVars, callback, crashed, closed, procVars, window>>

\* The items one sweep looks at: the map's order is random and the loop stops
\* after SweepLimit + 1 of them.
Swept ==
  LET Stored == {k \in Keys : data[k] # None}
  IN  {ks \in SUBSET Stored : \/ ks = Stored /\ Cardinality(ks) <= SweepLimit
                              \/ Cardinality(ks) = SweepLimit + 1}

\* Mutant of SweepOf: the goroutine ends with its first sweep.
SweepOnce(ks) ==
  /\ Running
  /\ sweeper = "locking"
  /\ Evict({k \in ks : DeadlineBefore(data[k], stamp)}, "expired")
  /\ sweeper' = "closed"
  /\ UNCHANGED <<now, deadline, written, callback, tick, stamp, closed, procVars>>
  /\ Observe

SweepOf(ks) ==
  /\ Running
  /\ sweeper = "locking"
  /\ Evict({k \in ks : DeadlineBefore(data[k], stamp)}, "expired")
  /\ sweeper' = "selecting"
  /\ UNCHANGED <<now, deadline, written, callback, tick, stamp, closed, procVars>>
  /\ Observe

Sweep == \E ks \in Swept : SweepOf(ks)

\* The send has a default: it succeeds only while the sweeper is parked, and
\* changes nothing otherwise (the caller is told of a duplicate Close).
Close(p) ==
  /\ Running
  /\ pc[p] = "idle"
  /\ sweeper = "parked"
  /\ sweeper' = "closed"
  /\ closed' = TRUE
  /\ UNCHANGED <<now, itemVars, callback, crashed, tick, stamp, procVars, window>>

-----------------------------------------------------------------------------
TimePasses ==
  /\ Running
  /\ now < MaxTime
  /\ now' = now + 1
  /\ UNCHANGED <<itemVars, callback, crashed, sweepVars, procVars>>
  /\ Observe

\* The process is gone, or nobody calls any more.
Idle == UNCHANGED vars

Calls(p) ==
  \/ \E k \in Keys : Delete(p, k) \/ LoadAndDelete(p, k) \/ GetRead(p, k)
  \/ \E k \in Keys, e \in Expirations : Set(p, k, e)
  \/ Close(p)

Sweeper == SweeperStarts \/ SweeperSelects \/ Sweep

Next ==
  \/ \E p \in Procs : Calls(p) \/ GetNow(p) \/ GetLock(p) \/ GetReturn(p)
  \/ OnEvicted \/ Sweeper \/ TickerFires \/ TimePasses \/ Idle

\* The clock, the ticker and the sweeper go on; nobody need ever call.  The
\* random order of the map lets endlessly many sweeps reach every key.
Fairness ==
  /\ WF_vars(TimePasses) /\ WF_vars(TickerFires) /\ WF_vars(Sweeper)
  /\ \A k \in Keys : SF_vars(\E ks \in Swept : k \in ks /\ SweepOf(ks))

Spec == Init /\ [][Next]_vars /\ Fairness

-----------------------------------------------------------------------------
(* Properties *)

\* The types, the shape of the map (it points to exactly the items whose fate
\* is to be stored, each from one key), and the order of the clock values.
TypeOK ==
  /\ now \in 0..MaxTime
  /\ data \in [Keys -> Items \union {None}]
  /\ deadline \in [Items -> Nat]
  /\ written \in 0..MaxItems
  /\ fate \in [Items -> {"unwritten", "stored", "overwritten", "deleted", "expired"}]
  /\ callback \in BOOLEAN /\ crashed \in BOOLEAN
  /\ tick \in {NoTick} \union 0..now
  /\ sweeper \in {"starting", "selecting", "parked", "locking", "closed"}
  /\ stamp \in 0..now
  /\ closed \in BOOLEAN
  /\ pc \in [Procs -> {"idle", "now", "lock", "return"}]
  /\ key \in [Procs -> Keys]
  /\ res \in [Procs -> Items \union {None}]
  /\ at \in [Procs -> 0..now]
  /\ window \in [Procs -> SUBSET (Items \union {None})]
  /\ \A i \in Items : /\ fate[i] = "unwritten" <=> i > written
                      /\ fate[i] = "stored" <=> \E k \in Keys : data[k] = i
  /\ \A k, l \in Keys : data[k] = data[l] /\ data[k] # None => k = l

\* An item that Get or the sweeper removed because of its deadline had expired:
\* the item the slow path of Get removes is the one it looks at under the lock,
\* not the one it read before (lines 95-103), and the sweeper's stamp, however
\* old, is not ahead of the clock.
NoLiveItemLost == \A i \in Items : fate[i] = "expired" => DeadlineBefore(i, now)

\* Get is linearizable although its two looks at the map and its look at the
\* clock are three steps: it returns what a Get that takes no time would have
\* returned at some moment between its first look and its return.
GetLinearizable == \A p \in Procs : pc[p] = "return" => res[p] \in window[p]

\* An expired item that nobody asks for is removed by the sweeper, unless the
\* cache is closed (or the process dies of a nil callback), even though a sweep
\* may look at a part of the map only.
ExpiredItemsGo ==
  \A i \in Items :
    fate[i] = "stored" /\ DeadlineBefore(i, now) ~> fate[i] # "stored" \/ closed \/ crashed

=============================================================================
