--------------------------- MODULE MaxMemoryCache ---------------------------
(***************************************************************************)
(* MaxMemoryCache of homework_memory_limit/max_memory_cache.go around the  *)
(* MemoryMapCache it embeds: a byte counter and a recency list that Set,   *)
(* Get and the eviction callback keep, under two mutexes.                  *)
(*                                                                         *)
(* Steps are as fine as the locks: m.lock (the counter; Set and callback)  *)
(* and c.mutex (the embedded cache).  A goroutine that is about to delete  *)
(* an item holds c.mutex and runs the callback, which needs m.lock.  The   *)
(* recency list is used without a lock by Get and by the end of Set; each  *)
(* of its own methods (Add, Delete, Get) is taken to be atomic.            *)
(***************************************************************************)
EXTENDS Integers, FiniteSets, SequencesExt

CONSTANTS
  Keys,
  Procs,    \* the goroutines that use the cache
  Sizes,    \* the lengths of values
  Lives,    \* "never": no expiration, "pending": will expire some time
  Limit,      \* m.max
  MaxList,  \* bound: calls are made only while the list is no longer than this
  MaxDebt   \* bound: Set is called only while the counter is no lower than -MaxDebt

Free == "free"
Sweeper == "sweeper"

ASSUME MaxCacheAssumption ==
  /\ Procs \intersect {Free, Sweeper} = {}
  /\ Sizes \subseteq Nat
  /\ Lives \subseteq {"never", "pending"}
  /\ Limit \in Nat

None == [size |-> 0, life |-> "absent"]

VARIABLES
  data,    \* the embedded cache: an item's length and whether its deadline has passed
  used,    \* m.used
  list,    \* m.list, index 0 first
  mLock,   \* the holder of m.lock
  cLock,   \* the holder of c.mutex for writing
  frame,   \* what each goroutine is doing, with the local variables of its call
  purged   \* history: a Set has taken the branch that makes room

vars == <<data, used, list, mLock, cLock, frame, purged>>

\* op and pc: the operation and its next step.  key, need, life: parameters.
\* old: len(item) if the key exists.  i: the position in the list.  free,
\* doomed: the variables free and deleteKey.  victim, ret: the key c.delete is
\* called for and the step after it.  purging: line 62 found too little room.
Idle == [op |-> "none", pc |-> "idle", key |-> "-", need |-> 0, life |-> "never", old |-> 0,
         i |-> 0, purging |-> FALSE, free |-> 0, doomed |-> << >>,
         victim |-> "-", ret |-> "idle"]

Init ==
  /\ data = [k \in Keys |-> None]
  /\ used = 0
  /\ list = << >>
  /\ mLock = Free
  /\ cLock = Free
  /\ frame = [p \in Procs |-> Idle]
  /\ purged = FALSE

At(p, step) == frame[p].pc = step
Goto(p, step) == frame' = [frame EXCEPT ![p].pc = step]
Return(p) == frame' = [frame EXCEPT ![p] = Idle]
AllIdle == \A p \in Procs : At(p, "idle")

Present(k) == data[k] # None
Passed(k) == data[k].life = "passed"
Live(k) == Present(k) /\ ~Passed(k)

-----------------------------------------------------------------------------
(* Removing an item from the embedded cache *)

\* c.delete is called with c.mutex held; the callback of lines 26-39 then waits
\* for m.lock.
Condemn(p, k, after) ==
  /\ cLock' = p
  /\ frame' = [frame EXCEPT ![p].pc = "evict", ![p].victim = k, ![p].ret = after]

\* The callback's loop deletes by index while it counts up: the element after a
\* deleted one is not looked at.  after[i] is the list after round i.
Unlist(s, k) ==
  LET after[i \in 0..Len(s)] ==
        IF i = 0 THEN s
        ELSE LET l == after[i - 1]
             IN  IF i <= Len(l) /\ l[i] = k THEN RemoveAt(l, i) ELSE l
  IN  after[Len(s)]

\* Mutant of Forget: the callback does not give the bytes back.
ForgetKeepsUsed(k) ==
  /\ mLock = Free
  /\ data' = [data EXCEPT ![k] = None]
  /\ used' = used
  /\ list' = Unlist(list, k)

\* The item goes and the callback runs, taking and releasing m.lock.
Forget(k) ==
  /\ mLock = Free
  /\ data' = [data EXCEPT ![k] = None]
  /\ used' = used - data[k].size
  /\ list' = Unlist(list, k)

Evict(p) ==
  /\ At(p, "evict")
  /\ Forget(frame[p].victim)
  /\ cLock' = Free
  /\ IF frame[p].ret = "idle" THEN Return(p) ELSE Goto(p, frame[p].ret)
  /\ UNCHANGED <<mLock, purged>>

\* Delete and LoadAndDelete are those of the embedded cache.
CallDelete(p, k) ==
  /\ At(p, "idle")
  /\ cLock = Free
  /\ Present(k)
  /\ Condemn(p, k, "idle")
  /\ UNCHANGED <<data, used, list, mLock, purged>>

\* Time passes an item's deadline.
Expire(k) ==
  /\ data[k].life = "pending"
  /\ data' = [data EXCEPT ![k].life = "passed"]
  /\ UNCHANGED <<used, list, mLock, cLock, frame, purged>>

\* The sweeper of the embedded cache holds c.mutex while it deletes.
SweepStart ==
  /\ cLock = Free
  /\ \E k \in Keys : Passed(k)
  /\ cLock' = Sweeper
  /\ UNCHANGED <<data, used, list, mLock, frame, purged>>

SweepOne(k) ==
  /\ cLock = Sweeper
  /\ Passed(k)
  /\ Forget(k)
  /\ UNCHANGED <<mLock, cLock, frame, purged>>

SweepEnd ==
  /\ cLock = Sweeper
  /\ cLock' = Free
  /\ UNCHANGED <<data, used, list, mLock, frame, purged>>

-----------------------------------------------------------------------------
(* Set *)

CallSet(p, k, n, life) ==
  /\ At(p, "idle")
  /\ Len(list) <= MaxList /\ used >= -MaxDebt
  /\ mLock = Free
  /\ mLock' = p
  /\ frame' = [frame EXCEPT ![p] = [Idle EXCEPT !.op = "set", !.pc = "exists", !.key = k,
                                                !.need = n, !.life = life]]
  /\ UNCHANGED <<data, used, list, cLock, purged>>

\* Line 55.  A value of length zero counts as not there (line 57).
Exists(p) ==
  /\ At(p, "exists")
  /\ cLock = Free
  /\ ~Passed(frame[p].key)
  /\ frame' = [frame EXCEPT ![p].old = data[frame[p].key].size, ![p].pc = "decide"]
  /\ UNCHANGED <<data, used, list, mLock, cLock, purged>>

\* Cache.Get of a key whose deadline has passed deletes it (in Set, m.lock is
\* held meanwhile).  A scan fails with the error Get then returns.
SlowRead(p) ==
  LET Read(k, after) == cLock = Free /\ Passed(k) /\ Condemn(p, k, after)
  IN  /\ \/ At(p, "exists") /\ Read(frame[p].key, "decide")
         \/ /\ At(p, "scan") /\ frame[p].i \in 1..Len(list)
            /\ Read(list[frame[p].i], "fail")
      /\ UNCHANGED <<data, used, list, mLock, purged>>

\* What comes after the counter and the evictions: lines 101-106.
Enlist(p) == IF frame[p].old > 0 THEN "find" ELSE "link"

\* Mutant of Charge: an overwritten value is not deducted.
ChargeTwice(p) == used' = used + frame[p].need

Charge(p) == used' = used - frame[p].old + frame[p].need

\* Mutant of Fits: the new value's own length is left out.
FitsAlready(p) == used - frame[p].old <= Limit

Fits(p) == frame[p].need + used - frame[p].old <= Limit

Decide(p) ==
  /\ At(p, "decide")
  /\ IF Fits(p)
       THEN /\ Charge(p)
            /\ mLock' = Free
            /\ Goto(p, Enlist(p))
            /\ UNCHANGED purged
       ELSE /\ frame' = [frame EXCEPT ![p].pc = "scan", ![p].purging = TRUE,
                                            ![p].i = Len(list)]
            /\ purged' = TRUE
            /\ UNCHANGED <<used, mLock>>
  /\ UNCHANGED <<data, list, cLock>>

\* One round of the loop of lines 68-87, from the end of the list.
ScanNext(p) ==
  /\ At(p, "scan")
  /\ frame[p].i \in 1..Len(list)
  /\ cLock = Free
  /\ LET k == list[frame[p].i]
         free == frame[p].free + data[k].size
         enough == used - frame[p].old - free > frame[p].need
     IN  /\ Live(k)
         /\ frame' = [frame EXCEPT ![p].free = free, ![p].doomed = Append(@, k),
                                   ![p].i = IF enough THEN 0 ELSE @ - 1]
  /\ UNCHANGED <<data, used, list, mLock, cLock, purged>>

\* Mutant of ScanEnd: m.lock is kept until Set returns.
ScanEndDeferred(p) ==
  /\ At(p, "scan")
  /\ frame[p].i = 0
  /\ Goto(p, "purge")
  /\ UNCHANGED <<data, used, list, mLock, cLock, purged>>

ScanEnd(p) ==
  /\ At(p, "scan")
  /\ frame[p].i = 0
  /\ mLock' = Free
  /\ Goto(p, "purge")
  /\ UNCHANGED <<data, used, list, cLock, purged>>

\* Mutant of ScanFails: an error return without the unlock.
ScanFailsLocked(p) ==
  /\ \/ At(p, "scan") /\ frame[p].i > Len(list)
     \/ At(p, "scan") /\ frame[p].i \in 1..Len(list) /\ cLock = Free /\ ~Present(list[frame[p].i])
     \/ At(p, "fail")
  /\ Return(p)
  /\ UNCHANGED <<data, used, list, mLock, cLock, purged>>

\* The error returns of lines 70-79: the list has become shorter, or has a key
\* that the cache does not have.
ScanFails(p) ==
  /\ \/ At(p, "scan") /\ frame[p].i > Len(list)
     \/ At(p, "scan") /\ frame[p].i \in 1..Len(list) /\ cLock = Free /\ ~Present(list[frame[p].i])
     \/ At(p, "fail")
  /\ mLock' = Free
  /\ Return(p)
  /\ UNCHANGED <<data, used, list, cLock, purged>>

\* Lines 91-93: Cache.Delete for each doomed key.
Purge(p) ==
  /\ At(p, "purge")
  /\ frame[p].doomed # << >>
  /\ cLock = Free
  /\ LET k == Head(frame[p].doomed)
         rest == Tail(frame[p].doomed)
     IN  IF Present(k)
           THEN /\ cLock' = p
                /\ frame' = [frame EXCEPT ![p].pc = "evict", ![p].victim = k, ![p].ret = "purge",
                                          ![p].doomed = rest]
           ELSE /\ frame' = [frame EXCEPT ![p].doomed = rest]
                /\ UNCHANGED cLock
  /\ UNCHANGED <<data, used, list, mLock, purged>>

PurgeEnd(p) ==
  /\ At(p, "purge")
  /\ frame[p].doomed = << >>
  /\ Goto(p, Enlist(p))
  /\ UNCHANGED <<data, used, list, mLock, cLock, purged>>

\* Line 113, Cache.Set.
Put(p) ==
  /\ At(p, "put")
  /\ cLock = Free
  /\ data' = [data EXCEPT ![frame[p].key] = [size |-> frame[p].need, life |-> frame[p].life]]
  /\ Return(p)
  /\ UNCHANGED <<used, list, mLock, cLock, purged>>

-----------------------------------------------------------------------------
(* Get *)

\* Cache.Get: a hit is moved to the head of the list, an expired item deleted.
CallGet(p, k) ==
  /\ At(p, "idle")
  /\ Len(list) <= MaxList
  /\ cLock = Free
  /\ Present(k)
  /\ IF Passed(k)
       THEN Condemn(p, k, "idle")
       ELSE /\ frame' = [frame EXCEPT ![p] = [Idle EXCEPT !.op = "get", !.pc = "find", !.key = k]]
            /\ UNCHANGED cLock
  /\ UNCHANGED <<data, used, list, mLock, purged>>

-----------------------------------------------------------------------------
(* listMoveToHead and LinkedList.Add, without m.lock *)

Find(p) ==
  /\ At(p, "find")
  /\ LET found == SelectInSeq(list, LAMBDA l : l = frame[p].key)
     IN  frame' = [frame EXCEPT ![p].i = found, ![p].pc = IF found > 0 THEN "unlink" ELSE "link"]
  /\ UNCHANGED <<data, used, list, mLock, cLock, purged>>

\* Deletes whatever is at the position by now; a position beyond the end is an
\* error that Set and Get return.
Unlink(p) ==
  /\ At(p, "unlink")
  /\ IF frame[p].i <= Len(list)
       THEN list' = RemoveAt(list, frame[p].i) /\ Goto(p, "link")
       ELSE Return(p) /\ UNCHANGED list
  /\ UNCHANGED <<data, used, mLock, cLock, purged>>

\* Mutant of AtHead: the hot end of the list is its tail.
AtTail(s, k) == Append(s, k)

AtHead(s, k) == <<k>> \o s

Link(p) ==
  /\ At(p, "link")
  /\ list' = AtHead(list, frame[p].key)
  /\ IF frame[p].op = "set" THEN Goto(p, "put") ELSE Return(p)
  /\ UNCHANGED <<data, used, mLock, cLock, purged>>

-----------------------------------------------------------------------------
Step(p) ==
  \/ Exists(p) \/ SlowRead(p) \/ Decide(p) \/ ScanNext(p) \/ ScanEnd(p) \/ ScanFails(p)
  \/ Purge(p) \/ PurgeEnd(p) \/ Evict(p) \/ Find(p) \/ Unlink(p) \/ Link(p) \/ Put(p)

Call(p) ==
  \/ \E k \in Keys, n \in Sizes, life \in Lives : CallSet(p, k, n, life)
  \/ \E k \in Keys : CallGet(p, k) \/ CallDelete(p, k)

Background == SweepStart \/ SweepEnd \/ \E k \in Keys : Expire(k) \/ SweepOne(k)

Next == (\E p \in Procs : Call(p) \/ Step(p)) \/ Background

\* A goroutine in a call goes on as long as it can.
Spec == Init /\ [][Next]_vars /\ \A p \in Procs : WF_vars(Step(p))

-----------------------------------------------------------------------------
(* Properties *)

\* The bytes that are stored, each with its key and its place in the value.
Bytes == UNION {{k} \X (1..data[k].size) : k \in Keys}
Sum == Cardinality(Bytes)

TypeOK ==
  /\ data \in [Keys -> {None} \union [size : Sizes, life : {"never", "pending", "passed"}]]
  /\ used \in Int /\ used <= Limit
  /\ list \in Seq(Keys)
  /\ mLock \in Procs \union {Free}
  /\ cLock \in Procs \union {Free, Sweeper}
  /\ purged \in BOOLEAN

\* As long as no Set has had to make room, a cache used by one goroutine counts
\* exactly the bytes it stores, through overwrites, deletes and evictions
\* (lines 31, 56-60, 97), and stays below its limit.
AccountingExact == AllIdle /\ ~purged => used = Sum /\ Sum <= Limit

\* Even when room is made, which loses the length of the value that is stored
\* afterwards, the counter never claims more than is stored: no Set evicts
\* items that have room.
NeverOvercounted == AllIdle => used <= Sum

\* Every return path of Set, Get and Delete, the error returns in the middle of
\* the scan included, leaves both mutexes (lines 70-79, 89, 98).
NoLockLeak == \A p \in Procs : At(p, "idle") => mLock # p /\ cLock # p

\* Every call of a cache used by one goroutine returns.  This is what the
\* comment of line 51 is about: m.lock is released before anything is deleted.
CallsReturn == \A p \in Procs : ~At(p, "idle") ~> At(p, "idle")

\* The abstract cache: the calls of Set that are past line 62, and the list with
\* the key that is on its way to the head, and without the key whose item is
\* stored next.
Storing == {p \in Procs : frame[p].op = "set" /\ frame[p].pc \notin {"exists", "decide"}}
Moving == {p \in Procs : At(p, "link") /\ Present(frame[p].key)}
Linked == {p \in Procs : At(p, "put") /\ ~Present(frame[p].key)}
Order ==
  IF Moving # {} THEN <<frame[CHOOSE p \in Moving : TRUE].key>> \o list
  ELSE IF Linked # {} THEN Tail(list) ELSE list

Incoming ==
  IF Storing = {} THEN [key |-> 0, size |-> 0, evicting |-> FALSE]
  ELSE LET f == frame[CHOOSE p \in Storing : TRUE]
       IN  [key |-> f.key, size |-> f.need, evicting |-> f.purging]

LRUCache == INSTANCE LRU WITH order <- Order, size <- [k \in Keys |-> data[k].size],
                              incoming <- Incoming

\* The cache used by one goroutine is an LRU cache: keys leave it only from the
\* cold end and only for an item that does not fit, no call fails, and the list
\* has exactly the stored keys in the order of their last use.
IsLRUCache == LRUCache!Spec

=============================================================================
