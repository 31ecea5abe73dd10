-------------------------- MODULE MemoryCacheProofs --------------------------
(***************************************************************************)
(* Theorems about MemoryCache, for any keys, goroutines, expirations and   *)
(* sweep limit.                                                            *)
(***************************************************************************)
EXTENDS MemoryCache, TLAPS

-----------------------------------------------------------------------------
(* Type correctness and the shape of the map *)

LEMMA TypeInit == Init => TypeOK
<1> SUFFICES ASSUME Init PROVE TypeOK
  OBVIOUS
<1> USE CacheAssumption DEF Init, Items, None, NoTick
<1>0. NoKey \in Keys
  BY DEF NoKey
<1>1. now \in 0..MaxTime /\ written \in 0..MaxItems /\ tick \in {NoTick} \union 0..now /\ stamp \in 0..now
  OBVIOUS
<1>2. callback \in BOOLEAN /\ crashed \in BOOLEAN /\ closed \in BOOLEAN
  OBVIOUS
<1>3. /\ data \in [Keys -> Items \union {None}]
      /\ deadline \in [Items -> Nat]
      /\ fate \in [Items -> {"unwritten", "stored", "overwritten", "deleted", "expired"}]
  OBVIOUS
<1>4. /\ pc \in [Procs -> {"idle", "now", "lock", "return"}]
      /\ key \in [Procs -> Keys]
      /\ res \in [Procs -> Items \union {None}]
      /\ at \in [Procs -> 0..now]
  BY <1>0
<1>5. window \in [Procs -> SUBSET (Items \union {None})]
  OBVIOUS
<1>6. /\ \A i \in Items : /\ fate[i] = "unwritten" <=> i > written
                          /\ fate[i] = "stored" <=> \E k \in Keys : data[k] = i
      /\ \A k, l \in Keys : data[k] = data[l] /\ data[k] # None => k = l
  OBVIOUS
<1>7. sweeper \in {"starting", "selecting", "parked", "locking", "closed"}
  OBVIOUS
<1> QED
  BY <1>1, <1>2, <1>3, <1>4, <1>5, <1>6, <1>7 DEF TypeOK

\* What every step that lets the calls in progress observe the new map does to
\* their histories.
LEMMA Observing ==
  ASSUME TypeOK, Observe, data' \in [Keys -> Items \union {None}], deadline' \in [Items -> Nat]
  PROVE  /\ window' \in [Procs -> SUBSET (Items \union {None})]
         /\ \A p \in Procs : pc[p] # "idle" =>
              window'[p] = window[p] \union {View(data', deadline', now', key[p])}
<1>1. \A p \in Procs : View(data', deadline', now', key[p]) \in Items \union {None}
  BY DEF TypeOK, View
<1> QED
  BY <1>1 DEF TypeOK, Observe

\* Removing the items under some keys keeps the shape of the map.
LEMMA Evicting ==
  ASSUME TypeOK, NEW ks \in SUBSET Keys, NEW why \in {"deleted", "expired"}, Evict(ks, why)
  PROVE  /\ data' \in [Keys -> Items \union {None}]
         /\ fate' \in [Items -> {"unwritten", "stored", "overwritten", "deleted", "expired"}]
         /\ crashed' \in BOOLEAN
         /\ \A i \in Items : /\ fate'[i] = "unwritten" <=> i > written
                             /\ fate'[i] = "stored" <=> \E k \in Keys : data'[k] = i
         /\ \A k, l \in Keys : data'[k] = data'[l] /\ data'[k] # None => k = l
         /\ \A i \in Items : fate'[i] = "unwritten" <=> fate[i] = "unwritten"
<1> USE DEF TypeOK, Evict, Items, None
<1>1. /\ data' \in [Keys -> Items \union {None}]
      /\ fate' \in [Items -> {"unwritten", "stored", "overwritten", "deleted", "expired"}]
  OBVIOUS
<1>2. crashed' \in BOOLEAN
  OBVIOUS
<1>3. ASSUME NEW i \in Items
      PROVE  /\ fate'[i] = "unwritten" <=> fate[i] = "unwritten"
             /\ fate'[i] = "stored" <=> \E k \in Keys : data'[k] = i
  <2>1. CASE \E k \in ks : data[k] = i
    BY <2>1
  <2>2. CASE ~\E k \in ks : data[k] = i
    BY <2>2
  <2> QED
    BY <2>1, <2>2
<1>4. \A k, l \in Keys : data'[k] = data'[l] /\ data'[k] # None => k = l
  OBVIOUS
<1> QED
  BY <1>1, <1>2, <1>3, <1>4

LEMMA TypeStep == TypeOK /\ [Next]_vars => TypeOK'
<1> SUFFICES ASSUME TypeOK, [Next]_vars PROVE TypeOK'
  OBVIOUS
<1> USE CacheAssumption DEF TypeOK
<1>1. ASSUME NEW p \in Procs, NEW k \in Keys, Delete(p, k) PROVE TypeOK'
  <2>1. Evict({k}, "deleted") /\ Observe /\ UNCHANGED <<now, deadline, written, callback, sweepVars, procVars>>
    BY <1>1 DEF Delete
  <2>2. data' \in [Keys -> Items \union {None}]
    BY <2>1, Evicting
  <2>3. window' \in [Procs -> SUBSET (Items \union {None})]
    BY <2>1, <2>2, Observing
  <2> QED
    BY <2>1, <2>3, Evicting DEF sweepVars, procVars
<1>2. ASSUME NEW p \in Procs, NEW k \in Keys, LoadAndDelete(p, k) PROVE TypeOK'
  <2>1. Evict({k}, "deleted") /\ Observe /\ UNCHANGED <<now, deadline, written, callback, sweepVars, procVars>>
    BY <1>2 DEF LoadAndDelete
  <2>2. data' \in [Keys -> Items \union {None}]
    BY <2>1, Evicting
  <2>3. window' \in [Procs -> SUBSET (Items \union {None})]
    BY <2>1, <2>2, Observing
  <2> QED
    BY <2>1, <2>3, Evicting DEF sweepVars, procVars
<1>3. ASSUME NEW p \in Procs, NEW k \in Keys, GetRead(p, k) PROVE TypeOK'
  <2>1. View(data, deadline, now, k) \in Items \union {None}
    BY DEF View
  <2>2. window' \in [Procs -> SUBSET (Items \union {None})]
    BY <1>3, <2>1 DEF GetRead
  <2> QED
    BY <1>3, <2>2 DEF GetRead, itemVars, sweepVars
<1>4. ASSUME NEW p \in Procs, NEW k \in Keys, NEW e \in Expirations, Set(p, k, e)
      PROVE  TypeOK'
  <2> USE <1>4 DEF Set, Items, None
  <2>1. written' \in Items /\ written' = written + 1
    OBVIOUS
  <2>2. data' = [data EXCEPT ![k] = written'] /\ data' \in [Keys -> Items \union {None}]
    BY <2>1
  <2>3. deadline' \in [Items -> Nat]
    BY <2>1
  <2>4. window' \in [Procs -> SUBSET (Items \union {None})]
    BY <2>2, <2>3, Observing
  <2>5. fate' \in [Items -> {"unwritten", "stored", "overwritten", "deleted", "expired"}]
    BY <2>1
  <2>6. \A l \in Keys : data[l] # written'
    <3>1. fate[written'] = "unwritten"
      BY <2>1
    <3> QED
      BY <2>1, <3>1
  <2>7. ASSUME NEW i \in Items
        PROVE  /\ fate'[i] = "unwritten" <=> i > written'
               /\ fate'[i] = "stored" <=> \E l \in Keys : data'[l] = i
    <3>1. CASE i = written'
      BY <2>1, <2>2, <3>1
    <3>2. CASE i # written' /\ i = data[k]
      <4>1. fate[i] = "stored" /\ i <= written /\ fate'[i] = "overwritten"
        BY <3>2, SMTT(30)
      <4>2. ~\E l \in Keys : data'[l] = i
        BY <2>2, <3>2, SMTT(30)
      <4> QED
        BY <2>1, <4>1, <4>2
    <3>3. CASE i # written' /\ i # data[k]
      BY <2>1, <2>2, <3>3, SMTT(30)
    <3> QED
      BY <3>1, <3>2, <3>3
  <2>8. \A l, m \in Keys : data'[l] = data'[m] /\ data'[l] # None => l = m
    BY <2>2, <2>6, SMTT(30)
  <2>9. UNCHANGED <<now, callback, crashed, sweepVars, procVars>>
    OBVIOUS
  <2>10. written' \in 0..MaxItems
    BY <2>1
  <2> HIDE <1>4 DEF Set
  <2> QED
    BY <2>2, <2>3, <2>4, <2>5, <2>7, <2>8, <2>9, <2>10 DEF sweepVars, procVars
<1>5. ASSUME NEW p \in Procs, Close(p) PROVE TypeOK'
  BY <1>5 DEF Close, itemVars, sweepVars, procVars
<1>6. ASSUME NEW p \in Procs, GetNow(p) PROVE TypeOK'
  BY <1>6 DEF GetNow, itemVars, sweepVars, procVars
<1>7. ASSUME NEW p \in Procs, GetLock(p) PROVE TypeOK'
  <2>1. CASE Stale(p)
    <3>1. Evict({key[p]}, "expired") /\ Observe
      BY <1>7, <2>1 DEF GetLock
    <3>2. window' \in [Procs -> SUBSET (Items \union {None})]
      BY <1>7, <3>1, Evicting, Observing DEF GetLock
    <3>3. /\ pc' \in [Procs -> {"idle", "now", "lock", "return"}]
          /\ res' \in [Procs -> Items \union {None}]
      BY <1>7, <2>1 DEF GetLock
    <3>4. UNCHANGED <<now, deadline, written, callback, sweepVars, key, at>>
      BY <1>7 DEF GetLock
    <3> QED
      BY <3>1, <3>2, <3>3, <3>4, Evicting DEF sweepVars
  <2>2. CASE ~Stale(p)
    <3>1. window' \in [Procs -> SUBSET (Items \union {None})]
      BY <1>7, <2>2, Observing DEF GetLock
    <3>2. /\ pc' \in [Procs -> {"idle", "now", "lock", "return"}]
          /\ res' \in [Procs -> Items \union {None}]
      BY <1>7, <2>2 DEF GetLock
    <3>3. UNCHANGED <<data, fate, crashed, now, deadline, written, callback, sweepVars, key, at>>
      BY <1>7, <2>2 DEF GetLock
    <3> QED
      BY <3>1, <3>2, <3>3 DEF sweepVars
  <2> QED
    BY <2>1, <2>2
<1>8. ASSUME NEW p \in Procs, GetReturn(p) PROVE TypeOK'
  BY <1>8 DEF GetReturn, NoKey, itemVars, sweepVars, procVars
<1>9. CASE OnEvicted
  BY <1>9 DEF OnEvicted, itemVars, sweepVars, procVars
<1>10. CASE SweeperStarts
  BY <1>10 DEF SweeperStarts, itemVars, sweepVars, procVars
<1>11. CASE SweeperSelects
  BY <1>11 DEF SweeperSelects, itemVars, sweepVars, procVars
<1>12. CASE Sweep
  <2>1. PICK ks \in Swept : Evict({k \in ks : DeadlineBefore(data[k], stamp)}, "expired")
    BY <1>12 DEF Sweep, SweepOf
  <2>2. {k \in ks : DeadlineBefore(data[k], stamp)} \in SUBSET Keys
    BY <2>1 DEF Swept
  <2>3. window' \in [Procs -> SUBSET (Items \union {None})]
    BY <1>12, <2>1, <2>2, Evicting, Observing DEF Sweep, SweepOf
  <2> QED
    BY <1>12, <2>1, <2>2, <2>3, Evicting DEF Sweep, SweepOf, procVars
<1>13. CASE TickerFires
  BY <1>13 DEF TickerFires, itemVars, sweepVars, procVars
<1>14. CASE TimePasses
  <2>1. window' \in [Procs -> SUBSET (Items \union {None})]
    BY <1>14, Observing DEF TimePasses, itemVars
  <2> QED
    BY <1>14, <2>1 DEF TimePasses, itemVars, sweepVars, procVars
<1>15. CASE UNCHANGED vars
  BY <1>15 DEF vars, itemVars, sweepVars, procVars
<1> QED
  BY <1>1, <1>2, <1>3, <1>4, <1>5, <1>6, <1>7, <1>8, <1>9, <1>10, <1>11, <1>12, <1>13, <1>14, <1>15 DEF Next, Calls, Sweeper, Idle

\* Types, and the map points to exactly the stored items, each from one key.
THEOREM TypeCorrect == Spec => []TypeOK
BY TypeInit, TypeStep, PTL DEF Spec

-----------------------------------------------------------------------------
(* Deadlines are met *)

\* What a step may not change: a written item's deadline and the direction of
\* the clock.
LEMMA Persistence ==
  ASSUME TypeOK, [Next]_vars
  PROVE  /\ \A i \in Items : fate[i] # "unwritten" => deadline'[i] = deadline[i] /\ fate'[i] # "unwritten"
         /\ now \in Nat /\ now' \in Nat /\ now <= now'
<1> DEFINE Goal == /\ \A i \in Items : fate[i] # "unwritten" => deadline'[i] = deadline[i] /\ fate'[i] # "unwritten"
                   /\ now \in Nat /\ now' \in Nat /\ now <= now'
<1> SUFFICES Goal
  OBVIOUS
<1> USE CacheAssumption DEF TypeOK
<1>1. ASSUME NEW p \in Procs, NEW k \in Keys, Delete(p, k) PROVE Goal
  BY <1>1, Evicting DEF Delete
<1>2. ASSUME NEW p \in Procs, NEW k \in Keys, LoadAndDelete(p, k) PROVE Goal
  BY <1>2, Evicting DEF LoadAndDelete
<1>3. ASSUME NEW p \in Procs, NEW k \in Keys, GetRead(p, k) PROVE Goal
  BY <1>3 DEF GetRead, itemVars, sweepVars, procVars
<1>4. ASSUME NEW p \in Procs, NEW k \in Keys, NEW e \in Expirations, Set(p, k, e)
      PROVE  Goal
  BY <1>4 DEF Set, Items
<1>5. ASSUME NEW p \in Procs, Close(p) PROVE Goal
  BY <1>5 DEF Close, itemVars, sweepVars, procVars
<1>6. ASSUME NEW p \in Procs, GetNow(p) PROVE Goal
  BY <1>6 DEF GetNow, itemVars, sweepVars, procVars
<1>7. ASSUME NEW p \in Procs, GetLock(p) PROVE Goal
  <2>1. CASE Stale(p)
    BY <1>7, <2>1, Evicting DEF GetLock
  <2>2. CASE ~Stale(p)
    BY <1>7, <2>2 DEF GetLock
  <2> QED
    BY <2>1, <2>2
<1>8. ASSUME NEW p \in Procs, GetReturn(p) PROVE Goal
  BY <1>8 DEF GetReturn, itemVars, sweepVars, procVars
<1>9. CASE OnEvicted
  BY <1>9 DEF OnEvicted, itemVars, sweepVars, procVars
<1>10. CASE SweeperStarts
  BY <1>10 DEF SweeperStarts, itemVars, sweepVars, procVars
<1>11. CASE SweeperSelects
  BY <1>11 DEF SweeperSelects, itemVars, sweepVars, procVars
<1>12. CASE Sweep
  <2>1. PICK ks \in Swept : Evict({k \in ks : DeadlineBefore(data[k], stamp)}, "expired")
    BY <1>12 DEF Sweep, SweepOf
  <2>2. {k \in ks : DeadlineBefore(data[k], stamp)} \in SUBSET Keys
    BY <2>1 DEF Swept
  <2> QED
    BY <1>12, <2>1, <2>2, Evicting DEF Sweep, SweepOf
<1>13. CASE TickerFires
  BY <1>13 DEF TickerFires, itemVars, sweepVars, procVars
<1>14. CASE TimePasses
  BY <1>14 DEF TimePasses, itemVars, sweepVars, procVars
<1>15. CASE UNCHANGED vars
  BY <1>15 DEF vars, itemVars, sweepVars, procVars
<1> QED
  BY <1>1, <1>2, <1>3, <1>4, <1>5, <1>6, <1>7, <1>8, <1>9, <1>10, <1>11, <1>12, <1>13, <1>14, <1>15 DEF Next, Calls, Sweeper, Idle

\* Every step that removes an item for its deadline removes an expired one.
LEMMA ExpiryStep ==
  ASSUME TypeOK, TypeOK', NoLiveItemLost, [Next]_vars
  PROVE  NoLiveItemLost'
<1> SUFFICES ASSUME NEW i \in Items, fate'[i] = "expired", fate[i] # "expired"
             PROVE  DeadlineBefore(i, now)'
  <2>1. ASSUME NEW i \in Items, fate'[i] = "expired", fate[i] = "expired"
        PROVE  DeadlineBefore(i, now)'
    <3>1. DeadlineBefore(i, now)
      BY <2>1 DEF NoLiveItemLost
    <3>2. deadline'[i] = deadline[i] /\ now \in Nat /\ now' \in Nat /\ now <= now'
      BY <2>1, Persistence
    <3>3. deadline[i] \in Nat
      BY DEF TypeOK
    <3> QED
      BY <3>1, <3>2, <3>3 DEF DeadlineBefore
  <2> QED
    BY <2>1 DEF NoLiveItemLost
<1> DEFINE Goal == DeadlineBefore(i, now)'
<1> USE DEF TypeOK
<1>1. ASSUME NEW p \in Procs, NEW k \in Keys, Delete(p, k) PROVE Goal
  BY <1>1 DEF Delete, Evict
<1>2. ASSUME NEW p \in Procs, NEW k \in Keys, LoadAndDelete(p, k) PROVE Goal
  BY <1>2 DEF LoadAndDelete, Evict
<1>3. ASSUME NEW p \in Procs, NEW k \in Keys, GetRead(p, k) PROVE Goal
  BY <1>3 DEF GetRead, itemVars, sweepVars, procVars
<1>4. ASSUME NEW p \in Procs, NEW k \in Keys, NEW e \in Expirations, Set(p, k, e)
      PROVE  Goal
  BY <1>4 DEF Set
<1>5. ASSUME NEW p \in Procs, Close(p) PROVE Goal
  BY <1>5 DEF Close, itemVars, sweepVars, procVars
<1>6. ASSUME NEW p \in Procs, GetNow(p) PROVE Goal
  BY <1>6 DEF GetNow, itemVars, sweepVars, procVars
<1>7. ASSUME NEW p \in Procs, GetLock(p) PROVE Goal
  <2>1. Stale(p) /\ Evict({key[p]}, "expired") /\ UNCHANGED <<now, deadline>>
    BY <1>7 DEF GetLock
  <2>2. i = data[key[p]]
    BY <2>1 DEF Evict
  <2>3. DeadlineBefore(i, at[p]) /\ at[p] <= now
    BY <1>7, <2>1, <2>2 DEF Stale
  <2> QED
    BY <2>1, <2>3, Persistence DEF DeadlineBefore
<1>8. ASSUME NEW p \in Procs, GetReturn(p) PROVE Goal
  BY <1>8 DEF GetReturn, itemVars, sweepVars, procVars
<1>9. CASE OnEvicted
  BY <1>9 DEF OnEvicted, itemVars, sweepVars, procVars
<1>10. CASE SweeperStarts
  BY <1>10 DEF SweeperStarts, itemVars, sweepVars, procVars
<1>11. CASE SweeperSelects
  BY <1>11 DEF SweeperSelects, itemVars, sweepVars, procVars
<1>12. CASE Sweep
  <2>1. PICK ks \in Swept : Evict({k \in ks : DeadlineBefore(data[k], stamp)}, "expired")
    BY <1>12 DEF Sweep, SweepOf
  <2>2. \E k \in ks : data[k] = i /\ DeadlineBefore(data[k], stamp)
    BY <2>1 DEF Evict
  <2>3. DeadlineBefore(i, stamp) /\ stamp <= now /\ UNCHANGED <<now, deadline>>
    BY <1>12, <2>2 DEF Sweep, SweepOf
  <2> QED
    BY <2>3, Persistence DEF DeadlineBefore
<1>13. CASE TickerFires
  BY <1>13 DEF TickerFires, itemVars, sweepVars, procVars
<1>14. CASE TimePasses
  BY <1>14 DEF TimePasses, itemVars, sweepVars, procVars
<1>15. CASE UNCHANGED vars
  BY <1>15 DEF vars, itemVars, sweepVars, procVars
<1> QED
  BY <1>1, <1>2, <1>3, <1>4, <1>5, <1>6, <1>7, <1>8, <1>9, <1>10, <1>11, <1>12, <1>13, <1>14, <1>15 DEF Next, Calls, Sweeper, Idle

\* Neither Get's slow path, which decides on a clock value older than its lock,
\* nor the sweeper, which decides on an even older stamp, ever removes an item
\* that a Get would still have returned.
THEOREM NothingLiveLost == Spec => []NoLiveItemLost
<1>1. Init => NoLiveItemLost
  BY DEF Init, NoLiveItemLost
<1>2. TypeOK /\ TypeOK' /\ NoLiveItemLost /\ [Next]_vars => NoLiveItemLost'
  BY ExpiryStep
<1> QED
  BY <1>1, <1>2, TypeCorrect, PTL DEF Spec

-----------------------------------------------------------------------------
(* Get is linearizable *)

Now(k) == View(data, deadline, now, k)

\* What each stage of a Get of goroutine p has seen.
ReadInv(p) ==
  /\ pc[p] # "idle" => Now(key[p]) \in window[p]
  /\ pc[p] = "now" => /\ res[p] # None /\ fate[res[p]] # "unwritten"
                      /\ \/ res[p] \in window[p]
                         \/ None \in window[p] /\ DeadlineBefore(res[p], now)
  /\ pc[p] = "lock" => \/ data[key[p]] = None
                       \/ DeadlineBefore(data[key[p]], at[p])
                       \/ data[key[p]] \in window[p]
  /\ pc[p] = "return" => res[p] \in window[p]

\* A goroutine that does not move during a step: its history only grows, and
\* includes what the step leaves under its key.
LEMMA Bystander ==
  ASSUME TypeOK, TypeOK', [Next]_vars, NEW p \in Procs, ReadInv(p),
         UNCHANGED <<pc[p], key[p], res[p], at[p]>>,
         pc[p] # "idle" => window[p] \subseteq window'[p] /\ Now(key[p])' \in window'[p],
         pc[p] = "lock" => \/ data'[key[p]] \in {None, data[key[p]]}
                           \/ data'[key[p]] = Now(key[p])'
  PROVE  ReadInv(p)'
<1>1. pc[p] = "now" => (res[p] \in window'[p] \/ (None \in window'[p] /\ DeadlineBefore(res[p], now)'))
  <2> SUFFICES ASSUME pc[p] = "now" PROVE res[p] \in window'[p] \/ (None \in window'[p] /\ DeadlineBefore(res[p], now)')
    OBVIOUS
  <2>1. res[p] \in Items /\ fate[res[p]] # "unwritten"
    BY DEF ReadInv, TypeOK
  <2>2. deadline'[res[p]] = deadline[res[p]] /\ deadline[res[p]] \in Nat
    BY <2>1, Persistence DEF TypeOK
  <2>3. DeadlineBefore(res[p], now) => DeadlineBefore(res[p], now)'
    BY <2>2, Persistence DEF DeadlineBefore
  <2> QED
    BY <2>3 DEF ReadInv
<1>2. pc[p] = "now" => res[p] # None /\ fate'[res[p]] # "unwritten"
  BY Persistence DEF ReadInv, TypeOK
<1>3. CASE pc[p] = "lock"
  <2>1. CASE data'[key[p]] = None \/ data'[key[p]] = Now(key[p])'
    BY <1>3, <2>1 DEF ReadInv
  <2>2. CASE data'[key[p]] = data[key[p]] /\ data[key[p]] # None
    <3>1. fate[data[key[p]]] = "stored"
      BY <2>2 DEF TypeOK
    <3>2. deadline'[data[key[p]]] = deadline[data[key[p]]]
      BY <2>2, <3>1, Persistence DEF TypeOK
    <3> QED
      BY <1>3, <2>2, <3>2 DEF ReadInv, DeadlineBefore
  <2> QED
    BY <1>3, <2>1, <2>2
<1> QED
  BY <1>1, <1>2, <1>3 DEF ReadInv, TypeOK

LEMMA ReadInit == Init => \A p \in Procs : ReadInv(p)
BY DEF Init, ReadInv

LEMMA ReadStep ==
  ASSUME TypeOK, TypeOK', \A p \in Procs : ReadInv(p), [Next]_vars, NEW q \in Procs
  PROVE  ReadInv(q)'
<1> USE DEF TypeOK
<1>0. ReadInv(q)
  OBVIOUS
<1>1. ASSUME NEW p \in Procs, NEW k \in Keys, Delete(p, k) PROVE ReadInv(q)'
  <2>1. Observe /\ data' \in [Keys -> Items \union {None}] /\ deadline' \in [Items -> Nat]
    BY <1>1 DEF Delete
  <2>2. UNCHANGED <<pc, key, res, at>>
    BY <1>1 DEF Delete, procVars
  <2>3. pc[q] # "idle" => window[q] \subseteq window'[q] /\ Now(key[q])' \in window'[q]
    BY <2>1, <2>2, Observing DEF Now
  <2>4. pc[q] = "lock" => \/ data'[key[q]] \in {None, data[key[q]]}
                         \/ data'[key[q]] = Now(key[q])'
    BY <1>1 DEF Delete, Evict
  <2> QED
    BY <1>0, <2>2, <2>3, <2>4, Bystander
<1>2. ASSUME NEW p \in Procs, NEW k \in Keys, LoadAndDelete(p, k) PROVE ReadInv(q)'
  <2>1. Observe /\ data' \in [Keys -> Items \union {None}] /\ deadline' \in [Items -> Nat]
    BY <1>2 DEF LoadAndDelete
  <2>2. UNCHANGED <<pc, key, res, at>>
    BY <1>2 DEF LoadAndDelete, procVars
  <2>3. pc[q] # "idle" => window[q] \subseteq window'[q] /\ Now(key[q])' \in window'[q]
    BY <2>1, <2>2, Observing DEF Now
  <2>4. pc[q] = "lock" => \/ data'[key[q]] \in {None, data[key[q]]}
                         \/ data'[key[q]] = Now(key[q])'
    BY <1>2 DEF LoadAndDelete, Evict
  <2> QED
    BY <1>0, <2>2, <2>3, <2>4, Bystander
<1>3. ASSUME NEW p \in Procs, NEW k \in Keys, GetRead(p, k) PROVE ReadInv(q)'
  <2>1. CASE p = q
    <3>1. UNCHANGED <<data, deadline, now>> /\ key'[q] = k /\ window'[q] = {Now(k)} /\ res'[q] = data[k]
      BY <1>3, <2>1 DEF GetRead, itemVars, Now
    <3>2. Now(key[q])' = Now(k)
      BY <3>1 DEF Now, View
    <3>3. pc'[q] \in {"now", "return"} /\ (data[k] = None <=> pc'[q] = "return")
      BY <1>3, <2>1 DEF GetRead
    <3>4. data[k] # None => fate'[data[k]] = "stored"
      BY <1>3 DEF GetRead, itemVars
    <3>5. data[k] = Now(k) \/ (data[k] # None /\ Now(k) = None /\ DeadlineBefore(data[k], now)')
      BY <3>1 DEF Now, View, DeadlineBefore
    <3>6. data[k] = None => Now(k) = None
      BY DEF Now, View
    <3> QED
      BY <3>1, <3>2, <3>3, <3>4, <3>5, <3>6 DEF ReadInv
  <2>2. CASE p # q
    <3>1. UNCHANGED <<pc[q], key[q], res[q], at[q], data, deadline, now, window[q]>>
      BY <1>3, <2>2 DEF GetRead, itemVars
    <3>2. Now(key[q])' = Now(key[q])
      BY <3>1 DEF Now, View
    <3> QED
      BY <1>0, <3>1, <3>2, Bystander DEF ReadInv
  <2> QED
    BY <2>1, <2>2
<1>4. ASSUME NEW p \in Procs, NEW k \in Keys, NEW e \in Expirations, Set(p, k, e)
      PROVE  ReadInv(q)'
  <2>1. Observe /\ data' \in [Keys -> Items \union {None}] /\ deadline' \in [Items -> Nat]
    BY <1>4 DEF Set
  <2>2. UNCHANGED <<pc, key, res, at>>
    BY <1>4 DEF Set, procVars
  <2>3. pc[q] # "idle" => window[q] \subseteq window'[q] /\ Now(key[q])' \in window'[q]
    BY <2>1, <2>2, Observing DEF Now
  <2>4. pc[q] = "lock" => \/ data'[key[q]] \in {None, data[key[q]]}
                         \/ data'[key[q]] = Now(key[q])'
    <3>1. written' \in Items /\ deadline'[written'] \in {0} \union {now + x : x \in Expirations} /\ now' = now
      BY <1>4, CacheAssumption DEF Set, Items
    <3>2. ~(deadline'[written'] # 0 /\ deadline'[written'] < now')
      BY <3>1, CacheAssumption
    <3>3. View(data', deadline', now', k) = written'
      BY <1>4, <3>1, <3>2 DEF Set, View
    <3> QED
      BY <1>4, <3>3, <2>2 DEF Set, Now
  <2> QED
    BY <1>0, <2>2, <2>3, <2>4, Bystander
<1>5. ASSUME NEW p \in Procs, Close(p) PROVE ReadInv(q)'
  <2>1. UNCHANGED <<pc, key, res, at, data, deadline, now, window>>
    BY <1>5 DEF Close, itemVars, procVars
  <2>2. Now(key[q])' = Now(key[q])
    BY <2>1 DEF Now, View
  <2> QED
    BY <1>0, <2>1, <2>2, Bystander DEF ReadInv
<1>6. ASSUME NEW p \in Procs, GetNow(p) PROVE ReadInv(q)'
  <2>1. CASE p = q
    <3>1. UNCHANGED <<key[q], res[q], data, deadline, now, window[q], fate>> /\ at'[q] = now
      BY <1>6, <2>1 DEF GetNow, itemVars
    <3>2. Now(key[q])' = Now(key[q])
      BY <3>1 DEF Now, View
    <3>3. pc[q] = "now" /\ pc'[q] = IF DeadlineBefore(res[q], now) THEN "lock" ELSE "return"
      BY <1>6, <2>1 DEF GetNow
    <3>4. data[key[q]] = None \/ DeadlineBefore(data[key[q]], now) \/ data[key[q]] = Now(key[q])
      BY DEF Now, View, DeadlineBefore
    <3>5. DeadlineBefore(data[key[q]], now) => DeadlineBefore(data[key[q]], at[q])'
      BY <3>1 DEF DeadlineBefore
    <3> QED
      BY <1>0, <3>1, <3>2, <3>3, <3>4, <3>5 DEF ReadInv
  <2>2. CASE p # q
    <3>1. UNCHANGED <<pc[q], key[q], res[q], at[q], data, deadline, now, window[q]>>
      BY <1>6, <2>2 DEF GetNow, itemVars
    <3>2. Now(key[q])' = Now(key[q])
      BY <3>1 DEF Now, View
    <3> QED
      BY <1>0, <3>1, <3>2, Bystander DEF ReadInv
  <2> QED
    BY <2>1, <2>2
<1>7. ASSUME NEW p \in Procs, GetLock(p) PROVE ReadInv(q)'
  <2>1. CASE p = q
    <3>1. Observe /\ pc[q] = "lock" /\ pc'[q] = "return" /\ key' = key /\ UNCHANGED <<now, deadline>>
      BY <1>7, <2>1 DEF GetLock
    <3>2. window'[q] = window[q] \union {Now(key[q])'}
      BY <3>1, Observing DEF Now
    <3>3. CASE Stale(q)
      <4>1. res'[q] = None /\ data'[key[q]] = None
        BY <1>7, <2>1, <3>3 DEF GetLock, Evict
      <4>2. Now(key[q])' = None
        BY <3>1, <4>1 DEF Now, View
      <4> QED
        BY <3>1, <3>2, <4>1, <4>2 DEF ReadInv
    <3>4. CASE ~Stale(q)
      <4>1. res'[q] = data[key[q]] /\ data' = data
        BY <1>7, <2>1, <3>4 DEF GetLock
      <4>2. data[key[q]] = None => Now(key[q])' = None
        BY <3>1, <4>1 DEF Now, View
      <4>3. data[key[q]] = None \/ data[key[q]] \in window[q]
        BY <1>0, <3>1, <3>4 DEF Stale, ReadInv
      <4> QED
        BY <3>1, <3>2, <4>1, <4>2, <4>3 DEF ReadInv
    <3> QED
      BY <3>3, <3>4
  <2>2. CASE p # q
    <3>1. UNCHANGED <<pc[q], key[q], res[q], at[q]>> /\ Observe /\ deadline' \in [Items -> Nat]
      BY <1>7, <2>2 DEF GetLock
    <3>2. pc[q] # "idle" => window[q] \subseteq window'[q] /\ Now(key[q])' \in window'[q]
      BY <3>1, Observing DEF Now
    <3>3. data'[key[q]] \in {None, data[key[q]]}
      BY <1>7 DEF GetLock, Evict
    <3> QED
      BY <1>0, <3>1, <3>2, <3>3, Bystander
  <2> QED
    BY <2>1, <2>2
<1>8. ASSUME NEW p \in Procs, GetReturn(p) PROVE ReadInv(q)'
  <2>1. CASE p = q
    BY <1>8, <2>1 DEF GetReturn, ReadInv
  <2>2. CASE p # q
    <3>1. UNCHANGED <<pc[q], key[q], res[q], at[q], data, deadline, now, window[q]>>
      BY <1>8, <2>2 DEF GetReturn, itemVars
    <3>2. Now(key[q])' = Now(key[q])
      BY <3>1 DEF Now, View
    <3> QED
      BY <1>0, <3>1, <3>2, Bystander, SMTT(30) DEF ReadInv
  <2> QED
    BY <2>1, <2>2
<1>9. CASE OnEvicted
  <2>1. UNCHANGED <<pc, key, res, at, data, deadline, now, window>>
    BY <1>9 DEF OnEvicted, itemVars, procVars
  <2>2. Now(key[q])' = Now(key[q])
    BY <2>1 DEF Now, View
  <2> QED
    BY <1>0, <2>1, <2>2, Bystander DEF ReadInv
<1>10. CASE SweeperStarts
  <2>1. UNCHANGED <<pc, key, res, at, data, deadline, now, window>>
    BY <1>10 DEF SweeperStarts, itemVars, procVars
  <2>2. Now(key[q])' = Now(key[q])
    BY <2>1 DEF Now, View
  <2> QED
    BY <1>0, <2>1, <2>2, Bystander DEF ReadInv
<1>11. CASE SweeperSelects
  <2>1. UNCHANGED <<pc, key, res, at, data, deadline, now, window>>
    BY <1>11 DEF SweeperSelects, itemVars, procVars
  <2>2. Now(key[q])' = Now(key[q])
    BY <2>1 DEF Now, View
  <2> QED
    BY <1>0, <2>1, <2>2, Bystander DEF ReadInv
<1>12. CASE Sweep
  <2>1. Observe /\ data' \in [Keys -> Items \union {None}] /\ deadline' \in [Items -> Nat]
    BY <1>12 DEF Sweep, SweepOf
  <2>2. UNCHANGED <<pc, key, res, at>>
    BY <1>12 DEF Sweep, SweepOf, procVars
  <2>3. pc[q] # "idle" => window[q] \subseteq window'[q] /\ Now(key[q])' \in window'[q]
    BY <2>1, <2>2, Observing DEF Now
  <2>4. pc[q] = "lock" => \/ data'[key[q]] \in {None, data[key[q]]}
                         \/ data'[key[q]] = Now(key[q])'
    BY <1>12 DEF Sweep, SweepOf, Swept, Evict
  <2> QED
    BY <1>0, <2>2, <2>3, <2>4, Bystander
<1>13. CASE TickerFires
  <2>1. UNCHANGED <<pc, key, res, at, data, deadline, now, window>>
    BY <1>13 DEF TickerFires, itemVars, procVars
  <2>2. Now(key[q])' = Now(key[q])
    BY <2>1 DEF Now, View
  <2> QED
    BY <1>0, <2>1, <2>2, Bystander DEF ReadInv
<1>14. CASE TimePasses
  <2>1. Observe /\ data' \in [Keys -> Items \union {None}] /\ deadline' \in [Items -> Nat]
    BY <1>14 DEF TimePasses, itemVars
  <2>2. UNCHANGED <<pc, key, res, at>>
    BY <1>14 DEF TimePasses, procVars
  <2>3. pc[q] # "idle" => window[q] \subseteq window'[q] /\ Now(key[q])' \in window'[q]
    BY <2>1, <2>2, Observing DEF Now
  <2>4. pc[q] = "lock" => \/ data'[key[q]] \in {None, data[key[q]]}
                         \/ data'[key[q]] = Now(key[q])'
    BY <1>14 DEF TimePasses, itemVars
  <2> QED
    BY <1>0, <2>2, <2>3, <2>4, Bystander
<1>15. CASE UNCHANGED vars
  <2>1. UNCHANGED <<pc, key, res, at, data, deadline, now, window>>
    BY <1>15 DEF vars, itemVars, procVars
  <2>2. Now(key[q])' = Now(key[q])
    BY <2>1 DEF Now, View
  <2> QED
    BY <1>0, <2>1, <2>2, Bystander DEF ReadInv
<1> QED
  BY <1>1, <1>2, <1>3, <1>4, <1>5, <1>6, <1>7, <1>8, <1>9, <1>10, <1>11, <1>12, <1>13, <1>14, <1>15 DEF Next, Calls, Sweeper, Idle

\* A Get returns what an instantaneous Get would have returned at some moment
\* of the call, although it looks twice at the map and between the two, outside
\* of the lock, at the clock.
THEOREM Linearizable == Spec => []GetLinearizable
<1> DEFINE Inv == \A p \in Procs : ReadInv(p)
<1>1. TypeOK /\ TypeOK' /\ Inv /\ [Next]_vars => Inv'
  BY ReadStep
<1>2. Inv => GetLinearizable
  BY DEF ReadInv, GetLinearizable
<1>3. Init => Inv
  BY ReadInit
<1> HIDE DEF Inv
<1> QED
  BY <1>1, <1>2, <1>3, TypeCorrect, PTL DEF Spec

=============================================================================
