-------------------------------- MODULE LRU --------------------------------
(***************************************************************************)
(* What a cache of bounded size promises its single user: the keys are in  *)
(* order of their last use, and only when a new item does not fit are      *)
(* keys given up, the ones used least recently first.                      *)
(*                                                                         *)
(* How many keys are given up is left open.                                *)
(***************************************************************************)
EXTENDS Integers, FiniteSets, SequencesExt

CONSTANTS
  Keys,
  Sizes,  \* the sizes of items, all positive
  Limit   \* the size of the cache

VARIABLES
  order,    \* the keys of the cache, most recently used first
  size,     \* the size of each key's item, 0 for a key that is not there
  incoming  \* the item that is being stored, and whether keys may be given up for it

vars == <<order, size, incoming>>

Nothing == [key |-> 0, size |-> 0, evicting |-> FALSE]

\* The bytes of all items, each with its key and its place in the item.
Bytes == UNION {{k} \X (1..size[k]) : k \in Keys}
Sum == Cardinality(Bytes)

Init ==
  /\ order = << >>
  /\ size = [k \in Keys |-> 0]
  /\ incoming = Nothing

\* Keys may be given up only if the item does not fit.
Offer(k, n, evicting) ==
  /\ incoming = Nothing
  /\ evicting => Sum - size[k] + n > Limit
  /\ incoming' = [key |-> k, size |-> n, evicting |-> evicting]
  /\ UNCHANGED <<order, size>>

EvictColdest ==
  /\ incoming.evicting
  /\ order # << >>
  /\ order' = SubSeq(order, 1, Len(order) - 1)
  /\ size' = [size EXCEPT ![order[Len(order)]] = 0]
  /\ UNCHANGED incoming

Accept ==
  /\ incoming # Nothing
  /\ order' = <<incoming.key>> \o RemoveFirst(order, incoming.key)
  /\ size' = [size EXCEPT ![incoming.key] = incoming.size]
  /\ incoming' = Nothing

\* The key of an incoming item is used before the item is accepted.
Touch(k) ==
  /\ size[k] > 0
  /\ incoming = Nothing \/ incoming.key = k
  /\ order' = <<k>> \o RemoveFirst(order, k)
  /\ UNCHANGED <<size, incoming>>

Delete(k) ==
  /\ incoming = Nothing
  /\ order' = RemoveFirst(order, k)
  /\ size' = [size EXCEPT ![k] = 0]
  /\ UNCHANGED incoming

Next ==
  \/ EvictColdest \/ Accept
  \/ \E k \in Keys : Touch(k) \/ Delete(k)
  \/ \E k \in Keys, n \in Sizes, e \in BOOLEAN : Offer(k, n, e)

Spec == Init /\ [][Next]_vars

=============================================================================
