------------------------------ MODULE LRUCache ------------------------------
(***************************************************************************)
(* The block cache (util/cache.cc): one shard of the sharded cache, its    *)
(* hash table and its two lists, and the threads that hold handles.  Every *)
(* operation runs under the shard's mutex and is one action.               *)
(***************************************************************************)
EXTENDS Integers, Sequences, FiniteSets, SequencesExt, FiniteSetsExt

CONSTANTS
  Keys, Hash,     \* Hash[k], a number
  Charges,        \* charges of insertions
  Capacity,       \* capacity_ of the shard
  MaxHandles,     \* bound on the number of insertions
  MaxClientRefs,  \* bound on the references clients hold to one handle
  InitialLength   \* of the hash table, 4 in the code

VARIABLES
  e,       \* the handles that were allocated, in order: key, charge, refs, in_cache
  lru,     \* the lru_ list, oldest first
  inUse,   \* the in_use_ list
  usage,   \* usage_
  table,   \* list_, a sequence of chains, and elems_
  held,    \* the references that clients hold, by handle
  freed    \* the handles that were passed to their deleter, in order

cache == [e |-> e, lru |-> lru, inUse |-> inUse, usage |-> usage, table |-> table,
          freed |-> freed]
vars == <<e, lru, inUse, usage, table, held, freed>>

SetCache(c) ==
  /\ e' = c.e /\ lru' = c.lru /\ inUse' = c.inUse
  /\ usage' = c.usage /\ table' = c.table /\ freed' = c.freed
-----------------------------------------------------------------------------
(* HandleTable.  Chains are found by the low bits of the hash.             *)

Bucket(t, k) == (Hash[k] % Len(t.list)) + 1

\* FindPointer: the position in the chain, behind its end if there is none.
FindPointer(c, k) ==
  LET chain == c.table.list[Bucket(c.table, k)]
  IN Min({Len(chain) + 1} \cup {i \in DOMAIN chain : c.e[chain[i]].key = k})

TableLookup(c, k) ==
  LET chain == c.table.list[Bucket(c.table, k)]
      i == FindPointer(c, k)
  IN IF i > Len(chain) THEN 0 ELSE chain[i]

RECURSIVE NewLength(_, _)
NewLength(n, elems) == IF n < elems THEN NewLength(2 * n, elems) ELSE n

\* Each handle is pushed to the front of its new chain.
Resize(c) ==
  LET n == NewLength(InitialLength, c.table.elems)
      push(list, h) == [list EXCEPT ![(Hash[c.e[h].key] % n) + 1] = <<h>> \o @]
  IN [c EXCEPT !.table.list = FoldLeft(push, [i \in 1 .. n |-> <<>>],
                                       FlattenSeq(c.table.list))]

TableInsert(c, h) ==
  LET k == c.e[h].key
      b == Bucket(c.table, k)
      i == FindPointer(c, k)
      chain == c.table.list[b]
      new == [c EXCEPT !.table.list[b] = Append(chain, h), !.table.elems = @ + 1]
  IN IF i <= Len(chain) THEN [c EXCEPT !.table.list[b][i] = h]
     ELSE IF new.table.elems > Len(new.table.list) THEN Resize(new) ELSE new

TableRemove(c, k) ==
  IF TableLookup(c, k) = 0 THEN c
  ELSE [c EXCEPT !.table.list[Bucket(c.table, k)] = RemoveAt(@, FindPointer(c, k)),
                 !.table.elems = @ - 1]
-----------------------------------------------------------------------------
LRU_Remove(c, h) ==
  [c EXCEPT !.lru = SelectSeq(@, LAMBDA x : x # h), !.inUse = @ \ {h}]

RefNoMove(c, h) == [c EXCEPT !.e[h].refs = @ + 1]
Ref(c, h) ==
  LET onLru == c.e[h].refs = 1 /\ c.e[h].in
      d == IF onLru THEN [LRU_Remove(c, h) EXCEPT !.inUse = @ \cup {h}] ELSE c
  IN [d EXCEPT !.e[h].refs = @ + 1]

Unref(c, h) ==
  LET d == [c EXCEPT !.e[h].refs = @ - 1]
  IN IF d.e[h].refs = 0 THEN [d EXCEPT !.freed = Append(@, h)]
     ELSE IF d.e[h].in /\ d.e[h].refs = 1
          THEN [LRU_Remove(d, h) EXCEPT !.lru = Append(@, h)]
          ELSE d

\* Faulty variant: an erased entry is freed although clients hold it.
FinishEraseForced(c, h) ==
  IF h = 0 THEN c
  ELSE [LRU_Remove(c, h) EXCEPT !.e[h].in = FALSE, !.usage = @ - c.e[h].charge,
                                !.e[h].refs = @ - 1, !.freed = Append(@, h)]

\* h is no longer in the hash table; 0 stands for nullptr.
FinishErase(c, h) ==
  IF h = 0 THEN c
  ELSE Unref([LRU_Remove(c, h) EXCEPT !.e[h].in = FALSE, !.usage = @ - c.e[h].charge], h)

EraseKey(c, k) == FinishErase(TableRemove(c, k), TableLookup(c, k))

\* The loop of Insert, and with capacity -1 the one of Prune.
RECURSIVE Evict(_, _)
Evict(c, capacity) ==
  IF c.usage > capacity /\ c.lru # <<>> THEN Evict(EraseKey(c, c.e[Head(c.lru)].key), capacity)
  ELSE c

InsertIn(c, k, charge) ==
  LET h == Len(c.e) + 1
      caching == Capacity > 0
      new == [c EXCEPT !.e = Append(@, [key |-> k, charge |-> charge,
                                        refs |-> IF caching THEN 2 ELSE 1, in |-> caching])]
      linked == [new EXCEPT !.inUse = @ \cup {h}, !.usage = @ + charge]
  IN Evict(IF caching THEN FinishErase(TableInsert(linked, h), TableLookup(linked, k)) ELSE new,
           Capacity)
-----------------------------------------------------------------------------
Init ==
  /\ e = <<>> /\ lru = <<>> /\ inUse = {} /\ usage = 0 /\ freed = <<>>
  /\ table = [list |-> [i \in 1 .. InitialLength |-> <<>>], elems |-> 0]
  /\ held = <<>>

Insert(k, charge) ==
  /\ Len(e) < MaxHandles
  /\ SetCache(InsertIn(cache, k, charge))
  /\ held' = Append(held, 1)

Lookup(k) ==
  LET h == TableLookup(cache, k)
  IN /\ h # 0 /\ held[h] < MaxClientRefs
     /\ SetCache(Ref(cache, h))
     /\ held' = [held EXCEPT ![h] = @ + 1]

Release(h) ==
  /\ held[h] > 0
  /\ SetCache(Unref(cache, h))
  /\ held' = [held EXCEPT ![h] = @ - 1]

Erase(k) == SetCache(EraseKey(cache, k)) /\ UNCHANGED held
Prune == SetCache(Evict(cache, -1)) /\ UNCHANGED held

Next ==
  \/ \E k \in Keys : Lookup(k) \/ Erase(k) \/ \E n \in Charges : Insert(k, n)
  \/ \E h \in DOMAIN e : Release(h)
  \/ Prune

Spec == Init /\ [][Next]_vars
-----------------------------------------------------------------------------
Cached == {h \in DOMAIN e : e[h].in}

(* A value lives exactly as long as somebody needs it: its deleter runs    *)
(* once, when the cache has dropped it and the last client has released    *)
(* its handle, in whatever order lookups, releases, erasures and           *)
(* evictions come.                                                         *)
FreedWhenUnused ==
  /\ IsInjective(freed)
  /\ \A h \in DOMAIN e :
       /\ e[h].refs = held[h] + (IF e[h].in THEN 1 ELSE 0)
       /\ (h \in Range(freed)) = (e[h].refs = 0)

(* Lists, hash table and usage agree: a key finds the one cached handle it *)
(* has, the handles nobody uses are exactly the lru_ list, and usage_ is   *)
(* what the cached ones are charged.                                       *)
CacheIsConsistent ==
  /\ \A k \in Keys : {h \in Cached : e[h].key = k} = {TableLookup(cache, k)} \ {0}
  /\ table.elems = Cardinality(Cached)
  /\ Range(lru) = {h \in Cached : held[h] = 0} /\ IsInjective(lru)
  /\ inUse = {h \in Cached : held[h] > 0}
  /\ usage = MapThenSumSet(LAMBDA h : e[h].charge, Cached)
=============================================================================
