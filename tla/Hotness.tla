------------------------------ MODULE Hotness ------------------------------
(***************************************************************************)
(* How RallyDB predicts demand and moves filter memory: the counter of     *)
(* point lookups and its timer thread (util/times_collecter.cc,            *)
(* util/timer.cc), the table cache that every lookup goes through          *)
(* (db/table_cache.cc, util/table_cache_lru.cc) and, beside it, the        *)
(* container of all cached tables by filter units and level                *)
(* (util/multi_container.cc, util/container.cc), which the timer thread    *)
(* walks to load and evict filter units.                                   *)
(*                                                                         *)
(* A table object and its container handle are created together and share  *)
(* an id.  All filter units have size 1.  Dereferencing a freed table      *)
(* object is undefined behaviour: the model records it in undefined and    *)
(* the timer thread takes no further step.                                 *)
(***************************************************************************)
EXTENDS Integers, Sequences, SequencesExt, FiniteSets, FiniteSetsExt

CONSTANTS Files,                  \* table files, all of them live at first
          FileLevel,              \* the level each file is at
          Getters,                \* threads calling DBImpl::Get
          kAllFilterUnitsNumber, kNumLevels, kLifeTime,
          kLoadFilterUnitsNumber, \* units a table is opened with
          windows_number,
          Capacity,               \* entries of the (single) cache shard
          Predictions,            \* what the external model may answer
          MaxGets, MaxTicks, MaxSequence, MaxOpens,      \* bounds
          None

VARIABLES get_times, history, timer,         \* TimesCollecter
          should_stop, while_stopped,        \* globals of timer.cc
          tpc, ticks,                        \* the timer thread
          dpc, opens,                        \* opening and ~DBImpl
          lists, hash_table, charger,        \* MultiContainer
          cached, lru, refs, freed,          \* LRUCache shard
          table,                             \* every TableObject made
          now,                               \* versions_->LastSequence()
          obsolete, epc,                     \* RemoveObsoleteFiles
          gpc, gets, counted, recorded, undefined

collector == <<get_times, history, timer, counted, recorded>>
thread == <<should_stop, while_stopped, tpc, ticks>>
lifetime == <<dpc, opens>>
container == <<lists, hash_table, charger>>
shard == <<cached, lru, refs, freed>>
eraser == <<obsolete, epc>>
vars == <<collector, thread, lifetime, container, shard, table, now, eraser,
          gpc, gets, undefined>>

Ids == 1..Len(table)
Rows == 0..kAllFilterUnitsNumber
Columns == 0..kNumLevels
Idle == [at |-> "idle", file |-> None, id |-> None]

-----------------------------------------------------------------------------
(* Containers: the head of a list is its most recently used handle.        *)

ISCold(id) == now >= table[id].sequence + kLifeTime

Without(ls, ids) ==
    [r \in Rows |-> [c \in Columns |->
        SelectSeq(ls[r][c], LAMBDA i : i \notin ids)]]

AddToHead(ls, id, r, c) == [ls EXCEPT ![r][c] = <<id>> \o @]

MoveToHead(ls, id, r, c) == AddToHead(Without(ls, {id}), id, r, c)

\* The code indexes [level][bf_number] here, and [bf_number][level] elsewhere.
AddToContainers(ls, ids, bf_number) ==
    FoldLeft(LAMBDA l, i : AddToHead(l, i, table[i].level, bf_number), ls, ids)

RemoveFromContainers(ls, ids) == Without(ls, ToSet(ids))

RemoveNothing(ls, ids) == ls

\* Faulty variant: the moved handles stay where they were as well.
MovedWithoutRemoval(st, ids, bf_number) ==
    AddToContainers(RemoveNothing(st.lists, ids), ids, bf_number)

Moved(st, ids, bf_number) ==
    AddToContainers(RemoveFromContainers(st.lists, ids), ids, bf_number)

\* A walk over order takes handles while Eligible holds, and stops after the
\* one that brings the memory to take to 0 or below.
Walked(order, memory, Eligible(_)) ==
    Max({k \in 0..Len(order) : /\ \A i \in 1..k : Eligible(order[i])
                               /\ k <= Max({1, memory})})

\* The walk looks at one handle more than it takes, unless it is done.
Touched(order, memory, k) ==
    {order[i] : i \in 1..(IF (k > 0 /\ memory <= k) \/ k = Len(order)
                          THEN k ELSE k + 1)}

\* SSTableWorth: DoAverage returns no data, so that DoLineRegression never
\* replaces the coefficients 0 of a cluster, whatever cluster a table is in.
SSTableWorth == [a |-> 0, b |-> 0]

IsWorth(next_period_time) ==
    SSTableWorth.a * next_period_time + SSTableWorth.b <= 12

ContainerLoadBloomFilter(st, r, c, next_period_time) ==
    LET order == st.lists[r][c]
        k == Walked(order, st.memory,
                    LAMBDA i : ~ISCold(i) /\ IsWorth(next_period_time))
        taken == SubSeq(order, 1, k)
    IN [st EXCEPT
          !.units = [i \in Ids |-> IF i \in ToSet(taken)
                                      /\ @[i] < kAllFilterUnitsNumber
                                   THEN @[i] + 1 ELSE @[i]],
          !.memory = @ - k, !.all_size = @ + k, !.charger = @ + k,
          !.touched = @ \cup Touched(order, st.memory, k),
          !.lists = Moved(st, taken, r + 1)]

ContainerEvictBloomFilter(st, r, c) ==
    LET order == Reverse(st.lists[r][c])
        k == Walked(order, st.memory, ISCold)
        taken == SubSeq(order, 1, k)
    IN [st EXCEPT
          !.units = [i \in Ids |-> IF i \in ToSet(taken) /\ @[i] > 0
                                   THEN @[i] - 1 ELSE @[i]],
          !.memory = @ - k, !.all_size = @ + k, !.charger = @ - k,
          !.touched = @ \cup Touched(order, st.memory, k),
          !.lists = Moved(st, taken, r - 1)]

LoadOrder ==
    [n \in 1..(kAllFilterUnitsNumber * (kNumLevels + 1)) |->
        <<(n - 1) \div (kNumLevels + 1), (n - 1) % (kNumLevels + 1)>>]

EvictOrder ==
    [n \in 1..((kAllFilterUnitsNumber - 1) * kNumLevels) |->
        <<kAllFilterUnitsNumber - ((n - 1) \div kNumLevels),
          kNumLevels - ((n - 1) % kNumLevels)>>]

\* One round of the do-while loop: it returns once the memory is used up.
Pass(st, order, Visit(_, _)) ==
    FoldLeft(LAMBDA s, cell : IF s.done THEN s
                              ELSE LET t == Visit(s, cell)
                                   IN [t EXCEPT !.done = t.memory <= 0],
             [st EXCEPT !.all_size = 0], order)

Start(memory) ==
    [lists |-> lists, units |-> [i \in Ids |-> table[i].units],
     charger |-> charger, memory |-> memory, all_size |-> 0,
     touched |-> {}, done |-> FALSE]

RECURSIVE LoadRounds(_, _)
LoadRounds(st, next_period_time) ==
    LET s == Pass(st, LoadOrder, LAMBDA t, cell :
               ContainerLoadBloomFilter(t, cell[1], cell[2], next_period_time))
    IN IF s.done \/ s.all_size = 0 THEN s ELSE LoadRounds(s, next_period_time)

RECURSIVE EvictRounds(_)
EvictRounds(st) ==
    LET s == Pass(st, EvictOrder, LAMBDA t, cell :
               ContainerEvictBloomFilter(t, cell[1], cell[2]))
    IN IF s.done \/ s.all_size = 0 THEN s ELSE EvictRounds(s)

LoadBloomFilter(memory, next_period_time) ==
    LoadRounds(Start(memory), next_period_time)

EvictBloomFilter(memory) == EvictRounds(Start(memory))

-----------------------------------------------------------------------------
(* Version::GetAdjustMemory and AdjustBloomFilter.                         *)

\* Twice the logarithm to the base 2 of 1..4, the counts that occur.
Logarithm == <<0, 2, 3, 4>>

Lowest == -1000      \* stands for the smallest int64_t

\* The logarithm of 1/k to the base 0.6185 has the sign of log k; the result
\* is negated where it is positive.  A prediction of 0 makes it infinite.
GetAdjustMemory(old_access, new_access) ==
    IF old_access = 0 THEN 0
    ELSE IF new_access = 0 THEN Lowest
    ELSE LET res == (Logarithm[new_access] - Logarithm[old_access]) * now
         IN IF new_access > old_access THEN -res ELSE res

\* The memory is passed on as an int, which has none of Lowest's bits.
ToInt(memory) == IF memory = -Lowest THEN 0 ELSE memory

AdjustBloomFilter(old_time, access_time) ==
    LET memory == GetAdjustMemory(old_time, access_time)
    IN CASE memory = 0 -> [Start(0) EXCEPT !.done = TRUE]
         [] memory < 0 -> EvictBloomFilter(ToInt(-memory))
         [] memory > 0 -> LoadBloomFilter(memory, access_time)

-----------------------------------------------------------------------------
Empty == [r \in Rows |-> [c \in Columns |-> <<>>]]

Init ==
    /\ get_times = 0 /\ history = <<>> /\ timer = FALSE
    /\ counted = 0 /\ recorded = 0
    /\ tpc = "none" /\ ticks = 0
    /\ lists = Empty /\ hash_table = [f \in Files |-> None] /\ charger = 0
    /\ cached = [f \in Files |-> None] /\ lru = <<>>
    /\ refs = <<>> /\ freed = {} /\ table = <<>>
    /\ obsolete = {} /\ epc = None
    /\ gpc = [g \in Getters |-> Idle] /\ gets = 0
    /\ should_stop = FALSE /\ while_stopped = FALSE
    /\ dpc = "open" /\ opens = 1
    /\ now = 0
    /\ undefined = FALSE

Goto(g, at) == gpc' = [gpc EXCEPT ![g].at = at]

\* DBImpl::Get begins: the counter is incremented.
UpdateGetTimes(g, f) ==
    /\ dpc = "open" /\ gpc[g].at = "idle" /\ gets < MaxGets
    /\ f \notin obsolete
    /\ gets' = gets + 1
    /\ get_times' = get_times + 1
    /\ counted' = counted + 1
    /\ gpc' = [gpc EXCEPT ![g] = [at |-> "check", file |-> f, id |-> None]]
    /\ UNCHANGED <<history, timer, recorded, thread, lifetime, container, shard,
                   table, now, eraser, undefined>>

\* ... and read again: the timer is started by whoever sees exactly 1.
StartTimer(g) ==
    /\ gpc[g].at = "check"
    /\ Goto(g, "lookup")
    /\ IF get_times = 1 /\ ~timer
       THEN timer' = TRUE /\ tpc' = "check"
       ELSE UNCHANGED <<timer, tpc>>
    /\ UNCHANGED <<get_times, history, counted, recorded, should_stop,
                   while_stopped, ticks, lifetime, container, shard, table, now,
                   eraser, gets, undefined>>

\* ShardedLRUCache::Lookup, first half: MultiContainer::Lookup.
LookupContainer(g) ==
    LET id == hash_table[gpc[g].file]
    IN /\ gpc[g].at = "lookup"
       /\ Goto(g, "shard")
       /\ lists' = IF id = None THEN lists
                   ELSE MoveToHead(lists, id, table[id].bf_number, table[id].level)
       /\ UNCHANGED <<hash_table, charger, collector, thread, lifetime, shard,
                      table, now, eraser, gets, undefined>>

\* LRUCache::Ref: an entry nobody used leaves the lru list.
Ref(id) ==
    /\ refs' = [refs EXCEPT ![id] = @ + 1]
    /\ lru' = SelectSeq(lru, LAMBDA i : i # id)

\* Second half: the shard.  On a miss the table is opened.
LookupShard(g) ==
    LET id == cached[gpc[g].file]
    IN /\ gpc[g].at = "shard"
       /\ IF id = None
          THEN Goto(g, "insert") /\ UNCHANGED <<refs, lru>>
          ELSE /\ gpc' = [gpc EXCEPT ![g].at = "use", ![g].id = id]
               /\ Ref(id)
       /\ UNCHANGED <<cached, freed, collector, thread, lifetime, container,
                      table, now, eraser, gets, undefined>>

\* ShardedLRUCache::Insert, first half: MultiContainer::Insert.
InsertContainer(g) ==
    LET f == gpc[g].file
        id == Len(table) + 1
        bf_number == kLoadFilterUnitsNumber
    IN /\ gpc[g].at = "insert"
       /\ table' = Append(table, [file |-> f, level |-> FileLevel[f],
                                  bf_number |-> bf_number, units |-> bf_number,
                                  sequence |-> 0])
       /\ lists' = AddToHead(lists, id, bf_number, FileLevel[f])
       /\ hash_table' = [hash_table EXCEPT ![f] = id]
       /\ charger' = charger + bf_number
       /\ refs' = Append(refs, 0)
       /\ gpc' = [gpc EXCEPT ![g].at = "shardinsert", ![g].id = id]
       /\ UNCHANGED <<collector, thread, lifetime, cached, lru, freed, now,
                      eraser, gets, undefined>>

\* FinishErase(old) for the ids that leave the cache.
Erased(rs, ids) == [i \in DOMAIN rs |-> IF i \in ids THEN rs[i] - 1 ELSE rs[i]]

\* LRUCache::Insert: replaces the entry of the key, then evicts the oldest
\* unused entries while the shard is above its capacity.
InsertShard(g) ==
    LET f == gpc[g].file
        old == IF cached[f] = None THEN {} ELSE {cached[f]}
        list == SelectSeq(lru, LAMBDA i : i \notin old)
        usage == Cardinality({k \in Files : cached[k] # None} \cup {f})
        n == Max({0, Min({Len(list), usage - Capacity})})
        evicted == {list[i] : i \in 1..n}
        rs == Erased([refs EXCEPT ![gpc[g].id] = 2], old \cup evicted)
    IN /\ gpc[g].at = "shardinsert"
       /\ cached' = [k \in Files |->
                       CASE k = f -> gpc[g].id
                         [] k # f /\ cached[k] \in evicted -> None
                         [] OTHER -> cached[k]]
       /\ lru' = SubSeq(list, n + 1, Len(list))
       /\ refs' = rs
       /\ freed' = freed \cup {i \in old \cup evicted : rs[i] = 0}
       /\ Goto(g, "use")
       /\ UNCHANGED <<collector, thread, lifetime, container, table, now,
                      eraser, gets, undefined>>

\* Table::InternalGet: the reader notes when it was last used.
UseTable(g) ==
    /\ gpc[g].at = "use"
    /\ table' = [table EXCEPT ![gpc[g].id].sequence = now]
    /\ Goto(g, "release")
    /\ UNCHANGED <<collector, thread, lifetime, container, shard, now, eraser,
                   gets, undefined>>

\* LRUCache::Unref.
Release(g) ==
    LET id == gpc[g].id
        in_cache == cached[table[id].file] = id
    IN /\ gpc[g].at = "release"
       /\ refs' = [refs EXCEPT ![id] = @ - 1]
       /\ freed' = IF refs[id] = 1 THEN freed \cup {id} ELSE freed
       /\ lru' = IF in_cache /\ refs[id] = 2 THEN Append(lru, id) ELSE lru
       /\ gpc' = [gpc EXCEPT ![g] = Idle]
       /\ UNCHANGED <<cached, collector, thread, lifetime, container, table, now,
                      eraser, gets, undefined>>

\* A write: LastSequence, and number_ with it.
Write ==
    /\ dpc = "open" /\ now < MaxSequence
    /\ now' = now + 1
    /\ UNCHANGED <<collector, thread, lifetime, container, shard, table, eraser,
                   gpc, gets, undefined>>

\* RemoveObsoleteFiles evicts a table no version holds: first its handle ...
EraseContainer(f) ==
    LET id == hash_table[f]
    IN /\ dpc = "open" /\ epc = None /\ f \notin obsolete
       /\ \A g \in Getters : gpc[g].file # f
       /\ obsolete' = obsolete \cup {f} /\ epc' = f
       /\ lists' = IF id = None THEN lists ELSE Without(lists, {id})
       /\ hash_table' = [hash_table EXCEPT ![f] = None]
       /\ UNCHANGED <<charger, collector, thread, lifetime, shard, table, now,
                      gpc, gets, undefined>>

\* ... and then its entry of the shard.
EraseShard ==
    LET id == cached[epc]
    IN /\ epc # None
       /\ epc' = None
       /\ cached' = [cached EXCEPT ![epc] = None]
       /\ IF id = None THEN UNCHANGED <<lru, refs, freed>>
          ELSE /\ lru' = SelectSeq(lru, LAMBDA i : i # id)
               /\ refs' = [refs EXCEPT ![id] = @ - 1]
               /\ freed' = IF refs[id] = 1 THEN freed \cup {id} ELSE freed
       /\ UNCHANGED <<obsolete, collector, thread, lifetime, container, table,
                      now, gpc, gets, undefined>>

-----------------------------------------------------------------------------
(* The timer thread: task() of timer.cc, and TimerRunner.                  *)

TimerCheck ==
    /\ tpc = "check"
    /\ should_stop \/ ticks < MaxTicks
    /\ tpc' = IF should_stop THEN "stop" ELSE "push"
    /\ ticks' = IF should_stop THEN ticks ELSE ticks + 1
    /\ UNCHANGED <<should_stop, while_stopped, collector, lifetime, container,
                   shard, table, now, eraser, gpc, gets, undefined>>

TimerPush ==
    /\ tpc = "push"
    /\ history' = Append(IF Len(history) >= windows_number THEN Tail(history)
                         ELSE history, get_times)
    /\ recorded' = recorded + get_times
    /\ tpc' = "reset"
    /\ UNCHANGED <<get_times, timer, counted, should_stop, while_stopped, ticks,
                   lifetime, container, shard, table, now, eraser, gpc, gets,
                   undefined>>

\* Faulty variant: the counter runs on.
TimerNoReset ==
    /\ tpc = "reset"
    /\ tpc' = IF Len(history) < windows_number THEN "check" ELSE "adjust"
    /\ UNCHANGED <<collector, should_stop, while_stopped, ticks, lifetime,
                   container, shard, table, now, eraser, gpc, gets, undefined>>

TimerReset ==
    /\ tpc = "reset"
    /\ get_times' = 0
    /\ tpc' = IF Len(history) < windows_number THEN "check" ELSE "adjust"
    /\ UNCHANGED <<history, timer, counted, recorded, should_stop, while_stopped,
                   ticks, lifetime, container, shard, table, now, eraser, gpc,
                   gets, undefined>>

\* The prediction, and DBImpl::AdjustBloomFilter under the DB's mutex.
TimerAdjust ==
    /\ tpc = "adjust" /\ ~undefined
    /\ \E times \in Predictions :
         \E s \in {AdjustBloomFilter(Last(history), times)} :
           IF s.touched \cap freed # {}
           THEN /\ undefined' = TRUE
                /\ UNCHANGED <<tpc, lists, charger, table>>
           ELSE /\ undefined' = undefined
                /\ tpc' = "check"
                /\ lists' = s.lists /\ charger' = s.charger
                /\ table' = [i \in Ids |-> [table[i] EXCEPT !.units = s.units[i]]]
    /\ UNCHANGED <<hash_table, collector, should_stop, while_stopped, ticks,
                   lifetime, shard, now, eraser, gpc, gets>>

TimerStop ==
    /\ tpc = "stop"
    /\ while_stopped' = TRUE
    /\ tpc' = "notify"
    /\ UNCHANGED <<should_stop, ticks, collector, lifetime, container, shard,
                   table, now, eraser, gpc, gets, undefined>>

TimerNotify ==
    /\ tpc = "notify"
    /\ tpc' = "exited"
    /\ dpc' = IF dpc = "wait" THEN "test" ELSE dpc
    /\ UNCHANGED <<should_stop, while_stopped, ticks, opens, collector,
                   container, shard, table, now, eraser, gpc, gets, undefined>>

-----------------------------------------------------------------------------
(* ~DBImpl deletes the collector before anything else; ~Timer waits for    *)
(* the thread without holding the mutex of the condition variable.         *)

\* Faulty variant: the destructor only asks the thread to stop.
CloseAtOnce ==
    /\ dpc = "open" /\ epc = None
    /\ \A g \in Getters : gpc[g] = Idle
    /\ should_stop' = (should_stop \/ timer)
    /\ dpc' = "closed"
    /\ UNCHANGED <<while_stopped, tpc, ticks, opens, collector, container, shard,
                   table, now, eraser, gpc, gets, undefined>>

Close ==
    /\ dpc = "open" /\ epc = None
    /\ \A g \in Getters : gpc[g] = Idle
    /\ should_stop' = (should_stop \/ timer)
    /\ dpc' = IF timer THEN "test" ELSE "closed"
    /\ UNCHANGED <<while_stopped, tpc, ticks, opens, collector, container, shard,
                   table, now, eraser, gpc, gets, undefined>>

CloseTest ==
    /\ dpc = "test"
    /\ dpc' = IF while_stopped THEN "closed" ELSE "wait"
    /\ UNCHANGED <<opens, collector, thread, container, shard, table, now, eraser,
                   gpc, gets, undefined>>

\* Another DBImpl of the same process: the globals of timer.cc stay.
Reopen ==
    /\ dpc = "closed" /\ opens < MaxOpens /\ tpc \in {"none", "exited"}
    /\ ~undefined
    /\ get_times' = 0 /\ history' = <<>> /\ timer' = FALSE
    /\ counted' = 0 /\ recorded' = 0
    /\ tpc' = "none" /\ ticks' = 0
    /\ lists' = Empty /\ hash_table' = [f \in Files |-> None] /\ charger' = 0
    /\ cached' = [f \in Files |-> None] /\ lru' = <<>>
    /\ refs' = <<>> /\ freed' = {} /\ table' = <<>>
    /\ obsolete' = {} /\ epc' = None
    /\ gpc' = [g \in Getters |-> Idle] /\ gets' = 0
    /\ dpc' = "open" /\ opens' = opens + 1
    /\ UNCHANGED <<should_stop, while_stopped, now, undefined>>

Next ==
    \/ \E g \in Getters :
         \/ \E f \in Files : UpdateGetTimes(g, f)
         \/ StartTimer(g) \/ LookupContainer(g) \/ LookupShard(g)
         \/ InsertContainer(g) \/ InsertShard(g) \/ UseTable(g) \/ Release(g)
    \/ Write
    \/ \E f \in Files : EraseContainer(f)
    \/ EraseShard
    \/ TimerCheck \/ TimerPush \/ TimerReset \/ TimerAdjust
    \/ TimerStop \/ TimerNotify
    \/ Close \/ CloseTest \/ Reopen

Spec == Init /\ [][Next]_vars

-----------------------------------------------------------------------------
Places(id) == {p \in Rows \X Columns \X (1..Len(table)) :
                 /\ p[3] \in DOMAIN lists[p[1]][p[2]]
                 /\ lists[p[1]][p[2]][p[3]] = id}

\* Every handle of the hash table is on exactly one container list, at one
\* position, although the lists a load or an eviction moves handles to are
\* addressed with level and unit number exchanged (RemoveFromContainers,
\* AddToContainers and the lookups of other threads).
HandlesOnOneList ==
    /\ \A f \in Files : hash_table[f] # None =>
                          Cardinality(Places(hash_table[f])) = 1
    /\ \A id \in Ids : Cardinality(Places(id)) <= 1

\* No lookup is recorded in two periods: what the periods so far hold, with
\* what the counter still holds, never exceeds the lookups made, whichever
\* increments fall between TimerRunner's load and its store of 0.
CountedOnce ==
    recorded + (IF tpc = "reset" THEN 0 ELSE get_times) <= counted

\* Once ~DBImpl is past the timer, the thread no longer calls TimerRunner,
\* which would use the destroyed database.
NoTickAfterClose ==
    dpc = "closed" => tpc \notin {"push", "reset", "adjust"}
=============================================================================
