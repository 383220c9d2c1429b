--------------------------- MODULE ElasticFilters ---------------------------
(***************************************************************************)
(* The elastic Bloom filters and the tables they belong to: TableCache     *)
(* with one shard of TableCacheLRU (db/table_cache.cc,                     *)
(* util/table_cache_lru.cc), Table::ReadMeta and InternalGet               *)
(* (table/table.cc), the multi-queue (util/multi_queue.cc), the filter     *)
(* readers (table/filter_block.cc), and the thread that loads the first    *)
(* units of a new filter (util/mq_schedule.cc).                            *)
(*                                                                         *)
(* A call under the mutex_ of the multi-queue is one action.  It may have  *)
(* to wait for the first load of a reader, and keeps mutex_ meanwhile      *)
(* (WaitForLoading).  A table object is a number; the handle and the       *)
(* reader that Table::ReadMeta creates for it have the same number.        *)
(***************************************************************************)
EXTENDS Integers, Sequences, FiniteSets, SequencesExt

CONSTANTS Threads,     \* clients and the background thread of the database
          BgThread,    \* the latter: it builds and removes tables
          Files,       \* table files
          Recovered,   \* the tables that exist when the database is opened
          UnitSize,    \* [Files -> size of a filter unit], disk_size_
          AllUnits,    \* kAllFilterUnitsNumber
          InitUnits,   \* kLoadFilterUnitsNumber
          InvRate,     \* 1 / FalsePositiveRate() of one unit
          LifeTime,    \* kLifeTime
          Capacity,    \* table objects the shard keeps
          SizeMod,     \* 2^w for the width of size_t
          SeqNos,      \* sequence numbers that lookups carry
          Inherited,   \* access times that new tables inherit
          MaxObjects,  \* bound on the number of times a table is opened
          MaxGets,     \* bound on the number of lookups
          ReadFaults   \* whether reading a filter may fail

Nobody == "nobody"
Objects == 1 .. MaxObjects

ASSUME ElasticAssumption ==
  /\ Recovered \subseteq Files /\ Nobody \notin Threads /\ BgThread \in Threads
  /\ UnitSize \in [Files -> Nat \ {0}]
  /\ AllUnits \in Nat /\ InitUnits \in 0 .. AllUnits
  /\ InvRate \in Nat \ {0, 1} /\ LifeTime \in Nat /\ Capacity \in Nat \ {0}
  /\ SizeMod \in Nat \ {0} /\ SeqNos \subseteq Nat /\ Inherited \subseteq Nat
  /\ MaxObjects \in Nat /\ MaxGets \in Nat /\ ReadFaults \in BOOLEAN

VARIABLES
  obj,         \* TableObject: its file, whether it is open, handle, refs
  inCache,     \* the objects in the hash table of the shard
  lru,         \* lru_ of the shard, oldest first
  shard,       \* the thread that holds the mutex of the shard
  map,         \* map_ of the multi-queue: file -> handle, 0 for none
  queues,      \* queues_, each from MRU to LRU
  usage,       \* usage_
  mq,          \* the thread that waits with mutex_ of the multi-queue
  reader,      \* FilterBlockReader of each handle
  jobs, running,   \* background_work_queue_ and the job in progress, or 0
  worker,      \* BackgroundThreadMain: "none", "awake", "asleep"
  quiet,       \* shutting_down_ of the scheduler
  th,          \* the threads
  phase,       \* "open", "closing" (~DBImpl), "closed"
  installed, dead, \* tables that versions name, tables that were removed
  opened, gets     \* how many tables were opened, how many lookups

tables == <<obj, inCache, lru, shard, opened>>
filters == <<map, queues, usage, mq, reader>>
sched == <<jobs, running, worker, quiet>>
life == <<phase, installed, dead>>
vars == <<tables, filters, sched, th, life, gets>>

Steps == {"idle", "lookup", "insert", "goback", "cache", "use", "adjust",
          "match", "close", "erase", "shutdown"}

NoReader == [key |-> Nobody, src |-> 0, units |-> <<>>, done |-> FALSE,
             reload |-> 0, access |-> 0, seq |-> 0]
NoObject == [file |-> Nobody, open |-> FALSE, handle |-> 0, refs |-> 0]
IdleThread == [pc |-> "idle", file |-> Nobody, obj |-> 0, sn |-> 0,
               closing |-> <<>>, next |-> "idle"]

Init ==
  /\ obj = [o \in Objects |-> NoObject] /\ inCache = {} /\ lru = <<>>
  /\ shard = Nobody
  /\ map = [f \in Files |-> 0] /\ queues = [i \in 0 .. AllUnits |-> <<>>]
  /\ usage = 0 /\ mq = Nobody /\ reader = [h \in Objects |-> NoReader]
  /\ jobs = <<>> /\ running = 0 /\ worker = "none" /\ quiet = TRUE
  /\ th = [t \in Threads |-> IdleThread]
  /\ phase = "open" /\ installed = Recovered /\ dead = {}
  /\ opened = 0 /\ gets = 0

At(t, pc) == th[t].pc = pc
Goto(t, pc) == th' = [th EXCEPT ![t].pc = pc]
Busy(f) == \E t \in Threads : th[t].file = f
-----------------------------------------------------------------------------
(* FilterBlockReader *)

Units(h) == Len(reader[h].units)
OneUnitSize(h) == UnitSize[reader[h].key]
Size(h) == Units(h) * OneUnitSize(h)
Live(h) == reader[h].key # Nobody
IsCold(h, sn) == sn >= reader[h].seq + LifeTime

\* IOs() with n units, in units of the rate to the power AllUnits + 1.
IOs(h, n) == reader[h].access * InvRate ^ (AllUnits + 1 - n)

(* LoadFilterInternal reads the unit whose index is the number of those    *)
(* loaded; EvictFilterInternal drops the last.                             *)
LoadFilterNext(u) == Append(u, Len(u) + 1)
LoadFilter(u) == Append(u, Len(u))
EvictFilterNothing(u) == u
EvictFilter(u) == Front(u)

\* The units after loading or evicting until there are n.
Adjusted(u, n) == IF n < Len(u) THEN SubSeq(u, 1, n)
                  ELSE u \o [i \in 1 .. (n - Len(u)) |-> Len(u) + i - 1]

\* A read may fail; a read through a file that was deleted may do anything.
MayFail(src) == ReadFaults \/ ~obj[src].open

(* KeyMayMatch asks unit i with the i-th hash family.  A unit in the wrong *)
(* place may deny a key that the table has.                                *)
KeyMayMatch(h) == \A i \in 1 .. Units(h) : reader[h].units[i] = i - 1
-----------------------------------------------------------------------------
(* The multi-queue *)

\* Unlink handle h from the queue it is in, link it at the MRU end of q[n].
Move(q, h, n) ==
  [i \in DOMAIN q |-> IF i = n THEN <<h>> \o Remove(q[i], h) ELSE Remove(q[i], h)]

\* The cold handles of a queue from the LRU end up to the first that is not.
ColdRun(q, sn) ==
  LET r == Reverse(q)
      hot == {i \in DOMAIN r : ~IsCold(r[i], sn)}
      n == IF hot = {} THEN Len(r) ELSE Min(hot) - 1
  IN SelectSeq(SubSeq(r, 1, n), LAMBDA h : reader[h].access # 0)

\* usage_, an unsigned number, changes by n.
ChargeSigned(n) == usage + n
Charge(n) == (usage + n) % SizeMod

SizeSum(s) == FoldLeft(LAMBDA n, h : n + OneUnitSize(h), 0, s)

\* The candidates, from the queue with the most units down to queue 1.
Candidates(q, sn) ==
  FlattenSeq([j \in 1 .. AllUnits |-> ColdRun(q[AllUnits + 1 - j], sn)])

(* FindColdFilter subtracts the size of each candidate from memory, an     *)
(* unsigned number, until it is zero.  If it never is, there is no         *)
(* adjustment.                                                             *)
FindColdFilter(q, memory, sn) ==
  LET c == Candidates(q, sn)
      hits == {k \in 1 .. Len(c) : (memory - SizeSum(SubSeq(c, 1, k))) % SizeMod = 0}
  IN IF hits = {} THEN <<>> ELSE SubSeq(c, 1, Min(hits))

IOsSum(s, d) == FoldLeft(LAMBDA n, h : n + IOs(h, Units(h) + d), 0, s)

CanBeAdjusted(colds, hot) ==
  /\ \A i \in DOMAIN colds : Units(colds[i]) > 0
  /\ IOsSum(colds, -1) + IOs(hot, Units(hot) + 1)
       < IOsSum(colds, 0) + IOs(hot, Units(hot))

\* EvictHandle on a pair of the queues and the units of all readers.
EvictHandle(s, h) ==
  [q |-> Move(s.q, h, Len(s.u[h]) - 1), u |-> [s.u EXCEPT ![h] = EvictFilter(@)]]

(* ApplyAdjustment: the cold readers lose a unit, then LoadHandle moves    *)
(* the hot one up, before the read of its unit that may fail.              *)
ApplyAdjustment(q, colds, hot, ok) ==
  LET s == FoldLeft(EvictHandle, [q |-> q, u |-> [h \in Objects |-> reader[h].units]], colds)
      n == Len(s.u[hot])
  IN [q |-> Move(s.q, hot, n + 1),
      u |-> IF ok THEN [s.u EXCEPT ![hot] = LoadFilter(@)] ELSE s.u]

\* MultiQueue::Release waits for the first load of the filter it cleans.
ReleasedAtOnce(t) == {}
Released(t) == {obj[Head(th[t].closing)].handle} \ {0}

\* The readers whose number of units a thread asks for under mutex_.
Examined(t) ==
  LET h == obj[th[t].obj].handle
  IN CASE At(t, "goback") -> {h}
       [] At(t, "adjust") ->
            {h} \cup (IF reader[h].done
                      THEN Range(FindColdFilter(Move(queues, h, Units(h)),
                                                OneUnitSize(h), th[t].sn))
                      ELSE {})
       [] At(t, "close") -> Released(t)
       [] At(t, "erase") -> {map[th[t].file]} \ {0}
       [] OTHER -> {}

Loaded(t) == \A h \in Examined(t) : reader[h].done
HasMutex(t) == mq \in {Nobody, t} /\ Loaded(t)

WaitForLoading(t) ==
  /\ mq = Nobody /\ ~Loaded(t)
  /\ mq' = t
  /\ UNCHANGED <<tables, map, queues, usage, reader, sched, th, life, gets>>

\* Table::ReadMeta asks for the handle of its file.
Lookup(t) ==
  /\ At(t, "lookup") /\ mq = Nobody
  /\ LET h == map[th[t].file]
     IN /\ obj' = [obj EXCEPT ![th[t].obj].handle = h]
        /\ Goto(t, IF h = 0 THEN "insert" ELSE "goback")
  /\ UNCHANGED <<inCache, lru, shard, opened, filters, sched, life, gets>>

\* ReadFilter failed: the table has no filter.
ReadFilterFails(t) ==
  /\ At(t, "insert") /\ ReadFaults
  /\ Goto(t, "cache")
  /\ UNCHANGED <<tables, filters, sched, life, gets>>

\* MQScheduler::Schedule starts or wakes the thread if there was no work.
Schedule(h) ==
  /\ jobs' = Append(jobs, h)
  /\ quiet' = FALSE
  /\ worker' = IF worker = "none" \/ jobs = <<>> THEN "awake" ELSE worker
  /\ UNCHANGED running

\* MultiQueue::Insert of a new reader; map_.emplace keeps an older entry.
Insert(t) ==
  /\ At(t, "insert") /\ mq = Nobody
  /\ LET o == th[t].obj
         f == th[t].file
     IN /\ reader' = [reader EXCEPT ![o] = [NoReader EXCEPT !.key = f, !.src = o,
                                                            !.reload = InitUnits]]
        /\ queues' = Move(queues, o, InitUnits)
        /\ map' = [map EXCEPT ![f] = IF @ = 0 THEN o ELSE @]
        /\ usage' = Charge(InitUnits * UnitSize[f])
        /\ Schedule(o)
        /\ obj' = [obj EXCEPT ![o].handle = o]
  /\ Goto(t, "cache")
  /\ UNCHANGED <<inCache, lru, shard, opened, mq, life, gets>>

(* GoBackToInitFilter for a handle that an earlier table object of the     *)
(* same file left: usage_ is charged for InitUnits, and as many units are  *)
(* loaded as were when the filter was cleaned.                             *)
GoBackToInitFilter(t) ==
  /\ At(t, "goback") /\ HasMutex(t)
  /\ LET o == th[t].obj
         h == obj[o].handle
         n == reader[h].reload
     IN /\ queues' = Move(queues, h, InitUnits)
        /\ usage' = Charge((InitUnits - Units(h)) * OneUnitSize(h))
        /\ \E k \in (IF MayFail(o) THEN Units(h) .. n ELSE {}) \cup {n} :
             reader' = [reader EXCEPT ![h].src = o, ![h].units = Adjusted(@, k)]
  /\ mq' = Nobody
  /\ Goto(t, "cache")
  /\ UNCHANGED <<tables, map, sched, life, gets>>

\* UpdateHandle for a lookup with sequence number sn: UpdateState ...
UpdateState(t, sn) ==
  /\ At(t, "use") /\ obj[th[t].obj].handle # 0 /\ gets < MaxGets
  /\ reader' = [reader EXCEPT ![obj[th[t].obj].handle].seq = sn,
                              ![obj[th[t].obj].handle].access = @ + 1]
  /\ gets' = gets + 1
  /\ th' = [th EXCEPT ![t].pc = "adjust", ![t].sn = sn]
  /\ UNCHANGED <<tables, map, queues, usage, mq, sched, life>>

\* ... DoAdjustment ...
DoAdjustment(t) ==
  /\ At(t, "adjust") /\ HasMutex(t)
  /\ LET h == obj[th[t].obj].handle
     IN \E q \in {Move(queues, h, Units(h))} :
        \E colds \in {FindColdFilter(q, OneUnitSize(h), th[t].sn)} :
          IF Units(h) < AllUnits /\ colds # <<>> /\ CanBeAdjusted(colds, h)
          THEN \E ok \in (IF MayFail(reader[h].src) THEN BOOLEAN ELSE {TRUE}) :
               \E s \in {ApplyAdjustment(q, colds, h, ok)} :
                 /\ queues' = s.q
                 /\ reader' = [x \in Objects |-> [reader[x] EXCEPT !.units = s.u[x]]]
          ELSE queues' = q /\ UNCHANGED reader
  /\ mq' = Nobody
  /\ th' = [th EXCEPT ![t].pc = "match", ![t].sn = 0]
  /\ UNCHANGED <<tables, map, usage, sched, life, gets>>

\* MultiQueue::Erase, after the table was evicted from the table cache.
Erase(t) ==
  /\ At(t, "erase") /\ HasMutex(t)
  /\ LET f == th[t].file
         h == map[f]
     IN IF h = 0
        THEN UNCHANGED <<map, queues, usage, reader>>
        ELSE /\ usage' = Charge(-Size(h))
             /\ queues' = [i \in DOMAIN queues |-> Remove(queues[i], h)]
             /\ reader' = [reader EXCEPT ![h] = NoReader]
             /\ map' = [map EXCEPT ![f] = 0]
  /\ mq' = Nobody
  /\ th' = [th EXCEPT ![t] = IdleThread]
  /\ UNCHANGED <<tables, sched, life, gets>>
-----------------------------------------------------------------------------
(* The thread that loads new filters *)

(* BackgroundThreadMain without work: it tells ShutDown, and sleeps.  A    *)
(* spurious wakeup would only do the same again.                           *)
WorkerSleeps ==
  /\ worker = "awake" /\ running = 0 /\ jobs = <<>>
  /\ quiet' = TRUE /\ worker' = "asleep"
  /\ UNCHANGED <<tables, filters, jobs, running, th, life, gets>>

WorkerTakes ==
  /\ worker = "awake" /\ running = 0 /\ jobs # <<>>
  /\ running' = Head(jobs) /\ jobs' = Tail(jobs)
  /\ UNCHANGED <<tables, filters, worker, quiet, th, life, gets>>

(* InitLoadFilter under the mutex of the reader, on which nobody else does *)
(* anything but wait before it is done.                                    *)
InitLoadFilterUndone ==
  /\ running # 0
  /\ \E k \in (IF MayFail(reader[running].src) THEN 0 .. InitUnits ELSE {InitUnits}) :
       reader' = [reader EXCEPT ![running].units = Adjusted(<<>>, k),
                                ![running].done = (k = InitUnits)]
  /\ running' = 0
  /\ UNCHANGED <<tables, map, queues, usage, mq, jobs, worker, quiet, th, life, gets>>

InitLoadFilter ==
  /\ running # 0
  /\ \E k \in (IF MayFail(reader[running].src) THEN 0 .. InitUnits ELSE {InitUnits}) :
       reader' = [reader EXCEPT ![running].units = Adjusted(<<>>, k),
                                ![running].done = TRUE]
  /\ running' = 0
  /\ UNCHANGED <<tables, map, queues, usage, mq, jobs, worker, quiet, th, life, gets>>
-----------------------------------------------------------------------------
(* The table cache *)

Cached(f) == {o \in inCache : obj[o].file = f}

(* The shard drops a reference to the objects of the set gone, and deletes *)
(* those that have no other, under its mutex; then the thread goes on at   *)
(* next.                                                                   *)
DropAndGoto(t, refd, gone, order, next) ==
  LET left == [o \in Objects |-> IF o \in gone THEN [refd[o] EXCEPT !.refs = @ - 1]
                                 ELSE refd[o]]
      closing == SelectSeq(order, LAMBDA o : left[o].refs = 0)
  IN /\ obj' = left
     /\ IF closing = <<>>
        THEN shard' = Nobody /\ th' = [th EXCEPT ![t] = next]
        ELSE /\ shard' = t
             /\ th' = [th EXCEPT ![t] = [next EXCEPT !.pc = "close", !.closing = closing,
                                                     !.next = next.pc]]

\* FindTable of a table that is in the cache ...
FindTableHit(t, f) ==
  /\ At(t, "idle") /\ phase = "open" /\ f \in installed \ dead /\ shard = Nobody
  /\ \E o \in Cached(f) :
       /\ obj' = [obj EXCEPT ![o].refs = @ + 1]
       /\ lru' = Remove(lru, o)
       /\ th' = [th EXCEPT ![t].pc = "use", ![t].file = f, ![t].obj = o]
  /\ UNCHANGED <<inCache, shard, opened, filters, sched, life, gets>>

(* ... and of one that is not: the file is opened.  A new table is opened  *)
(* by the thread that built it before others can know of it.               *)
FindTableMiss(t, f) ==
  /\ At(t, "idle") /\ phase = "open" /\ f \notin dead /\ shard = Nobody
  /\ f \in installed \/ (t = BgThread /\ \A o \in Objects : obj[o].file # f)
  /\ Cached(f) = {} /\ opened < MaxObjects
  /\ opened' = opened + 1
  /\ obj' = [obj EXCEPT ![opened'] = [NoObject EXCEPT !.file = f, !.open = TRUE]]
  /\ th' = [th EXCEPT ![t].pc = "lookup", ![t].file = f, ![t].obj = opened']
  /\ UNCHANGED <<inCache, lru, shard, filters, sched, life, gets>>

(* LRUCache::Insert replaces an object of the same file that another       *)
(* thread opened meanwhile, and evicts the oldest that are not in use.     *)
CacheInsert(t) ==
  /\ At(t, "cache") /\ shard = Nobody
  /\ LET o == th[t].obj
         old == Cached(th[t].file)
         rest == SelectSeq(lru, LAMBDA x : x \notin old)
         full == Cardinality(inCache \ old) + 1 - Capacity
         out == SubSeq(rest, 1, IF full < Len(rest) THEN full ELSE Len(rest))
     IN /\ inCache' = ((inCache \ old) \ Range(out)) \cup {o}
        /\ lru' = SelectSeq(rest, LAMBDA x : x \notin Range(out))
        /\ DropAndGoto(t, [obj EXCEPT ![o].refs = 2], old \cup Range(out),
                       SetToSeq(old) \o out, [th[t] EXCEPT !.pc = "use"])
  /\ UNCHANGED <<opened, filters, sched, life, gets>>

(* KeyMayMatch, which changes nothing, and LRUCache::Release.  A table     *)
(* without filter, or an iterator, only has the second.                    *)
Release(t) ==
  /\ th[t].pc \in {"use", "match"} /\ shard = Nobody
  /\ LET o == th[t].obj
     IN /\ lru' = IF o \in inCache /\ obj[o].refs = 2 THEN Append(lru, o) ELSE lru
        /\ DropAndGoto(t, obj, {o}, <<o>>, IdleThread)
  /\ UNCHANGED <<inCache, opened, filters, sched, life, gets>>

(* ~TableObject: the table releases its filter, which waits for the first  *)
(* load, and cleans it; then the file is closed.                           *)
CloseTable(t) ==
  /\ At(t, "close") /\ HasMutex(t)
  /\ LET o == Head(th[t].closing)
         h == obj[o].handle
         more == Tail(th[t].closing)
     IN /\ IF h = 0 THEN UNCHANGED <<usage, reader>>
           ELSE /\ usage' = Charge(-Size(h))
                /\ reader' = [reader EXCEPT ![h].reload = Len(reader[h].units),
                                            ![h].units = <<>>]
        /\ obj' = [obj EXCEPT ![o].open = FALSE, ![o].handle = 0]
        /\ IF more # <<>>
           THEN th' = [th EXCEPT ![t].closing = more] /\ UNCHANGED shard
           ELSE /\ th' = [th EXCEPT ![t].closing = <<>>, ![t].pc = th[t].next,
                                    ![t].next = "idle"]
                /\ shard' = Nobody
  /\ mq' = Nobody
  /\ UNCHANGED <<inCache, lru, opened, map, queues, sched, life, gets>>
-----------------------------------------------------------------------------
(* The database around them *)

(* A table becomes part of a version: LogAndApply after a flush or after a *)
(* compaction, which gives it the average access time of its inputs.       *)
Install(f) ==
  /\ phase = "open" /\ mq = Nobody
  /\ f \notin installed \cup dead /\ ~Busy(f)
  /\ \E o \in Objects : obj[o].file = f
  /\ installed' = installed \cup {f}
  /\ \E a \in Inherited \cup {0} :
       reader' = IF map[f] = 0 THEN reader
                 ELSE [reader EXCEPT ![map[f]].access = a]
  /\ UNCHANGED <<tables, map, queues, usage, mq, sched, th, phase, dead, gets>>

RemoveTableKept(t, f) ==
  /\ At(t, "idle") /\ phase = "open" /\ f \notin dead /\ ~Busy(f)
  /\ \E o \in Objects : obj[o].file = f
  /\ dead' = dead \cup {f}
  /\ th' = [th EXCEPT ![t].pc = "erase", ![t].file = f]
  /\ UNCHANGED <<tables, filters, sched, phase, installed, gets>>

(* RemoveObsoleteFiles (or BuildTable after an error) for a table that no  *)
(* version names: TableCache::Evict, then MultiQueue::Erase.               *)
RemoveTable(t, f) ==
  /\ At(t, "idle") /\ phase = "open" /\ shard = Nobody
  /\ f \notin dead /\ ~Busy(f)
  /\ \E o \in Objects : obj[o].file = f
  /\ dead' = dead \cup {f}
  /\ LET old == Cached(f)
     IN /\ inCache' = inCache \ old
        /\ lru' = SelectSeq(lru, LAMBDA x : x \notin old)
        /\ DropAndGoto(t, obj, old, SetToSeq(old),
                       [IdleThread EXCEPT !.pc = "erase", !.file = f])
  /\ UNCHANGED <<opened, filters, sched, phase, installed, gets>>

CloseDBQueueFirst(t) ==
  /\ phase = "open" /\ \A u \in Threads : At(u, "idle")
  /\ phase' = "closing"
  /\ Goto(t, "shutdown")
  /\ UNCHANGED <<tables, filters, sched, installed, dead, gets>>

\* ~DBImpl deletes the table cache ...
CloseDB(t) ==
  /\ phase = "open" /\ \A u \in Threads : At(u, "idle")
  /\ phase' = "closing"
  /\ inCache' = {} /\ lru' = <<>>
  /\ DropAndGoto(t, obj, inCache, lru, [IdleThread EXCEPT !.pc = "shutdown"])
  /\ UNCHANGED <<opened, filters, sched, installed, dead, gets>>

(* ... and the multi-queue, whose destructor waits until the scheduler is  *)
(* quiet and deletes all readers.                                          *)
ShutDown(t) ==
  /\ At(t, "shutdown") /\ quiet /\ mq = Nobody
  /\ phase' = "closed"
  /\ reader' = [h \in Objects |-> NoReader]
  /\ queues' = [i \in DOMAIN queues |-> <<>>]
  /\ th' = [th EXCEPT ![t] = IdleThread]
  /\ UNCHANGED <<tables, map, usage, mq, sched, installed, dead, gets>>

Terminated == phase = "closed" /\ UNCHANGED vars

ThreadStep(t) ==
  \/ WaitForLoading(t) \/ Lookup(t) \/ ReadFilterFails(t) \/ Insert(t)
  \/ GoBackToInitFilter(t) \/ DoAdjustment(t) \/ Erase(t)
  \/ CacheInsert(t) \/ Release(t) \/ CloseTable(t) \/ ShutDown(t)

Worker == WorkerSleeps \/ WorkerTakes \/ InitLoadFilter

Next ==
  \/ \E t \in Threads :
       \/ ThreadStep(t) \/ (t # BgThread /\ CloseDB(t))
       \/ \E sn \in SeqNos : UpdateState(t, sn)
       \/ \E f \in Files : FindTableHit(t, f) \/ FindTableMiss(t, f)
  \/ \E f \in Files : Install(f) \/ RemoveTable(BgThread, f)
  \/ Worker
  \/ Terminated

Spec == Init /\ [][Next]_vars

\* Whether ThreadStep(t) is enabled, and whether thread t made a step.
CanStep(t) ==
  CASE At(t, "idle") -> FALSE
    [] At(t, "insert") -> ReadFaults \/ mq = Nobody
    [] th[t].pc \in {"cache", "use", "match"} -> shard = Nobody
    [] At(t, "shutdown") -> quiet /\ mq = Nobody
    [] OTHER -> mq = Nobody \/ (mq = t /\ Loaded(t))
Stepped(t) == th'[t] # th[t] \/ (mq' = t /\ mq # t)

CanWork == worker = "awake"
Worked == worker' = "asleep" \/ running' # running

(* A thread inside a call runs on, and so does the worker; nobody has to   *)
(* make a call.  This is weak fairness of ThreadStep(t) and of Worker,     *)
(* written so that TLC need not compute their ENABLED predicates.          *)
FairSpec ==
  /\ Spec
  /\ \A t \in Threads : []<>~CanStep(t) \/ []<><<Stepped(t)>>_vars
  /\ []<>~CanWork \/ []<><<Worked>>_vars
-----------------------------------------------------------------------------
TypeOK ==
  /\ obj \in [Objects -> [file : Files \cup {Nobody}, open : BOOLEAN,
                          handle : Objects \cup {0}, refs : Nat]]
  /\ inCache \subseteq Objects /\ Range(lru) \subseteq inCache
  /\ {shard, mq} \subseteq Threads \cup {Nobody}
  /\ map \in [Files -> Objects \cup {0}]
  /\ \A i \in 0 .. AllUnits : Range(queues[i]) \subseteq Objects
  /\ usage \in 0 .. SizeMod - 1
  /\ \A h \in Objects : Units(h) <= AllUnits
  /\ Range(jobs) \cup {running} \subseteq Objects \cup {0}
  /\ worker \in {"none", "awake", "asleep"} /\ quiet \in BOOLEAN
  /\ \A t \in Threads : th[t].pc \in Steps /\ th[t].next \in Steps
  /\ phase \in {"open", "closing", "closed"}
  /\ installed \subseteq Files /\ dead \subseteq Files

(* A table never says that it does not have a key because its units are    *)
(* not where KeyMayMatch expects them, however loading, evicting, closing  *)
(* and opening again follow each other (filter_block.cc: "load from left   *)
(* to right, evict from right to left").                                   *)
NoFalseNegative ==
  \A t \in Threads : At(t, "match") => KeyMayMatch(obj[th[t].obj].handle)

(* The background thread loads the first units of a filter through a file  *)
(* that is still open, although the table cache may delete the table at    *)
(* any time: deleting waits for the load.                                  *)
FirstLoadFromOpenFile ==
  \A h \in Range(jobs) \cup ({running} \ {0}) :
    Live(h) /\ ~reader[h].done /\ obj[reader[h].src].open

(* The handle of an open table is a handle of the multi-queue that was not *)
(* erased, so that ~Rep and UpdateHandle never follow a dangling pointer;  *)
(* it is linked in exactly one place.                                      *)
HandlesAreLinked ==
  \A o \in Objects :
    (obj[o].open /\ obj[o].handle # 0) =>
      /\ Live(obj[o].handle)
      /\ Cardinality({i \in 0 .. AllUnits : Contains(queues[i], obj[o].handle)}) = 1

Resident == MapThenSumSet(Size, {h \in Objects : Live(h)})

(* An adjustment never makes the filters bigger: what the cold readers     *)
(* give up is at least what the hot one gets, also if the load fails       *)
(* (doc/elasticbf.md: "The total memory footprint of the filter unit of    *)
(* the evicted cold reader cannot be less than ...").                      *)
AdjustmentKeepsMemory ==
  [][(\E t \in Threads : At(t, "adjust") /\ th'[t].pc = "match")
       => Resident' <= Resident]_vars

(* When the multi-queue deletes its readers the scheduler neither runs nor *)
(* keeps a job for one of them.                                            *)
NoJobAfterShutDown ==
  phase = "closed" => jobs = <<>> /\ running = 0 /\ (\A o \in Objects : ~obj[o].open)
=============================================================================
