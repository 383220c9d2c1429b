------------------------------ MODULE Iterators ------------------------------
(***************************************************************************)
(* The iterators under DB::NewIterator: DBIter (db/db_iter.cc) over a      *)
(* MergingIterator (table/merger.cc) over the memtable and, for tables and *)
(* levels, TwoLevelIterators (table/two_level_iterator.cc), down to the    *)
(* iterators of blocks (table/block.cc) as BlockBuilder builds them.       *)
(*                                                                         *)
(* An internal key is <<user key, tag>> with tag = 2 * sequence + type;    *)
(* its two elements are what prefix compression shares.  An offset in a    *)
(* block is the number of an entry.  An iterator is a record that holds    *)
(* the immutable data it walks over; IteratorWrapper caches what the       *)
(* functions Valid and Key return and needs no state of its own.           *)
(***************************************************************************)
EXTENDS Integers, Sequences, FiniteSets, SequencesExt, FiniteSetsExt

CONSTANTS
  Keys,            \* user keys, a set of numbers
  NumEntries,      \* entries have sequence numbers 1 .. NumEntries
  RestartIntervals, BlockSizes,   \* block_restart_interval, entries of a block
  None

kTypeDeletion == 0
kTypeValue == 1

UserKey(k) == k[1]
Sequence(k) == k[2] \div 2
Type(k) == k[2] % 2
LookupKey(u, s) == <<u, 2 * s + kTypeValue>>

\* InternalKeyComparator: increasing user key, decreasing tag.
Less(a, b) == a[1] < b[1] \/ (a[1] = b[1] /\ a[2] > b[2])

Sorted(S) ==
  LET at(k) == Cardinality({j \in S : Less(j, k)}) + 1
  IN [i \in 1 .. Cardinality(S) |-> CHOOSE k \in S : at(k) = i]
-----------------------------------------------------------------------------
(* BlockBuilder.  An entry is the number of shared elements, the rest of   *)
(* the key and the value.                                                  *)

SharedPrefix(a, b) ==
  Max({n \in 0 .. Min({Len(a), Len(b)}) : SubSeq(a, 1, n) = SubSeq(b, 1, n)})

Restarts(counter, interval) == counter >= interval

BlockAdd(interval, b, kv) ==
  LET restart == Restarts(b.counter, interval)
      shared == IF restart THEN 0 ELSE SharedPrefix(b.last, kv[1])
  IN [e |-> Append(b.e, <<shared, SubSeq(kv[1], shared + 1, Len(kv[1])), kv[2]>>),
      rs |-> IF restart THEN Append(b.rs, Len(b.e) + 1) ELSE b.rs,
      counter |-> (IF restart THEN 0 ELSE b.counter) + 1,
      last |-> kv[1]]

\* The block of a sequence of pairs key, value.
BuildBlock(interval, kvs) ==
  FoldLeft(LAMBDA b, kv : BlockAdd(interval, b, kv),
           [e |-> <<>>, rs |-> <<1>>, counter |-> 0, last |-> <<>>], kvs)
-----------------------------------------------------------------------------
(* Block::Iter.  "cur" is current_, "r" restart_index_ (from 0), "next"    *)
(* what NextEntryOffset returns.                                           *)

End(it) == Len(it.b.e) + 1
RestartPoint(it, i) == it.b.rs[i + 1]
NumRestarts(it) == Len(it.b.rs)

BlockIter(b) ==
  [kind |-> "block", b |-> b, cur |-> Len(b.e) + 1, r |-> Len(b.rs), key |-> <<>>,
   next |-> 1]

SeekToRestartPoint(it, i) == [it EXCEPT !.key = <<>>, !.r = i, !.next = RestartPoint(it, i)]
Exhausted(it) == [it EXCEPT !.cur = End(it), !.r = NumRestarts(it)]

ParseNextKey(it) ==
  IF it.next >= End(it) THEN Exhausted(it)
  ELSE LET e == it.b.e[it.next]
           r == Max({it.r} \cup {i \in it.r + 1 .. NumRestarts(it) - 1 :
                                   RestartPoint(it, i) < it.next})
       IN [it EXCEPT !.cur = it.next, !.key = SubSeq(it.key, 1, e[1]) \o e[2],
                     !.r = r, !.next = @ + 1]

BlockValid(it) == it.cur < End(it)

RECURSIVE ParseUntil(_, _)
ParseUntil(it, stop) ==
  \* do ParseNextKey while it succeeds and NextEntryOffset() < stop.
  LET j == ParseNextKey(it)
  IN IF BlockValid(j) /\ j.next < stop THEN ParseUntil(j, stop) ELSE j

RECURSIVE ParseToKey(_, _)
ParseToKey(it, target) ==
  LET j == ParseNextKey(it)
  IN IF BlockValid(j) /\ Less(j.key, target) THEN ParseToKey(j, target) ELSE j

BlockPrev(it) ==
  LET before == {i \in 0 .. it.r : RestartPoint(it, i) < it.cur}
  IN IF before = {} THEN Exhausted(it)
     ELSE ParseUntil(SeekToRestartPoint(it, Max(before)), it.cur)

\* The binary search between two restart points.
RECURSIVE SearchRestarts(_, _, _, _)
SearchRestarts(it, target, left, right) ==
  IF left >= right THEN left
  ELSE LET mid == (left + right + 1) \div 2
           key == it.b.e[RestartPoint(it, mid)][2]
       IN IF Less(key, target) THEN SearchRestarts(it, target, mid, right)
          ELSE SearchRestarts(it, target, left, mid - 1)

SkipSeekAlways(it, left, behind) == left = it.r
SkipSeek(it, left, behind) == left = it.r /\ behind

BlockSeek(it, target) ==
  LET valid == BlockValid(it)
      behind == valid /\ Less(it.key, target)
      ahead == valid /\ Less(target, it.key)
      left == SearchRestarts(it, target, IF behind THEN it.r ELSE 0,
                             IF ahead THEN it.r ELSE NumRestarts(it) - 1)
  IN IF valid /\ it.key = target THEN it
     ELSE ParseToKey(IF SkipSeek(it, left, behind) THEN it ELSE SeekToRestartPoint(it, left),
                     target)

BlockSeekToFirst(it) == ParseNextKey(SeekToRestartPoint(it, 0))
BlockSeekToLast(it) == ParseUntil(SeekToRestartPoint(it, NumRestarts(it) - 1), End(it))
-----------------------------------------------------------------------------
(* The skip list's iterator and LevelFileNumIterator walk over a sorted    *)
(* sequence; the files of a level are found by their largest keys.         *)

ListIter(kvs) == [kind |-> "list", kvs |-> kvs, cur |-> Len(kvs) + 1]
ListValid(it) == it.cur <= Len(it.kvs)
ListSeek(it, target) ==
  [it EXCEPT !.cur = Min({Len(it.kvs) + 1} \cup
                         {i \in DOMAIN it.kvs : ~Less(it.kvs[i][1], target)})]
ListPrev(it) == [it EXCEPT !.cur = IF @ = 1 THEN Len(it.kvs) + 1 ELSE @ - 1]

\* NewErrorIterator and an empty data iterator.
ErrorIter == [kind |-> "error"]
NoIter == [kind |-> "none"]

\* A TwoLevelIterator over an index iterator; its data iterators are the
\* iterators of "parts", by the index's value.
TwoLevel(index, parts) ==
  [kind |-> "two", index |-> index, parts |-> parts, data |-> NoIter,
   handle |-> None, failed |-> FALSE]
-----------------------------------------------------------------------------
RECURSIVE Valid(_), Key(_), Value(_), Failed(_)

Valid(it) ==
  CASE it.kind = "block" -> BlockValid(it)
    [] it.kind = "list" -> ListValid(it)
    [] it.kind = "two" -> Valid(it.data)
    [] it.kind = "merge" -> it.current # 0
    [] OTHER -> FALSE

Key(it) ==
  CASE it.kind = "block" -> it.key
    [] it.kind = "list" -> it.kvs[it.cur][1]
    [] it.kind = "two" -> Key(it.data)
    [] it.kind = "merge" -> Key(it.children[it.current])

Value(it) ==
  CASE it.kind = "block" -> it.b.e[it.cur][3]
    [] it.kind = "list" -> it.kvs[it.cur][2]
    [] it.kind = "two" -> Value(it.data)
    [] it.kind = "merge" -> Value(it.children[it.current])

\* status() is not OK.
Failed(it) ==
  CASE it.kind = "error" -> TRUE
    [] it.kind = "two" -> it.failed \/ Failed(it.index) \/ Failed(it.data)
    [] it.kind = "merge" -> \E i \in DOMAIN it.children : Failed(it.children[i])
    [] OTHER -> FALSE

RECURSIVE Seek(_, _), SeekToFirst(_), SeekToLast(_), Next(_), Prev(_)

(* TwoLevelIterator *)
SetDataIterator(it, data) == [it EXCEPT !.data = data, !.failed = @ \/ Failed(it.data)]

InitDataBlock(it) ==
  IF ~Valid(it.index) THEN SetDataIterator(it, NoIter)
  ELSE LET h == Value(it.index)
       IN IF it.data # NoIter /\ h = it.handle THEN it
          ELSE [SetDataIterator(it, it.parts[h]) EXCEPT !.handle = h]

RECURSIVE SkipEmptyDataBlocksForward(_), SkipEmptyDataBlocksBackward(_)
SkipEmptyDataBlocksForward(it) ==
  IF Valid(it.data) THEN it
  ELSE IF ~Valid(it.index) THEN SetDataIterator(it, NoIter)
  ELSE LET j == InitDataBlock([it EXCEPT !.index = Next(@)])
       IN SkipEmptyDataBlocksForward([j EXCEPT !.data = SeekToFirst(@)])

SkipEmptyDataBlocksBackward(it) ==
  IF Valid(it.data) THEN it
  ELSE IF ~Valid(it.index) THEN SetDataIterator(it, NoIter)
  ELSE LET j == InitDataBlock([it EXCEPT !.index = Prev(@)])
       IN SkipEmptyDataBlocksBackward([j EXCEPT !.data = SeekToLast(@)])

TwoSeek(it, target) ==
  LET j == InitDataBlock([it EXCEPT !.index = Seek(@, target)])
  IN SkipEmptyDataBlocksForward([j EXCEPT !.data = Seek(@, target)])
TwoSeekToFirst(it) ==
  LET j == InitDataBlock([it EXCEPT !.index = SeekToFirst(@)])
  IN SkipEmptyDataBlocksForward([j EXCEPT !.data = SeekToFirst(@)])
TwoSeekToLast(it) ==
  LET j == InitDataBlock([it EXCEPT !.index = SeekToLast(@)])
  IN SkipEmptyDataBlocksBackward([j EXCEPT !.data = SeekToLast(@)])

(* MergingIterator *)
FindSmallest(it) ==
  LET valid == {i \in DOMAIN it.children : Valid(it.children[i])}
      first == {i \in valid : \A j \in valid : ~Less(Key(it.children[j]), Key(it.children[i]))}
  IN [it EXCEPT !.current = IF valid = {} THEN 0 ELSE Min(first)]

FindLargest(it) ==
  LET valid == {i \in DOMAIN it.children : Valid(it.children[i])}
      last == {i \in valid : \A j \in valid : ~Less(Key(it.children[i]), Key(it.children[j]))}
  IN [it EXCEPT !.current = IF valid = {} THEN 0 ELSE Max(last)]

Merging(children) == [kind |-> "merge", children |-> children, current |-> 0, forward |-> TRUE]

\* The other children are moved behind key(), or in front of it.
Reposition(it, Move(_)) ==
  [i \in DOMAIN it.children |->
     IF i = it.current THEN it.children[i] ELSE Move(Seek(it.children[i], Key(it)))]

PastKey(c, key) == IF Valid(c) /\ Key(c) = key THEN Next(c) ELSE c
BeforeKey(c) == IF Valid(c) THEN Prev(c) ELSE SeekToLast(c)

StaysForward(it) == it.children
TurnForward(it) ==
  IF it.forward THEN it.children ELSE Reposition(it, LAMBDA c : PastKey(c, Key(it)))
TurnBackward(it) == IF it.forward THEN Reposition(it, BeforeKey) ELSE it.children

MergeNext(it) ==
  FindSmallest([it EXCEPT !.children = [TurnForward(it) EXCEPT ![it.current] = Next(@)],
                          !.forward = TRUE])
MergePrev(it) ==
  FindLargest([it EXCEPT !.children = [TurnBackward(it) EXCEPT ![it.current] = Prev(@)],
                         !.forward = FALSE])

Each(it, Move(_), forward) ==
  [it EXCEPT !.children = [i \in DOMAIN @ |-> Move(@[i])], !.forward = forward]

Seek(it, target) ==
  CASE it.kind = "block" -> BlockSeek(it, target)
    [] it.kind = "list" -> ListSeek(it, target)
    [] it.kind = "two" -> TwoSeek(it, target)
    [] it.kind = "merge" -> FindSmallest(Each(it, LAMBDA c : Seek(c, target), TRUE))
    [] OTHER -> it

SeekToFirst(it) ==
  CASE it.kind = "block" -> BlockSeekToFirst(it)
    [] it.kind = "list" -> [it EXCEPT !.cur = 1]
    [] it.kind = "two" -> TwoSeekToFirst(it)
    [] it.kind = "merge" -> FindSmallest(Each(it, SeekToFirst, TRUE))
    [] OTHER -> it

SeekToLast(it) ==
  CASE it.kind = "block" -> BlockSeekToLast(it)
    [] it.kind = "list" -> [it EXCEPT !.cur = IF it.kvs = <<>> THEN 1 ELSE Len(it.kvs)]
    [] it.kind = "two" -> TwoSeekToLast(it)
    [] it.kind = "merge" -> FindLargest(Each(it, SeekToLast, FALSE))
    [] OTHER -> it

Next(it) ==
  CASE it.kind = "block" -> ParseNextKey(it)
    [] it.kind = "list" -> [it EXCEPT !.cur = @ + 1]
    [] it.kind = "two" -> SkipEmptyDataBlocksForward([it EXCEPT !.data = Next(@)])
    [] it.kind = "merge" -> MergeNext(it)
    [] OTHER -> it

Prev(it) ==
  CASE it.kind = "block" -> BlockPrev(it)
    [] it.kind = "list" -> ListPrev(it)
    [] it.kind = "two" -> SkipEmptyDataBlocksBackward([it EXCEPT !.data = Prev(@)])
    [] it.kind = "merge" -> MergePrev(it)
    [] OTHER -> it
-----------------------------------------------------------------------------
(* Table::NewIterator, Version::NewConcatenatingIterator and               *)
(* DBImpl::NewInternalIterator on given contents.  A block that cannot be  *)
(* read is an error iterator.                                              *)

Chunks(s, n) ==
  [i \in 1 .. (Len(s) + n - 1) \div n |-> SubSeq(s, (i - 1) * n + 1, Min({i * n, Len(s)}))]

LastKeys(parts) == [i \in DOMAIN parts |-> <<Last(parts[i])[1], i>>]

NewTableIterator(kvs, interval, size, unreadable) ==
  LET blocks == Chunks(kvs, size)
  IN TwoLevel(BlockIter(BuildBlock(1, LastKeys(blocks))),
              [i \in DOMAIN blocks |->
                 IF i = unreadable THEN ErrorIter ELSE BlockIter(BuildBlock(interval, blocks[i]))])

NewConcatenatingIterator(kvs, interval, size, unreadable) ==
  LET tables == Chunks(kvs, 2 * size)
  IN TwoLevel(ListIter(LastKeys(tables)),
              [i \in DOMAIN tables |-> NewTableIterator(tables[i], interval, size, unreadable)])

NewInternalIterator(mem, table, level, interval, size, unreadable) ==
  LET children == <<ListIter(mem)>>
        \o (IF table = <<>> THEN <<>>
            ELSE <<NewTableIterator(table, interval, size, unreadable)>>)
        \o (IF level = <<>> THEN <<>>
            ELSE <<NewConcatenatingIterator(level, interval, size, unreadable)>>)
  IN IF Len(children) = 1 THEN children[1] ELSE Merging(children)
-----------------------------------------------------------------------------
(* DBIter: the internal iterator, sequence_, direction_, valid_,           *)
(* saved_key_ and saved_value_.                                            *)

DBIter(iter, s) ==
  [iter |-> iter, s |-> s, forward |-> TRUE, valid |-> FALSE, key |-> None, value |-> None]

Current(d) == Key(d.iter)
Invalid(d) == [d EXCEPT !.valid = FALSE, !.key = None]
Move(d, i) == [d EXCEPT !.iter = i]

RECURSIVE FindNextUserEntry(_, _)
FindNextUserEntry(d, skip) ==
  LET k == Current(d)
      seen == Sequence(k) <= d.s
      hides == seen /\ Type(k) = kTypeDeletion
      yields == seen /\ Type(k) = kTypeValue /\ (skip = None \/ UserKey(k) > skip)
      n == Move(d, Next(d.iter))
  IN IF yields THEN [d EXCEPT !.valid = TRUE, !.key = None]
     ELSE IF ~Valid(n.iter) THEN Invalid(n)
     ELSE FindNextUserEntry(n, IF hides THEN UserKey(k) ELSE skip)

DBNext(d) ==
  LET skip == IF d.forward THEN UserKey(Current(d)) ELSE d.key
      i == IF d.forward \/ Valid(d.iter) THEN Next(d.iter) ELSE SeekToFirst(d.iter)
      n == [d EXCEPT !.forward = TRUE, !.iter = i]
  IN IF Valid(i) THEN FindNextUserEntry(n, skip) ELSE Invalid(n)

StopsNowhere(d, k, type) == FALSE
\* A value was found and the entries of a smaller user key begin.
StopsAt(d, k, type) == type # kTypeDeletion /\ UserKey(k) < d.key

RECURSIVE FindPrevUserEntry(_, _)
FindPrevUserEntry(d, type) ==
  IF ~Valid(d.iter) \/ (Sequence(Current(d)) <= d.s /\ StopsAt(d, Current(d), type))
  THEN IF type = kTypeDeletion
       THEN [d EXCEPT !.valid = FALSE, !.key = None, !.value = None, !.forward = TRUE]
       ELSE [d EXCEPT !.valid = TRUE]
  ELSE LET k == Current(d)
           seen == Sequence(k) <= d.s
           put == Type(k) = kTypeValue
           e == IF ~seen THEN d
                ELSE [d EXCEPT !.key = IF put THEN UserKey(k) ELSE None,
                               !.value = IF put THEN Value(d.iter) ELSE None]
       IN FindPrevUserEntry(Move(e, Prev(d.iter)), IF seen THEN Type(k) ELSE type)

\* Back out of the entries of the current key.
RECURSIVE BackOut(_, _)
BackOut(iter, u) ==
  LET i == Prev(iter)
  IN IF Valid(i) /\ UserKey(Key(i)) >= u THEN BackOut(i, u) ELSE i

DBPrev(d) ==
  IF ~d.forward THEN FindPrevUserEntry(d, kTypeDeletion)
  ELSE LET u == UserKey(Current(d))
           i == BackOut(d.iter, u)
       IN IF Valid(i)
          THEN FindPrevUserEntry([d EXCEPT !.iter = i, !.key = u, !.forward = FALSE],
                                 kTypeDeletion)
          ELSE [Move(Invalid(d), i) EXCEPT !.value = None]

\* Seek and SeekToFirst, once the internal iterator has been positioned.
DBStart(d, i) ==
  LET n == [d EXCEPT !.forward = TRUE, !.value = None, !.iter = i]
  IN IF Valid(i) THEN FindNextUserEntry(n, None) ELSE [n EXCEPT !.valid = FALSE]

DBSeek(d, u) == DBStart(d, Seek(d.iter, LookupKey(u, d.s)))
DBSeekToFirst(d) == DBStart(d, SeekToFirst(d.iter))
DBSeekToLast(d) ==
  FindPrevUserEntry([d EXCEPT !.forward = FALSE, !.value = None, !.iter = SeekToLast(@)],
                    kTypeDeletion)

DBKey(d) == IF d.forward THEN UserKey(Current(d)) ELSE d.key
DBValue(d) == IF d.forward THEN Value(d.iter) ELSE d.value
-----------------------------------------------------------------------------
(* A user of an iterator on a snapshot of a store with given contents, and *)
(* where the iterator ought to be, 0 for nowhere.                          *)

VARIABLES it, at, store
vars == <<it, at, store>>

\* The entries: a user key and a type for each sequence number; the value
\* is the sequence number.
Contents(e, from, to) ==
  LET ks == {<<e[i][1], 2 * i + e[i][2]>> : i \in from .. to}
      s == Sorted(ks)
  IN [i \in DOMAIN s |-> <<s[i], Sequence(s[i])>>]

Init ==
  \E e \in [1 .. NumEntries -> Keys \X {kTypeDeletion, kTypeValue}] :
  \E old \in 0 .. NumEntries : \E mid \in old .. NumEntries :
  \E s \in {NumEntries - 1, NumEntries}, interval \in RestartIntervals, size \in BlockSizes :
  \E unreadable \in 0 .. 1 :
    /\ store = [e |-> e, s |-> s]
    /\ at = 0
    /\ it = DBIter(NewInternalIterator(Contents(e, mid + 1, NumEntries),
                                       Contents(e, old + 1, mid),
                                       Contents(e, 1, old), interval, size, unreadable), s)

\* The number of the newest entry of a key that the snapshot sees, and the
\* keys that have a value.
Newest(u) == Max({0} \cup {i \in 1 .. store.s : store.e[i][1] = u})
Live == {u \in Keys : Newest(u) # 0 /\ store.e[Newest(u)][2] = kTypeValue}
First(S) == IF S = {} THEN 0 ELSE Min(S)
Latest(S) == IF S = {} THEN 0 ELSE Max(S)

DoSeek(u) ==
  it' = DBSeek(it, u) /\ at' = First({k \in Live : k >= u}) /\ UNCHANGED store
DoSeekToFirst == it' = DBSeekToFirst(it) /\ at' = First(Live) /\ UNCHANGED store
DoSeekToLast == it' = DBSeekToLast(it) /\ at' = Latest(Live) /\ UNCHANGED store
DoNext ==
  /\ it.valid
  /\ it' = DBNext(it) /\ UNCHANGED store
  /\ at' = First({k \in Live : k > at})
DoPrev ==
  /\ it.valid
  /\ it' = DBPrev(it) /\ UNCHANGED store
  /\ at' = Latest({k \in Live : k < at})

Step == DoSeekToFirst \/ DoSeekToLast \/ DoNext \/ DoPrev \/ \E u \in Keys : DoSeek(u)
Spec == Init /\ [][Step]_vars

(* An iterator whose status is OK stands, after any mix of seeks and moves *)
(* in both directions, on the key and the newest value that the snapshot   *)
(* shows there, and is invalid exactly where the snapshot has no key.      *)
IteratorAgrees ==
  Failed(it.iter) \/
    /\ it.valid = (at # 0)
    /\ it.valid => DBKey(it) = at /\ DBValue(it) = Newest(at)
=============================================================================
