------------------------------- MODULE Tables -------------------------------
(***************************************************************************)
(* Building and reading one table file: the comparators                    *)
(* (util/comparator.cc, db/dbformat.cc), TableBuilder                      *)
(* (table/table_builder.cc), the filter block with its units               *)
(* (table/filter_block.cc, util/bloom.cc), ReadBlock (table/format.cc) and *)
(* Table::Open and InternalGet (table/table.cc).                           *)
(*                                                                         *)
(* An internal key is <<user key, sequence>>, a user key a sequence of     *)
(* bytes 0..0xff with kMaxByte for 0xff.  A block of n entries takes n     *)
(* cells of the file and one for its trailer.  One call of                 *)
(* WritableFile::Append or Flush, the one numbered failAt, fails.          *)
(***************************************************************************)
EXTENDS Integers, Sequences, SequencesExt, FiniteSets, FiniteSetsExt

CONSTANTS UserKeys, kMaxByte, MaxSequence,
          block_size,                 \* entries that fill a data block
          kFilterBase,                \* cells of data per filter
          kAllFilterUnitsNumber,
          Hash,                       \* the hash of every user key
          k_, bits_per_key, kMinBits, \* Bloom parameters
          MaxEntries, FailAt          \* bound; which Append may fail

VARIABLES r, added, failAt, built
vars == <<r, added, failAt, built>>

-----------------------------------------------------------------------------
(* Comparators                                                             *)

\* Slice::compare
BytesLess(a, b) ==
    \/ \E i \in 1..Min({Len(a), Len(b)}) :
         a[i] < b[i] /\ \A j \in 1..(i - 1) : a[j] = b[j]
    \/ IsStrictPrefix(a, b)

Diff(a, b) == Min({i \in 1..Min({Len(a), Len(b)}) : a[i] # b[i]})
IsShared(a, b) == IsPrefix(a, b) \/ IsPrefix(b, a)

Increment(s, i) == [j \in 1..i |-> IF j = i THEN s[j] + 1 ELSE s[j]]

UserSeparator(start, limit) ==
    IF IsShared(start, limit) THEN start
    ELSE LET i == Diff(start, limit)
         IN IF start[i] < kMaxByte /\ start[i] + 1 < limit[i]
            THEN Increment(start, i) ELSE start

UserSuccessor(key) ==
    LET up == {i \in DOMAIN key : key[i] # kMaxByte}
    IN IF up = {} THEN key ELSE Increment(key, Min(up))

kMaxSequenceNumber == MaxSequence + 1

\* InternalKeyComparator: increasing user key, decreasing sequence number.
Less(a, b) == BytesLess(a[1], b[1]) \/ (a[1] = b[1] /\ a[2] > b[2])
AtLeast(a, b) == ~Less(a, b)

\* The shortened user key gets the number that sorts before all its entries.
Shortened(key, tmp) ==
    IF Len(tmp) < Len(key[1]) /\ BytesLess(key[1], tmp)
    THEN <<tmp, kMaxSequenceNumber>> ELSE key

\* Faulty variant: the shortened key sorts after the entries it must precede.
SeparatorTooFar(start, limit) ==
    IF Len(start[1]) > Len(limit[1]) THEN <<limit[1], 0>> ELSE start

FindShortestSeparator(start, limit) ==
    Shortened(start, UserSeparator(start[1], limit[1]))

FindShortSuccessor(key) == Shortened(key, UserSuccessor(key[1]))

-----------------------------------------------------------------------------
(* util/bloom.cc: hashes of 6 bits; unit number index of a filter.         *)

Rotate(h) == (h \div 8) + (h % 8) * 8

BloomHash(user_key, index) == (Hash[user_key] + Rotate(Hash[user_key]) * index) % 64

Probes(h, bits) == {((h + j * Rotate(h)) % 64) % bits : j \in 0..(k_ - 1)}

CreateFilter(user_keys, index) ==
    LET n == Max({kMinBits, Len(user_keys) * bits_per_key})
        bits == ((n + 7) \div 8) * 8
    IN [bits |-> bits,
        set |-> UNION {Probes(BloomHash(user_keys[i], index), bits) :
                         i \in DOMAIN user_keys}]

\* The empty filter of a stretch without keys has less than 2 bytes.
NoFilter == [bits |-> 0, set |-> {}]

PolicyKeyMayMatch(user_key, filter, index) ==
    filter # NoFilter
      /\ Probes(BloomHash(user_key, index), filter.bits) \subseteq filter.set

(* FilterBlockBuilder: the filters of unit i, one per kFilterBase of data. *)

GenerateFilter(fb) ==
    [units |-> [i \in 1..kAllFilterUnitsNumber |->
                  Append(fb.units[i], IF fb.keys = <<>> THEN NoFilter
                                      ELSE CreateFilter(fb.keys, i - 1))],
     keys |-> <<>>]

RECURSIVE StartBlock(_, _)
StartBlock(fb, block_offset) ==
    IF block_offset \div kFilterBase > Len(fb.units[1])
    THEN StartBlock(GenerateFilter(fb), block_offset)
    ELSE fb

AddKey(fb, key) == [fb EXCEPT !.keys = Append(@, key[1])]

ReturnFilters(fb) == IF fb.keys = <<>> THEN fb ELSE GenerateFilter(fb)

-----------------------------------------------------------------------------
(* TableBuilder; every operation takes and returns the Rep.                *)

\* WritableFile::Append, and Flush with no cells: the failing call leaves
\* nothing in the file.
FileAppend(b, cells) ==
    LET n == b.calls + 1
    IN [b EXCEPT !.calls = n, !.ok = n # failAt,
                 !.file = IF n = failAt THEN @ ELSE @ \o cells]

Size(content) == Max({1, Len(content)})
Cells(content) == [i \in 1..Size(content) |-> <<"cell", content, i>>]
Trailer(content) == <<"crc", content>>

WriteRawBlock(b, content) ==
    LET b1 == FileAppend(b, Cells(content))
        b2 == FileAppend(b1, <<Trailer(content)>>)
        b3 == IF b2.ok THEN [b2 EXCEPT !.offset = @ + Size(content) + 1] ELSE b2
        handle == [offset |-> b.offset, size |-> Size(content)]
    IN [(IF b1.ok THEN b3 ELSE b1) EXCEPT !.handle = handle]

\* The loop goes on after a failed Append, and status is assigned each time.
WriteRawFilters(b, units) ==
    FoldLeft(LAMBDA c, unit : [WriteRawBlock(c, unit) EXCEPT
                                 !.handle = [offset |-> b.offset,
                                             size |-> Size(units[1])]],
             b, units)

Flush(b) ==
    IF ~b.ok \/ b.data = <<>> THEN b
    ELSE LET w == WriteRawBlock(b, b.data)
             f == IF w.ok THEN FileAppend(w, <<>>) ELSE w
         IN [f EXCEPT !.data = <<>>, !.pending = w.ok, !.pend = w.handle,
                      !.filter = StartBlock(@, w.offset)]

AddIndexEntry(b, key) ==
    IF b.pending
    THEN [b EXCEPT !.index = Append(@, <<key, b.pend>>), !.pending = FALSE]
    ELSE b

\* Faulty variant: the index entry is the last key's, whatever block it is in.
AddWithoutIndex(b, key) ==
    LET c == [b EXCEPT !.filter = AddKey(@, key), !.last_key = key,
                       !.num_entries = @ + 1, !.data = Append(@, key)]
    IN IF ~b.ok THEN b
       ELSE IF Len(c.data) >= block_size THEN Flush(c) ELSE c

BuilderAdd(b, key) ==
    LET a == AddIndexEntry(b, FindShortestSeparator(b.last_key, key))
        c == [a EXCEPT !.filter = AddKey(@, key), !.last_key = key,
                       !.num_entries = @ + 1, !.data = Append(@, key)]
    IN IF ~b.ok THEN b
       ELSE IF Len(c.data) >= block_size THEN Flush(c) ELSE c

IfOk(b, Step(_)) == IF b.ok THEN Step(b) ELSE b

BuilderFinish(b0) ==
    LET b1 == Flush(b0)
        fb == ReturnFilters(b1.filter)
        b2 == IfOk(b1, LAMBDA b : WriteRawFilters(b, fb.units))
        meta == <<[filters |-> b2.handle, num |-> Len(fb.units[1]),
                   kv_number |-> b2.num_entries]>>
        b3 == IfOk(b2, LAMBDA b : WriteRawBlock(b, meta))
        b4 == IfOk(b3, LAMBDA b : AddIndexEntry(b, FindShortSuccessor(b.last_key)))
        b5 == IfOk(b4, LAMBDA b : WriteRawBlock(b, b.index))
        footer == <<"footer", b3.handle, b5.handle>>
        b6 == IfOk(b5, LAMBDA b : FileAppend(b, <<footer>>))
    IN [b6 EXCEPT !.closed = TRUE]

NewTableBuilder ==
    [file |-> <<>>, calls |-> 0, offset |-> 0, ok |-> TRUE, data |-> <<>>,
     index |-> <<>>, last_key |-> <<<<>>, 0>>, num_entries |-> 0,
     pending |-> FALSE, pend |-> [offset |-> 0, size |-> 0],
     handle |-> [offset |-> 0, size |-> 0], closed |-> FALSE,
     filter |-> [units |-> [i \in 1..kAllFilterUnitsNumber |-> <<>>],
                 keys |-> <<>>]]

-----------------------------------------------------------------------------
(* Reading                                                                 *)

Corruption == [ok |-> FALSE, data |-> <<>>]

\* With checksums verified.
ReadBlock(file, h) ==
    LET end == h.offset + h.size + 1
    IN IF end > Len(file) THEN Corruption
       ELSE LET crc == file[end]
                cells == SubSeq(file, h.offset + 1, end - 1)
            IN IF crc[1] = "crc" /\ cells = Cells(crc[2])
               THEN [ok |-> TRUE, data |-> crc[2]]
               ELSE Corruption

\* Table::Open; return_sstable_kv_number reads the same way.
Open(file) ==
    LET footer == Last(file)
        index == ReadBlock(file, footer[3])
        meta == ReadBlock(file, footer[2])
    IN IF file = <<>> \/ Last(file)[1] # "footer" THEN Corruption
       ELSE IF ~index.ok \/ ~meta.ok THEN Corruption
       ELSE [ok |-> TRUE, data |-> [index |-> index.data, meta |-> meta.data[1]]]

\* FilterBlockReader::LoadFilterInternal for unit i: all units have one size.
LoadUnit(file, meta, i) ==
    ReadBlock(file, [offset |-> meta.filters.offset
                                  + (meta.filters.size + 1) * (i - 1),
                     size |-> meta.filters.size])

ReaderKeyMayMatch(file, meta, loaded, block_offset, user_key) ==
    LET i == block_offset \div kFilterBase
    IN i < meta.num =>
         \A u \in 1..loaded :
           PolicyKeyMayMatch(user_key, LoadUnit(file, meta, u).data[i + 1], u - 1)

\* Iterator::Seek in a block: the first entry at or after the target.
SeekIn(block, KeyOf(_), k) ==
    {i \in DOMAIN block : /\ AtLeast(KeyOf(block[i]), k)
                          /\ \A j \in 1..(i - 1) : Less(KeyOf(block[j]), k)}

\* What InternalGet hands to its callback: at most one entry.
InternalGet(file, table, loaded, k) ==
    UNION {LET h == table.index[i][2]
               block == ReadBlock(file, h).data
           IN IF ReaderKeyMayMatch(file, table.meta, loaded, h.offset, k[1])
              THEN {block[j] : j \in SeekIn(block, LAMBDA e : e, k)}
              ELSE {} : i \in SeekIn(table.index, LAMBDA e : e[1], k)}

-----------------------------------------------------------------------------
Init ==
    /\ r = NewTableBuilder /\ added = <<>> /\ built = FALSE
    /\ failAt \in FailAt

Add(key) ==
    /\ ~r.closed /\ Len(added) < MaxEntries
    /\ added # <<>> => Less(Last(added), key)
    /\ r' = BuilderAdd(r, key)
    /\ added' = Append(added, key)
    /\ UNCHANGED <<failAt, built>>

\* BuildTable and FinishCompactionOutputFile abandon a table on an error.
Abandon ==
    /\ ~r.closed /\ ~r.ok
    /\ r' = [r EXCEPT !.closed = TRUE]
    /\ UNCHANGED <<added, failAt, built>>

Finish ==
    /\ ~r.closed /\ r.ok /\ added # <<>>
    /\ r' = BuilderFinish(r)
    /\ built' = r'.ok
    /\ UNCHANGED <<added, failAt>>

Next ==
    \/ \E u \in UserKeys, s \in 1..MaxSequence : Add(<<u, s>>)
    \/ Abandon
    \/ Finish

Spec == Init /\ [][Next]_vars

-----------------------------------------------------------------------------
Complete == built /\ r.calls < failAt

\* The entries a lookup of user key u at sequence s may return.
Expected(u, s) ==
    LET old == {e \in ToSet(added) : e[1] = u /\ e[2] <= s}
    IN {e \in old : \A f \in old : f[2] <= e[2]}

\* In a table that was written without an error every lookup, for a key that
\* was added or was not, at every sequence number and with any number of filter
\* units loaded, finds what was added: the shortened index keys lead to the
\* right block and no filter hides a key of it.
LookupsAgree ==
    Complete =>
      \E table \in {Open(r.file)} :
        /\ table.ok
        /\ table.data.meta.kv_number = Len(added)
        /\ \A u \in UserKeys, s \in 1..MaxSequence,
              loaded \in 0..kAllFilterUnitsNumber :
             {e \in InternalGet(r.file, table.data, loaded, <<u, s>>) : e[1] = u}
               = Expected(u, s)
=============================================================================
