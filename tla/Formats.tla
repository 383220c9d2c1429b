------------------------------ MODULE Formats ------------------------------
(***************************************************************************)
(* The encodings that are written to disk: integers and slices             *)
(* (util/coding.cc), write batches (db/write_batch.cc), version edits      *)
(* (db/version_edit.cc), block handles and the table footer                *)
(* (table/format.cc).  A client builds a batch, an edit and a footer; the  *)
(* properties decode what it built, whole and cut off at every byte.       *)
(*                                                                         *)
(* A byte holds 3 bits instead of 8, so that a varint has 2 bits per byte; *)
(* 32 and 64 bit integers have 6 and 12 bits.  Every multi-byte form then  *)
(* occurs with small numbers.                                              *)
(***************************************************************************)
EXTENDS Integers, Sequences, SequencesExt, FiniteSets, FiniteSetsExt

CONSTANTS Slices,            \* keys, values and names: sequences of bytes
          Numbers,           \* file numbers, sizes and sequence numbers
          kNumLevels,
          MaxRecords,        \* bound on the records of a batch
          MaxFields          \* bound on the fields set in an edit

VARIABLES rep,               \* WriteBatch::rep_
          ops,               \* what was put into it
          edit, fields,      \* a VersionEdit, and how many calls filled it
          footer             \* a Footer: metaindex and index handle

vars == <<rep, ops, edit, fields, footer>>

B == 4                       \* a varint byte: B values and a continuation bit
Byte == 0..(2 * B - 1)
Varint32Bytes == 3
Varint64Bytes == 6
Fixed32Bytes == 2
Fixed64Bytes == 4
Failed == [ok |-> FALSE, value |-> 0, rest |-> <<>>]

-----------------------------------------------------------------------------
(* util/coding.cc.  A decoder returns the value and the rest of its input. *)

EncodeFixed(v, n) == [i \in 1..n |-> (v \div (2 * B)^(i - 1)) % (2 * B)]

DecodeFixed(bytes) ==
    FoldLeft(LAMBDA sum, i : sum + bytes[i] * (2 * B)^(i - 1), 0,
             [i \in 1..Len(bytes) |-> i])

VarintLength(v) == CHOOSE n \in 1..12 : v < B^n /\ \A m \in 1..(n - 1) : v >= B^m

EncodeVarint(v) ==
    LET n == VarintLength(v)
    IN [i \in 1..n |-> ((v \div B^(i - 1)) % B) + (IF i < n THEN B ELSE 0)]

VarintOf(input, n) ==
    [ok |-> TRUE, rest |-> SubSeq(input, n + 1, Len(input)),
     value |-> FoldLeft(LAMBDA sum, i : sum + (input[i] % B) * B^(i - 1),
                        0, [i \in 1..n |-> i])]

GetVarint(input, maxBytes) ==
    LET ends == {n \in 1..maxBytes : n <= Len(input) /\ input[n] < B}
    IN IF ends = {} THEN Failed ELSE VarintOf(input, Min(ends))

PutLengthPrefixedSlice(slice) == EncodeVarint(Len(slice)) \o slice

TakeSlice(input, n) ==
    [ok |-> TRUE, value |-> SubSeq(input, 1, n), rest |-> SubSeq(input, n + 1, Len(input))]

\* Faulty variant: a slice that ends early is taken as far as it goes.
ShortSliceAfter(len) ==
    IF ~len.ok THEN Failed ELSE TakeSlice(len.rest, Min({len.value, Len(len.rest)}))

SliceAfter(len) ==
    IF ~len.ok \/ Len(len.rest) < len.value THEN Failed ELSE TakeSlice(len.rest, len.value)

GetLengthPrefixedSlice(input) == SliceAfter(GetVarint(input, Varint32Bytes))

\* f && g && ...: each decoder continues on the rest of the one before it.
And(r, d) ==
    IF ~r.ok \/ ~d.ok THEN [Failed EXCEPT !.value = <<>>]
    ELSE [ok |-> TRUE, value |-> Append(r.value, d.value), rest |-> d.rest]

All(input, decoders(_, _), n) ==
    FoldLeft(LAMBDA r, i : And(r, decoders(i, r.rest)),
             [ok |-> TRUE, value |-> <<>>, rest |-> input], [i \in 1..n |-> i])

-----------------------------------------------------------------------------
(* db/write_batch.cc                                                       *)

kTypeDeletion == 0
kTypeValue == 1
kHeader == Fixed64Bytes + Fixed32Bytes

Count(b) == DecodeFixed(SubSeq(b, Fixed64Bytes + 1, kHeader))

SetCount(b, n) ==
    SubSeq(b, 1, Fixed64Bytes) \o EncodeFixed(n, Fixed32Bytes)
      \o SubSeq(b, kHeader + 1, Len(b))

EmptyBatch == [i \in 1..kHeader |-> 0]

BatchPut(b, k, v) ==
    SetCount(b, Count(b) + 1) \o <<kTypeValue>> \o PutLengthPrefixedSlice(k)
      \o PutLengthPrefixedSlice(v)

BatchDelete(b, k) ==
    SetCount(b, Count(b) + 1) \o <<kTypeDeletion>> \o PutLengthPrefixedSlice(k)

\* Faulty variant: the count of the appended batch is forgotten.
BatchAppendUncounted(dst, src) == dst \o SubSeq(src, kHeader + 1, Len(src))

BatchAppend(dst, src) ==
    SetCount(dst, Count(dst) + Count(src)) \o SubSeq(src, kHeader + 1, Len(src))

DeleteRecord(key) ==
    IF key.ok THEN [key EXCEPT !.value = <<"delete", key.value>>] ELSE Failed

PutRecord(parts) ==
    IF parts.ok THEN [parts EXCEPT !.value = <<"put", parts.value[1], parts.value[2]>>]
    ELSE Failed

BatchRecord(tag, input) ==
    CASE tag = kTypeValue -> PutRecord(All(input, LAMBDA i, r : GetLengthPrefixedSlice(r), 2))
      [] tag = kTypeDeletion -> DeleteRecord(GetLengthPrefixedSlice(input))
      [] OTHER -> Failed

\* The handler has been given the records before the first bad one.
RECURSIVE IterateFrom(_, _, _)
IterateFrom(input, given, count) ==
    IF input = <<>> THEN [ok |-> Len(given) = count, given |-> given]
    ELSE LET r == BatchRecord(Head(input), Tail(input))
         IN IF r.ok THEN IterateFrom(r.rest, Append(given, r.value), count)
            ELSE [ok |-> FALSE, given |-> given]

Iterate(b) ==
    IF Len(b) < kHeader THEN [ok |-> FALSE, given |-> <<>>]
    ELSE IterateFrom(SubSeq(b, kHeader + 1, Len(b)), <<>>, Count(b))

-----------------------------------------------------------------------------
(* db/version_edit.cc.  A field that is not set is absent from the edit.   *)

kTag == [comparator |-> 1, log_number |-> 2, next_file_number |-> 3,
         last_sequence |-> 4, compact_pointers |-> 5, deleted_files |-> 6,
         new_files |-> 7, prev_log_number |-> 9]

NoEdit == [comparator |-> {}, log_number |-> {}, prev_log_number |-> {},
           next_file_number |-> {}, last_sequence |-> {},
           compact_pointers |-> <<>>, deleted_files |-> {}, new_files |-> <<>>]

NumberFields == <<"log_number", "prev_log_number", "next_file_number",
                  "last_sequence">>

EncodeNumber(e, name) ==
    IF e[name] = {} THEN <<>>
    ELSE EncodeVarint(kTag[name]) \o EncodeVarint(CHOOSE v \in e[name] : TRUE)

EncodeCompactPointer(p) ==
    EncodeVarint(kTag.compact_pointers) \o EncodeVarint(p[1])
      \o PutLengthPrefixedSlice(p[2])

EncodeDeletedFile(d) ==
    EncodeVarint(kTag.deleted_files) \o EncodeVarint(d[1]) \o EncodeVarint(d[2])

EncodeNewFile(f) ==
    EncodeVarint(kTag.new_files) \o EncodeVarint(f[1]) \o EncodeVarint(f[2])
      \o EncodeVarint(f[3]) \o PutLengthPrefixedSlice(f[4])
      \o PutLengthPrefixedSlice(f[5])

\* deleted_files_ is a std::set: its order is that of the pairs.
DeletedInOrder(e) ==
    SetToSortSeq(e.deleted_files,
                 LAMBDA a, b : a[1] < b[1] \/ (a[1] = b[1] /\ a[2] < b[2]))

EncodeAll(Encode(_), s) == FlattenSeq([i \in DOMAIN s |-> Encode(s[i])])

EncodeTo(e) ==
    (IF e.comparator = {} THEN <<>>
     ELSE EncodeVarint(kTag.comparator)
            \o PutLengthPrefixedSlice(CHOOSE v \in e.comparator : TRUE))
      \o EncodeAll(LAMBDA n : EncodeNumber(e, n), NumberFields)
      \o EncodeAll(EncodeCompactPointer, e.compact_pointers)
      \o EncodeAll(EncodeDeletedFile, DeletedInOrder(e))
      \o EncodeAll(EncodeNewFile, e.new_files)

LevelOf(v) == IF v.ok /\ v.value < kNumLevels THEN v ELSE Failed
GetLevel(input) == LevelOf(GetVarint(input, Varint32Bytes))

\* InternalKey::DecodeFrom refuses an empty key.
InternalKeyOf(s) == IF s.ok /\ s.value # <<>> THEN s ELSE Failed
GetInternalKey(input) == InternalKeyOf(GetLengthPrefixedSlice(input))

GetNumber(input) == GetVarint(input, Varint64Bytes)

\* The decoders of a tag's field, and what the field does to the edit.
FieldParts(tag, input) ==
    CASE tag = kTag.comparator ->
           All(input, LAMBDA i, r : GetLengthPrefixedSlice(r), 1)
      [] \E n \in ToSet(NumberFields) : tag = kTag[n] ->
           All(input, LAMBDA i, r : GetNumber(r), 1)
      [] tag = kTag.compact_pointers ->
           All(input, LAMBDA i, r : IF i = 1 THEN GetLevel(r)
                                    ELSE GetInternalKey(r), 2)
      [] tag = kTag.deleted_files ->
           All(input, LAMBDA i, r : IF i = 1 THEN GetLevel(r) ELSE GetNumber(r), 2)
      [] tag = kTag.new_files ->
           All(input, LAMBDA i, r : CASE i = 1 -> GetLevel(r)
                                      [] i \in 2..3 -> GetNumber(r)
                                      [] i \in 4..5 -> GetInternalKey(r), 5)
      [] OTHER -> Failed

ApplyField(e, tag, parts) ==
    LET name == CHOOSE n \in DOMAIN kTag : kTag[n] = tag
    IN CASE name \in {"compact_pointers", "new_files"} ->
              [e EXCEPT ![name] = Append(@, parts)]
         [] name = "deleted_files" -> [e EXCEPT ![name] = @ \cup {parts}]
         [] OTHER -> [e EXCEPT ![name] = {parts[1]}]

RECURSIVE DecodeFields(_, _, _)
DecodeFields(input, tag, e) ==
    IF ~tag.ok THEN [ok |-> input = <<>>, edit |-> e]
    ELSE LET parts == FieldParts(tag.value, tag.rest)
         IN IF ~parts.ok THEN [ok |-> FALSE, edit |-> e]
            ELSE DecodeFields(parts.rest, GetVarint(parts.rest, Varint32Bytes),
                              ApplyField(e, tag.value, parts.value))

DecodeFrom(src) == DecodeFields(src, GetVarint(src, Varint32Bytes), NoEdit)

-----------------------------------------------------------------------------
(* table/format.cc: a footer is two handles, padding and a magic number.   *)

kMaxEncodedLength == 2 * Varint64Bytes
Magic == <<7, 1, 5, 3>>
kEncodedLength == 2 * kMaxEncodedLength + Len(Magic)

EncodeHandle(h) == EncodeVarint(h[1]) \o EncodeVarint(h[2])

EncodeFooter(f) ==
    LET handles == EncodeHandle(f[1]) \o EncodeHandle(f[2])
    IN [i \in 1..(2 * kMaxEncodedLength) |->
          IF i <= Len(handles) THEN handles[i] ELSE 0] \o Magic

FooterOf(input, n) ==
    IF \/ Len(input) < kEncodedLength
       \/ SubSeq(input, 2 * kMaxEncodedLength + 1, kEncodedLength) # Magic
       \/ ~n.ok
    THEN [ok |-> FALSE, footer |-> <<>>]
    ELSE [ok |-> TRUE, footer |-> <<<<n.value[1], n.value[2]>>,
                                    <<n.value[3], n.value[4]>>>>]

DecodeFooter(input) == FooterOf(input, All(input, LAMBDA i, r : GetNumber(r), 4))

-----------------------------------------------------------------------------
(* One of the three is built at a time.                                    *)

NoFooter == <<<<0, 0>>, <<0, 0>>>>

Init ==
    /\ rep = EmptyBatch /\ ops = <<>>
    /\ edit = NoEdit /\ fields = 0
    /\ footer = NoFooter

Put(k, v) ==
    /\ Len(ops) < MaxRecords /\ fields = 0 /\ footer = NoFooter
    /\ rep' = BatchPut(rep, k, v)
    /\ ops' = Append(ops, <<"put", k, v>>)
    /\ UNCHANGED <<edit, fields, footer>>

Delete(k) ==
    /\ Len(ops) < MaxRecords /\ fields = 0 /\ footer = NoFooter
    /\ rep' = BatchDelete(rep, k)
    /\ ops' = Append(ops, <<"delete", k>>)
    /\ UNCHANGED <<edit, fields, footer>>

\* BuildBatchGroup appends another writer's batch of one or two records.
AppendBatch(k, v) ==
    /\ Len(ops) + 1 < MaxRecords /\ fields = 0 /\ footer = NoFooter
    /\ rep' = BatchAppend(rep, BatchDelete(BatchPut(EmptyBatch, k, v), k))
    /\ ops' = ops \o <<<<"put", k, v>>, <<"delete", k>>>>
    /\ UNCHANGED <<edit, fields, footer>>

\* The setters of VersionEdit.
SetField(e) ==
    /\ fields < MaxFields /\ ops = <<>> /\ footer = NoFooter
    /\ edit' = e /\ fields' = fields + 1
    /\ UNCHANGED <<rep, ops, footer>>

Key == Slices \ {<<>>}
Level == 0..(kNumLevels - 1)

Setters ==
    \/ \E s \in Slices : SetField([edit EXCEPT !.comparator = {s}])
    \/ \E i \in DOMAIN NumberFields, v \in Numbers :
         SetField([edit EXCEPT ![NumberFields[i]] = {v}])
    \/ \E l \in Level, k \in Key :
         SetField([edit EXCEPT !.compact_pointers = Append(@, <<l, k>>)])
    \/ \E l \in Level, n \in Numbers :
         SetField([edit EXCEPT !.deleted_files = @ \cup {<<l, n>>}])
    \/ \E l \in Level, n \in Numbers, j, k \in Key :
         SetField([edit EXCEPT !.new_files = Append(@, <<l, n, n, j, k>>)])

\* Footer::set_metaindex_handle and set_index_handle.
SetHandles(f) ==
    /\ fields = 0 /\ ops = <<>> /\ footer = NoFooter
    /\ footer' = f
    /\ UNCHANGED <<rep, ops, edit, fields>>

Next ==
    \/ \E k, v \in Slices : Put(k, v)
    \/ \E k \in Slices : Delete(k)
    \/ \E k, v \in Slices : AppendBatch(k, v)
    \/ Setters
    \/ \E f \in (Numbers \X Numbers) \X (Numbers \X Numbers) : SetHandles(f)

Spec == Init /\ [][Next]_vars

-----------------------------------------------------------------------------
\* What was encoded is what is decoded: the records of a batch in their order,
\* all fields of a version edit, and the handles of a footer behind their
\* padding, for every combination of lengths and numbers.
RoundTrip ==
    /\ Iterate(rep) = [ok |-> TRUE, given |-> ops]
    /\ DecodeFrom(EncodeTo(edit)) = [ok |-> TRUE, edit |-> edit]
    /\ DecodeFooter(EncodeFooter(footer)) = [ok |-> TRUE, footer |-> footer]

\* A batch that was cut off, at whichever byte, is refused by Iterate, and the
\* handler (the memtable inserter) has seen nothing but whole records from the
\* front of the batch; a version edit that was cut off is refused, or holds a
\* part of the edit's fields and none that was never set.
CutsAreNoticed ==
    /\ \A n \in 0..(Len(rep) - 1) :
         LET cut == Iterate(SubSeq(rep, 1, n))
         IN ~cut.ok /\ IsPrefix(cut.given, ops)
    /\ LET bytes == EncodeTo(edit)
       IN \A n \in 0..(Len(bytes) - 1) :
            LET cut == DecodeFrom(SubSeq(bytes, 1, n))
            IN /\ IsPrefix(cut.edit.new_files, edit.new_files)
               /\ IsPrefix(cut.edit.compact_pointers, edit.compact_pointers)
               /\ cut.edit.deleted_files \subseteq edit.deleted_files
               /\ \A i \in DOMAIN NumberFields :
                    cut.edit[NumberFields[i]] \subseteq edit[NumberFields[i]]
=============================================================================
