------------------------------ MODULE LogFiles ------------------------------
(***************************************************************************)
(* Log files: log::Writer (db/log_writer.cc) on a PosixWritableFile        *)
(* (util/env_posix.cc), and log::Reader (db/log_reader.cc) on what a crash *)
(* or a damaged disk left of it.                                           *)
(*                                                                         *)
(* A file is a sequence of bytes that know where they come from: byte i of *)
(* the header of a physical record, with its type and payload, which stand *)
(* for type, length and checksum; byte j of the payload of record r; or a  *)
(* zero of a trailer.                                                      *)
(***************************************************************************)
EXTENDS Integers, Sequences, FiniteSets, SequencesExt, FiniteSetsExt

CONSTANTS
  kBlockSize, kHeaderSize,
  kWritableFileBufferSize,
  Lengths,      \* payload lengths of records
  MaxRecords    \* bound on the number of records

kFullType == 1
kFirstType == 2
kMiddleType == 3
kLastType == 4
kEof == 5
kBadRecord == 6

VARIABLES
  log,      \* the number and the payload of the records that were added
  file,     \* PosixWritableFile: what the kernel has, and buf_
  synced,   \* how many bytes fdatasync has made durable
  offset    \* block_offset_

vars == <<log, file, synced, offset>>

Zero == <<"zero">>
Damaged == <<"damaged">>
Header(type, payload) == [i \in 1 .. kHeaderSize |-> <<"header", i, type, payload>>]
Payload(r, n) == [j \in 1 .. n |-> <<"data", r, j>>]
-----------------------------------------------------------------------------
(* PosixWritableFile *)

FlushBuffer(f) == [os |-> f.os \o f.buf, buf |-> <<>>]

\* Faulty variant: data too large for the buffer overtakes what is in it.
FileAppendUnflushed(f, data) ==
  IF Len(data) < kWritableFileBufferSize THEN [f EXCEPT !.buf = @ \o data]
  ELSE [f EXCEPT !.os = @ \o data]

FileAppend(f, data) ==
  LET room == kWritableFileBufferSize - Len(f.buf)
      copy == Min({room, Len(data)})
      rest == SubSeq(data, copy + 1, Len(data))
      full == FlushBuffer([f EXCEPT !.buf = @ \o SubSeq(data, 1, copy)])
  IN IF rest = <<>> THEN [f EXCEPT !.buf = @ \o data]
     ELSE IF Len(rest) < kWritableFileBufferSize THEN [full EXCEPT !.buf = rest]
     ELSE [full EXCEPT !.os = @ \o rest]
-----------------------------------------------------------------------------
(* log::Writer *)

EmitPhysicalRecord(f, type, payload) ==
  FlushBuffer(FileAppend(FileAppend(f, Header(type, payload)), payload))

NeedsNewBlock(leftover) == leftover < kHeaderSize

RecordType(begin, end) ==
  IF begin THEN IF end THEN kFullType ELSE kFirstType
  ELSE IF end THEN kLastType ELSE kMiddleType

\* AddRecord for what is left of a payload, at least one fragment.
RECURSIVE Fragments(_, _, _, _)
Fragments(f, at, left, begin) ==
  LET leftover == kBlockSize - at
      new == NeedsNewBlock(leftover)
      f1 == IF new /\ leftover > 0 THEN FileAppend(f, [i \in 1 .. leftover |-> Zero]) ELSE f
      at1 == IF new THEN 0 ELSE at
      n == Min({Len(left), kBlockSize - at1 - kHeaderSize})
      end == n = Len(left)
      f2 == EmitPhysicalRecord(f1, RecordType(begin, end), SubSeq(left, 1, n))
      at2 == at1 + kHeaderSize + n
  IN IF end THEN [f |-> f2, at |-> at2]
     ELSE Fragments(f2, at2, SubSeq(left, n + 1, Len(left)), FALSE)

AddRecord(n) ==
  /\ Len(log) < MaxRecords
  /\ LET p == Payload(Len(log) + 1, n)
         s == Fragments(file, offset, p, TRUE)
     IN log' = Append(log, p) /\ file' = s.f /\ offset' = s.at
  /\ UNCHANGED synced

\* Sync flushes buf_ first.
Sync ==
  /\ file' = FlushBuffer(file)
  /\ synced' = Len(file'.os)
  /\ UNCHANGED <<log, offset>>

Init == log = <<>> /\ file = [os |-> <<>>, buf |-> <<>>] /\ synced = 0 /\ offset = 0
Next == Sync \/ \E n \in Lengths : AddRecord(n)
Spec == Init /\ [][Next]_vars
-----------------------------------------------------------------------------
(* log::Reader.  Its state: the bytes, buffer_, how many bytes were read   *)
(* (end_of_buffer_offset_), eof_, initial_offset_, resyncing_, the record  *)
(* in progress and the reported drops.                                     *)

\* No record begins in the last kHeaderSize - 1 bytes of a block (6 in the
\* code).
SkipToInitialBlock(o) ==
  LET in == o % kBlockSize
  IN (o - in) + (IF in > kBlockSize - (kHeaderSize - 1) THEN kBlockSize ELSE 0)

Reader(bytes, o) ==
  [bytes |-> bytes, buf |-> <<>>, end |-> SkipToInitialBlock(o), eof |-> FALSE,
   from |-> o, resync |-> o > 0, type |-> 0, frag |-> <<>>, drops |-> 0]

Returns(r, type, frag) == [r EXCEPT !.type = type, !.frag = frag]
Drops(r) == [r EXCEPT !.drops = @ + 1, !.buf = <<>>]

\* Whether the buffer begins with a whole header.
HasHeader(r) ==
  LET h == r.buf[1]
  IN h[1] = "header" /\ SubSeq(r.buf, 1, kHeaderSize) = Header(h[3], h[4])
AllZero(r) == \A i \in 1 .. kHeaderSize : r.buf[i] = Zero
TooLong(r) == HasHeader(r) /\ kHeaderSize + Len(r.buf[1][4]) > Len(r.buf)
TrustChecksum(r) == HasHeader(r)
ChecksumOK(r) ==
  HasHeader(r) /\ LET p == r.buf[1][4] IN SubSeq(r.buf, kHeaderSize + 1, kHeaderSize + Len(p)) = p

RECURSIVE ReadPhysicalRecord(_)
ReadPhysicalRecord(r) ==
  IF Len(r.buf) < kHeaderSize
  THEN IF r.eof THEN Returns([r EXCEPT !.buf = <<>>], kEof, <<>>)
       ELSE LET to == Min({Len(r.bytes), r.end + kBlockSize})
                got == SubSeq(r.bytes, r.end + 1, to)
            IN ReadPhysicalRecord([r EXCEPT !.buf = got, !.end = @ + Len(got),
                                            !.eof = Len(got) < kBlockSize])
  ELSE IF TooLong(r)
  THEN IF r.eof THEN Returns([r EXCEPT !.buf = <<>>], kEof, <<>>)
       ELSE Returns(Drops(r), kBadRecord, <<>>)
  ELSE IF AllZero(r) THEN Returns([r EXCEPT !.buf = <<>>], kBadRecord, <<>>)
  ELSE IF ~ChecksumOK(r) THEN Returns(Drops(r), kBadRecord, <<>>)
  ELSE LET h == r.buf[1]
           n == kHeaderSize + Len(h[4])
           rest == SubSeq(r.buf, n + 1, Len(r.buf))
       IN IF r.end - Len(rest) - n < r.from
          THEN Returns([r EXCEPT !.buf = rest], kBadRecord, <<>>)
          ELSE Returns([r EXCEPT !.buf = rest], h[3], SubSeq(r.buf, kHeaderSize + 1, n))

\* ReadRecord until the end of the file: the records and the reader.
RECURSIVE ReadRecords(_, _, _, _)
ReadRecords(r0, out, fragmented, scratch) ==
  LET r1 == ReadPhysicalRecord(r0)
      t == r1.type
      skip == r1.resync /\ t \in {kMiddleType, kLastType}
      r == [r1 EXCEPT !.resync = @ /\ t = kMiddleType]
      bad == [r EXCEPT !.drops = @ + 1]
      cut == IF fragmented /\ scratch # <<>> THEN bad ELSE r
  IN IF t = kEof THEN [out |-> out, drops |-> r.drops]
     ELSE IF skip THEN ReadRecords(r, out, fragmented, scratch)
     ELSE CASE t = kFullType -> ReadRecords(cut, Append(out, r.frag), FALSE, <<>>)
            [] t = kFirstType -> ReadRecords(cut, out, TRUE, r.frag)
            [] t = kMiddleType ->
                 IF fragmented THEN ReadRecords(r, out, TRUE, scratch \o r.frag)
                 ELSE ReadRecords(bad, out, FALSE, <<>>)
            [] t = kLastType ->
                 IF fragmented
                 THEN ReadRecords(r, Append(out, scratch \o r.frag), FALSE, <<>>)
                 ELSE ReadRecords(bad, out, FALSE, <<>>)
            [] t = kBadRecord ->
                 ReadRecords(IF fragmented THEN bad ELSE r, out, FALSE, <<>>)

Read(bytes, o) == ReadRecords(Reader(bytes, o), <<>>, FALSE, <<>>)
-----------------------------------------------------------------------------
(* A crash of the machine at any instant leaves a part of the file that    *)
(* holds at least what was synced.  The reader delivers the records that   *)
(* are complete in it, from the first one on and in order, and nothing     *)
(* else; it does not report the torn tail as a corruption.  A reader that  *)
(* starts at any offset inside the file delivers the last records of it.   *)
TornTailIsHarmless ==
  \A n \in synced .. Len(file.os) :
    \E got \in {Read(SubSeq(file.os, 1, n), 0)} :
       /\ IsPrefix(got.out, log) /\ got.drops = 0
       /\ n = Len(file.os) => got.out = log
       /\ IsSuffix(Read(file.os, n).out, log)

(* A damaged byte costs records, but the reader never delivers one that    *)
(* was not written, never twice and never out of order; what it lost       *)
(* before the last block it reports.                                       *)
DamageIsDetected ==
  \A n \in 1 .. Len(file.os) :
    \E got \in {Read([file.os EXCEPT ![n] = Damaged], 0)} :
       /\ \E kept \in SUBSET DOMAIN log :
            got.out = [i \in 1 .. Cardinality(kept) |-> log[SetToSortSeq(kept, <)[i]]]
       /\ (got.out # log /\ n <= Len(file.os) - kBlockSize) => got.drops > 0
=============================================================================
