------------------------------ MODULE LsmTree ------------------------------
(***************************************************************************)
(* The log-structured merge tree: memtables, the levels of the current     *)
(* version, lookups over them (Version::Get), where a flushed memtable     *)
(* goes, which files a compaction takes (PickCompaction, CompactRange,     *)
(* SetupOtherInputs), which entries it drops (DoCompactionWork) and the    *)
(* snapshots that must keep their view.                                    *)
(*                                                                         *)
(* User keys are numbers; the value of a Put is its sequence number; the   *)
(* size of a file is the number of its entries.  The background thread     *)
(* works on a version that nothing changes, so a compaction is two         *)
(* actions, the choice of its inputs and the installation of its outputs,  *)
(* with anything that needs the mutex in between.  Errors are the subject  *)
(* of Durability and WriteQueue.                                           *)
(***************************************************************************)
EXTENDS Integers, Sequences, FiniteSets, SequencesExt, FiniteSetsExt

CONSTANTS
  Keys,               \* user keys, natural numbers
  NumLevels,          \* config::kNumLevels
  MaxMemCompactLevel, \* config::kMaxMemCompactLevel
  L0Trigger,          \* config::kL0_CompactionTrigger
  MaxBytes,           \* [1 .. NumLevels - 2 -> MaxBytesForLevel]
  TargetFileSize,     \* options_->max_file_size
  GrandParentBytes,   \* MaxGrandParentOverlapBytes
  ExpandedBytes,      \* ExpandedCompactionByteSizeLimit
  AllowedSeeks,       \* reads before a file is compacted
  WriteBuffer,        \* entries in a memtable that is full, write_buffer_size
  ManualRanges,       \* <<begin, end>> of manual compactions
  MaxSeq,             \* bound on the number of writes
  MaxSnapshots,       \* bound on the number of snapshots at a time
  MaxReads,           \* bound on the number of reads that are charged
  None                \* no key, file, entry or value

Levels == 0 .. NumLevels - 1
kTypeDeletion == 0
kTypeValue == 1

VARIABLES
  mem, imm,   \* sets of entries; imm is empty if there is none
  last,       \* LastSequence()
  files,      \* current_->files_: for each level a sequence of files
  toCompact,  \* file_to_compact_ and its level, or None
  pointer,    \* compact_pointer_, an internal key or None
  nextFile,   \* next_file_number_
  snapshots,  \* snapshots_, oldest first
  job,        \* the compaction in progress, or None
  reads,      \* how many reads were charged
  history     \* all entries ever written; nothing reads it

vars == <<mem, imm, last, files, toCompact, pointer, nextFile, snapshots, job, reads,
          history>>

Init ==
  /\ mem = {} /\ imm = {} /\ last = 0
  /\ files = [l \in Levels |-> <<>>] /\ toCompact = None
  /\ pointer = [l \in Levels |-> None] /\ nextFile = 2
  /\ snapshots = <<>> /\ job = None /\ reads = 0 /\ history = {}
-----------------------------------------------------------------------------
(* Internal keys (db/dbformat.cc): by user key, then the newest first. *)

Pack(e) == 2 * e.seq + e.type
Less(a, b) == a.key < b.key \/ (a.key = b.key /\ Pack(a) > Pack(b))
LookupKey(k, s) == [key |-> k, seq |-> s, type |-> kTypeValue]

\* The elements of a set in the strict total order lt.
SortedBy(S, lt(_, _)) ==
  [i \in 1 .. Cardinality(S) |->
     CHOOSE x \in S : Cardinality({y \in S : lt(y, x)}) = i - 1]
Sorted(S) == SortedBy(S, Less)

\* The first entry of a sorted sequence that is not below the target.
Seek(es, target) ==
  LET at == {i \in DOMAIN es : ~Less(es[i], target)}
  IN IF at = {} THEN None ELSE es[Min(at)]

Found(e, k) == e # None /\ e.key = k
Value(e) == IF e.type = kTypeValue THEN e.seq ELSE None
-----------------------------------------------------------------------------
(* Files and versions *)

File(number, es) == [number |-> number, es |-> es, seeks |-> AllowedSeeks,
                     smallest |-> es[1], largest |-> es[Len(es)]]
Size(f) == Len(f.es)
TotalFileSize(fs) == FoldLeft(LAMBDA n, f : n + Size(f), 0, fs)
Numbers(fs) == {f.number : f \in Range(fs)}

\* FindFile: binary search for the first file whose largest key is >= key.
FindFile(fs, key) ==
  LET search[l \in 0 .. Len(fs), r \in 0 .. Len(fs)] ==
        LET mid == (l + r) \div 2
        IN IF l >= r THEN r
           ELSE IF Less(fs[mid + 1].largest, key) THEN search[mid + 1, r]
           ELSE search[l, mid]
  IN search[0, Len(fs)] + 1

Overlaps(f, begin, end) == f.largest.key >= begin /\ f.smallest.key <= end

\* SomeFileOverlapsRange
OverlapInLevel(l, begin, end) ==
  IF l = 0 THEN \E f \in Range(files[0]) : Overlaps(f, begin, end)
  ELSE LET i == FindFile(files[l], LookupKey(begin, MaxSeq + 1))
       IN i <= Len(files[l]) /\ files[l][i].smallest.key <= end

\* In level 0 a file that widens the range restarts the search.
RECURSIVE GetOverlappingInputs(_, _, _)
GetOverlappingInputs(l, begin, end) ==
  LET in == SelectSeq(files[l], LAMBDA f : Overlaps(f, begin, end))
      lo == Min({begin} \cup {f.smallest.key : f \in Range(in)})
      hi == Max({end} \cup {f.largest.key : f \in Range(in)})
  IN IF l > 0 \/ (lo = begin /\ hi = end) THEN in
     ELSE GetOverlappingInputs(l, lo, hi)

SmallestOf(fs) == CHOOSE e \in {f.smallest : f \in Range(fs)} :
                    \A f \in Range(fs) : ~Less(f.smallest, e)
LargestOf(fs) == CHOOSE e \in {f.largest : f \in Range(fs)} :
                   \A f \in Range(fs) : ~Less(e, f.largest)

(* AddBoundaryInputs: files that begin with older entries of the user key  *)
(* with which the files in fs end.                                         *)
RECURSIVE AddBoundaryFrom(_, _, _)
AddBoundaryFrom(level, fs, largest) ==
  LET next == {f \in Range(level) : Less(largest, f.smallest) /\ f.smallest.key = largest.key}
  IN IF next = {} THEN fs
     ELSE LET f == CHOOSE x \in next : \A y \in next : ~Less(y.smallest, x.smallest)
          IN AddBoundaryFrom(level, Append(fs, f), f.largest)
AddBoundaryInputs(level, fs) ==
  IF fs = <<>> THEN fs ELSE AddBoundaryFrom(level, fs, LargestOf(fs))

(* VersionSet::Builder: the files of a level without the deleted and with  *)
(* the added ones, by smallest key and then by number.                     *)
BySmallestKey(f, g) == Less(f.smallest, g.smallest)
                       \/ (f.smallest = g.smallest /\ f.number < g.number)
Apply(level, deleted, added) ==
  SortedBy({f \in Range(level) : f.number \notin deleted} \cup added, BySmallestKey)

(* Finalize: the level with the highest score and whether that is at least *)
(* 1, the first of them if there are several.                              *)
Score(l) == IF l = 0 THEN <<Len(files[0]), L0Trigger>>
            ELSE <<TotalFileSize(files[l]), MaxBytes[l]>>
CompactionLevel ==
  CHOOSE l \in 0 .. NumLevels - 2 : \A m \in 0 .. NumLevels - 2 :
    LET a == Score(l)[1] * Score(m)[2]
        b == Score(m)[1] * Score(l)[2]
    IN a > b \/ (a = b /\ l <= m)
SizeCompaction == Score(CompactionLevel)[1] >= Score(CompactionLevel)[2]
-----------------------------------------------------------------------------
(* Reads *)

NewestFirst(f, g) == f.number > g.number

\* The files that ForEachOverlapping visits for a user key, with levels.
Overlapping(k, s) ==
  LET zero == SortedBy({f \in Range(files[0]) : Overlaps(f, k, k)}, NewestFirst)
      deeper(l) ==
        LET i == FindFile(files[l], LookupKey(k, s))
        IN IF i <= Len(files[l]) /\ files[l][i].smallest.key <= k
           THEN << <<l, files[l][i]>> >> ELSE <<>>
  IN [i \in DOMAIN zero |-> <<0, zero[i]>>]
       \o FlattenSeq([l \in 1 .. NumLevels - 1 |-> deeper(l)])

\* How many of them Version::Get reads: up to the first that has the key.
FilesRead(k, s) ==
  LET fs == Overlapping(k, s)
      hit == {i \in DOMAIN fs : Found(Seek(fs[i][2].es, LookupKey(k, s)), k)}
  IN SubSeq(fs, 1, IF hit = {} THEN Len(fs) ELSE Min(hit))

(* DBImpl::Get: mem_, then imm_, then the files of the version.            *)
Get(k, s) ==
  LET inMem == Seek(Sorted(mem), LookupKey(k, s))
      inImm == Seek(Sorted(imm), LookupKey(k, s))
      fs == FilesRead(k, s)
      inFile == IF fs = <<>> THEN None ELSE Seek(fs[Len(fs)][2].es, LookupKey(k, s))
  IN IF Found(inMem, k) THEN Value(inMem)
     ELSE IF Found(inImm, k) THEN Value(inImm)
     ELSE IF Found(inFile, k) THEN Value(inFile) ELSE None

(* UpdateStats: the first of several files that a read looked at is        *)
(* charged, and is to be compacted when it has no seeks left.              *)
UpdateStats(fs) ==
  /\ Len(fs) > 1 /\ reads < MaxReads
  /\ LET l == fs[1][1]
         f == fs[1][2]
         g == [f EXCEPT !.seeks = IF @ > 0 THEN @ - 1 ELSE 0]
     IN /\ files' = [files EXCEPT ![l] = [i \in DOMAIN @ |-> IF @[i] = f THEN g ELSE @[i]]]
        /\ toCompact' = IF g.seeks = 0 /\ toCompact = None THEN <<l, g>> ELSE toCompact
  /\ reads' = reads + 1
  /\ UNCHANGED <<mem, imm, last, pointer, nextFile, snapshots, job, history>>

\* A Get that the memtables cannot answer ...
ChargeGet(k) ==
  /\ \A e \in mem \cup imm : e.key # k
  /\ UpdateStats(FilesRead(k, last))

\* ... and a key that an iterator samples (RecordReadSample).
RecordReadSample(k) == UpdateStats(Overlapping(k, last))
-----------------------------------------------------------------------------
(* Writes and snapshots *)

(* A write waits in MakeRoomForWrite while mem_ is full and imm_ is not    *)
(* flushed.                                                                *)
Write(k, type) ==
  /\ last < MaxSeq /\ Cardinality(mem) < WriteBuffer
  /\ last' = last + 1
  /\ LET e == [key |-> k, seq |-> last', type |-> type]
     IN mem' = mem \cup {e} /\ history' = history \cup {e}
  /\ UNCHANGED <<imm, files, toCompact, pointer, nextFile, snapshots, job, reads>>

GetSnapshot ==
  /\ Len(snapshots) < MaxSnapshots
  /\ snapshots' = Append(snapshots, last)
  /\ UNCHANGED <<mem, imm, last, files, toCompact, pointer, nextFile, job, reads, history>>

ReleaseSnapshot(i) ==
  /\ i \in DOMAIN snapshots
  /\ snapshots' = RemoveAt(snapshots, i)
  /\ UNCHANGED <<mem, imm, last, files, toCompact, pointer, nextFile, job, reads, history>>

SwitchMemTable ==
  /\ imm = {} /\ Cardinality(mem) >= WriteBuffer
  /\ imm' = mem /\ mem' = {}
  /\ UNCHANGED <<last, files, toCompact, pointer, nextFile, snapshots, job, reads, history>>
-----------------------------------------------------------------------------
(* Flushes *)

(* PickLevelForMemTableOutput: down to a level that overlaps, or below     *)
(* which too much does.                                                    *)
PickLevelForMemTableOutput(lo, hi) ==
  LET stops(l) ==
        \/ OverlapInLevel(l + 1, lo, hi)
        \/ /\ l + 2 < NumLevels
           /\ TotalFileSize(GetOverlappingInputs(l + 2, lo, hi)) > GrandParentBytes
      stop == {l \in 0 .. MaxMemCompactLevel - 1 : stops(l)} \cup {MaxMemCompactLevel}
  IN IF OverlapInLevel(0, lo, hi) THEN 0 ELSE Min(stop)

(* CompactMemTable, also in the middle of a compaction.                    *)
CompactMemTable ==
  /\ imm # {}
  /\ LET f == File(nextFile, Sorted(imm))
         l == PickLevelForMemTableOutput(f.smallest.key, f.largest.key)
     IN files' = [files EXCEPT ![l] = Apply(@, {}, {f})]
  /\ imm' = {} /\ toCompact' = None
  /\ nextFile' = nextFile + 1
  /\ UNCHANGED <<mem, last, pointer, snapshots, job, reads, history>>
-----------------------------------------------------------------------------
(* Compactions *)

Inputs(l, in0, in1) ==
  [level |-> l, in0 |-> in0, in1 |-> in1, oldest |-> 0, base |-> files,
   grand |-> IF l + 2 >= NumLevels THEN <<>>
             ELSE LET all == in0 \o in1
                  IN GetOverlappingInputs(l + 2, SmallestOf(all).key, LargestOf(all).key)]

\* The files of a level that the range of fs overlaps, with their boundary files.
Covering(l, fs) ==
  AddBoundaryInputs(files[l], GetOverlappingInputs(l, SmallestOf(fs).key, LargestOf(fs).key))

\* More files of this level are taken if that takes no more of the next.
Expand(l, in0, in1, wide) ==
  LET below == Covering(l + 1, wide)
  IN IF /\ in1 # <<>> /\ Len(wide) > Len(in0)
        /\ TotalFileSize(in1) + TotalFileSize(wide) < ExpandedBytes
        /\ Len(below) = Len(in1)
     THEN Inputs(l, wide, below) ELSE Inputs(l, in0, in1)

WithNextLevel(l, in0, in1) == Expand(l, in0, in1, Covering(l, in0 \o in1))

Completed(l, in0) == WithNextLevel(l, in0, Covering(l + 1, in0))

SetupOtherInputs(l, picked) == Completed(l, AddBoundaryInputs(files[l], picked))

\* PickCompaction prefers a level that is too big to a file read too often.
PickedFile(l) ==
  LET after == {i \in DOMAIN files[l] :
                  pointer[l] = None \/ Less(pointer[l], files[l][i].largest)}
  IN <<l, files[l][IF after = {} THEN 1 ELSE Min(after)]>>

CompactionOf(l, f) ==
  SetupOtherInputs(l, IF l > 0 THEN <<f>>
                      ELSE GetOverlappingInputs(0, f.smallest.key, f.largest.key))

PickCompaction ==
  LET picked == IF SizeCompaction THEN PickedFile(CompactionLevel) ELSE toCompact
  IN CompactionOf(picked[1], picked[2])

\* CompactRange cuts the inputs of a deeper level when they are big enough.
CompactRangeInputs(l, begin, end) ==
  LET in == GetOverlappingInputs(l, begin, end)
      big == {i \in DOMAIN in : TotalFileSize(SubSeq(in, 1, i)) >= TargetFileSize}
  IN IF l = 0 \/ big = {} THEN in ELSE SubSeq(in, 1, Min(big))

IsTrivialMove(c) ==
  Len(c.in0) = 1 /\ c.in1 = <<>> /\ TotalFileSize(c.grand) <= GrandParentBytes

\* DoCompactionWork looks at the snapshots before it releases the mutex.
LatestSnapshot == last
OldestSnapshot == IF snapshots = <<>> THEN last ELSE Head(snapshots)

SetPointer(c) == pointer' = [pointer EXCEPT ![c.level] = LargestOf(c.in0)]

BeginCompaction ==
  /\ job = None /\ imm = {}
  /\ SizeCompaction \/ toCompact # None
  /\ \E c \in {PickCompaction} :
       /\ SetPointer(c)
       /\ IF IsTrivialMove(c)
          THEN LET f == c.in0[1]
               IN /\ files' = [files EXCEPT
                        ![c.level] = Apply(@, {f.number}, {}),
                        ![c.level + 1] = Apply(@, {}, {[f EXCEPT !.seeks = AllowedSeeks]})]
                  /\ toCompact' = None
                  /\ UNCHANGED job
          ELSE /\ job' = [c EXCEPT !.oldest = OldestSnapshot]
               /\ UNCHANGED <<files, toCompact>>
  /\ UNCHANGED <<mem, imm, last, nextFile, snapshots, reads, history>>

BeginManualCompaction(l, range) ==
  /\ job = None /\ imm = {}
  /\ CompactRangeInputs(l, range[1], range[2]) # <<>>
  /\ \E c \in {SetupOtherInputs(l, CompactRangeInputs(l, range[1], range[2]))} :
       /\ SetPointer(c)
       /\ job' = [c EXCEPT !.oldest = OldestSnapshot]
  /\ UNCHANGED <<mem, imm, last, files, toCompact, nextFile, snapshots, reads, history>>

\* IsBaseLevelForKey: level_ptrs_ only move forward, as the keys do.
Advance(fs, p, k) == Min({i \in p .. Len(fs) : fs[i].largest.key >= k} \cup {Len(fs) + 1})
IsBaseLevelForKey(base, ptrs, k) ==
  \A l \in DOMAIN ptrs : ptrs[l] > Len(base[l]) \/ k < base[l][ptrs[l]].smallest.key

(* One round of the loop: w holds current_user_key, last_sequence_for_key, *)
(* level_ptrs_, the state of ShouldStopBefore, the table being built and   *)
(* the finished ones.                                                      *)
Work0(c) ==
  [key |-> None, seq |-> MaxSeq + 1, ptrs |-> [l \in c.level + 2 .. NumLevels - 1 |-> 1],
   grand |-> 1, seen |-> FALSE, bytes |-> 0, table |-> <<>>, done |-> <<>>]

ShouldStopBefore(c, w, e) ==
  LET g == Min({i \in w.grand .. Len(c.grand) : ~Less(c.grand[i].largest, e)}
               \cup {Len(c.grand) + 1})
      bytes == w.bytes + (IF w.seen THEN TotalFileSize(SubSeq(c.grand, w.grand, g - 1)) ELSE 0)
      stop == bytes > GrandParentBytes
  IN [w EXCEPT !.grand = g, !.seen = TRUE, !.bytes = IF stop THEN 0 ELSE bytes,
               !.table = IF stop THEN <<>> ELSE @,
               !.done = IF stop /\ w.table # <<>> THEN Append(@, w.table) ELSE @]

Drop(c, w, e, ptrs) ==
  LET newer == IF w.key = e.key THEN w.seq ELSE MaxSeq + 1
  IN \/ newer <= c.oldest
     \/ /\ e.type = kTypeDeletion /\ e.seq <= c.oldest
        /\ IsBaseLevelForKey(c.base, ptrs, e.key)

AddEntry(c, w, e, ptrs) ==
  LET table == IF Drop(c, w, e, ptrs) THEN w.table ELSE Append(w.table, e)
      full == Len(table) >= TargetFileSize /\ table # w.table
  IN [w EXCEPT !.key = e.key, !.seq = e.seq, !.ptrs = ptrs,
               !.table = IF full THEN <<>> ELSE table,
               !.done = IF full THEN Append(@, table) ELSE @]

CompactEntry(c, before, e) ==
  LET w == ShouldStopBefore(c, before, e)
  IN AddEntry(c, w, e, [l \in DOMAIN w.ptrs |-> Advance(c.base[l], w.ptrs[l], e.key)])

Finished(w) == IF w.table = <<>> THEN w.done ELSE Append(w.done, w.table)

Outputs(c) ==
  Finished(FoldLeft(LAMBDA x, e : CompactEntry(c, x, e), Work0(c),
                    Sorted(UNION {Range(f.es) : f \in Range(c.in0 \o c.in1)})))

\* The numbers that disappear from the level and from the next one.
AddFewDeletions(c) == <<Numbers(c.in0), {}>>
AddInputDeletions(c) == <<Numbers(c.in0), Numbers(c.in1)>>

\* The work of a compaction, InstallCompactionResults and LogAndApply.
InstallCompactionResults ==
  /\ job # None
  /\ \E out \in {Outputs(job)} :
       LET l == job.level
       IN /\ files' = [files EXCEPT
                 ![l] = Apply(@, AddInputDeletions(job)[1], {}),
                 ![l + 1] = Apply(@, AddInputDeletions(job)[2],
                                  {File(nextFile + i - 1, out[i]) : i \in DOMAIN out})]
          /\ nextFile' = nextFile + Len(out)
  /\ job' = None /\ toCompact' = None
  /\ UNCHANGED <<mem, imm, last, pointer, snapshots, reads, history>>
-----------------------------------------------------------------------------
Next ==
  \/ \E k \in Keys : Write(k, kTypeValue) \/ Write(k, kTypeDeletion)
                     \/ ChargeGet(k) \/ RecordReadSample(k)
  \/ GetSnapshot \/ \E i \in 1 .. MaxSnapshots : ReleaseSnapshot(i)
  \/ SwitchMemTable \/ CompactMemTable
  \/ BeginCompaction \/ InstallCompactionResults
  \/ \E l \in 0 .. NumLevels - 2, r \in ManualRanges : BeginManualCompaction(l, r)

Spec == Init /\ [][Next]_vars
-----------------------------------------------------------------------------
(* The files of a level above 0 are sorted and do not overlap, whatever    *)
(* flush, move or compaction put them there (the assertion in MaybeAddFile *)
(* of VersionSet::Builder: "Must not overlap").                            *)
LevelsDisjoint ==
  \A l \in 1 .. NumLevels - 1 : \A i \in 1 .. Len(files[l]) - 1 :
    Less(files[l][i].largest, files[l][i + 1].smallest)

(* Readers of the latest state and of every snapshot see what they would   *)
(* see in a plain map: the newest write of the key that is not after the   *)
(* snapshot, wherever flushes, moves and compactions have put it and       *)
(* whatever they have dropped.                                             *)
Visible(k, s) ==
  LET ws == {e \in history : e.key = k /\ e.seq <= s}
  IN IF ws = {} THEN None ELSE Value(CHOOSE e \in ws : \A x \in ws : x.seq <= e.seq)

ReadsAgree ==
  \A s \in Range(snapshots) \cup {last} : \A k \in Keys : Get(k, s) = Visible(k, s)
=============================================================================
