------------------------------ MODULE MCStorage ------------------------------
(***************************************************************************)
(* The components that write and read the files of a database, each on its *)
(* own small instance: a behaviour is a behaviour of the one that `part'   *)
(* names, and the variables of the others keep the value Off.              *)
(***************************************************************************)
EXTENDS Integers, Sequences

CONSTANTS None, c1, c2

VARIABLES part

VARIABLES mem, imm, last, files, toCompact, pointer, nextFile, snapshots, job, lsmReads, history
\* Three flushes, also in the middle of a compaction ...
Lsm == INSTANCE LsmTree WITH
  reads <- lsmReads,
  Keys <- {1, 2}, NumLevels <- 3, MaxMemCompactLevel <- 2, L0Trigger <- 2, MaxBytes <- <<1>>,
  TargetFileSize <- 2, GrandParentBytes <- 1, ExpandedBytes <- 5, AllowedSeeks <- 1,
  WriteBuffer <- 1, ManualRanges <- {<<1, 2>>}, MaxSeq <- 3, MaxSnapshots <- 1, MaxReads <- 1

\* ... and two of bigger tables, so that a compaction has several inputs.
BigLsm == INSTANCE LsmTree WITH
  reads <- lsmReads,
  Keys <- {1, 2}, NumLevels <- 3, MaxMemCompactLevel <- 2, L0Trigger <- 2, MaxBytes <- <<1>>,
  TargetFileSize <- 2, GrandParentBytes <- 1, ExpandedBytes <- 5, AllowedSeeks <- 1,
  WriteBuffer <- 2, ManualRanges <- {<<1, 2>>}, MaxSeq <- 4, MaxSnapshots <- 1, MaxReads <- 1

VARIABLES log, file, synced, offset
Log == INSTANCE LogFiles WITH
  kBlockSize <- 8, kHeaderSize <- 3, kWritableFileBufferSize <- 4,
  Lengths <- (0 .. 7) \cup {11}, MaxRecords <- 3

VARIABLES it, at, store
Iter == INSTANCE Iterators WITH
  Keys <- {1, 2}, NumEntries <- 3, RestartIntervals <- {2}, BlockSizes <- {1, 3}

VARIABLES rep, ops, edit, fields, footer
Format == INSTANCE Formats WITH
  Slices <- {<<>>, <<1>>, <<6, 0, 3, 7, 2>>}, Numbers <- {0, 5, 70}, kNumLevels <- 2,
  MaxRecords <- 3, MaxFields <- 2

TableKeys == {<<0>>, <<0, 1>>, <<0, 3, 1>>, <<2, 1>>, <<2>>, <<3>>, <<3, 3, 0>>}
TableHash == [u \in TableKeys |-> (u[1] * 21 + Len(u) * 13 + u[Len(u)] * 5) % 64]
VARIABLES r, added, failAt, built
Table == INSTANCE Tables WITH
  UserKeys <- TableKeys, kMaxByte <- 3, MaxSequence <- 2, block_size <- 2, kFilterBase <- 4,
  kAllFilterUnitsNumber <- 2, Hash <- TableHash, k_ <- 2, bits_per_key <- 4, kMinBits <- 8,
  MaxEntries <- 4, FailAt <- {1, 2, 3, 6, 99}

VARIABLES live, lost, pc, logs, table_numbers, tables, next_file_number, copy, crashes, failures,
          base
Repairer == INSTANCE Repair WITH
  Entries <- {1, 2}, TableNumbers <- {3, 4}, LogNumbers <- {5}, MaxCrashes <- 1, MaxFailures <- 1

BlockHandles == << [offset |-> 0, size |-> 2, compressed |-> FALSE],
                   [offset |-> 3, size |-> 5, compressed |-> FALSE],
                   [offset |-> 9, size |-> 1, compressed |-> TRUE] >>
VARIABLES kind, heap, twice, cache, client, blockReads
Block == INSTANCE BlockReads WITH
  reads <- blockReads,
  Handles <- BlockHandles, FileSize <- 12, kBlockTrailerSize <- 1, Alignment <- 4,
  Clients <- {c1, c2}, MaxReads <- 4
-----------------------------------------------------------------------------
Off == 0

NoLsm == /\ mem = Off /\ imm = Off /\ last = Off /\ files = Off /\ toCompact = Off
         /\ pointer = Off /\ nextFile = Off /\ snapshots = Off /\ job = Off /\ lsmReads = Off
         /\ history = Off
NoLog == log = Off /\ file = Off /\ synced = Off /\ offset = Off
NoIter == it = Off /\ at = Off /\ store = Off
NoFormat == rep = Off /\ ops = Off /\ edit = Off /\ fields = Off /\ footer = Off
NoTable == r = Off /\ added = Off /\ failAt = Off /\ built = Off
NoRepair == /\ live = Off /\ lost = Off /\ pc = Off /\ logs = Off /\ table_numbers = Off
            /\ tables = Off /\ next_file_number = Off /\ copy = Off /\ crashes = Off
            /\ failures = Off /\ base = Off
NoBlock == /\ kind = Off /\ heap = Off /\ twice = Off /\ cache = Off /\ client = Off
           /\ blockReads = Off

lsmVars == <<mem, imm, last, files, toCompact, pointer, nextFile, snapshots, job, lsmReads, history>>
logVars == <<log, file, synced, offset>>
iterVars == <<it, at, store>>
formatVars == <<rep, ops, edit, fields, footer>>
tableVars == <<r, added, failAt, built>>
repairVars == <<live, lost, pc, logs, table_numbers, tables, next_file_number, copy, crashes,
                failures, base>>
blockVars == <<kind, heap, twice, cache, client, blockReads>>
vars == <<part, lsmVars, logVars, iterVars, formatVars, tableVars, repairVars, blockVars>>

Init ==
  \/ part \in {"lsm", "bigLsm"} /\ Lsm!Init /\ NoLog /\ NoIter /\ NoFormat /\ NoTable /\ NoRepair /\ NoBlock
  \/ part = "log" /\ NoLsm /\ Log!Init /\ NoIter /\ NoFormat /\ NoTable /\ NoRepair /\ NoBlock
  \/ part = "iter" /\ NoLsm /\ NoLog /\ Iter!Init /\ NoFormat /\ NoTable /\ NoRepair /\ NoBlock
  \/ part = "format" /\ NoLsm /\ NoLog /\ NoIter /\ Format!Init /\ NoTable /\ NoRepair /\ NoBlock
  \/ part = "table" /\ NoLsm /\ NoLog /\ NoIter /\ NoFormat /\ Table!Init /\ NoRepair /\ NoBlock
  \/ part = "repair" /\ NoLsm /\ NoLog /\ NoIter /\ NoFormat /\ NoTable /\ Repairer!Init /\ NoBlock
  \/ part = "block" /\ NoLsm /\ NoLog /\ NoIter /\ NoFormat /\ NoTable /\ NoRepair /\ Block!Init

Next ==
  /\ UNCHANGED part
  /\ \/ /\ part = "lsm" /\ Lsm!Next
        /\ UNCHANGED <<logVars, iterVars, formatVars, tableVars, repairVars, blockVars>>
     \/ /\ part = "bigLsm" /\ BigLsm!Next
        /\ UNCHANGED <<logVars, iterVars, formatVars, tableVars, repairVars, blockVars>>
     \/ /\ part = "log" /\ Log!Next
        /\ UNCHANGED <<lsmVars, iterVars, formatVars, tableVars, repairVars, blockVars>>
     \/ /\ part = "iter" /\ Iter!Step
        /\ UNCHANGED <<lsmVars, logVars, formatVars, tableVars, repairVars, blockVars>>
     \/ /\ part = "format" /\ Format!Next
        /\ UNCHANGED <<lsmVars, logVars, iterVars, tableVars, repairVars, blockVars>>
     \/ /\ part = "table" /\ Table!Next
        /\ UNCHANGED <<lsmVars, logVars, iterVars, formatVars, repairVars, blockVars>>
     \/ /\ part = "repair" /\ Repairer!Next
        /\ UNCHANGED <<lsmVars, logVars, iterVars, formatVars, tableVars, blockVars>>
     \/ /\ part = "block" /\ Block!Next
        /\ UNCHANGED <<lsmVars, logVars, iterVars, formatVars, tableVars, repairVars>>

Spec == Init /\ [][Next]_vars
-----------------------------------------------------------------------------
\* Flushes, moves and compactions keep the files of a level apart, and readers,
\* of the latest state or of a snapshot, see a plain map.
TreeIsSound ==
  /\ part = "lsm" => Lsm!LevelsDisjoint /\ Lsm!ReadsAgree
  /\ part = "bigLsm" => BigLsm!LevelsDisjoint /\ BigLsm!ReadsAgree

\* log::Reader delivers what log::Writer wrote after a crash or damage; batches,
\* version edits and footers survive encoding, and cut ones are refused.
RecordsAreSafe ==
  /\ part = "log" => Log!TornTailIsHarmless /\ Log!DamageIsDetected
  /\ part = "format" => Format!RoundTrip /\ Format!CutsAreNoticed

\* A DBIter stands where the snapshot says, after any mix of moves.
IteratorAgrees == part = "iter" => Iter!IteratorAgrees

\* Index, filter units and data blocks of a table lead every lookup to its entry.
LookupsAgree == part = "table" => Table!LookupsAgree

\* RepairDB that returns OK leaves a complete database behind.
RepairedIsComplete == part = "repair" => Repairer!RepairedIsComplete

\* RepairDB loses no entry, whatever fails and whenever it is killed.
EntriesSurvive == [][part = "repair" =>
                       Repairer!EntriesIn(live) \cup Repairer!EntriesIn(lost)
                         \subseteq Repairer!EntriesIn(live') \cup Repairer!EntriesIn(lost')]_vars

\* Blocks in use hold their bytes, in memory with exactly one owner.
BlocksAreSound == part = "block" => Block!BlocksAreSound
=============================================================================
