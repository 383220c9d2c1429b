----------------------------- MODULE MCServices -----------------------------
(***************************************************************************)
(* The services around the database: memtable, cache, in-memory files,     *)
(* lookup statistics, and the benchmark with its histogram, each on its    *)
(* own small instance: a behaviour is a behaviour of the one that `part'   *)
(* names, and the variables of the others keep the value Off.  The         *)
(* histogram is EXTENDed, so that TLC computes its constants once.         *)
(***************************************************************************)
EXTENDS Hdr

CONSTANTS None, g1, g2, n1, n2, t1, t2,
          Parts   \* the components to check

VARIABLES part

VARIABLES next, height, seq, w, r
Mem == INSTANCE MemTable WITH UserKeys <- {1, 2}, MaxSequence <- 2, kMaxHeight <- 2, Garbage <- 1000

VARIABLES e, cacheLru, inUse, usage, cacheTable, held, cacheFreed
Cache == INSTANCE LRUCache WITH
  lru <- cacheLru, table <- cacheTable, freed <- cacheFreed,
  Keys <- {1, 2, 3}, Hash <- <<1, 3, 4>>, Charges <- {1, 2}, Capacity <- 2, MaxHandles <- 3,
  MaxClientRefs <- 1, InitialLength <- 2

VARIABLES get_times, history, timer, should_stop, while_stopped, tpc, ticks, dpc, opens, lists,
          hash_table, charger, cached, lru, refs, freed, table, now, obsolete, epc, gpc, gets,
          gotten, recorded, undefined
Hot == INSTANCE Hotness WITH
  counted <- gotten,
  Files <- {1, 2}, FileLevel <- <<1, 2>>, Getters <- {g1, g2}, kAllFilterUnitsNumber <- 2,
  kNumLevels <- 3, kLifeTime <- 1, kLoadFilterUnitsNumber <- 2, windows_number <- 1, Capacity <- 1,
  Predictions <- {0, 1, 2}, MaxGets <- 2, MaxTicks <- 1, MaxSequence <- 1, MaxOpens <- 2

VARIABLES file_map, memFile, handles, crashed, contents, orphans
MemFs == INSTANCE MemEnv WITH
  file <- memFile,
  Names <- {n1, n2}, kBlockSize <- 2, MaxFiles <- 2, MaxHandles <- 2, MaxBytes <- 3, Chunks <- {1, 3},
  kBufferSize <- 3, SizeMod <- 16

RecordName == [k \in 0 .. 3 |-> <<<<1>>, <<2>>, <<1, 0>>, <<3>>>>[k + 1]]
VARIABLES opts, phase, c, latch, status, ref_cnt_, db_, store, insert_key_sequence_, counter_,
          limit_, ack_window_, count_, shown, ghost
Bench == INSTANCE Ycsb WITH
  hist <- ghost,
  Phases <- {{"load", "run"}}, Formats <- {"single", "row", "column"}, num_threads <- 2,
  record_count_ <- 1, operation_count <- 3, fieldcount_ <- 2, kWindowSize <- 2, MaxKeys <- 4,
  KeyName <- RecordName, Operations <- {"READ", "SCAN", "UPDATE", "INSERT", "READMODIFYWRITE"},
  zero_lookup_rate <- 0
-----------------------------------------------------------------------------
Off == 0

NoMem == next = Off /\ height = Off /\ seq = Off /\ w = Off /\ r = Off
NoCache == /\ e = Off /\ cacheLru = Off /\ inUse = Off /\ usage = Off /\ cacheTable = Off
           /\ held = Off /\ cacheFreed = Off
NoHot == /\ get_times = Off /\ history = Off /\ timer = Off /\ should_stop = Off
         /\ while_stopped = Off /\ tpc = Off /\ ticks = Off /\ dpc = Off /\ opens = Off
         /\ lists = Off /\ hash_table = Off /\ charger = Off /\ cached = Off /\ lru = Off
         /\ refs = Off /\ freed = Off /\ table = Off /\ now = Off /\ obsolete = Off /\ epc = Off
         /\ gpc = Off /\ gets = Off /\ gotten = Off /\ recorded = Off /\ undefined = Off
NoMemFs == /\ file_map = Off /\ memFile = Off /\ handles = Off /\ crashed = Off /\ contents = Off
           /\ orphans = Off
NoHistogram == h = Off /\ th = Off /\ calls = Off /\ counted = Off
NoBench == /\ opts = Off /\ phase = Off /\ c = Off /\ latch = Off /\ status = Off /\ ref_cnt_ = Off
           /\ db_ = Off /\ store = Off /\ insert_key_sequence_ = Off /\ counter_ = Off
           /\ limit_ = Off /\ ack_window_ = Off /\ count_ = Off /\ shown = Off /\ ghost = Off

memVars == <<next, height, seq, w, r>>
cacheVars == <<e, cacheLru, inUse, usage, cacheTable, held, cacheFreed>>
hotVars == <<get_times, history, timer, should_stop, while_stopped, tpc, ticks, dpc, opens, lists,
             hash_table, charger, cached, lru, refs, freed, table, now, obsolete, epc, gpc, gets,
             gotten, recorded, undefined>>
memFsVars == <<file_map, memFile, handles, crashed, contents, orphans>>
benchVars == <<opts, phase, c, latch, status, ref_cnt_, db_, store, insert_key_sequence_, counter_,
               limit_, ack_window_, count_, shown, ghost>>
allVars == <<part, memVars, cacheVars, hotVars, memFsVars, vars, benchVars>>

AllInit ==
  /\ part \in Parts
  /\ IF part = "mem" THEN Mem!Init ELSE NoMem
  /\ IF part = "cache" THEN Cache!Init ELSE NoCache
  /\ IF part = "hot" THEN Hot!Init ELSE NoHot
  /\ IF part = "memfs" THEN MemFs!Init ELSE NoMemFs
  /\ IF part = "histogram" THEN Init ELSE NoHistogram
  /\ IF part = "bench" THEN Bench!Init ELSE NoBench

AllNext ==
  /\ UNCHANGED part
  /\ \/ part = "mem" /\ Mem!Next /\ UNCHANGED <<cacheVars, hotVars, memFsVars, vars, benchVars>>
     \/ part = "cache" /\ Cache!Next /\ UNCHANGED <<memVars, hotVars, memFsVars, vars, benchVars>>
     \/ part = "hot" /\ Hot!Next /\ UNCHANGED <<memVars, cacheVars, memFsVars, vars, benchVars>>
     \/ part = "memfs" /\ MemFs!Next /\ UNCHANGED <<memVars, cacheVars, hotVars, vars, benchVars>>
     \/ part = "histogram" /\ Next /\ UNCHANGED <<memVars, cacheVars, hotVars, memFsVars, benchVars>>
     \/ part = "bench" /\ Bench!Next /\ UNCHANGED <<memVars, cacheVars, hotVars, memFsVars, vars>>

AllSpec == AllInit /\ [][AllNext]_allVars
-----------------------------------------------------------------------------
\* Readers of the skiplist miss no entry that was there when they began, and
\* lookups at a snapshot are repeatable.
MemTableReadsAreSound == part = "mem" => Mem!SearchesFindOldEntries /\ Mem!GetIsRepeatable

\* Cached values are freed once, when unused; lists, table and usage agree.
CacheIsSound == part = "cache" => Cache!FreedWhenUnused /\ Cache!CacheIsConsistent

\* Table handles are on one list, lookups are counted in one period, and the
\* timer does not outlive the database.
HotnessIsSound == part = "hot" => Hot!HandlesOnOneList /\ Hot!CountedOnce /\ Hot!NoTickAfterClose

\* In-memory files live as long as they are named or open, and read as written.
MemFilesAreSound == part = "memfs" => MemFs!FilesAreCounted /\ MemFs!ReadsReturnContents

\* A histogram answers its queries within its precision, also while threads
\* record.
HistogramIsExact ==
  part = "histogram" => ReportsFindTheirValue /\ QuietHistogramIsExact /\ BucketsPartitionValues

\* The benchmark asks for keys that exist, reads what was written last, counts
\* all its operations and uses an open database.
BenchmarkIsSound ==
  part = "bench" => /\ Bench!ChosenKeysExist /\ Bench!LastWritesAreRead
                    /\ Bench!PhasesAreComplete /\ Bench!DatabaseIsOpenWhenUsed

=============================================================================
