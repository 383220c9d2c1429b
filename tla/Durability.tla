----------------------------- MODULE Durability -----------------------------
(***************************************************************************)
(* What the database keeps on disk, and what a crash leaves of it: the     *)
(* write-ahead logs, the table files, the descriptors (MANIFEST files) and *)
(* CURRENT, as DBImpl (db/db_impl.cc), VersionSet (db/version_set.cc) and  *)
(* BuildTable (db/builder.cc) create, sync, install and delete them.       *)
(*                                                                         *)
(* A write is its sequence number.  A batch group is one write here: how   *)
(* groups are formed is the subject of module WriteQueue.  An action is    *)
(* the code between two points where mutex_ is released or where a crash   *)
(* can tell the difference.  The keys and the levels are left out: every   *)
(* table is the set of the writes it holds, and a compaction keeps them    *)
(* all (the drop rule is about what a read sees, not about what a crash    *)
(* keeps).                                                                 *)
(***************************************************************************)
EXTENDS Naturals

CONSTANTS MaxSeq,      \* bound on the sequence numbers handed out
          MaxFile,     \* bound on the file numbers handed out
          Slack,       \* numbers kept for recovery: no new work without them
          MaxCrashes,  \* bound on the number of crashes
          Faults       \* the I/O errors that may happen, see FaultKinds

FaultKinds == {"append", "sync", "close", "build", "manifest"}

ASSUME DurabilityAssumption ==
  /\ MaxSeq \in Nat /\ MaxFile \in Nat \ {0} /\ Slack \in Nat /\ MaxCrashes \in Nat
  /\ Faults \subseteq FaultKinds

VARIABLES
  \* --- files, as the operating system shows them ---
  logFiles,    \* numbers of the existing *.log files
  logData,     \* records of each log
  logSynced,   \* the records of each log that were fsync'ed
  logTorn,     \* the first append to each log that failed half-way, or 0
  tabFiles,    \* numbers of the existing table files
  tabDone,     \* those written completely and fsync'ed
  tabData,     \* the writes each finished table holds
  descFiles,   \* numbers of the existing MANIFEST files
  man,         \* what replaying each MANIFEST yields: see Descriptor
  current,     \* the MANIFEST that CURRENT names, 0 before there is one
  \* --- DBImpl and VersionSet ---
  phase,       \* where DB::Open is; "up" once it has returned
  mem, imm,    \* the writes in mem_ and in imm_
  hasImm,      \* imm_ # nullptr
  logNum,      \* logfile_number_
  version,     \* the files of versions_->current()
  vLog,        \* versions_->LogNumber()
  vMan,        \* versions_->ManifestFileNumber()
  nextFile,    \* next_file_number_
  lastSeq,     \* versions_->LastSequence()
  bgError,     \* ~bg_error_.ok()
  pending,     \* pending_outputs_
  \* --- DB::Open in progress ---
  todo,        \* logs still to be replayed
  rlog,        \* the log being replayed, or 0
  rem,         \* records of the log being replayed that are in no table yet
  edit,        \* files the VersionEdit of Recover adds
  \* --- the thread at the front of the writer queue ---
  wpc, wsync,
  \* --- a reader (Get or an iterator) ---
  reader,      \* files of the version it holds a reference to
  \* --- the background thread ---
  fpc, fout,                        \* CompactMemTable
  cpc, cin, cver, couts, cout, crem, \* DoCompactionWork
  gcLog, gcTab, gcDesc,             \* files_to_delete of RemoveObsoleteFiles
  \* --- history ---
  ackP,        \* writes acknowledged: must survive a crash of the process
  ackM,        \* sync writes acknowledged: must survive a crash of the machine
  crashes

logVars  == <<logFiles, logData, logSynced, logTorn>>
tabVars  == <<tabFiles, tabDone, tabData>>
descVars == <<descFiles, man, current>>
memVars  == <<mem, imm, hasImm, logNum>>
vsetVars == <<version, vLog, vMan, nextFile, lastSeq>>
openVars == <<todo, rlog, rem, edit>>
writeVars == <<wpc, wsync>>
flushVars == <<fpc, fout>>
compVars == <<cpc, cin, cver, couts, cout, crem>>
gcVars   == <<gcLog, gcTab, gcDesc>>
ackVars  == <<ackP, ackM>>
bgVars   == <<flushVars, compVars, gcVars>>
vars == <<logVars, tabVars, descVars, phase, memVars, vsetVars, bgError,
          pending, openVars, writeVars, reader, bgVars, ackVars, crashes>>

File  == 1 .. MaxFile
Seqno == 1 .. MaxSeq

\* What a MANIFEST says after its edits have been replayed.
Snapshot == [files : SUBSET File, log : 0 .. MaxFile, next : Nat,
             seq : 0 .. MaxSeq]

\* os: what a new process would read.  cuts: what may be left of the file
\* after a crash of the machine, one value per record since the last fsync.
Descriptor == [os : Snapshot, cuts : SUBSET Snapshot]

NewSnapshot(files, log, next, seq) ==
  [files |-> files, log |-> log, next |-> next, seq |-> seq]

Synced(s) == [os |-> s, cuts |-> {s}]

TypeOK ==
  /\ logFiles \subseteq File
  /\ logData \in [File -> SUBSET Seqno]
  /\ logSynced \in [File -> SUBSET Seqno]
  /\ logTorn \in [File -> 0 .. MaxSeq]
  /\ tabFiles \subseteq File /\ tabDone \subseteq tabFiles
  /\ tabData \in [File -> SUBSET Seqno]
  /\ descFiles \subseteq File
  /\ man \in [File -> Descriptor]
  /\ current \in 0 .. MaxFile
  /\ phase \in {"none", "newdb", "down", "logs", "newlog", "desc", "gc", "up",
                "corrupt"}
  /\ mem \subseteq Seqno /\ imm \subseteq Seqno /\ hasImm \in BOOLEAN
  /\ logNum \in 0 .. MaxFile
  /\ version \subseteq File
  /\ vLog \in 0 .. MaxFile /\ vMan \in Nat
  /\ nextFile \in Nat /\ lastSeq \in 0 .. MaxSeq
  /\ bgError \in BOOLEAN /\ pending \subseteq File
  /\ todo \subseteq File /\ rlog \in 0 .. MaxFile /\ rem \subseteq Seqno /\ edit \subseteq File
  /\ wpc \in {"idle", "log", "sync", "insert"} /\ wsync \in BOOLEAN
  /\ reader \subseteq File
  /\ fpc \in {"idle", "build", "built", "logged"} /\ fout \in 0 .. MaxFile
  /\ cpc \in {"idle", "work", "logged", "moved"}
  /\ cin \subseteq File /\ cver \subseteq File /\ couts \subseteq File
  /\ cout \in 0 .. MaxFile /\ crem \subseteq Seqno
  /\ gcLog \subseteq File /\ gcTab \subseteq File /\ gcDesc \subseteq File
  /\ ackP \subseteq Seqno /\ ackM \subseteq Seqno
  /\ crashes \in Nat

EmptyFiles == [f \in File |-> {}]

Init ==
  /\ logFiles = {} /\ logData = EmptyFiles /\ logSynced = EmptyFiles
  /\ logTorn = [f \in File |-> 0]
  /\ tabFiles = {} /\ tabDone = {} /\ tabData = EmptyFiles
  /\ descFiles = {} /\ man = [f \in File |-> Synced(NewSnapshot({}, 0, 0, 0))]
  /\ current = 0 /\ phase = "none"
  /\ mem = {} /\ imm = {} /\ hasImm = FALSE /\ logNum = 0
  /\ version = {} /\ vLog = 0 /\ vMan = 0 /\ nextFile = 2 /\ lastSeq = 0
  /\ bgError = FALSE /\ pending = {}
  /\ todo = {} /\ rlog = 0 /\ rem = {} /\ edit = {}
  /\ wpc = "idle" /\ wsync = FALSE /\ reader = {}
  /\ fpc = "idle" /\ fout = 0
  /\ cpc = "idle" /\ cin = {} /\ cver = {} /\ couts = {} /\ cout = 0 /\ crem = {}
  /\ gcLog = {} /\ gcTab = {} /\ gcDesc = {}
  /\ ackP = {} /\ ackM = {} /\ crashes = 0

-----------------------------------------------------------------------------
(* RemoveObsoleteFiles: which files go, decided under the mutex; they are  *)
(* removed one at a time after it is released.                             *)

\* Faulty variants of definitions stand before them, under names that end in
\* Bug; no specification uses them, they show that the properties can fail.
KeepLogBug(n, log) == n > log
KeepDescBug(n) == n > vMan
KeepTableBug(n, live) == n \in version

KeepLog(n, log) == n >= log
KeepDesc(n) == n >= vMan
KeepTable(n, live) == n \in live

RemoveObsoleteFiles(log, live) ==
  /\ gcLog'  = {n \in logFiles : ~KeepLog(n, log)}
  /\ gcDesc' = {n \in descFiles : ~KeepDesc(n)}
  /\ gcTab'  = {n \in tabFiles : ~KeepTable(n, live)}

NothingToRemove == gcLog = {} /\ gcTab = {} /\ gcDesc = {}

\* env_->RemoveFile of one of files_to_delete.
RemoveLog(n) ==
  /\ n \in gcLog
  /\ gcLog' = gcLog \ {n}
  /\ logFiles' = logFiles \ {n}
  /\ UNCHANGED <<logData, logSynced, logTorn, tabVars, descVars, phase, memVars,
                 vsetVars, bgError, pending, openVars, writeVars, reader,
                 flushVars, compVars, gcTab, gcDesc, ackVars, crashes>>

RemoveTable(n) ==
  /\ n \in gcTab
  /\ gcTab' = gcTab \ {n}
  /\ tabFiles' = tabFiles \ {n}
  /\ tabDone' = tabDone \ {n}
  /\ UNCHANGED <<logVars, tabData, descVars, phase, memVars, vsetVars, bgError,
                 pending, openVars, writeVars, reader, flushVars, compVars,
                 gcLog, gcDesc, ackVars, crashes>>

RemoveDescriptor(n) ==
  /\ n \in gcDesc
  /\ gcDesc' = gcDesc \ {n}
  /\ descFiles' = descFiles \ {n}
  /\ UNCHANGED <<logVars, tabVars, man, current, phase, memVars, vsetVars,
                 bgError, pending, openVars, writeVars, reader, flushVars,
                 compVars, gcLog, gcTab, ackVars, crashes>>

-----------------------------------------------------------------------------
(* DB::Open: NewDB, VersionSet::Recover, RecoverLogFile, the new log, the  *)
(* new descriptor, CURRENT, RemoveObsoleteFiles.                           *)

\* DBImpl::NewDB up to the Sync of MANIFEST-1.
NewDBDescriptor ==
  /\ phase = "none"
  /\ phase' = "newdb"
  /\ descFiles' = descFiles \cup {1}
  /\ man' = [man EXCEPT ![1] = Synced(NewSnapshot({}, 0, 2, 0))]
  /\ UNCHANGED <<logVars, tabVars, current, memVars, vsetVars, bgError, pending,
                 openVars, writeVars, reader, bgVars, ackVars, crashes>>

\* SetCurrentFile at the end of NewDB.
NewDBCurrent ==
  /\ phase = "newdb"
  /\ phase' = "down"
  /\ current' = 1
  /\ UNCHANGED <<logVars, tabVars, descFiles, man, memVars, vsetVars, bgError,
                 pending, openVars, writeVars, reader, bgVars, ackVars, crashes>>

ChildrenBug == logFiles \cup descFiles

\* Every number found in the directory, whatever the type of its file.
Children == logFiles \cup tabFiles \cup descFiles

\* VersionSet::Recover, and DBImpl::Recover up to the check for missing files.
\* manifest_file_number_ becomes the next file number that was recorded.
RecoverVersion ==
  LET m == man[current].os IN
  /\ phase = "down"
  /\ version' = m.files
  /\ vLog' = m.log
  /\ vMan' = m.next
  /\ nextFile' = m.next + 1
  /\ lastSeq' = m.seq
  /\ todo' = {n \in logFiles : n >= m.log}
  /\ phase' = IF m.files \subseteq Children THEN "logs" ELSE "corrupt"
  /\ UNCHANGED <<logVars, tabVars, descVars, memVars, bgError, pending, rlog,
                 rem, edit, writeVars, reader, bgVars, ackVars, crashes>>

\* Records appended to a log after an append to it had failed half-way:
\* log::Reader may skip them together with the damaged one.
Doubtful(n) == {s \in logData[n] : logTorn[n] # 0 /\ s > logTorn[n]}

ReplayedBug(n) == {{s \in logData[n] : \A k \in logData[n] : s <= k}}
ReplayedShiftBug(n) == {{s - 1 : s \in logData[n]}}

\* What log::Reader may deliver from a log.
Replayed(n) == {logData[n] \ S : S \in SUBSET Doubtful(n)}

MaxSequenceBug(records) == {lastSeq}

\* The largest of the sequence numbers replayed and of the one recorded, as a
\* set with one element.
MaxSequence(records) ==
  {m \in records \cup {lastSeq} : \A k \in records \cup {lastSeq} : k <= m}

\* RecoverLogFile opens the oldest log not yet replayed.  LastSequence takes
\* the value of max_sequence when Recover ends; nothing reads it before.
RecoverLogFile ==
  /\ phase = "logs" /\ rlog = 0 /\ todo # {}
  /\ \E n \in todo : (\A k \in todo : n <= k) /\ rlog' = n
  /\ rem' \in Replayed(rlog')
  /\ lastSeq' \in MaxSequence(rem')
  /\ UNCHANGED <<logVars, tabVars, descVars, phase, memVars, version, vLog,
                 vMan, nextFile, bgError, pending, todo, edit, writeVars,
                 reader, bgVars, ackVars, crashes>>

\* WriteLevel0Table of the memtable filled so far: when it is larger than
\* write_buffer_size, and at the end of the log.
RecoverTable(last) ==
  LET chunk == {s \in rem : s <= last} IN
  /\ phase = "logs" /\ last \in rem
  /\ nextFile <= MaxFile
  /\ tabFiles' = tabFiles \cup {nextFile}
  /\ tabDone' = tabDone \cup {nextFile}
  /\ tabData' = [tabData EXCEPT ![nextFile] = chunk]
  /\ edit' = edit \cup {nextFile}
  /\ nextFile' = nextFile + 1
  /\ rem' = rem \ chunk
  /\ UNCHANGED <<logVars, descVars, phase, memVars, version, vLog, vMan,
                 lastSeq, bgError, pending, todo, rlog, writeVars, reader,
                 bgVars, ackVars, crashes>>

\* The end of a log: MarkFileNumberUsed.
RecoverLogDone ==
  /\ phase = "logs" /\ rlog # 0 /\ rem = {}
  /\ todo' = todo \ {rlog}
  /\ rlog' = 0
  /\ nextFile' = IF nextFile <= rlog THEN rlog + 1 ELSE nextFile
  /\ UNCHANGED <<logVars, tabVars, descVars, phase, memVars, version, vLog,
                 vMan, lastSeq, bgError, pending, rem, edit, writeVars, reader,
                 bgVars, ackVars, crashes>>

\* DB::Open creates a new log and an empty memtable.
OpenNewLog ==
  /\ phase = "logs" /\ rlog = 0 /\ todo = {}
  /\ nextFile <= MaxFile
  /\ phase' = "newlog"
  /\ logFiles' = logFiles \cup {nextFile}
  /\ logData' = [logData EXCEPT ![nextFile] = {}]
  /\ logSynced' = [logSynced EXCEPT ![nextFile] = {}]
  /\ logTorn' = [logTorn EXCEPT ![nextFile] = 0]
  /\ logNum' = nextFile
  /\ nextFile' = nextFile + 1
  /\ mem' = {} /\ imm' = {} /\ hasImm' = FALSE
  /\ UNCHANGED <<tabVars, descVars, version, vLog, vMan, lastSeq, bgError,
                 pending, openVars, writeVars, reader, bgVars, ackVars, crashes>>

\* LogAndApply with descriptor_log_ = nullptr: WriteSnapshot and the edit go
\* to a new descriptor, which is synced.
OpenDescriptor ==
  /\ phase = "newlog"
  /\ vMan <= MaxFile
  /\ phase' = "desc"
  /\ descFiles' = descFiles \cup {vMan}
  /\ man' = [man EXCEPT ![vMan] =
               Synced(NewSnapshot(version \cup edit, logNum, nextFile, lastSeq))]
  /\ UNCHANGED <<logVars, tabVars, current, memVars, vsetVars, bgError, pending,
                 openVars, writeVars, reader, bgVars, ackVars, crashes>>

\* SetCurrentFile, the installation of the version, RemoveObsoleteFiles.
OpenCurrent ==
  /\ phase = "desc"
  /\ phase' = "gc"
  /\ current' = vMan
  /\ version' = version \cup edit
  /\ vLog' = logNum
  /\ edit' = {}
  /\ RemoveObsoleteFiles(logNum, version' \cup pending)
  /\ UNCHANGED <<logVars, tabVars, descFiles, man, memVars, vMan, nextFile,
                 lastSeq, bgError, pending, todo, rlog, rem, writeVars, reader,
                 flushVars, compVars, ackVars, crashes>>

\* DB::Open returns the database.
OpenDone ==
  /\ phase = "gc" /\ NothingToRemove
  /\ phase' = "up"
  /\ UNCHANGED <<logVars, tabVars, descVars, memVars, vsetVars, bgError, pending,
                 openVars, writeVars, reader, bgVars, ackVars, crashes>>

-----------------------------------------------------------------------------
(* DBImpl::Write by the writer at the front of the queue, and the switch   *)
(* to a new memtable in MakeRoomForWrite.                                  *)

WriteBeginBug(sync) ==
  /\ phase = "up" /\ wpc = "idle" /\ lastSeq < MaxSeq
  /\ wpc' = "log" /\ wsync' = sync
  /\ UNCHANGED <<logVars, tabVars, descVars, phase, memVars, vsetVars, bgError,
                 pending, openVars, reader, bgVars, ackVars, crashes>>

WriteBegin(sync) ==
  /\ phase = "up" /\ wpc = "idle" /\ ~bgError
  /\ lastSeq < MaxSeq
  /\ wpc' = "log"
  /\ wsync' = sync
  /\ UNCHANGED <<logVars, tabVars, descVars, phase, memVars, vsetVars, bgError,
                 pending, openVars, reader, bgVars, ackVars, crashes>>

\* log_->AddRecord, which flushes to the operating system.
WriteAppend ==
  /\ wpc = "log"
  /\ logData' = [logData EXCEPT ![logNum] = @ \cup {lastSeq + 1}]
  /\ wpc' = IF wsync THEN "sync" ELSE "insert"
  /\ UNCHANGED <<logFiles, logSynced, logTorn, tabVars, descVars, phase, memVars,
                 vsetVars, bgError, pending, openVars, wsync, reader, bgVars,
                 ackVars, crashes>>

\* AddRecord fails, part of the record may be in the file.  The sequence
\* number is used up; the error is returned to the writers of the group only.
WriteAppendFails ==
  /\ wpc = "log" /\ "append" \in Faults
  /\ wpc' = "idle"
  /\ lastSeq' = lastSeq + 1
  /\ logTorn' = [logTorn EXCEPT ![logNum] = IF @ = 0 THEN lastSeq + 1 ELSE @]
  /\ UNCHANGED <<logFiles, logData, logSynced, tabVars, descVars, phase, memVars,
                 version, vLog, vMan, nextFile, bgError, pending, openVars,
                 wsync, reader, bgVars, ackVars, crashes>>

\* logfile_->Sync.
WriteSync ==
  /\ wpc = "sync"
  /\ wpc' = "insert"
  /\ logSynced' = [logSynced EXCEPT ![logNum] = logData[logNum]]
  /\ UNCHANGED <<logFiles, logData, logTorn, tabVars, descVars, phase, memVars,
                 vsetVars, bgError, pending, openVars, wsync, reader, bgVars,
                 ackVars, crashes>>

\* A failed Sync puts the database into a mode where all writes fail.
WriteSyncFails ==
  /\ wpc = "sync" /\ "sync" \in Faults
  /\ wpc' = "idle"
  /\ bgError' = TRUE
  /\ lastSeq' = lastSeq + 1
  /\ UNCHANGED <<logVars, tabVars, descVars, phase, memVars, version, vLog, vMan,
                 nextFile, pending, openVars, wsync, reader, bgVars, ackVars,
                 crashes>>

\* InsertInto mem_, SetLastSequence, and the return to the caller.
WriteDone ==
  /\ wpc = "insert"
  /\ wpc' = "idle"
  /\ mem' = mem \cup {lastSeq + 1}
  /\ lastSeq' = lastSeq + 1
  /\ ackP' = ackP \cup {lastSeq + 1}
  /\ ackM' = IF wsync THEN ackM \cup {lastSeq + 1} ELSE ackM
  /\ UNCHANGED <<logVars, tabVars, descVars, phase, imm, hasImm, logNum, version,
                 vLog, vMan, nextFile, bgError, pending, openVars, wsync,
                 reader, bgVars, crashes>>

\* MakeRoomForWrite, last branch.  Whether mem_ is full, or the switch is
\* forced by CompactRange, is left open.  The old log is closed, not synced.
SwitchMemTable ==
  /\ phase = "up" /\ wpc = "idle" /\ ~bgError /\ ~hasImm
  /\ nextFile + Slack <= MaxFile
  /\ logFiles' = logFiles \cup {nextFile}
  /\ logData' = [logData EXCEPT ![nextFile] = {}]
  /\ logSynced' = [logSynced EXCEPT ![nextFile] = {}]
  /\ logTorn' = [logTorn EXCEPT ![nextFile] = 0]
  /\ logNum' = nextFile
  /\ nextFile' = nextFile + 1
  /\ imm' = mem /\ hasImm' = TRUE /\ mem' = {}
  /\ bgError' \in {FALSE} \cup {TRUE : x \in Faults \cap {"close"}}
  /\ UNCHANGED <<tabVars, descVars, phase, version, vLog, vMan, lastSeq, pending,
                 openVars, writeVars, reader, bgVars, ackVars, crashes>>

\* Get and NewIterator take a reference to the current version ...
ReadBegin ==
  /\ phase = "up" /\ reader = {}
  /\ reader' = version
  /\ UNCHANGED <<logVars, tabVars, descVars, phase, memVars, vsetVars, bgError,
                 pending, openVars, writeVars, bgVars, ackVars, crashes>>

\* ... and drop it at the end.
ReadEnd ==
  /\ phase = "up" /\ reader # {}
  /\ reader' = {}
  /\ UNCHANGED <<logVars, tabVars, descVars, phase, memVars, vsetVars, bgError,
                 pending, openVars, writeVars, bgVars, ackVars, crashes>>

-----------------------------------------------------------------------------
(* VersionSet::LogAndApply on an open descriptor.  The record is appended, *)
(* then the descriptor is synced; only then is the new version installed.  *)

AppendEditBug(add, del, log) ==
  LET old == man[current]
      new == NewSnapshot(old.os.files \ del, log, nextFile, lastSeq)
  IN man' = [man EXCEPT ![current] = [os |-> new, cuts |-> old.cuts \cup {new}]]

\* descriptor_log_->AddRecord of an edit.
AppendEdit(add, del, log) ==
  LET old == man[current]
      new == NewSnapshot((old.os.files \ del) \cup add, log, nextFile, lastSeq)
  IN man' = [man EXCEPT ![current] = [os |-> new, cuts |-> old.cuts \cup {new}]]

\* descriptor_file_->Sync.
SyncEdit == man' = [man EXCEPT ![current] = Synced(man[current].os)]

CollectGarbageBug(log, live) == RemoveObsoleteFiles(log, live)

\* RemoveObsoleteFiles at the end of a background job.  After a background
\* error it is not known which version is on disk, so nothing is collected.
CollectGarbage(log, live) ==
  IF bgError THEN UNCHANGED gcVars ELSE RemoveObsoleteFiles(log, live)

\* The background thread is not inside RemoveObsoleteFiles, and the database
\* is open.
BackgroundReady == phase = "up" /\ NothingToRemove

-----------------------------------------------------------------------------
(* CompactMemTable, called by BackgroundCompaction, or by DoCompactionWork *)
(* between two keys (where bg_error_ is not looked at).                    *)

FlushBeginBug ==
  /\ BackgroundReady /\ fpc = "idle" /\ hasImm /\ imm # {}
  /\ cpc = "work" \/ (cpc = "idle" /\ ~bgError)
  /\ nextFile <= MaxFile /\ (bgError => nextFile + Slack <= MaxFile)
  /\ fpc' = "build"
  /\ fout' = nextFile
  /\ nextFile' = nextFile + 1
  /\ pending' = pending \cup {nextFile}
  /\ UNCHANGED <<logVars, tabVars, descVars, phase, memVars, version, vLog, vMan,
                 lastSeq, bgError, openVars, writeVars, reader, compVars, gcVars,
                 ackVars, crashes>>

FlushBegin ==
  /\ BackgroundReady /\ fpc = "idle" /\ hasImm
  /\ cpc = "work" \/ (cpc = "idle" /\ ~bgError)
  /\ nextFile <= MaxFile /\ (bgError => nextFile + Slack <= MaxFile)
  /\ fpc' = "build"
  /\ fout' = nextFile
  /\ nextFile' = nextFile + 1
  /\ pending' = pending \cup {nextFile}
  /\ UNCHANGED <<logVars, tabVars, descVars, phase, memVars, version, vLog, vMan,
                 lastSeq, bgError, openVars, writeVars, reader, compVars, gcVars,
                 ackVars, crashes>>

\* BuildTable: an empty memtable leaves no file and adds none to the edit.
FlushBuild ==
  /\ fpc = "build"
  /\ fpc' = "built"
  /\ pending' = pending \ {fout}
  /\ IF imm = {}
     THEN fout' = 0 /\ UNCHANGED tabVars
     ELSE /\ tabFiles' = tabFiles \cup {fout}
          /\ tabDone' = tabDone \cup {fout}
          /\ tabData' = [tabData EXCEPT ![fout] = imm]
          /\ UNCHANGED fout
  /\ UNCHANGED <<logVars, descVars, phase, memVars, vsetVars, bgError, openVars,
                 writeVars, reader, compVars, gcVars, ackVars, crashes>>

FlushAppend ==
  /\ fpc = "built"
  /\ fpc' = "logged"
  /\ AppendEdit({fout} \ {0}, {}, logNum)
  /\ UNCHANGED <<logVars, tabVars, descFiles, current, phase, memVars, vsetVars,
                 bgError, pending, openVars, writeVars, reader, fout, compVars,
                 gcVars, ackVars, crashes>>

FlushCommit ==
  /\ fpc = "logged"
  /\ fpc' = "idle" /\ fout' = 0
  /\ SyncEdit
  /\ version' = version \cup ({fout} \ {0})
  /\ vLog' = logNum
  /\ imm' = {} /\ hasImm' = FALSE
  /\ CollectGarbage(logNum, version' \cup cver \cup reader \cup pending)
  /\ UNCHANGED <<logVars, tabVars, descFiles, current, phase, mem, logNum, vMan,
                 nextFile, lastSeq, bgError, pending, openVars, writeVars,
                 reader, compVars, ackVars, crashes>>

\* RecordBackgroundError; imm_ stays.  BuildTable removes its file; a record
\* of the descriptor whose append or sync failed may be there or not.
FlushFails ==
  /\ \/ /\ fpc = "build" /\ "build" \in Faults
        /\ tabFiles' = tabFiles \ {fout} /\ tabDone' = tabDone \ {fout}
     \/ /\ fpc \in {"built", "logged"} /\ "manifest" \in Faults
        /\ UNCHANGED <<tabFiles, tabDone>>
  /\ fpc' = "idle" /\ fout' = 0
  /\ pending' = pending \ {fout}
  /\ bgError' = TRUE
  /\ UNCHANGED <<logVars, tabData, descVars, phase, memVars, vsetVars, openVars,
                 writeVars, reader, compVars, gcVars, ackVars, crashes>>

-----------------------------------------------------------------------------
(* BackgroundCompaction of table files.                                    *)

MayCompact ==
  /\ BackgroundReady /\ fpc = "idle" /\ cpc = "idle"
  /\ ~hasImm /\ ~bgError
  /\ nextFile + Slack <= MaxFile

\* PickCompaction and the start of DoCompactionWork; which files are picked
\* is left open.  The compaction holds a reference to its input version.
CompactBegin(inputs) ==
  /\ MayCompact
  /\ inputs # {}
  /\ cpc' = "work"
  /\ cin' = inputs
  /\ cver' = version
  /\ crem' = UNION {tabData[f] : f \in inputs}
  /\ UNCHANGED <<logVars, tabVars, descVars, phase, memVars, vsetVars, bgError,
                 pending, openVars, writeVars, reader, flushVars, couts, cout,
                 gcVars, ackVars, crashes>>

InLoop == cpc = "work" /\ fpc = "idle" /\ BackgroundReady

OpenCompactionOutputFile ==
  /\ InLoop /\ cout = 0 /\ crem # {}
  /\ nextFile <= MaxFile
  /\ cout' = nextFile
  /\ couts' = couts \cup {nextFile}
  /\ pending' = pending \cup {nextFile}
  /\ nextFile' = nextFile + 1
  /\ tabFiles' = tabFiles \cup {nextFile}
  /\ tabDone' = tabDone \ {nextFile}
  /\ UNCHANGED <<logVars, tabData, descVars, phase, memVars, version, vLog, vMan,
                 lastSeq, bgError, openVars, writeVars, reader, flushVars, cpc,
                 cin, cver, crem, gcVars, ackVars, crashes>>

\* The output is full, or the input is exhausted: Finish, Sync, Close.
FinishCompactionOutputFile(chunk) ==
  /\ InLoop /\ cout # 0
  /\ chunk # {}
  /\ tabDone' = tabDone \cup {cout}
  /\ tabData' = [tabData EXCEPT ![cout] = chunk]
  /\ crem' = crem \ chunk
  /\ cout' = 0
  /\ UNCHANGED <<logVars, tabFiles, descVars, phase, memVars, vsetVars, bgError,
                 pending, openVars, writeVars, reader, flushVars, cpc, cin, cver,
                 couts, gcVars, ackVars, crashes>>

\* InstallCompactionResults; the edit keeps the log number of the version set.
CompactAppend ==
  /\ InLoop /\ cout = 0 /\ crem = {}
  /\ cpc' = "logged"
  /\ AppendEdit(couts, cin, vLog)
  /\ UNCHANGED <<logVars, tabVars, descFiles, current, phase, memVars, vsetVars,
                 bgError, pending, openVars, writeVars, reader, flushVars, cin,
                 cver, couts, cout, crem, gcVars, ackVars, crashes>>

\* CleanupCompaction and ReleaseInputs.
CleanupCompaction ==
  /\ cpc' = "idle"
  /\ pending' = pending \ couts
  /\ cin' = {} /\ cver' = {} /\ couts' = {} /\ cout' = 0 /\ crem' = {}

CompactCommit ==
  /\ cpc = "logged"
  /\ SyncEdit
  /\ version' = (version \ cin) \cup couts
  /\ CleanupCompaction
  /\ CollectGarbage(vLog, version' \cup reader \cup pending')
  /\ UNCHANGED <<logVars, tabVars, descFiles, current, phase, memVars, vLog, vMan,
                 nextFile, lastSeq, bgError, openVars, writeVars, reader,
                 flushVars, ackVars, crashes>>

\* Outputs that were not installed stay in the directory.
CompactFails ==
  /\ \/ InLoop /\ crem # {} /\ "build" \in Faults
     \/ InLoop /\ cout = 0 /\ crem = {} /\ "manifest" \in Faults
     \/ cpc = "logged" /\ "manifest" \in Faults
  /\ CleanupCompaction
  /\ bgError' = TRUE
  /\ UNCHANGED <<logVars, tabVars, descVars, phase, memVars, vsetVars, openVars,
                 writeVars, reader, flushVars, gcVars, ackVars, crashes>>

\* The trivial move: one file changes its level, so the set of files stays.
MoveAppend ==
  /\ MayCompact /\ version # {}
  /\ cpc' = "moved"
  /\ AppendEdit({}, {}, vLog)
  /\ UNCHANGED <<logVars, tabVars, descFiles, current, phase, memVars, vsetVars,
                 bgError, pending, openVars, writeVars, reader, flushVars, cin,
                 cver, couts, cout, crem, gcVars, ackVars, crashes>>

MoveEnd ==
  /\ cpc = "moved"
  /\ cpc' = "idle"
  /\ \/ SyncEdit /\ UNCHANGED bgError
     \/ "manifest" \in Faults /\ bgError' = TRUE /\ UNCHANGED man
  /\ UNCHANGED <<logVars, tabVars, descFiles, current, phase, memVars, vsetVars,
                 pending, openVars, writeVars, reader, flushVars, cin, cver,
                 couts, cout, crem, gcVars, ackVars, crashes>>

-----------------------------------------------------------------------------
(* Crashes.                                                                *)

\* Everything in memory is gone; DB::Open starts again.
LoseMemory ==
  /\ crashes < MaxCrashes /\ phase # "corrupt"
  /\ crashes' = crashes + 1
  /\ phase' = IF current = 0 THEN "none" ELSE "down"
  /\ mem' = {} /\ imm' = {} /\ hasImm' = FALSE /\ logNum' = 0
  /\ version' = {} /\ vLog' = 0 /\ vMan' = 0 /\ nextFile' = 2 /\ lastSeq' = 0
  /\ bgError' = FALSE /\ pending' = {}
  /\ todo' = {} /\ rlog' = 0 /\ rem' = {} /\ edit' = {}
  /\ wpc' = "idle" /\ wsync' = FALSE /\ reader' = {}
  /\ fpc' = "idle" /\ fout' = 0
  /\ cpc' = "idle" /\ cin' = {} /\ cver' = {} /\ couts' = {} /\ cout' = 0
  /\ crem' = {} /\ gcLog' = {} /\ gcTab' = {} /\ gcDesc' = {}

\* The process ends, in an orderly way or not: the operating system has all
\* that was written.
ProcessCrash ==
  /\ LoseMemory
  /\ UNCHANGED <<logVars, tabVars, descVars, ackVars>>

\* The machine goes down: each log keeps a prefix that covers what was synced,
\* and so does the descriptor.
MachineCrash ==
  /\ LoseMemory
  /\ \E last \in [logFiles -> 0 .. MaxSeq] :
       /\ \A n \in logFiles : /\ last[n] = 0 \/ last[n] \in logData[n]
                              /\ \A s \in logSynced[n] : s <= last[n]
       /\ logData' = [n \in File |-> IF n \in logFiles
                                     THEN {s \in logData[n] : s <= last[n]}
                                     ELSE {}]
       /\ logSynced' = logData'
  /\ IF current = 0
     THEN UNCHANGED man
     ELSE \E s \in man[current].cuts : man' = [man EXCEPT ![current] = Synced(s)]
  /\ ackP' = ackM
  /\ UNCHANGED <<logFiles, logTorn, tabVars, descFiles, current, ackM>>

-----------------------------------------------------------------------------
Open == \/ NewDBDescriptor \/ NewDBCurrent \/ RecoverVersion \/ RecoverLogFile
        \/ (\E s \in Seqno : RecoverTable(s))
        \/ RecoverLogDone \/ OpenNewLog \/ OpenDescriptor \/ OpenCurrent
        \/ OpenDone

Collect == \E n \in File : RemoveLog(n) \/ RemoveTable(n) \/ RemoveDescriptor(n)

Write == WriteAppend \/ WriteAppendFails \/ WriteSync \/ WriteSyncFails \/ WriteDone

Flush == FlushBegin \/ FlushBuild \/ FlushAppend \/ FlushCommit \/ FlushFails

Compact ==
  \/ OpenCompactionOutputFile \/ CompactAppend \/ CompactCommit \/ CompactFails
  \/ MoveEnd
  \/ \E chunk \in SUBSET crem : FinishCompactionOutputFile(chunk)

Next ==
  \/ Open \/ Collect \/ Write \/ Flush \/ Compact
  \/ \E sync \in BOOLEAN : WriteBegin(sync)
  \/ SwitchMemTable \/ ReadBegin \/ ReadEnd
  \/ \E inputs \in SUBSET version : CompactBegin(inputs)
  \/ MoveAppend
  \/ ProcessCrash \/ MachineCrash

Spec == Init /\ [][Next]_vars

\* Open, the writer inside Write and the background thread keep running; the
\* callers, the choice to compact and the crashes owe nothing.
FairSpec == /\ Spec
            /\ WF_vars(Open) /\ WF_vars(Collect) /\ WF_vars(Write)
            /\ WF_vars(Flush) /\ WF_vars(Compact)

-----------------------------------------------------------------------------
(* Properties.                                                             *)

\* Write w would be found by a recovery that reads snapshot m of the
\* descriptor and the given contents of the logs.
Recoverable(w, m, logs) ==
  \/ \E f \in m.files : w \in tabData[f]
  \/ \E n \in logFiles : n >= m.log /\ w \in logs[n] \ Doubtful(n)

\* A write acknowledged with sync = true is found again after a crash of the
\* machine at any instant, whichever of the unsynced records of the descriptor
\* are left and although every unsynced log record is lost (Write, LogAndApply,
\* CompactMemTable, RemoveObsoleteFiles, DB::Open).
SyncedWritesDurable ==
  current # 0 =>
    \A w \in ackM : \A m \in man[current].cuts : Recoverable(w, m, logSynced)

\* An acknowledged write, sync or not, is found again after a crash of the
\* process at any instant: logs are deleted only when the table made from them
\* is recorded in the descriptor that CURRENT names.
AckedWritesSurviveProcessCrash ==
  current # 0 => \A w \in ackP : Recoverable(w, man[current].os, logData)

\* Every table that any readable prefix of the descriptor lists exists and is
\* complete, so DB::Open never reports missing files: tables are synced before
\* the edit that adds them is appended, and a table is deleted only when no
\* edit that may be on disk needs it.
DescriptorFilesExist ==
  /\ phase # "corrupt"
  /\ current # 0 => /\ current \in descFiles
                    /\ \A m \in man[current].cuts : m.files \subseteq tabDone

\* A reader, and a running compaction, never lose a file of the version they
\* hold a reference to, whatever RemoveObsoleteFiles does meanwhile.
ReferencedFilesExist == reader \cup cin \cup version \subseteq tabFiles

\* When the database is open every acknowledged write is readable: it is in
\* mem_, in imm_ or in a table of the current version.
AckedWritesReadable ==
  phase = "up" =>
    \A w \in ackP : w \in mem \cup imm \/ \E f \in version : w \in tabData[f]

\* The sequence number given to the next write is larger than that of every
\* write a recovery could bring back, so a new write always wins.
SequenceFresh ==
  phase = "up" =>
    /\ \A n \in logFiles : \A s \in logData[n] :
         s <= lastSeq \/ (wpc \in {"sync", "insert"} /\ n = logNum /\ s = lastSeq + 1)
    /\ \A f \in version : \A s \in tabData[f] : s <= lastSeq

\* A background error lasts until the process ends.  Meanwhile no write and no
\* compaction begins, the memtable is not switched, and no file is chosen for
\* removal: what the descriptor may say on disk is not known any more
\* (RecordBackgroundError, MakeRoomForWrite, BackgroundCall,
\* RemoveObsoleteFiles).
BackgroundErrorIsFinal ==
  [][ bgError /\ crashes' = crashes =>
        /\ bgError'
        /\ (wpc = "idle" => wpc' = "idle") /\ (cpc = "idle" => cpc' = "idle")
        /\ logNum' = logNum
        /\ gcLog' \subseteq gcLog /\ gcTab' \subseteq gcTab /\ gcDesc' \subseteq gcDesc
    ]_vars

\* After a crash the database comes up again.
EventuallyOpen == []<>(phase = "up")

\* A memtable that was switched out is flushed unless an error stops all
\* background work.
ImmEventuallyFlushed == hasImm ~> (~hasImm \/ bgError)

\* doc/index.md: "every Nth write is synchronous, and in the event of a crash,
\* the bulk load is restarted just after the last synchronous write": once a
\* sync write is acknowledged, so that the writes before it need no repeat,
\* those acknowledged before it are durable as well.
SyncCoversEarlierWrites ==
  current # 0 =>
    \A w \in ackP : (\E s \in ackM : w < s) =>
      \A m \in man[current].cuts : Recoverable(w, m, logSynced)

\* Also with appends that fail half-way and a crash inside DB::Open, the files
\* the descriptor lists exist and no sequence number is given out twice.
RecoveryIsSafe == DescriptorFilesExist /\ SequenceFresh

-----------------------------------------------------------------------------
(* The inductive invariant behind the safety properties.  What it says of  *)
(* acknowledged writes holds when appends to a log do not fail half-way.   *)

\* Appends to a log either succeed or do not happen.
NoTornAppend == "append" \notin Faults

InTables(w, files) == \E f \in files : w \in tabData[f]
InLogs(w, log, logs) == \E n \in logFiles : n >= log /\ w \in logs[n]

\* What may be left of the current descriptor.
Cuts == man[current].cuts

\* CURRENT names a descriptor, and what a new process reads of it may also be
\* all that a crash of the machine leaves.
CurrentInv ==
  current # 0 => current \in descFiles /\ man[current].os \in Cuts

\* Every prefix of the descriptor that may be on disk lists finished tables,
\* and numbers below the next file number it records.
DescTablesInv == current # 0 => \A m \in Cuts : m.files \subseteq tabDone

DescNumbersInv ==
  current # 0 => \A m \in Cuts : /\ \A f \in m.files : f < m.next
                                 /\ current < m.next /\ m.log < m.next
                                 /\ m.next <= man[current].os.next

\* The last sequence number it records covers the tables it lists.
DescSeqInv ==
  current # 0 => \A m \in Cuts : \A f \in m.files : \A w \in tabData[f] : w <= m.seq

LogInv ==
  \A n \in File : logSynced[n] \subseteq logData[n] /\ (NoTornAppend => logTorn[n] = 0)

AckInv == ackM \subseteq ackP /\ (current = 0 => ackP = {})

\* Every acknowledged write is found from every such prefix.
SyncedFoundInv ==
  NoTornAppend /\ current # 0 => \A m \in Cuts : \A w \in ackM :
                   InTables(w, m.files) \/ InLogs(w, m.log, logSynced)

AckedFoundInv ==
  NoTornAppend /\ current # 0 => \A m \in Cuts : \A w \in ackP :
                   InTables(w, m.files) \/ InLogs(w, m.log, logData)

\* What each phase leaves idle.
PhaseInv ==
  /\ phase # "corrupt"
  /\ phase \in {"none", "newdb"} <=> current = 0
  /\ phase \notin {"gc", "up"} => NothingToRemove
  /\ phase # "up" => /\ fpc = "idle" /\ cpc = "idle" /\ wpc = "idle"
                     /\ reader = {} /\ pending = {}
  /\ phase \notin {"logs", "newlog", "desc"} => edit = {}
  /\ phase # "logs" => rlog = 0 /\ rem = {}
  /\ phase \in {"none", "newdb", "down"} => version = {}

NewDBInv ==
  phase = "newdb" =>
    1 \in descFiles /\ man[1] = Synced(NewSnapshot({}, 0, 2, 0))

Recovering == phase \in {"logs", "newlog", "desc"}
Running == phase \in {"gc", "up"}

\* Recovery works from the version that CURRENT leads to, under a descriptor
\* number that is not in use yet.
RecVersionInv ==
  Recovering => /\ vMan = man[current].os.next /\ vMan < nextFile
                /\ version = man[current].os.files /\ vLog = man[current].os.log

RecEditInv ==
  Recovering => edit \subseteq tabDone /\ \A f \in edit : f < nextFile

\* A log is either below the next file number or still to be replayed.
RecLogsInv ==
  phase = "logs" => /\ \A n \in logFiles : n < nextFile \/ n \in todo
                    /\ rem # {} => rlog # 0

\* An acknowledged write is in a table or still to be replayed.
RecAckedInv ==
  /\ NoTornAppend /\ phase = "logs" =>
       \A w \in ackP : \/ InTables(w, version \cup edit) \/ w \in rem
                       \/ \E n \in todo \ {rlog} : w \in logData[n]
  /\ NoTornAppend /\ phase \in {"newlog", "desc"} => \A w \in ackP : InTables(w, version \cup edit)

RecNewLogInv ==
  phase \in {"newlog", "desc"} =>
    /\ logNum \in logFiles /\ logNum < nextFile /\ \A n \in logFiles : n <= logNum
    /\ mem = {} /\ imm = {} /\ ~hasImm /\ logData[logNum] = {}

RecDescInv ==
  phase = "desc" =>
    /\ vMan \in descFiles
    /\ man[vMan] = Synced(NewSnapshot(version \cup edit, logNum, nextFile, lastSeq))

\* The writes recovered so far have sequence numbers up to lastSeq.
RecSeqInv ==
  Recovering => /\ \A f \in version \cup edit : \A w \in tabData[f] : w <= lastSeq
                /\ \A w \in rem : w <= lastSeq

\* An open database: the log numbers are ordered.
NumbersInv ==
  Running => /\ current = vMan /\ vMan # 0
             /\ logNum \in logFiles /\ vLog <= logNum
             /\ \A n \in logFiles : n <= logNum
             /\ logNum < nextFile
             /\ \A m \in Cuts : /\ vLog <= m.log /\ m.log <= logNum
                                /\ m.next <= nextFile

\* An acknowledged write is in memory, or in a table both of the current version
\* and of every prefix of the descriptor.
AckedInv ==
  NoTornAppend /\ Running => \A w \in ackP \ (mem \cup imm) :
               InTables(w, version) /\ \A m \in Cuts : InTables(w, m.files)

\* mem_ is in the current log, and its sync writes in the synced part of it.
MemInv ==
  Running => /\ mem \subseteq logData[logNum]
             /\ NoTornAppend => mem \cap ackM \subseteq logSynced[logNum]
             /\ ~hasImm => imm = {}

VersionInv ==
  Running => /\ version \cup cver \cup reader \subseteq tabDone
             /\ \A f \in version \cup cver \cup reader : f < nextFile

\* LastSequence covers every write in memory and in tables, ...
SeqInv ==
  Running => /\ \A w \in mem \cup imm \cup crem : w <= lastSeq
             /\ NoTornAppend => \A w \in ackP : w <= lastSeq
             /\ \A f \in version \cup (couts \ {cout}) :
                  \A w \in tabData[f] : w <= lastSeq
             /\ \A m \in Cuts : m.seq <= lastSeq

\* ... and in every log that is not about to be removed by DB::Open, except the
\* record of the write in progress.
SeqLogsInv ==
  Running => \A n \in logFiles :
    \/ phase = "gc" /\ n \in gcLog
    \/ \A s \in logData[n] :
         s <= lastSeq \/ (wpc \in {"sync", "insert"} /\ n = logNum /\ s = lastSeq + 1)

\* The writer.
WriteInv ==
  /\ wpc # "idle" => lastSeq < MaxSeq
  /\ wpc \in {"sync", "insert"} => lastSeq + 1 \in logData[logNum]
  /\ wpc = "insert" /\ wsync => lastSeq + 1 \in logSynced[logNum]

\* CompactMemTable: its output is nobody else's, and holds imm_ once it is built.
FlushInv ==
  fpc # "idle" => /\ NothingToRemove /\ hasImm /\ cpc \in {"idle", "work"}
                  /\ fout < nextFile /\ fout \notin couts
                  /\ fpc = "build" => fout # 0

FlushBuildInv ==
  fpc = "build" => /\ fout \notin version \cup cver \cup reader
                   /\ \A m \in Cuts : fout \notin m.files

FlushBuiltInv ==
  /\ fpc \in {"built", "logged"} => \/ fout = 0 /\ imm = {}
                                    \/ fout \in tabDone /\ tabData[fout] = imm
  /\ fpc = "logged" => /\ fout = 0 \/ fout \in man[current].os.files
                       /\ man[current].os.log = logNum

\* DoCompactionWork.
CompactIdleInv ==
  /\ cpc \in {"idle", "moved"} => /\ cin = {} /\ cver = {} /\ couts = {}
                                  /\ cout = 0 /\ crem = {}
  /\ cpc \in {"logged", "moved"} => fpc = "idle" /\ NothingToRemove
  /\ cpc = "logged" => cout = 0 /\ crem = {}

CompactOutsInv ==
  /\ cin \subseteq cver
  /\ couts \subseteq pending /\ couts \ {cout} \subseteq tabDone
  /\ \A f \in couts : f < nextFile

\* Every input write is still to come or in a finished output.
CompactDataInv ==
  \A f \in cin : \A w \in tabData[f] : w \in crem \/ InTables(w, couts \ {cout})

CompactOutInv ==
  cout # 0 => /\ cout \in couts /\ cout \in tabFiles
              /\ cout \notin version \cup cver \cup reader
              /\ \A m \in Cuts : cout \notin m.files

\* Without an error, what may be on disk is what the current version and the
\* edit in flight say.
EditInv ==
  Running /\ ~bgError =>
    /\ \A m \in Cuts :
         m.files \subseteq version \cup (IF fpc = "logged" THEN {fout} ELSE {})
                                   \cup (IF cpc = "logged" THEN couts ELSE {})
    /\ cpc = "logged" => man[current].os.files \subseteq (version \ cin) \cup couts

\* RemoveObsoleteFiles has chosen nothing that is still needed.
GarbageInv ==
  /\ \A n \in gcLog : n < vLog
  /\ current \notin gcDesc
  /\ gcTab \cap (version \cup cver \cup reader \cup couts) = {}
  /\ \A n \in gcTab : \A m \in Cuts : n \notin m.files

\* The conjunction, which every step preserves.
DurabilityInv ==
  /\ TypeOK /\ CurrentInv /\ DescTablesInv /\ DescNumbersInv /\ DescSeqInv
  /\ LogInv /\ AckInv /\ SyncedFoundInv /\ AckedFoundInv /\ PhaseInv /\ NewDBInv
  /\ RecVersionInv /\ RecEditInv /\ RecLogsInv /\ RecAckedInv /\ RecNewLogInv
  /\ RecDescInv /\ RecSeqInv
  /\ NumbersInv /\ AckedInv /\ MemInv /\ VersionInv /\ SeqInv /\ SeqLogsInv
  /\ WriteInv /\ FlushInv /\ FlushBuildInv /\ FlushBuiltInv
  /\ CompactIdleInv /\ CompactOutsInv /\ CompactDataInv /\ CompactOutInv
  /\ EditInv /\ GarbageInv

=============================================================================
